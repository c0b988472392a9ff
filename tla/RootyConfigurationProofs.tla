---------------------- MODULE RootyConfigurationProofs ----------------------
(***************************************************************************)
(* Proofs about RootyConfiguration, for any clients, domains, certificates,*)
(* keys, settings, values and bounds.                                      *)
(*                                                                         *)
(* The type invariant says that an answer of rooty finds the request it    *)
(* belongs to, whatever timed out or crashed meanwhile.  For that a client *)
(* must never wait for two messages at once (OneEach), or the first answer *)
(* would be taken for both.                                                *)
(*                                                                         *)
(* KeptInStep looks at names nobody works on.  Its invariant says what is  *)
(* true of the others: rooty, once it has read its queue, will have what   *)
(* the database has of any name that is not in trouble and that no request *)
(* has changed on one side only (AgreedOK), and a request that met no      *)
(* other on its name knows how far it has come (ProgressOK).               *)
(*                                                                         *)
(* SuccessIsReal looks at a request when its page goes on.  Its invariant  *)
(* follows each key and setting from the request to the answer: it is in   *)
(* effect, or the message that will put it into effect is the one that is  *)
(* waited for, and no message that is read later wants another thing of it *)
(* (DoneOK).  Requests that want the same may be under way together, and   *)
(* rooty may fail at any message (EffectFits, ReadDone).                   *)
(***************************************************************************)
EXTENDS RootyConfiguration, TLAPS

\* A message whose answer somebody waits for finds him waiting for it.
WaitedFor(m, cs) ==
  m.from # Nobody => cs[m.from].pc = "await" /\ cs[m.from].reply = "none" /\ cs[m.from].sent = m.op

OneEach(q) ==
  \A n, k \in DOMAIN q : n # k => q[n].from = Nobody \/ q[n].from # q[k].from

Applied == [domains : SUBSET Domains, certs : [Certs -> Value],
            keys : SUBSET Keys, settings : [Settings -> Value]]

DataOK ==
  /\ rows \in [Domains -> 0 .. MaxRequests]
  /\ stored \in [Certs -> Value]
  /\ applied \in Applied
  /\ requests \in 0 .. MaxRequests
  /\ trouble \subseteq Domains \cup Certs
  /\ crashes \in 0 .. MaxCrashes

\* Requests and messages are about names of their kind.
NamedOK(r) ==
  /\ r.op \in {"addDomain", "removeDomain"} => r.name \in Domains
  /\ r.op \in {"generate", "destroy"} => r.name \in Keys
  /\ r.pc \in {"announce", "insert", "announceAgain"} => r.op = "addDomain"
  /\ r.pc = "store" => r.op \in {"setCert", "unlock"}
  /\ r.pc = "send" => r.op \in {"setCert", "unlock", "setSetting", "generate", "destroy"}
MessageOK(m) ==
  /\ m \in Message
  /\ m.op = "newDomain" => m.name \in Domains
  /\ m.op = "generate" => m.name \in Keys

RequestOK(r) == r \in Client /\ NamedOK(r)

ClientsOK == client \in [Clients -> Client] /\ \A c \in Clients : NamedOK(client[c])
QueueOK ==
  /\ queue \in Seq(Message)
  /\ \A n \in DOMAIN queue : MessageOK(queue[n]) /\ WaitedFor(queue[n], client)
  /\ OneEach(queue)

IInv == DataOK /\ ClientsOK /\ QueueOK

-----------------------------------------------------------------------------
(* Requests.                                                               *)

Found   == 0 .. MaxRequests
Awaited == {"installCert", "generate", "destroy", "update", "allowSsh"}
Replies == {"none", "ok", "error"}

LEMMA ClientSets ==
  Client = [pc : Steps, op : Ops, name : Items, value : Value, found : Found,
            todo : SUBSET Settings, sent : Awaited, reply : Replies,
            done : BOOLEAN, alone : BOOLEAN, opposed : BOOLEAN]
BY DEF Client, Found, Awaited, Replies

LEMMA ClientIsOK ==
  ASSUME IInv, NEW c \in Clients
  PROVE  RequestOK(client[c]) /\ client[c] \in Client
BY DEF IInv, ClientsOK, RequestOK

LEMMA IdleIsOK == RequestOK(Idle)
<1>1. (CHOOSE c \in Certs : TRUE) \in Certs BY ConfigurationAssumption
<1>2. 0 \in Found BY ConfigurationAssumption DEF Found
<1>3. Idle \in Client BY <1>1, <1>2, ClientSets DEF Idle, Steps, Ops, Items, Value, Awaited, Replies
<1> QED BY <1>3 DEF RequestOK, NamedOK, Idle

LEMMA OverIsOK ==
  ASSUME NEW r, RequestOK(r), NEW ok \in BOOLEAN
  PROVE  RequestOK(Over(r, ok))
<1> DEFINE new == Over(r, ok)
<1>1. 0 \in Found BY ConfigurationAssumption DEF Found
<1>2. "answered" \in Steps /\ "allowSsh" \in Awaited /\ "none" \in Replies
  BY DEF Steps, Awaited, Replies
<1>3. r \in Client BY DEF RequestOK
<1>4. new \in Client /\ new.pc = "answered" /\ new.op = r.op /\ new.name = r.name
  BY <1>1, <1>2, <1>3, ClientSets DEF Over
<1> HIDE DEF new
<1> QED BY <1>4 DEF RequestOK, NamedOK, new

\* A request that goes on to another step.
LEMMA GoesIsOK ==
  ASSUME NEW r, RequestOK(r), NEW step \in Steps,
         step \in {"announce", "insert", "announceAgain"} => r.op = "addDomain",
         step = "store" => r.op \in {"setCert", "unlock"},
         step = "send" => r.op \in {"setCert", "unlock", "setSetting", "generate", "destroy"},
         NEW found \in Found
  PROVE  /\ RequestOK([r EXCEPT !.pc = step])
         /\ RequestOK([r EXCEPT !.pc = step, !.found = found])
<1> DEFINE new  == [r EXCEPT !.pc = step]
           more == [r EXCEPT !.pc = step, !.found = found]
<1>1. r \in Client BY DEF RequestOK
<1>2. new \in Client /\ new.pc = step /\ new.op = r.op /\ new.name = r.name
  BY <1>1, ClientSets
<1>3. more \in Client /\ more.pc = step /\ more.op = r.op /\ more.name = r.name
  BY <1>1, ClientSets
<1> HIDE DEF new, more
<1> QED BY <1>2, <1>3 DEF RequestOK, NamedOK, new, more

-----------------------------------------------------------------------------
(* Clients and the queue.                                                  *)

\* A message nobody waits for may be added at any time.
LEMMA WriteIsOK ==
  ASSUME QueueOK, NEW op, NEW name, MessageOK(Msg(op, name, None, Nobody)), Write(op, name)
  PROVE  /\ queue' \in Seq(Message) /\ OneEach(queue')
         /\ \A n \in DOMAIN queue' :
              MessageOK(queue'[n]) /\ (queue'[n].from = Nobody \/ (n \in DOMAIN queue /\ queue'[n] = queue[n]))
<1> DEFINE m == Msg(op, name, None, Nobody)
<1>1. m \in Message /\ m.from = Nobody BY DEF MessageOK, Msg
<1>2. queue' = Append(queue, m) BY DEF Write
<1> HIDE DEF m
<1>3. queue \in Seq(Message) BY DEF QueueOK
<1>4. /\ queue' \in Seq(Message) /\ Len(queue') = Len(queue) + 1 /\ queue'[Len(queue) + 1] = m
      /\ \A n \in DOMAIN queue : queue'[n] = queue[n]
      /\ \A n \in DOMAIN queue' : n \in DOMAIN queue \/ n = Len(queue) + 1
  BY <1>1, <1>2, <1>3
<1>5. MessageOK(m) BY DEF m
<1>6. OneEach(queue') BY <1>1, <1>4 DEF QueueOK, OneEach
<1>7. ASSUME NEW n \in DOMAIN queue'
      PROVE  MessageOK(queue'[n]) /\ (queue'[n].from = Nobody \/ (n \in DOMAIN queue /\ queue'[n] = queue[n]))
  <2>1. CASE n \in DOMAIN queue
    <3>1. MessageOK(queue[n]) BY <2>1 DEF QueueOK
    <3>2. queue'[n] = queue[n] BY <1>4, <2>1
    <3> QED BY <2>1, <3>1, <3>2
  <2>2. CASE n = Len(queue) + 1
    <3>1. queue'[n] = m BY <1>4, <2>2
    <3> QED BY <1>1, <1>5, <3>1
  <2> QED BY <1>4, <2>1, <2>2
<1> QED BY <1>4, <1>6, <1>7

\* A client nobody owes an answer goes on, and may write such a message.
LEMMA BecomesIsOK ==
  ASSUME IInv, NEW c \in Clients, NEW r, RequestOK(r), Becomes(c, r),
         client[c].pc # "await" \/ client[c].reply # "none",
         \/ queue' = queue
         \/ \E op, name : MessageOK(Msg(op, name, None, Nobody)) /\ Write(op, name)
  PROVE  ClientsOK' /\ QueueOK'
<1>1. ClientsOK'
  BY DEF IInv, ClientsOK, RequestOK, Becomes
<1>2. \A m : WaitedFor(m, client) /\ m.from \in Clients \cup {Nobody} => WaitedFor(m, client')
  BY DEF WaitedFor, Becomes, IInv, ClientsOK
<1>3. QueueOK BY DEF IInv
<1> DEFINE Grown == /\ queue' \in Seq(Message) /\ OneEach(queue')
                    /\ \A n \in DOMAIN queue' :
                         /\ MessageOK(queue'[n])
                         /\ queue'[n].from = Nobody \/ (n \in DOMAIN queue /\ queue'[n] = queue[n])
<1>4. Grown
  <2>1. CASE queue' = queue BY <1>3, <2>1 DEF QueueOK
  <2>2. ASSUME NEW op, NEW name, MessageOK(Msg(op, name, None, Nobody)), Write(op, name)
        PROVE  Grown
    BY <1>3, <2>2, WriteIsOK
  <2> QED BY <2>1, <2>2
<1>5. \A n \in DOMAIN queue' : queue'[n].from \in Clients \cup {Nobody}
  BY <1>4 DEF MessageOK, Message
<1>6. \A n \in DOMAIN queue' : WaitedFor(queue'[n], client')
  <2> SUFFICES ASSUME NEW n \in DOMAIN queue' PROVE WaitedFor(queue'[n], client')
    OBVIOUS
  <2>1. CASE queue'[n].from = Nobody BY <2>1 DEF WaitedFor
  <2>2. CASE n \in DOMAIN queue /\ queue'[n] = queue[n]
    BY <1>2, <1>3, <1>5, <2>2 DEF QueueOK
  <2> QED BY <1>4, <2>1, <2>2
<1> QED BY <1>1, <1>4, <1>6 DEF QueueOK

\* A client nobody owes an answer sends a message and waits.
LEMMA RequestIsOK ==
  ASSUME IInv, NEW c \in Clients, NEW op \in Awaited, NEW name \in Items,
         NEW todo \in SUBSET Settings, Request(c, op, name, todo),
         client[c].pc # "await", op = "generate" => name \in Keys
  PROVE  ClientsOK' /\ QueueOK'
<1> DEFINE r == client[c]
           m == Msg(op, name, r.value, c)
           new == [r EXCEPT !.pc = "await", !.sent = op, !.reply = "none", !.todo = todo]
<1>1. r \in Client /\ RequestOK(r) BY ClientIsOK
<1>2. r.value \in Value BY <1>1, ClientSets
<1>3. "await" \in Steps /\ "none" \in Replies BY DEF Steps, Replies
<1>4. queue' = Append(queue, m) /\ client' = [client EXCEPT ![c] = new]
  BY DEF Request, Becomes
<1> HIDE DEF r
<1>5. /\ new \in Client /\ new.pc = "await" /\ new.sent = op /\ new.reply = "none"
      /\ new.op = r.op /\ new.name = r.name
  BY <1>1, <1>3, ClientSets
<1>6. m \in Message /\ m.from = c /\ m.op = op /\ m.name = name
  BY <1>2 DEF Msg, Message, Awaited
<1>7. MessageOK(m) BY <1>6 DEF MessageOK, Awaited
<1>8. c # Nobody BY ConfigurationAssumption
<1> HIDE DEF m, new
<1>9. ClientsOK' BY <1>1, <1>4, <1>5 DEF IInv, ClientsOK, RequestOK, NamedOK
<1>10. queue \in Seq(Message) /\ client \in [Clients -> Client] BY DEF IInv, QueueOK, ClientsOK
<1>11. \A n \in DOMAIN queue : queue[n].from # c
  BY <1>8 DEF IInv, QueueOK, WaitedFor
<1>12. /\ queue' \in Seq(Message) /\ Len(queue') = Len(queue) + 1 /\ queue'[Len(queue) + 1] = m
       /\ \A n \in DOMAIN queue : queue'[n] = queue[n]
       /\ \A n \in DOMAIN queue' : n \in DOMAIN queue \/ n = Len(queue) + 1
  BY <1>4, <1>6, <1>10
<1>13. OneEach(queue')
  BY <1>6, <1>11, <1>12 DEF OneEach, IInv, QueueOK
<1>14. WaitedFor(m, client') BY <1>4, <1>5, <1>6, <1>10 DEF WaitedFor
<1>15. \A n \in DOMAIN queue : WaitedFor(queue[n], client')
  BY <1>4, <1>10, <1>11 DEF WaitedFor, IInv, QueueOK
<1> QED BY <1>7, <1>9, <1>12, <1>13, <1>14, <1>15 DEF QueueOK, IInv

-----------------------------------------------------------------------------
(* The steps of a request.                                                 *)

\* A request is answered.
LEMMA EndsIsOK ==
  ASSUME IInv, NEW c \in Clients, NEW ok \in BOOLEAN, NEW changed \in BOOLEAN, Ends(c, ok, changed),
         client[c].pc # "await" \/ client[c].reply # "none",
         \/ queue' = queue
         \/ \E op, name : MessageOK(Msg(op, name, None, Nobody)) /\ Write(op, name)
  PROVE  ClientsOK' /\ QueueOK' /\ trouble' \subseteq Domains \cup Certs
<1>1. RequestOK(Over(client[c], ok)) BY ClientIsOK, OverIsOK
<1>2. trouble \subseteq Domains \cup Certs BY DEF IInv, DataOK
<1> QED BY <1>1, <1>2, BecomesIsOK DEF Ends

\* A request goes on to another step.
LEMMA StepIsOK ==
  ASSUME IInv, NEW c \in Clients, NEW step \in Steps, Goes(c, step),
         step \in {"announce", "insert", "announceAgain"} => client[c].op = "addDomain",
         step = "store" => client[c].op \in {"setCert", "unlock"},
         step = "send" => client[c].op \in {"setCert", "unlock", "setSetting", "generate", "destroy"},
         client[c].pc # "await" \/ client[c].reply # "none",
         \/ queue' = queue
         \/ \E op, name : MessageOK(Msg(op, name, None, Nobody)) /\ Write(op, name)
  PROVE  ClientsOK' /\ QueueOK'
<1>1. 0 \in Found BY ConfigurationAssumption DEF Found
<1>2. RequestOK([client[c] EXCEPT !.pc = step]) BY <1>1, ClientIsOK, GoesIsOK
<1> QED BY <1>2, BecomesIsOK DEF Goes

\* Messages without content that requests write.
LEMMA MessageIsOK ==
  ASSUME IInv, NEW c \in Clients, NEW op \in {"newDomain", "removeDomain", "removeCert"},
         op = "newDomain" => client[c].op = "addDomain"
  PROVE  MessageOK(Msg(op, client[c].name, None, Nobody))
<1>1. client[c].name \in Items BY ClientIsOK, ClientSets
<1>2. op = "newDomain" => client[c].name \in Domains BY ClientIsOK DEF RequestOK, NamedOK
<1> DEFINE m == Msg(op, client[c].name, None, Nobody)
<1>3. m \in Message /\ m.op = op /\ m.name = client[c].name
  BY <1>1 DEF Msg, Message, Value
<1> HIDE DEF m
<1> QED BY <1>2, <1>3 DEF MessageOK, m

\* A request begins.
LEMMA AsksBegins ==
  ASSUME NEW c \in Clients, Asks(c)
  PROVE  \E op \in Ops, name \in Items, value \in Value, step \in {"announce", "find", "send"} :
           /\ Begin(c, op, name, value, step)
           /\ op \in {"addDomain", "removeDomain"} => name \in Domains
           /\ op \in {"setCert", "removeCert", "unlock"} => name \in Certs
           /\ op \in {"generate", "destroy"} => name \in Keys
           /\ op = "setSetting" => name \in Settings
           /\ step = "announce" => op = "addDomain"
           /\ step = "send" => op = "setSetting"
<1> DEFINE P(op, name, value, step) ==
             /\ op \in Ops /\ name \in Items /\ value \in Value /\ step \in {"announce", "find", "send"}
             /\ Begin(c, op, name, value, step)
             /\ op \in {"addDomain", "removeDomain"} => name \in Domains
             /\ op \in {"setCert", "removeCert", "unlock"} => name \in Certs
             /\ op \in {"generate", "destroy"} => name \in Keys
             /\ op = "setSetting" => name \in Settings
             /\ step = "announce" => op = "addDomain"
             /\ step = "send" => op = "setSetting"
<1> SUFFICES \E op, name, value, step : P(op, name, value, step) OBVIOUS
<1>1. None \in Value /\ Values \subseteq Value BY DEF Value
<1>2. Domains \subseteq Items /\ Certs \subseteq Items /\ Keys \subseteq Items /\ Settings \subseteq Items
  BY DEF Items
<1>3. ASSUME NEW d \in Domains, AddDomain(c, d) \/ RemoveDomain(c, d)
      PROVE  P("addDomain", d, None, "announce") \/ P("removeDomain", d, None, "find")
  BY <1>1, <1>2, <1>3 DEF AddDomain, RemoveDomain, Ops
<1>4. ASSUME NEW x \in Certs, RemoveCert(c, x) PROVE P("removeCert", x, None, "find")
  BY <1>1, <1>2, <1>4 DEF RemoveCert, Ops
<1>5. ASSUME NEW x \in Certs, NEW v \in Values, SetCert(c, x, v) \/ Unlock(c, x, v)
      PROVE  P("setCert", x, v, "find") \/ P("unlock", x, v, "find")
  BY <1>1, <1>2, <1>5 DEF SetCert, Unlock, Ops
<1>6. ASSUME NEW k \in Keys, Generate(c, k) \/ Destroy(c, k)
      PROVE  P("generate", k, None, "find") \/ P("destroy", k, None, "find")
  BY <1>1, <1>2, <1>6 DEF Generate, Destroy, Ops
<1>7. ASSUME NEW s \in Settings, NEW v \in Values, SetSetting(c, s, v)
      PROVE  P("setSetting", s, v, "send")
  BY <1>1, <1>2, <1>7 DEF SetSetting, Ops
<1> HIDE DEF P
<1> QED BY <1>3, <1>4, <1>5, <1>6, <1>7 DEF Asks

\* One request is under way and shares a name with the other; and they want the
\* same.
Meets(r, s)  == r.pc # "idle" /\ Names(r) \cap Names(s) # {}
Agrees(r, s) == r.op = s.op /\ r.value = s.value

\* What becomes of a request, r, when another, new, begins: on the same names it
\* is no longer alone, and it is opposed to the new one unless both want the same.
Beside(r, next, new) ==
  /\ next.pc = r.pc /\ next.op = r.op /\ next.name = r.name /\ next.value = r.value
  /\ next.found = r.found /\ next.todo = r.todo /\ next.sent = r.sent
  /\ next.reply = r.reply /\ next.done = r.done
  /\ next.alone => r.alone
  /\ r.opposed => next.opposed
  /\ Meets(r, new) => ~new.alone /\ ~next.alone
  /\ Meets(r, new) /\ ~Agrees(r, new) => new.opposed /\ next.opposed

LEMMA Begins ==
  ASSUME IInv, NEW c \in Clients, NEW op \in Ops, NEW name \in Items, NEW value \in Value,
         NEW step \in {"announce", "find", "send"}, Begin(c, op, name, value, step)
  PROVE  /\ client[c].pc = "idle" /\ requests < MaxRequests /\ requests' = requests + 1
         /\ UNCHANGED <<rows, stored, applied, queue, trouble, crashes>>
         /\ client' \in [Clients -> Client]
         /\ client'[c].pc = step /\ client'[c].op = op /\ client'[c].name = name
         /\ client'[c].value = value
         /\ client'[c].todo = IF op = "unlock" THEN Settings ELSE {}
         /\ \A o \in Clients \ {c} : Beside(client[o], client'[o], client'[c])
<1> DEFINE r == [client[c] EXCEPT !.pc = step, !.op = op, !.name = name, !.value = value,
                   !.done = FALSE, !.todo = IF op = "unlock" THEN Settings ELSE {}]
           meets(o) == o # c /\ ~At(o, "idle") /\ Names(client[o]) \cap Names(r) # {}
           opposes(o) == meets(o) /\ (client[o].op # op \/ client[o].value # value)
           next(o) == IF o = c THEN [r EXCEPT !.alone = \A p \in Clients : ~meets(p),
                                              !.opposed = \E p \in Clients : opposes(p)]
                      ELSE [client[o] EXCEPT !.alone = @ /\ ~meets(o), !.opposed = @ \/ opposes(o)]
<1>1. /\ client[c].pc = "idle" /\ requests < MaxRequests /\ requests' = requests + 1
      /\ UNCHANGED <<rows, stored, applied, queue, trouble, crashes>>
      /\ client' = [o \in Clients |-> next(o)]
  BY DEF Begin, At, server
<1>2. \A o \in Clients : client[o] \in Client BY ClientIsOK
<1>3. /\ r \in Client /\ r.pc = step /\ r.op = op /\ r.name = name /\ r.value = value
      /\ r.todo = IF op = "unlock" THEN Settings ELSE {}
  <2>1. step \in Steps BY DEF Steps
  <2> QED BY <1>2, <2>1, ClientSets
<1> DEFINE all == \A p \in Clients : ~meets(p)
           any == \E p \in Clients : opposes(p)
<1>5. all \in BOOLEAN /\ any \in BOOLEAN OBVIOUS
<1>6. /\ \A p \in Clients : meets(p) => ~all
      /\ \A p \in Clients : opposes(p) => any
  OBVIOUS
<1>7. \A o \in Clients : o # c /\ client[o].pc # "idle" /\ Names(client[o]) \cap Names(r) # {} => meets(o)
  BY DEF At
<1>8. \A o \in Clients : meets(o) => (client[o].op = op /\ client[o].value = value) \/ opposes(o)
  OBVIOUS
<1>9. next(c) = [r EXCEPT !.alone = all, !.opposed = any] OBVIOUS
<1>10. \A o \in Clients : o # c =>
         next(o) = [client[o] EXCEPT !.alone = client[o].alone /\ ~meets(o),
                                     !.opposed = client[o].opposed \/ opposes(o)]
  OBVIOUS
<1>11. \A o \in Clients : client'[o] = next(o) BY <1>1
<1> HIDE DEF r, meets, opposes, all, any, next
<1>12. /\ client'[c] \in Client
       /\ client'[c].pc = step /\ client'[c].op = op /\ client'[c].name = name
       /\ client'[c].value = value
       /\ client'[c].todo = IF op = "unlock" THEN Settings ELSE {}
       /\ client'[c].alone = all /\ client'[c].opposed = any
  <2> DEFINE t == [r EXCEPT !.alone = all, !.opposed = any]
  <2>1. client'[c] = t BY <1>9, <1>11
  <2>2. /\ t \in Client /\ t.pc = r.pc /\ t.op = r.op /\ t.name = r.name /\ t.value = r.value
        /\ t.todo = r.todo /\ t.alone = all /\ t.opposed = any
    BY <1>3, <1>5, ClientSets
  <2> HIDE DEF t
  <2> QED BY <1>3, <2>1, <2>2
<1>13. Names(client'[c]) = Names(r) BY <1>3, <1>12 DEF Names
<1>14. ASSUME NEW o \in Clients, o # c
       PROVE  /\ client'[o] \in Client
              /\ client'[o].pc = client[o].pc /\ client'[o].op = client[o].op
              /\ client'[o].name = client[o].name /\ client'[o].value = client[o].value
              /\ client'[o].found = client[o].found /\ client'[o].todo = client[o].todo
              /\ client'[o].sent = client[o].sent /\ client'[o].reply = client[o].reply
              /\ client'[o].done = client[o].done
              /\ client'[o].alone = (client[o].alone /\ ~meets(o))
              /\ client'[o].opposed = (client[o].opposed \/ opposes(o))
  <2> DEFINE x == client[o]
             a == x.alone /\ ~meets(o)
             b == x.opposed \/ opposes(o)
             t == [x EXCEPT !.alone = a, !.opposed = b]
  <2>1. client'[o] = t BY <1>10, <1>11, <1>14
  <2>2. x \in Client /\ a \in BOOLEAN /\ b \in BOOLEAN BY <1>2
  <2>3. x = client[o] /\ a = (x.alone /\ ~meets(o)) /\ b = (x.opposed \/ opposes(o)) OBVIOUS
  <2> HIDE DEF x, a, b
  <2>4. /\ t \in Client /\ t.pc = x.pc /\ t.op = x.op /\ t.name = x.name /\ t.value = x.value
        /\ t.found = x.found /\ t.todo = x.todo /\ t.sent = x.sent /\ t.reply = x.reply
        /\ t.done = x.done /\ t.alone = a /\ t.opposed = b
    BY <2>2, ClientSets
  <2> HIDE DEF t
  <2> QED BY <2>1, <2>3, <2>4
<1>15. \A o \in Clients : client'[o] \in Client BY <1>12, <1>14
<1>16. client' \in [Clients -> Client] BY <1>1, <1>15
<1>17. ASSUME NEW o \in Clients, o # c
       PROVE  Beside(client[o], client'[o], client'[c])
  <2>1. Meets(client[o], client'[c]) => meets(o) BY <1>7, <1>13, <1>17 DEF Meets
  <2>2. meets(o) => ~client'[c].alone /\ ~client'[o].alone BY <1>6, <1>12, <1>14, <1>17
  <2>3. meets(o) /\ ~Agrees(client[o], client'[c]) => opposes(o) BY <1>8, <1>12 DEF Agrees
  <2>4. opposes(o) => client'[c].opposed /\ client'[o].opposed BY <1>6, <1>12, <1>14, <1>17
  <2>5. (client'[o].alone => client[o].alone) /\ (client[o].opposed => client'[o].opposed)
    BY <1>14, <1>17
  <2>6. /\ client'[o].pc = client[o].pc /\ client'[o].op = client[o].op
        /\ client'[o].name = client[o].name /\ client'[o].value = client[o].value
        /\ client'[o].found = client[o].found /\ client'[o].todo = client[o].todo
        /\ client'[o].sent = client[o].sent /\ client'[o].reply = client[o].reply
        /\ client'[o].done = client[o].done
    BY <1>14, <1>17
  <2> QED BY <2>1, <2>2, <2>3, <2>4, <2>5, <2>6 DEF Beside
<1> QED BY <1>1, <1>12, <1>16, <1>17

LEMMA AsksStep ==
  ASSUME IInv, NEW c \in Clients, Asks(c)
  PROVE  IInv'
<1>1. PICK op \in Ops, name \in Items, value \in Value, step \in {"announce", "find", "send"} :
        /\ Begin(c, op, name, value, step)
        /\ op \in {"addDomain", "removeDomain"} => name \in Domains
        /\ op \in {"generate", "destroy"} => name \in Keys
        /\ step = "announce" => op = "addDomain"
        /\ step = "send" => op = "setSetting"
  BY AsksBegins
<1>2. /\ client[c].pc = "idle" /\ requests < MaxRequests /\ requests' = requests + 1
      /\ UNCHANGED <<rows, stored, applied, queue, trouble, crashes>>
      /\ client' \in [Clients -> Client]
      /\ client'[c].pc = step /\ client'[c].op = op /\ client'[c].name = name
      /\ \A o \in Clients \ {c} : Beside(client[o], client'[o], client'[c])
  BY <1>1, Begins
<1>3. NamedOK(client'[c]) BY <1>1, <1>2 DEF NamedOK
<1>4. ASSUME NEW o \in Clients, o # c
      PROVE  /\ client'[o].pc = client[o].pc /\ client'[o].reply = client[o].reply
             /\ client'[o].sent = client[o].sent /\ NamedOK(client'[o])
  <2>1. NamedOK(client[o]) BY DEF IInv, ClientsOK
  <2> QED BY <1>2, <1>4, <2>1 DEF Beside, NamedOK
<1>6. At(c, "idle") /\ requests < MaxRequests /\ requests' = requests + 1
      /\ UNCHANGED <<server, trouble, crashes>>
  BY <1>2 DEF At, server
<1>7. /\ client' \in [Clients -> Client]
      /\ \A o \in Clients : o # c =>
           /\ client'[o].pc = client[o].pc /\ client'[o].reply = client[o].reply
           /\ client'[o].sent = client[o].sent /\ NamedOK(client'[o])
      /\ NamedOK(client'[c])
  BY <1>2, <1>3, <1>4
<1>8. ClientsOK' BY <1>7 DEF ClientsOK
<1>9. QueueOK'
  <2>1. queue' = queue /\ QueueOK BY <1>6 DEF IInv, server
  <2>2. \A n \in DOMAIN queue : queue[n].from # c
    BY <1>6, ConfigurationAssumption DEF IInv, QueueOK, WaitedFor, At
  <2>3. \A n \in DOMAIN queue : queue[n].from \in Clients \cup {Nobody}
    BY DEF IInv, QueueOK, MessageOK, Message
  <2>4. \A n \in DOMAIN queue : WaitedFor(queue[n], client')
    BY <1>7, <2>1, <2>2, <2>3 DEF QueueOK, WaitedFor
  <2> QED BY <2>1, <2>4 DEF QueueOK
<1>10. DataOK' BY <1>6, ConfigurationAssumption DEF IInv, DataOK, server
<1> QED BY <1>8, <1>9, <1>10 DEF IInv

LEMMA QuietIsOK ==
  ASSUME IInv, UNCHANGED <<rows, stored, applied, requests, crashes>>,
         trouble' = trouble \/ trouble' \subseteq Domains \cup Certs
  PROVE  DataOK'
BY DEF IInv, DataOK

-----------------------------------------------------------------------------
(* Domains, certificates and keys.                                         *)

LEMMA AddDomainStep ==
  ASSUME IInv, NEW c \in Clients,
         Announce(c) \/ Insert(c) \/ InsertFails(c) \/ AnnounceAgain(c)
  PROVE  IInv'
<1>1. client[c].pc \in {"announce", "insert", "announceAgain"} => client[c].op = "addDomain"
  BY ClientIsOK DEF RequestOK, NamedOK
<1>2. {"insert", "announceAgain"} \subseteq Steps BY DEF Steps
<1>3. CASE Announce(c)
  <2>1. client[c].pc = "announce" BY <1>3 DEF Announce, At
  <2>2. MessageOK(Msg("newDomain", client[c].name, None, Nobody)) BY <1>1, <2>1, MessageIsOK
  <2>3. ClientsOK' /\ QueueOK' BY <1>1, <1>2, <1>3, <2>1, <2>2, StepIsOK DEF Announce
  <2>4. DataOK' BY <1>3, QuietIsOK DEF Announce
  <2> QED BY <2>3, <2>4 DEF IInv
<1>4. CASE Insert(c)
  <2>1. client[c].pc = "insert" BY <1>4 DEF Insert, At
  <2>2. ClientsOK' /\ QueueOK' BY <1>1, <1>2, <1>4, <2>1, StepIsOK DEF Insert
  <2>3. DataOK' BY <1>4 DEF Insert, IInv, DataOK
  <2> QED BY <2>2, <2>3 DEF IInv
<1>5. CASE InsertFails(c)
  <2>1. client[c].pc = "insert" /\ queue' = queue BY <1>5 DEF InsertFails, At, server
  <2>2. ClientsOK' /\ QueueOK' /\ trouble' \subseteq Domains \cup Certs
    BY <1>5, <2>1, EndsIsOK DEF InsertFails
  <2>3. DataOK' BY <1>5, <2>2, QuietIsOK DEF InsertFails, server
  <2> QED BY <2>2, <2>3 DEF IInv
<1>6. CASE AnnounceAgain(c)
  <2>1. client[c].pc = "announceAgain" BY <1>6 DEF AnnounceAgain, At
  <2>2. MessageOK(Msg("newDomain", client[c].name, None, Nobody)) BY <1>1, <2>1, MessageIsOK
  <2>3. ClientsOK' /\ QueueOK' /\ trouble' \subseteq Domains \cup Certs
    BY <1>6, <2>1, <2>2, EndsIsOK DEF AnnounceAgain
  <2>4. DataOK' BY <1>6, <2>3, QuietIsOK DEF AnnounceAgain
  <2> QED BY <2>3, <2>4 DEF IInv
<1> QED BY <1>3, <1>4, <1>5, <1>6

LEMMA RemoveDomainStep ==
  ASSUME IInv, NEW c \in Clients,
         FindDomain(c) \/ Withdraw(c) \/ FindAgain(c) \/ DeleteRow(c) \/ DeleteFails(c)
  PROVE  IInv'
<1>1. {"withdraw", "findAgain", "deleteRow"} \subseteq Steps BY DEF Steps
<1>2. MessageOK(Msg("removeDomain", client[c].name, None, Nobody)) BY MessageIsOK
<1>3. CASE FindDomain(c)
  <2>1. /\ client[c].pc = "find" /\ client[c].op = "removeDomain" /\ queue' = queue
        /\ UNCHANGED <<rows, stored, applied, requests, crashes>>
    BY <1>3 DEF FindDomain, At, Is, server
  <2>2. CASE rows[client[c].name] = 0
    <3>1. ClientsOK' /\ QueueOK' /\ trouble' \subseteq Domains \cup Certs
      BY <1>3, <2>1, <2>2, EndsIsOK DEF FindDomain
    <3>2. DataOK' BY <2>1, <3>1, QuietIsOK
    <3> QED BY <3>1, <3>2 DEF IInv
  <2>3. CASE rows[client[c].name] # 0
    <3> DEFINE row == rows[client[c].name]
               r == [client[c] EXCEPT !.pc = "withdraw", !.found = row]
    <3>1. row \in Found BY <2>1, ClientIsOK DEF RequestOK, NamedOK, IInv, DataOK, Found
    <3>2. RequestOK(r) BY <1>1, <3>1, ClientIsOK, GoesIsOK
    <3>3. Becomes(c, r) /\ trouble' = trouble BY <1>3, <2>3 DEF FindDomain
    <3> HIDE DEF r
    <3>4. ClientsOK' /\ QueueOK' BY <2>1, <3>2, <3>3, BecomesIsOK
    <3>5. DataOK' BY <2>1, <3>3, QuietIsOK
    <3> QED BY <3>4, <3>5 DEF IInv
  <2> QED BY <2>2, <2>3
<1>4. CASE Withdraw(c)
  <2>1. client[c].pc = "withdraw" BY <1>4 DEF Withdraw, At
  <2>2. ClientsOK' /\ QueueOK' BY <1>1, <1>2, <1>4, <2>1, StepIsOK DEF Withdraw
  <2>3. DataOK' BY <1>4, QuietIsOK DEF Withdraw
  <2> QED BY <2>2, <2>3 DEF IInv
<1>5. CASE FindAgain(c)
  <2>1. client[c].pc = "findAgain" BY <1>5 DEF FindAgain, At
  <2>2. CASE rows[client[c].name] = client[c].found
    <3>1. ClientsOK' /\ QueueOK' BY <1>1, <1>2, <1>5, <2>1, <2>2, StepIsOK DEF FindAgain
    <3>2. DataOK' BY <1>5, <2>2, QuietIsOK DEF FindAgain
    <3> QED BY <3>1, <3>2 DEF IInv
  <2>3. CASE rows[client[c].name] # client[c].found
    <3>1. ClientsOK' /\ QueueOK' /\ trouble' \subseteq Domains \cup Certs
      BY <1>5, <2>1, <2>3, EndsIsOK DEF FindAgain
    <3>2. DataOK' BY <1>5, <3>1, QuietIsOK DEF FindAgain
    <3> QED BY <3>1, <3>2 DEF IInv
  <2> QED BY <2>2, <2>3
<1>6. CASE DeleteRow(c)
  <2>1. client[c].pc = "deleteRow" BY <1>6 DEF DeleteRow, At
  <2>2. ClientsOK' /\ QueueOK' /\ trouble' \subseteq Domains \cup Certs
    BY <1>6, <2>1, EndsIsOK DEF DeleteRow
  <2>3. 0 \in Found BY ConfigurationAssumption DEF Found
  <2>4. rows \in [Domains -> Found] BY DEF IInv, DataOK, Found
  <2>5. rows' \in [Domains -> Found] BY <1>6, <2>3, <2>4 DEF DeleteRow
  <2>6. DataOK' BY <1>6, <2>2, <2>5 DEF DeleteRow, IInv, DataOK, Found
  <2> QED BY <2>2, <2>6 DEF IInv
<1>7. CASE DeleteFails(c)
  <2>1. client[c].pc = "deleteRow" /\ queue' = queue BY <1>7 DEF DeleteFails, At, server
  <2>2. ClientsOK' /\ QueueOK' /\ trouble' \subseteq Domains \cup Certs
    BY <1>7, <2>1, EndsIsOK DEF DeleteFails
  <2>3. DataOK' BY <1>7, <2>2, QuietIsOK DEF DeleteFails, server
  <2> QED BY <2>2, <2>3 DEF IInv
<1> QED BY <1>3, <1>4, <1>5, <1>6, <1>7

LEMMA SetCertStep ==
  ASSUME IInv, NEW c \in Clients, FindCert(c) \/ StoreCert(c) \/ StoreFails(c)
  PROVE  IInv'
<1>1. {"store", "send"} \subseteq Steps BY DEF Steps
<1>2. CASE FindCert(c)
  <2>1. /\ client[c].pc = "find" /\ client[c].op \in {"setCert", "unlock"} /\ queue' = queue
        /\ UNCHANGED <<rows, stored, applied, requests, crashes>>
    BY <1>2 DEF FindCert, At, Is, server
  <2>2. CASE Ends(c, FALSE, FALSE)
    <3>1. ClientsOK' /\ QueueOK' /\ trouble' \subseteq Domains \cup Certs
      BY <2>1, <2>2, EndsIsOK
    <3>2. DataOK' BY <2>1, <3>1, QuietIsOK
    <3> QED BY <3>1, <3>2 DEF IInv
  <2>3. CASE ~Ends(c, FALSE, FALSE)
    <3> DEFINE found == IF stored[client[c].name] = None THEN 0 ELSE 1
               r == [client[c] EXCEPT !.pc = "store", !.found = found]
    <3>1. found \in Found BY ConfigurationAssumption DEF Found
    <3>2. RequestOK(r) BY <1>1, <2>1, <3>1, ClientIsOK, GoesIsOK
    <3>3. Becomes(c, r) /\ trouble' = trouble BY <1>2, <2>3 DEF FindCert
    <3> HIDE DEF r
    <3>4. ClientsOK' /\ QueueOK' BY <2>1, <3>2, <3>3, BecomesIsOK
    <3>5. DataOK' BY <2>1, <3>3, QuietIsOK
    <3> QED BY <3>4, <3>5 DEF IInv
  <2> QED BY <2>2, <2>3
<1>3. CASE StoreCert(c)
  <2>1. client[c].pc = "store" BY <1>3 DEF StoreCert, At
  <2>2. client[c].op \in {"setCert", "unlock"} BY <2>1, ClientIsOK DEF RequestOK, NamedOK
  <2>3. ClientsOK' /\ QueueOK' BY <1>1, <1>3, <2>1, <2>2, StepIsOK DEF StoreCert
  <2>4. client[c].value \in Value BY ClientIsOK, ClientSets
  <2>5. DataOK' BY <1>3, <2>4 DEF StoreCert, IInv, DataOK
  <2> QED BY <2>3, <2>5 DEF IInv
<1>4. CASE StoreFails(c)
  <2>1. client[c].pc = "store" /\ queue' = queue BY <1>4 DEF StoreFails, At, server
  <2>2. ClientsOK' /\ QueueOK' /\ trouble' \subseteq Domains \cup Certs
    BY <1>4, <2>1, EndsIsOK DEF StoreFails
  <2>3. DataOK' BY <1>4, <2>2, QuietIsOK DEF StoreFails, server
  <2> QED BY <2>2, <2>3 DEF IInv
<1> QED BY <1>2, <1>3, <1>4

LEMMA RemoveCertStep ==
  ASSUME IInv, NEW c \in Clients, FindCertToRemove(c) \/ WithdrawCert(c) \/ DeleteCert(c) \/ FindKey(c)
  PROVE  IInv'
<1>1. {"withdraw", "deleteRow", "send"} \subseteq Steps BY DEF Steps
<1>2. CASE FindCertToRemove(c) \/ FindKey(c)
  <2>1. /\ client[c].pc = "find" /\ queue' = queue
        /\ UNCHANGED <<rows, stored, applied, requests, crashes>>
        /\ \/ Ends(c, FALSE, FALSE)
           \/ Goes(c, "withdraw") /\ trouble' = trouble
           \/ Goes(c, "send") /\ trouble' = trouble /\ client[c].op \in {"generate", "destroy"}
    BY <1>2 DEF FindCertToRemove, FindKey, At, Is, server
  <2>2. CASE Ends(c, FALSE, FALSE)
    <3>1. ClientsOK' /\ QueueOK' /\ trouble' \subseteq Domains \cup Certs
      BY <2>1, <2>2, EndsIsOK
    <3>2. DataOK' BY <2>1, <3>1, QuietIsOK
    <3> QED BY <3>1, <3>2 DEF IInv
  <2>3. CASE Goes(c, "withdraw") /\ trouble' = trouble
    <3>1. ClientsOK' /\ QueueOK' BY <1>1, <2>1, <2>3, StepIsOK
    <3>2. DataOK' BY <2>1, <2>3, QuietIsOK
    <3> QED BY <3>1, <3>2 DEF IInv
  <2>4. CASE Goes(c, "send") /\ trouble' = trouble /\ client[c].op \in {"generate", "destroy"}
    <3>1. ClientsOK' /\ QueueOK' BY <1>1, <2>1, <2>4, StepIsOK
    <3>2. DataOK' BY <2>1, <2>4, QuietIsOK
    <3> QED BY <3>1, <3>2 DEF IInv
  <2> QED BY <2>1, <2>2, <2>3, <2>4
<1>3. CASE WithdrawCert(c)
  <2>1. client[c].pc = "withdraw" BY <1>3 DEF WithdrawCert, At
  <2>2. MessageOK(Msg("removeCert", client[c].name, None, Nobody)) BY MessageIsOK
  <2>3. ClientsOK' /\ QueueOK' BY <1>1, <1>3, <2>1, <2>2, StepIsOK DEF WithdrawCert
  <2>4. DataOK' BY <1>3, QuietIsOK DEF WithdrawCert
  <2> QED BY <2>3, <2>4 DEF IInv
<1>4. CASE DeleteCert(c)
  <2>1. client[c].pc = "deleteRow" BY <1>4 DEF DeleteCert, At
  <2>2. ClientsOK' /\ QueueOK' /\ trouble' \subseteq Domains \cup Certs
    BY <1>4, <2>1, EndsIsOK DEF DeleteCert
  <2>3. None \in Value BY DEF Value
  <2>4. DataOK' BY <1>4, <2>2, <2>3 DEF DeleteCert, IInv, DataOK
  <2> QED BY <2>2, <2>4 DEF IInv
<1> QED BY <1>2, <1>3, <1>4

-----------------------------------------------------------------------------
(* Requests to rooty and its answers.                                      *)

LEMMA SendStep ==
  ASSUME IInv, NEW c \in Clients, Send(c) \/ NextSetting(c)
  PROVE  IInv'
<1> DEFINE r == client[c]
<1>1. r.name \in Items /\ r.todo \in SUBSET Settings /\ NamedOK(r)
  BY ClientIsOK, ClientSets DEF RequestOK
<1>2. DataOK' BY QuietIsOK DEF Send, NextSetting
<1>3. CASE Send(c)
  <2> DEFINE op == IF Is(c, {"setCert", "unlock"}) THEN "installCert"
                   ELSE IF Is(c, {"setSetting"}) THEN "update" ELSE r.op
  <2>1. client[c].pc = "send" BY <1>3 DEF Send, At
  <2>2. op \in Awaited /\ (op = "generate" => r.name \in Keys)
    BY <1>1, <2>1 DEF NamedOK, Is, Awaited
  <2>3. Request(c, op, r.name, r.todo) BY <1>3 DEF Send
  <2> HIDE DEF op
  <2>4. ClientsOK' /\ QueueOK' BY <1>1, <2>1, <2>2, <2>3, RequestIsOK
  <2> QED BY <1>2, <2>4 DEF IInv
<1>4. CASE NextSetting(c)
  <2>1. client[c].pc = "nextSetting" BY <1>4 DEF NextSetting, At
  <2>2. "update" \in Awaited /\ "allowSsh" \in Awaited BY DEF Awaited
  <2>3. \/ Request(c, "allowSsh", r.name, {})
        \/ \E s \in r.todo : Request(c, "update", s, r.todo \ {s})
    BY <1>4 DEF NextSetting
  <2>4. ASSUME NEW s \in r.todo, Request(c, "update", s, r.todo \ {s})
        PROVE  ClientsOK' /\ QueueOK'
    <3>1. s \in Items /\ r.todo \ {s} \in SUBSET Settings BY <1>1 DEF Items
    <3> QED BY <2>1, <2>2, <2>4, <3>1, RequestIsOK
  <2>5. ASSUME Request(c, "allowSsh", r.name, {})
        PROVE  ClientsOK' /\ QueueOK'
    BY <1>1, <2>1, <2>2, <2>5, RequestIsOK
  <2>6. ClientsOK' /\ QueueOK' BY <2>3, <2>4, <2>5
  <2> QED BY <1>2, <2>6 DEF IInv
<1> QED BY <1>3, <1>4

\* Disowning a message makes it one that nobody waits for.
LEMMA DisownedIsOK ==
  ASSUME IInv, NEW gone \in SUBSET Clients
  PROVE  /\ Disowned(gone) \in Seq(Message) /\ OneEach(Disowned(gone))
         /\ \A n \in DOMAIN Disowned(gone) :
              /\ n \in DOMAIN queue /\ MessageOK(Disowned(gone)[n])
              /\ \/ Disowned(gone)[n].from = Nobody
                 \/ Disowned(gone)[n] = queue[n] /\ queue[n].from \notin gone
<1> DEFINE q == Disowned(gone)
           left(m) == [m EXCEPT !.from = Nobody]
<1>1. queue \in Seq(Message) /\ \A n \in DOMAIN queue : MessageOK(queue[n]) BY DEF IInv, QueueOK
<1>2. ASSUME NEW m, MessageOK(m)
      PROVE  MessageOK(left(m)) /\ left(m).from = Nobody
  <2>1. m \in Message BY <1>2 DEF MessageOK
  <2>2. left(m) \in Message /\ left(m).op = m.op /\ left(m).name = m.name /\ left(m).from = Nobody
    BY <2>1 DEF Message
  <2> HIDE DEF left
  <2> QED BY <1>2, <2>2 DEF MessageOK
<1>3. /\ q = [n \in DOMAIN queue |-> IF queue[n].from \in gone THEN left(queue[n]) ELSE queue[n]]
  BY DEF Disowned
<1> HIDE DEF left, q
<1>4. DOMAIN q = DOMAIN queue BY <1>3
<1>5. \A n \in DOMAIN q :
        /\ MessageOK(q[n])
        /\ q[n].from = Nobody \/ (q[n] = queue[n] /\ queue[n].from \notin gone)
  BY <1>1, <1>2, <1>3
<1>6. q \in Seq(Message)
  <2>1. \A n \in DOMAIN q : q[n] \in Message BY <1>5 DEF MessageOK
  <2>2. Len(queue) \in Nat /\ DOMAIN q = 1 .. Len(queue) BY <1>1, <1>4
  <2>3. q \in [1 .. Len(queue) -> Message]
    <3>1. q = [n \in DOMAIN q |-> q[n]] BY <1>3
    <3> QED BY <2>1, <2>2, <3>1
  <2> QED BY <2>2, <2>3
<1>7. OneEach(q) BY <1>4, <1>5 DEF OneEach, IInv, QueueOK
<1> QED BY <1>4, <1>5, <1>6, <1>7 DEF q

LEMMA ReplyStep ==
  ASSUME IInv, NEW c \in Clients, TakeReply(c) \/ TimeOut(c) \/ Refresh(c)
  PROVE  IInv'
<1>1. "nextSetting" \in Steps BY DEF Steps
<1>2. ASSUME NEW ok \in BOOLEAN, Answered(c, ok)
      PROVE  \/ Goes(c, "nextSetting") /\ trouble' = trouble
             \/ \E done \in BOOLEAN : Ends(c, done, TRUE)
  BY <1>2 DEF Answered
<1>3. CASE TakeReply(c)
  <2>1. /\ client[c].pc = "await" /\ client[c].reply # "none" /\ queue' = queue
        /\ UNCHANGED <<rows, stored, applied, requests, crashes>>
        /\ Answered(c, client[c].reply = "ok")
    BY <1>3 DEF TakeReply, At, server
  <2>2. \/ Goes(c, "nextSetting") /\ trouble' = trouble
        \/ \E done \in BOOLEAN : Ends(c, done, TRUE)
    BY <1>2, <2>1
  <2>3. CASE Goes(c, "nextSetting") /\ trouble' = trouble
    <3>1. ClientsOK' /\ QueueOK' BY <1>1, <2>1, <2>3, StepIsOK
    <3>2. DataOK' BY <2>1, <2>3, QuietIsOK
    <3> QED BY <3>1, <3>2 DEF IInv
  <2>4. ASSUME NEW done \in BOOLEAN, Ends(c, done, TRUE) PROVE IInv'
    <3>1. ClientsOK' /\ QueueOK' /\ trouble' \subseteq Domains \cup Certs
      BY <2>1, <2>4, EndsIsOK
    <3>2. DataOK' BY <2>1, <3>1, QuietIsOK
    <3> QED BY <3>1, <3>2 DEF IInv
  <2> QED BY <2>2, <2>3, <2>4
<1>4. CASE Refresh(c)
  <2>1. /\ client[c].pc = "answered" /\ queue' = queue /\ trouble' = trouble /\ Becomes(c, Idle)
        /\ UNCHANGED <<rows, stored, applied, requests, crashes>>
    BY <1>4 DEF Refresh, At, server
  <2>2. ClientsOK' /\ QueueOK' BY <2>1, IdleIsOK, BecomesIsOK
  <2>3. DataOK' BY <2>1, QuietIsOK
  <2> QED BY <2>2, <2>3 DEF IInv
<1>5. CASE TimeOut(c)
  <2>1. /\ queue' = Disowned({c}) /\ Answered(c, FALSE)
        /\ UNCHANGED <<rows, stored, applied, requests, crashes>>
    BY <1>5 DEF TimeOut
  <2>2. \E r : RequestOK(r) /\ Becomes(c, r)
    <3>1. CASE Goes(c, "nextSetting")
      <4>1. 0 \in Found BY ConfigurationAssumption DEF Found
      <4>2. RequestOK([client[c] EXCEPT !.pc = "nextSetting"]) BY <1>1, <4>1, ClientIsOK, GoesIsOK
      <4> QED BY <3>1, <4>2 DEF Goes
    <3>2. ASSUME NEW done \in BOOLEAN, Ends(c, done, TRUE)
          PROVE  \E r : RequestOK(r) /\ Becomes(c, r)
      BY <3>2, ClientIsOK, OverIsOK DEF Ends
    <3> QED BY <1>2, <2>1, <3>1, <3>2
  <2>3. trouble' = trouble \/ trouble' \subseteq Domains \cup Certs
    <3>1. trouble \subseteq Domains \cup Certs BY DEF IInv, DataOK
    <3> QED BY <1>2, <2>1, <3>1 DEF Ends
  <2>4. DataOK' BY <2>1, <2>3, QuietIsOK
  <2>5. ClientsOK' /\ \A o \in Clients : o # c => client'[o] = client[o]
    BY <2>2 DEF IInv, ClientsOK, RequestOK, Becomes
  <2>6. QueueOK'
    <3>1. /\ queue' \in Seq(Message) /\ OneEach(queue')
          /\ \A n \in DOMAIN queue' :
               /\ n \in DOMAIN queue /\ MessageOK(queue'[n])
               /\ queue'[n].from = Nobody \/ (queue'[n] = queue[n] /\ queue[n].from \notin {c})
      BY <2>1, DisownedIsOK
    <3>2. \A n \in DOMAIN queue' : WaitedFor(queue'[n], client')
      <4> SUFFICES ASSUME NEW n \in DOMAIN queue' PROVE WaitedFor(queue'[n], client') OBVIOUS
      <4>1. CASE queue'[n].from = Nobody BY <4>1 DEF WaitedFor
      <4>2. CASE queue'[n] = queue[n] /\ queue[n].from # c
        <5>1. queue[n].from \in Clients \cup {Nobody} /\ WaitedFor(queue[n], client)
          BY <3>1 DEF IInv, QueueOK, MessageOK, Message
        <5> QED BY <2>5, <4>2, <5>1 DEF WaitedFor
      <4> QED BY <3>1, <4>1, <4>2
    <3> QED BY <3>1, <3>2 DEF QueueOK
  <2> QED BY <2>4, <2>5, <2>6 DEF IInv
<1> QED BY <1>3, <1>4, <1>5

-----------------------------------------------------------------------------
(* Rooty, and crashes of the server.                                       *)

LEMMA EffectIsOK ==
  ASSUME applied \in Applied, NEW m, MessageOK(m)
  PROVE  Effect(m) \in Applied
<1>1. m \in Message /\ m.value \in Value BY DEF MessageOK, Message
<1>2. None \in Value BY DEF Value
<1>3. CASE m.op = "newDomain"
  <2>1. m.name \in Domains BY <1>3 DEF MessageOK
  <2>2. [applied EXCEPT !.domains = @ \cup {m.name}] \in Applied BY <2>1 DEF Applied
  <2> QED BY <1>3, <2>2 DEF Effect
<1>4. CASE m.op = "removeDomain"
  <2>1. [applied EXCEPT !.domains = @ \ {m.name}] \in Applied BY DEF Applied
  <2> QED BY <1>4, <2>1 DEF Effect
<1>5. ASSUME NEW v \in Value
      PROVE  /\ [applied EXCEPT !.certs[m.name] = v] \in Applied
             /\ [applied EXCEPT !.settings[m.name] = v] \in Applied
  <2>1. [applied.certs EXCEPT ![m.name] = v] \in [Certs -> Value] BY DEF Applied
  <2>2. [applied.settings EXCEPT ![m.name] = v] \in [Settings -> Value] BY DEF Applied
  <2> QED BY <2>1, <2>2 DEF Applied
<1>6. CASE m.op = "installCert" BY <1>1, <1>5, <1>6 DEF Effect
<1>7. CASE m.op = "removeCert" BY <1>2, <1>5, <1>7 DEF Effect
<1>8. CASE m.op = "generate"
  <2>1. m.name \in Keys BY <1>8 DEF MessageOK
  <2>2. [applied EXCEPT !.keys = @ \cup {m.name}] \in Applied BY <2>1 DEF Applied
  <2> QED BY <1>8, <2>2 DEF Effect
<1>9. CASE m.op = "destroy"
  <2>1. [applied EXCEPT !.keys = @ \ {m.name}] \in Applied BY DEF Applied
  <2> QED BY <1>9, <2>1 DEF Effect
<1>10. CASE m.op = "update" BY <1>1, <1>5, <1>10 DEF Effect
<1>11. CASE m.op = "allowSsh" BY <1>11 DEF Effect
<1> QED BY <1>1, <1>3, <1>4, <1>6, <1>7, <1>8, <1>9, <1>10, <1>11 DEF Message

\* A reply changes the one request that waits for the first message.
LEMMA ReplyIsOK ==
  ASSUME IInv, queue # << >>, queue' = Tail(queue), client' \in [Clients -> Client],
         \A o \in Clients :
           /\ NamedOK(client'[o])
           /\ client'[o].pc = client[o].pc /\ client'[o].sent = client[o].sent
           /\ o # Head(queue).from => client'[o].reply = client[o].reply
  PROVE  ClientsOK' /\ QueueOK'
<1>1. ClientsOK' BY DEF ClientsOK
<1>2. queue \in Seq(Message) BY DEF IInv, QueueOK
<1>3. /\ queue' \in Seq(Message) /\ 1 \in DOMAIN queue /\ Head(queue) = queue[1]
      /\ \A n \in DOMAIN queue' : n + 1 \in DOMAIN queue /\ n + 1 # 1 /\ queue'[n] = queue[n + 1]
      /\ \A n, k \in DOMAIN queue' : n # k => n + 1 # k + 1
  BY <1>2
<1>4. OneEach(queue') BY <1>3 DEF OneEach, IInv, QueueOK
<1>5. ASSUME NEW n \in DOMAIN queue' PROVE MessageOK(queue'[n]) /\ WaitedFor(queue'[n], client')
  <2> DEFINE m == queue[n + 1]
  <2>1. queue'[n] = m /\ MessageOK(m) /\ WaitedFor(m, client) BY <1>3 DEF IInv, QueueOK
  <2>2. m.from = Nobody \/ m.from # Head(queue).from BY <1>3 DEF IInv, QueueOK, OneEach
  <2>3. m.from \in Clients \cup {Nobody} BY <2>1 DEF MessageOK, Message
  <2> HIDE DEF m
  <2>4. WaitedFor(m, client') BY <2>1, <2>2, <2>3 DEF WaitedFor
  <2> QED BY <2>1, <2>4
<1> QED BY <1>1, <1>3, <1>4, <1>5 DEF QueueOK

\* The request a reply belongs to, and what it leaves alone.
LEMMA RepliedIsOK ==
  ASSUME NEW x, RequestOK(x), NEW reply \in Replies, NEW b \in BOOLEAN
  PROVE  \A y \in {[x EXCEPT !.reply = reply], [x EXCEPT !.alone = b]} :
           /\ RequestOK(y) /\ y.pc = x.pc /\ y.sent = x.sent
           /\ y = [x EXCEPT !.alone = b] => y.reply = x.reply
<1>1. x \in Client BY DEF RequestOK
<1>2. ASSUME NEW y, y = [x EXCEPT !.reply = reply] \/ y = [x EXCEPT !.alone = b]
      PROVE  /\ y \in Client /\ y.pc = x.pc /\ y.sent = x.sent /\ y.op = x.op /\ y.name = x.name
             /\ y = [x EXCEPT !.alone = b] => y.reply = x.reply
  BY <1>1, <1>2, ClientSets
<1>3. ASSUME NEW y, y \in Client, y.pc = x.pc, y.op = x.op, y.name = x.name PROVE RequestOK(y)
  BY <1>3 DEF RequestOK, NamedOK
<1> QED BY <1>2, <1>3

LEMMA HeadIsOK ==
  ASSUME IInv, queue # << >>
  PROVE  MessageOK(Head(queue)) /\ Head(queue).name \in Items
<1>1. queue \in Seq(Message) BY DEF IInv, QueueOK
<1>2. 1 \in DOMAIN queue /\ Head(queue) = queue[1] BY <1>1
<1> QED BY <1>2 DEF IInv, QueueOK, MessageOK, Message

LEMMA RootyStep ==
  ASSUME IInv, RootyApplies \/ RootyFails
  PROVE  IInv'
<1> DEFINE m == Head(queue)
<1>1. queue # << >> /\ queue' = Tail(queue) BY DEF RootyApplies, RootyFails
<1>2. MessageOK(m) BY <1>1, HeadIsOK
<1>3. Effect(m) \in Applied BY <1>2, EffectIsOK DEF IInv, DataOK
<1>4. {"ok", "error"} \subseteq Replies BY DEF Replies
<1> HIDE DEF m
<1>5. ASSUME NEW o \in Clients, NEW reply \in {"ok", "error"}
      PROVE  /\ RequestOK(Replied(m, reply, o))
             /\ Replied(m, reply, o).pc = client[o].pc /\ Replied(m, reply, o).sent = client[o].sent
             /\ o # m.from => Replied(m, reply, o).reply = client[o].reply
  <2>1. RequestOK(client[o]) BY ClientIsOK
  <2>2. CASE o = m.from
    <3> DEFINE y == [client[o] EXCEPT !.reply = reply]
    <3>1. RequestOK(y) /\ y.pc = client[o].pc /\ y.sent = client[o].sent
      BY <1>4, <2>1, RepliedIsOK
    <3>2. Replied(m, reply, o) = y BY <2>2 DEF Replied
    <3> QED BY <2>2, <3>1, <3>2
  <2>3. CASE o # m.from BY <2>1, <2>3 DEF Replied
  <2> QED BY <2>2, <2>3
<1>6. CASE RootyApplies
  <2>1. client' = [o \in Clients |-> Replied(m, "ok", o)] /\ applied' = Effect(m)
    BY <1>6 DEF RootyApplies, m
  <2>2. \A o \in Clients : client'[o] = Replied(m, "ok", o) BY <2>1
  <2>3. client' \in [Clients -> Client] BY <1>5, <2>1 DEF RequestOK
  <2>4. \A o \in Clients :
          /\ NamedOK(client'[o])
          /\ client'[o].pc = client[o].pc /\ client'[o].sent = client[o].sent
          /\ o # m.from => client'[o].reply = client[o].reply
    BY <1>5, <2>2 DEF RequestOK
  <2>5. ClientsOK' /\ QueueOK' BY <1>1, <2>3, <2>4, ReplyIsOK DEF m
  <2>6. DataOK' BY <1>3, <1>6, <2>1 DEF RootyApplies, IInv, DataOK
  <2> QED BY <2>5, <2>6 DEF IInv
<1>7. CASE RootyFails
  <2> DEFINE alone(o) == Replied(m, "error", o).alone /\ m.name \notin Names(client[o])
             y(o) == [Replied(m, "error", o) EXCEPT !.alone = alone(o)]
  <2>1. /\ client' = [o \in Clients |-> y(o)]
        /\ applied' \in {applied, Effect(m)}
        /\ trouble' = trouble \cup ({m.name} \cap (Domains \cup Certs))
    BY <1>7 DEF RootyFails, m
  <2>2. ASSUME NEW o \in Clients PROVE alone(o) \in BOOLEAN
    BY <1>5 DEF RequestOK, Client
  <2> HIDE DEF alone
  <2>3. ASSUME NEW o \in Clients
        PROVE  /\ RequestOK(y(o)) /\ y(o).pc = client[o].pc /\ y(o).sent = client[o].sent
               /\ o # m.from => y(o).reply = client[o].reply
    <3> DEFINE x == Replied(m, "error", o)
    <3>1. /\ RequestOK(x) /\ x.pc = client[o].pc /\ x.sent = client[o].sent
          /\ o # m.from => x.reply = client[o].reply
      BY <1>5
    <3> HIDE DEF x
    <3>2. LET z == [x EXCEPT !.alone = alone(o)] IN
          RequestOK(z) /\ z.pc = x.pc /\ z.sent = x.sent /\ z.reply = x.reply
      BY <1>4, <2>2, <3>1, RepliedIsOK
    <3> QED BY <3>1, <3>2 DEF x
  <2> HIDE DEF y
  <2>4. \A o \in Clients : client'[o] = y(o) BY <2>1
  <2>5. client' \in [Clients -> Client] BY <2>1, <2>3 DEF RequestOK
  <2>6. \A o \in Clients :
          /\ NamedOK(client'[o])
          /\ client'[o].pc = client[o].pc /\ client'[o].sent = client[o].sent
          /\ o # m.from => client'[o].reply = client[o].reply
    BY <2>3, <2>4 DEF RequestOK
  <2>7. ClientsOK' /\ QueueOK' BY <1>1, <2>5, <2>6, ReplyIsOK DEF m
  <2>8. DataOK' BY <1>3, <1>7, <2>1 DEF RootyFails, IInv, DataOK
  <2> QED BY <2>7, <2>8 DEF IInv
<1> QED BY <1>6, <1>7

LEMMA CrashStep ==
  ASSUME IInv, Crash
  PROVE  IInv'
<1>1. /\ client' = [c \in Clients |-> IF Active(c) THEN Over(client[c], FALSE) ELSE client[c]]
      /\ queue' = Disowned(Clients)
      /\ crashes < MaxCrashes /\ crashes' = crashes + 1
      /\ trouble' = trouble \cup {x \in Domains \cup Certs : \E c \in Clients : Active(c) /\ client[c].name = x}
      /\ UNCHANGED <<rows, stored, applied, requests>>
  BY DEF Crash
<1>2. \A c \in Clients : RequestOK(Over(client[c], FALSE)) /\ RequestOK(client[c])
  BY ClientIsOK, OverIsOK
<1>3. ClientsOK' BY <1>1, <1>2 DEF ClientsOK, RequestOK
<1>4. QueueOK'
  <2>1. /\ queue' \in Seq(Message) /\ OneEach(queue')
        /\ \A n \in DOMAIN queue' :
             /\ n \in DOMAIN queue /\ MessageOK(queue'[n])
             /\ queue'[n].from = Nobody \/ (queue'[n] = queue[n] /\ queue[n].from \notin Clients)
    BY <1>1, DisownedIsOK
  <2>2. \A n \in DOMAIN queue' : queue'[n].from = Nobody
    BY <2>1 DEF MessageOK, Message
  <2> QED BY <2>1, <2>2 DEF QueueOK, WaitedFor
<1>5. DataOK' BY <1>1, ConfigurationAssumption DEF IInv, DataOK
<1> QED BY <1>3, <1>4, <1>5 DEF IInv

-----------------------------------------------------------------------------

LEMMA InitIsOK ==
  ASSUME Init
  PROVE  IInv
<1>1. DataOK
  <2>1. None \in Value BY DEF Value
  <2>2. [domains |-> {}, certs |-> [x \in Certs |-> None],
         keys |-> {}, settings |-> [s \in Settings |-> None]] \in Applied
    BY <2>1 DEF Applied
  <2>3. 0 \in 0 .. MaxRequests /\ 0 \in 0 .. MaxCrashes BY ConfigurationAssumption
  <2> QED BY <2>1, <2>2, <2>3 DEF Init, DataOK
<1>2. ClientsOK BY IdleIsOK DEF Init, ClientsOK, RequestOK
<1>3. QueueOK BY DEF Init, QueueOK, OneEach
<1> QED BY <1>1, <1>2, <1>3 DEF IInv

LEMMA StepKeepsTypes ==
  ASSUME IInv, [Next]_vars
  PROVE  IInv'
<1>1. ASSUME NEW c \in Clients, Proceeds(c) PROVE IInv'
  BY <1>1, AddDomainStep, RemoveDomainStep, SetCertStep, RemoveCertStep, SendStep, ReplyStep
     DEF Proceeds
<1>2. ASSUME NEW c \in Clients, Asks(c) PROVE IInv' BY <1>2, AsksStep
<1>3. CASE RootyApplies \/ RootyFails BY <1>3, RootyStep
<1>4. CASE Crash BY <1>4, CrashStep
<1>5. CASE UNCHANGED vars
  BY <1>5 DEF vars, IInv, DataOK, ClientsOK, QueueOK
<1> QED BY <1>1, <1>2, <1>3, <1>4, <1>5 DEF Next

LEMMA Invariance == Spec => []IInv
<1>1. IInv /\ [Next]_vars => IInv' BY StepKeepsTypes
<1> QED BY <1>1, InitIsOK, PTL DEF Spec

\* The types of RootyConfiguration; and an answer of rooty finds its request
\* waiting for it, since a request that gave up, or went down with the server,
\* is taken off the list first (RootyService.request).
THEOREM TypeCorrect == Spec => []TypeOK
<1>1. IInv => TypeOK
  BY DEF IInv, DataOK, ClientsOK, QueueOK, WaitedFor, TypeOK, Applied
<1> QED BY <1>1, Invariance, PTL

-----------------------------------------------------------------------------
(* KeptInStep.                                                             *)

Kept == Domains \cup Certs

\* What the database has of a domain or certificate, and what is in effect.
InDatabase(rs, st, x) ==
  IF x \in Domains THEN IF rs[x] # 0 THEN "present" ELSE "absent" ELSE st[x]
InEffect(a, x) ==
  IF x \in Domains THEN IF x \in a.domains THEN "present" ELSE "absent" ELSE a.certs[x]

\* What a message tells rooty of the domain or certificate it names.
About(m, x) == m.op \in {"newDomain", "removeDomain", "installCert", "removeCert"} /\ m.name = x
Content(m)  == IF m.op = "newDomain" THEN "present" ELSE IF m.op = "removeDomain" THEN "absent"
               ELSE IF m.op = "installCert" THEN m.value ELSE None

\* v is what rooty will have of x once it has read the queue q: what the last
\* message about x tells, or what is in effect.
Tells(q, a, x, v) ==
  \/ InEffect(a, x) = v /\ \A n \in DOMAIN q : ~About(q[n], x)
  \/ \E n \in DOMAIN q :
       /\ About(q[n], x) /\ Content(q[n]) = v
       /\ \A k \in DOMAIN q : About(q[k], x) => k <= n

\* A request that has told rooty, or written to the database, what the other
\* does not have yet.
Halfway(r) == r.pc \in {"insert", "announceAgain", "findAgain", "deleteRow",
                        "send", "await", "nextSetting"}

\* What requests and messages of each kind are about.
KindOK(r) ==
  /\ r.op \in {"setCert", "removeCert", "unlock"} => r.name \in Certs
  /\ r.op = "setSetting" => r.name \in Settings
  /\ r.pc \in {"withdraw", "deleteRow"} => r.op \in {"removeDomain", "removeCert"}
  /\ r.pc = "findAgain" => r.op = "removeDomain"
  /\ r.pc \in {"await", "nextSetting"} =>
       r.op \in {"setCert", "unlock", "setSetting", "generate", "destroy"}
ToldOK(m) ==
  /\ m.op \in {"newDomain", "removeDomain"} => m.name \in Domains
  /\ m.op \in {"installCert", "removeCert"} => m.name \in Certs
KindsOK ==
  /\ \A c \in Clients : KindOK(client[c]) /\ (client[c].pc # "idle" => requests # 0)
  /\ \A n \in DOMAIN queue : ToldOK(queue[n])

\* A request marked as having met no other on its name has met none.
AloneOK ==
  \A c, o \in Clients :
    c # o /\ client[c].alone /\ client[c].pc # "idle" /\ client[o].pc # "idle" =>
      client[c].name # client[o].name

\* How far a request has come that met no other, and no failure of rooty's.
Progress(r, rs, st, q, a) ==
  /\ r.pc = "insert" => Tells(q, a, r.name, "present")
  /\ r.pc = "announceAgain" => rs[r.name] # 0
  /\ r.pc = "deleteRow" /\ r.op = "removeDomain" =>
       rs[r.name] = r.found /\ Tells(q, a, r.name, "absent")
  /\ r.pc = "deleteRow" /\ r.op = "removeCert" => Tells(q, a, r.name, None)
  /\ r.pc = "send" /\ r.op \in {"setCert", "unlock"} => st[r.name] = r.value
  /\ r.pc \in {"await", "nextSetting"} /\ r.op \in {"setCert", "unlock"} =>
       st[r.name] = r.value /\ Tells(q, a, r.name, r.value)
ProgressOK ==
  \A c \in Clients : client[c].alone => Progress(client[c], rows, stored, queue, applied)

AgreedOK ==
  \A x \in Kept \ trouble :
    (\A c \in Clients : client[c].name = x => ~Halfway(client[c])) =>
      Tells(queue, applied, x, InDatabase(rows, stored, x))

KInv == IInv /\ KindsOK /\ AloneOK /\ ProgressOK /\ AgreedOK

-----------------------------------------------------------------------------
(* What the queue tells, when it grows, is disowned, or is read.           *)

LEMMA TellsAppend ==
  ASSUME NEW q \in Seq(Message), NEW m \in Message, NEW a, NEW x, NEW v,
         \/ About(m, x) /\ Content(m) = v
         \/ ~About(m, x) /\ Tells(q, a, x, v)
  PROVE  Tells(Append(q, m), a, x, v)
<1> DEFINE p == Append(q, m)
<1>1. /\ Len(q) \in Nat /\ DOMAIN q = 1 .. Len(q) /\ DOMAIN p = 1 .. Len(q) + 1
      /\ p[Len(q) + 1] = m /\ \A n \in DOMAIN q : n \in DOMAIN p /\ p[n] = q[n]
      /\ \A n \in DOMAIN p : n \in DOMAIN q \/ n = Len(q) + 1
  OBVIOUS
<1> HIDE DEF p
<1>2. CASE About(m, x) /\ Content(m) = v
  <2>1. Len(q) + 1 \in DOMAIN p /\ \A k \in DOMAIN p : k <= Len(q) + 1 BY <1>1
  <2> QED BY <1>1, <1>2, <2>1 DEF Tells, p
<1>3. CASE ~About(m, x) /\ Tells(q, a, x, v)
  <2>1. CASE InEffect(a, x) = v /\ \A n \in DOMAIN q : ~About(q[n], x)
    <3>1. \A n \in DOMAIN p : ~About(p[n], x) BY <1>1, <1>3, <2>1
    <3> QED BY <2>1, <3>1 DEF Tells, p
  <2>2. ASSUME NEW n \in DOMAIN q, About(q[n], x), Content(q[n]) = v,
               \A k \in DOMAIN q : About(q[k], x) => k <= n
        PROVE  Tells(p, a, x, v)
    <3>1. n \in DOMAIN p /\ p[n] = q[n] BY <1>1
    <3>2. \A k \in DOMAIN p : About(p[k], x) => k <= n BY <1>1, <1>3, <2>2
    <3> QED BY <2>2, <3>1, <3>2 DEF Tells
  <2> QED BY <1>3, <2>1, <2>2 DEF Tells, p
<1> QED BY <1>2, <1>3

LEMMA TellsDisowned ==
  ASSUME IInv, NEW gone \in SUBSET Clients, NEW a, NEW x, NEW v, Tells(queue, a, x, v)
  PROVE  Tells(Disowned(gone), a, x, v)
<1> DEFINE q == Disowned(gone)
<1>1. DOMAIN q = DOMAIN queue BY DEF Disowned
<1>2. \A n \in DOMAIN queue :
        q[n].op = queue[n].op /\ q[n].name = queue[n].name /\ q[n].value = queue[n].value
  <2>1. \A n \in DOMAIN queue : queue[n] \in Message BY DEF IInv, QueueOK, MessageOK
  <2>2. \A m \in Message : LET l == [m EXCEPT !.from = Nobody] IN
          l.op = m.op /\ l.name = m.name /\ l.value = m.value
    BY DEF Message
  <2> QED BY <2>1, <2>2 DEF Disowned
<1> HIDE DEF q
<1>3. \A n \in DOMAIN queue :
        (About(q[n], x) <=> About(queue[n], x)) /\ Content(q[n]) = Content(queue[n])
  BY <1>2 DEF About, Content
<1> QED BY <1>1, <1>3 DEF Tells, q

LEMMA EffectIsTold ==
  ASSUME applied \in Applied, NEW m \in Message, ToldOK(m), NEW x \in Kept
  PROVE  InEffect(Effect(m), x) = IF About(m, x) THEN Content(m) ELSE InEffect(applied, x)
<1>1. CASE m.op \in {"newDomain", "removeDomain"}
  <2>1. m.name \in Domains /\ m.name \notin Certs BY <1>1, ConfigurationAssumption DEF ToldOK
  <2>2. /\ Effect(m).certs = applied.certs
        /\ Effect(m).domains = IF m.op = "newDomain" THEN applied.domains \cup {m.name}
                               ELSE applied.domains \ {m.name}
    BY <1>1 DEF Effect, Applied
  <2> QED BY <1>1, <2>1, <2>2, ConfigurationAssumption DEF InEffect, About, Content, Kept
<1>2. CASE m.op \in {"installCert", "removeCert"}
  <2>1. m.name \in Certs /\ m.name \notin Domains BY <1>2, ConfigurationAssumption DEF ToldOK
  <2>2. /\ Effect(m).domains = applied.domains
        /\ Effect(m).certs = [applied.certs EXCEPT ![m.name] =
                                IF m.op = "installCert" THEN m.value ELSE None]
    BY <1>2 DEF Effect, Applied
  <2>3. applied.certs \in [Certs -> Value] BY DEF Applied
  <2> QED BY <1>2, <2>1, <2>2, <2>3, ConfigurationAssumption DEF InEffect, About, Content, Kept
<1>3. CASE m.op \in {"generate", "destroy", "update", "allowSsh"}
  <2>1. Effect(m).domains = applied.domains /\ Effect(m).certs = applied.certs
    BY <1>3 DEF Effect, Applied
  <2> QED BY <1>3, <2>1 DEF InEffect, About
<1> QED BY <1>1, <1>2, <1>3 DEF Message

LEMMA TellsTail ==
  ASSUME NEW q \in Seq(Message), q # << >>, NEW a, NEW b, NEW x, NEW v, Tells(q, a, x, v),
         InEffect(b, x) = IF About(Head(q), x) THEN Content(Head(q)) ELSE InEffect(a, x)
  PROVE  Tells(Tail(q), b, x, v)
<1> DEFINE p == Tail(q)
<1>1. /\ 1 \in DOMAIN q /\ Head(q) = q[1] /\ DOMAIN q \subseteq Nat \ {0}
      /\ \A n \in DOMAIN p : n \in Nat \ {0} /\ n + 1 \in DOMAIN q /\ p[n] = q[n + 1]
      /\ \A n \in DOMAIN q : n # 1 => n - 1 \in DOMAIN p /\ p[n - 1] = q[n]
  OBVIOUS
<1> HIDE DEF p
<1>2. CASE InEffect(a, x) = v /\ \A n \in DOMAIN q : ~About(q[n], x)
  <2>1. InEffect(b, x) = v /\ \A n \in DOMAIN p : ~About(p[n], x) BY <1>1, <1>2
  <2> QED BY <2>1 DEF Tells, p
<1>3. ASSUME NEW n \in DOMAIN q, About(q[n], x), Content(q[n]) = v,
             \A k \in DOMAIN q : About(q[k], x) => k <= n
      PROVE  Tells(p, b, x, v)
  <2>1. CASE n = 1
    <3>1. InEffect(b, x) = v BY <1>1, <1>3, <2>1
    <3>2. \A k \in DOMAIN p : ~About(p[k], x)
      <4> SUFFICES ASSUME NEW k \in DOMAIN p, About(p[k], x) PROVE FALSE OBVIOUS
      <4>1. k + 1 \in DOMAIN q /\ About(q[k + 1], x) /\ k \in Nat \ {0} BY <1>1
      <4>2. k + 1 <= 1 BY <1>3, <2>1, <4>1
      <4> QED BY <4>1, <4>2
    <3> QED BY <3>1, <3>2 DEF Tells
  <2>2. CASE n # 1
    <3>1. n - 1 \in DOMAIN p /\ p[n - 1] = q[n] BY <1>1, <2>2
    <3>2. ASSUME NEW k \in DOMAIN p, About(p[k], x) PROVE k <= n - 1
      <4>1. k + 1 <= n BY <1>1, <1>3, <3>2
      <4> QED BY <1>1, <4>1
    <3> QED BY <1>3, <3>1, <3>2 DEF Tells
  <2> QED BY <2>1, <2>2
<1> QED BY <1>2, <1>3 DEF Tells, p

-----------------------------------------------------------------------------
(* A step of one request.                                                  *)

KPart == KindsOK /\ AloneOK /\ ProgressOK /\ AgreedOK

\* The step changes nothing for names other than x.
Elsewhere(x) ==
  /\ \A d \in Domains \ {x} : rows'[d] = rows[d]
  /\ \A d \in Certs \ {x} : stored'[d] = stored[d]
  /\ \A d, v : d \in Kept \ {x} /\ Tells(queue, applied, d, v) => Tells(queue', applied', d, v)
  /\ \A n \in DOMAIN queue' : ToldOK(queue'[n])
  /\ requests' = requests

LEMMA NothingElsewhere ==
  ASSUME KInv, UNCHANGED <<server, requests>>
  PROVE  \A x : Elsewhere(x)
BY DEF KInv, KindsOK, server, Elsewhere

LEMMA WriteElsewhere ==
  ASSUME KInv, NEW m, MessageOK(m), ToldOK(m), queue' = Append(queue, m),
         UNCHANGED <<applied, requests>>
  PROVE  /\ \A n \in DOMAIN queue' : ToldOK(queue'[n])
         /\ \A d : About(m, d) => Tells(queue', applied', d, Content(m))
         /\ \A d, v : ~About(m, d) /\ Tells(queue, applied, d, v) => Tells(queue', applied', d, v)
<1>1. queue \in Seq(Message) /\ m \in Message /\ \A n \in DOMAIN queue : ToldOK(queue[n])
  BY DEF KInv, IInv, QueueOK, MessageOK, KindsOK
<1>2. \A n \in DOMAIN queue' : queue'[n] = m \/ (n \in DOMAIN queue /\ queue'[n] = queue[n])
  BY <1>1
<1>3. ASSUME NEW d, About(m, d) PROVE Tells(queue', applied', d, Content(m))
  <2>1. Tells(Append(queue, m), applied, d, Content(m)) BY <1>1, <1>3, TellsAppend
  <2> QED BY <2>1
<1>4. ASSUME NEW d, NEW v, ~About(m, d), Tells(queue, applied, d, v)
      PROVE  Tells(queue', applied', d, v)
  <2>1. Tells(Append(queue, m), applied, d, v) BY <1>1, <1>4, TellsAppend
  <2> QED BY <2>1
<1> QED BY <1>1, <1>2, <1>3, <1>4

\* What is known of the other requests, and of other names, stays true.
LEMMA Moves ==
  ASSUME KInv, NEW c \in Clients, NEW x, NEW r, x = client[c].name, Becomes(c, r),
         client[c].pc # "idle", r.pc # "idle", r.name = x, r.alone = client[c].alone, KindOK(r),
         Elsewhere(x), \A d \in trouble \ {x} : d \in trouble',
         r.alone => Progress(r, rows', stored', queue', applied'),
         /\ x \in Kept \ trouble' /\ ~Halfway(r)
         /\ \A o \in Clients \ {c} : client[o].name = x => ~Halfway(client[o])
         => Tells(queue', applied', x, InDatabase(rows', stored', x))
  PROVE  KPart'
<1>1. client'[c] = r /\ \A o \in Clients \ {c} : client'[o] = client[o]
  BY DEF KInv, IInv, ClientsOK, Becomes
<1>2. KindsOK' BY <1>1 DEF KInv, KindsOK, Elsewhere
<1>3. AloneOK' BY <1>1 DEF KInv, AloneOK
<1>4. ProgressOK'
  <2> SUFFICES ASSUME NEW o \in Clients, client'[o].alone
               PROVE  Progress(client'[o], rows', stored', queue', applied')
    BY DEF ProgressOK
  <2>1. CASE o = c BY <1>1, <2>1
  <2>2. CASE o # c /\ client[o].pc = "idle" BY <1>1, <2>2 DEF Progress
  <2>3. CASE o # c /\ client[o].pc # "idle"
    <3> DEFINE s == client[o]
    <3>1. Progress(s, rows, stored, queue, applied) BY <1>1, <2>3 DEF KInv, ProgressOK
    <3>2. s.name # x BY <1>1, <2>3 DEF KInv, AloneOK
    <3>3. NamedOK(s) /\ KindOK(s) BY DEF KInv, IInv, ClientsOK, KindsOK
    <3>4. s = client'[o] BY <1>1, <2>3
    <3> HIDE DEF s
    <3>5. s.pc \in {"insert", "announceAgain"} => s.name \in Domains BY <3>3 DEF NamedOK
    <3>6. /\ s.op = "removeDomain" => s.name \in Domains
          /\ s.op \in {"setCert", "removeCert", "unlock"} => s.name \in Certs
      BY <3>3 DEF NamedOK, KindOK
    <3>7. Progress(s, rows', stored', queue', applied')
      BY <3>1, <3>2, <3>5, <3>6 DEF Progress, Elsewhere, Kept
    <3> QED BY <3>4, <3>7
  <2> QED BY <2>1, <2>2, <2>3
<1>5. AgreedOK'
  <2> SUFFICES ASSUME NEW d \in Kept \ trouble',
                      \A o \in Clients : client'[o].name = d => ~Halfway(client'[o])
               PROVE  Tells(queue', applied', d, InDatabase(rows', stored', d))
    BY DEF AgreedOK, Kept
  <2>1. CASE d = x BY <1>1, <2>1
  <2>2. CASE d # x
    <3>1. d \in Kept \ trouble /\ \A o \in Clients : client[o].name = d => ~Halfway(client[o])
      BY <1>1, <2>2
    <3>2. Tells(queue, applied, d, InDatabase(rows, stored, d)) BY <3>1 DEF KInv, AgreedOK
    <3>3. InDatabase(rows', stored', d) = InDatabase(rows, stored, d)
      BY <2>2, <3>1 DEF Elsewhere, InDatabase, Kept
    <3> QED BY <2>2, <3>1, <3>2, <3>3 DEF Elsewhere
  <2> QED BY <2>1, <2>2
<1> QED BY <1>2, <1>3, <1>4, <1>5 DEF KPart

Follows(r, s) ==
  /\ r.op = s.op /\ r.name = s.name /\ r.value = s.value
  /\ r.alone = s.alone /\ r.opposed = s.opposed

LEMMA GoesTo ==
  ASSUME IInv, NEW c \in Clients, NEW step, Goes(c, step)
  PROVE  \E r : Becomes(c, r) /\ r.pc = step /\ Follows(r, client[c]) /\ r.found = client[c].found
BY ClientIsOK, ClientSets DEF Goes, Follows

LEMMA RequestGoes ==
  ASSUME IInv, NEW c \in Clients, NEW op, NEW name, NEW todo, Request(c, op, name, todo)
  PROVE  /\ \E r : Becomes(c, r) /\ r.pc = "await" /\ Follows(r, client[c])
         /\ queue' = Append(queue, Msg(op, name, client[c].value, c))
<1> DEFINE r == [client[c] EXCEPT !.pc = "await", !.sent = op, !.reply = "none", !.todo = todo]
<1>1. r.pc = "await" /\ Follows(r, client[c]) BY ClientIsOK, ClientSets DEF Follows
<1>2. Becomes(c, r) BY DEF Request
<1> HIDE DEF r
<1> QED BY <1>1, <1>2 DEF Request

LEMMA EndsAt ==
  ASSUME IInv, NEW c \in Clients, NEW ok \in BOOLEAN, NEW changed \in BOOLEAN, Ends(c, ok, changed)
  PROVE  /\ \E r : Becomes(c, r) /\ r.pc = "answered" /\ Follows(r, client[c])
         /\ \A d \in trouble \ {client[c].name} : d \in trouble'
         /\ client[c].name \in Kept \ trouble' =>
              (ok /\ client[c].alone) \/ (~changed /\ client[c].name \notin trouble)
<1>1. LET r == Over(client[c], ok) IN r.pc = "answered" /\ Follows(r, client[c])
  BY ClientIsOK, ClientSets DEF Over, Follows
<1> QED BY <1>1 DEF Ends, Kept

\* A request that ends: what it leaves is in step, unless it is marked.
LEMMA EndsKeeps ==
  ASSUME KInv, NEW c \in Clients, NEW x, x = client[c].name,
         NEW ok \in BOOLEAN, NEW changed \in BOOLEAN, Ends(c, ok, changed),
         client[c].pc # "idle", Elsewhere(x),
         /\ x \in Kept
         /\ (ok /\ client[c].alone) \/ (~changed /\ x \notin trouble)
         /\ \A o \in Clients \ {c} : client[o].name = x => ~Halfway(client[o])
         => Tells(queue', applied', x, InDatabase(rows', stored', x))
  PROVE  KPart'
<1>1. IInv BY DEF KInv
<1>2. PICK r : Becomes(c, r) /\ r.pc = "answered" /\ Follows(r, client[c]) BY <1>1, EndsAt
<1>3. /\ \A d \in trouble \ {x} : d \in trouble'
      /\ x \in Kept \ trouble' => (ok /\ client[c].alone) \/ (~changed /\ x \notin trouble)
  BY <1>1, EndsAt
<1>4. KindOK(r) BY <1>2 DEF KInv, KindsOK, KindOK, Follows
<1>5. Progress(r, rows', stored', queue', applied') BY <1>2 DEF Progress
<1>6. r.name = x /\ r.alone = client[c].alone /\ r.pc # "idle" BY <1>2 DEF Follows
<1> QED BY <1>2, <1>3, <1>4, <1>5, <1>6, Moves

\* One that ends before it has changed anything.
LEMMA RefusedKeeps ==
  ASSUME KInv, NEW c \in Clients, Ends(c, FALSE, FALSE),
         client[c].pc # "idle", ~Halfway(client[c]), UNCHANGED <<server, requests>>
  PROVE  KPart'
<1> DEFINE x == client[c].name
<1>1. Elsewhere(x) BY NothingElsewhere
<1>2. /\ x \in Kept /\ x \notin trouble
      /\ \A o \in Clients \ {c} : client[o].name = x => ~Halfway(client[o])
      => Tells(queue, applied, x, InDatabase(rows, stored, x))
  BY DEF KInv, AgreedOK
<1>3. queue' = queue /\ applied' = applied /\ rows' = rows /\ stored' = stored BY DEF server
<1> HIDE DEF x
<1>4. /\ x \in Kept
      /\ (FALSE /\ client[c].alone) \/ (~FALSE /\ x \notin trouble)
      /\ \A o \in Clients \ {c} : client[o].name = x => ~Halfway(client[o])
      => Tells(queue', applied', x, InDatabase(rows', stored', x))
  BY <1>2, <1>3
<1>5. x = client[c].name BY DEF x
<1> QED BY <1>1, <1>4, <1>5, EndsKeeps

\* One that goes on before it has changed anything.
LEMMA GoesOnKeeps ==
  ASSUME KInv, NEW c \in Clients, NEW r, Becomes(c, r), Follows(r, client[c]), KindOK(r),
         client[c].pc # "idle", ~Halfway(client[c]), r.pc # "idle",
         UNCHANGED <<server, requests, trouble>>,
         r.alone => Progress(r, rows, stored, queue, applied)
  PROVE  KPart'
<1> DEFINE x == client[c].name
<1>1. Elsewhere(x) BY NothingElsewhere
<1>2. /\ x \in Kept /\ x \notin trouble
      /\ \A o \in Clients \ {c} : client[o].name = x => ~Halfway(client[o])
      => Tells(queue, applied, x, InDatabase(rows, stored, x))
  BY DEF KInv, AgreedOK
<1>3. queue' = queue /\ applied' = applied /\ rows' = rows /\ stored' = stored BY DEF server
<1>4. r.name = x /\ r.alone = client[c].alone BY DEF Follows
<1>5. x = client[c].name OBVIOUS
<1> HIDE DEF x
<1> QED BY <1>1, <1>2, <1>3, <1>4, <1>5, Moves

-----------------------------------------------------------------------------
(* The steps of requests, kind by kind.                                    *)

LEMMA AddDomainKeeps ==
  ASSUME KInv, NEW c \in Clients,
         Announce(c) \/ Insert(c) \/ InsertFails(c) \/ AnnounceAgain(c)
  PROVE  KPart'
<1> DEFINE x == client[c].name
           m == Msg("newDomain", x, None, Nobody)
<1>0. IInv BY DEF KInv
<1>1. /\ client[c].pc \in {"announce", "insert", "announceAgain"}
      /\ client[c].op = "addDomain" /\ x \in Domains
  BY <1>0, ClientIsOK DEF RequestOK, NamedOK, Announce, Insert, InsertFails, AnnounceAgain, At
<1>2. MessageOK(m) BY <1>0, <1>1, MessageIsOK
<1>3. ToldOK(m) /\ Content(m) = "present" /\ \A d : About(m, d) <=> d = x
  BY <1>1 DEF ToldOK, Content, About, Msg
<1>4. x = client[c].name OBVIOUS
<1>5. x \notin Certs BY <1>1, ConfigurationAssumption
<1>6. requests # 0 BY <1>1 DEF KInv, KindsOK
<1>7. Write("newDomain", x) => queue' = Append(queue, m) BY DEF Write
<1> HIDE DEF x, m
<1>8. CASE Announce(c)
  <2>1. queue' = Append(queue, m) /\ UNCHANGED <<rows, stored, applied, requests, trouble>>
    BY <1>4, <1>7, <1>8 DEF Announce
  <2>2. Tells(queue', applied', x, "present") BY <1>2, <1>3, <2>1, WriteElsewhere
  <2>3. Elsewhere(x) BY <1>2, <1>3, <2>1, WriteElsewhere DEF Elsewhere
  <2>4. PICK r : Becomes(c, r) /\ r.pc = "insert" /\ Follows(r, client[c])
    BY <1>0, <1>8, GoesTo DEF Announce
  <2>5. KindOK(r) /\ Progress(r, rows', stored', queue', applied') /\ Halfway(r)
    BY <1>1, <1>4, <2>2, <2>4 DEF KindOK, Progress, Halfway, Follows
  <2> QED BY <1>1, <1>4, <2>1, <2>3, <2>4, <2>5, Moves DEF Follows
<1>9. CASE Insert(c)
  <2>1. /\ rows' = [rows EXCEPT ![x] = requests]
        /\ UNCHANGED <<stored, applied, queue, requests, trouble>>
    BY <1>4, <1>9 DEF Insert
  <2>2. rows \in [Domains -> 0 .. MaxRequests] BY <1>0 DEF IInv, DataOK
  <2>3. rows'[x] # 0 /\ \A d \in Domains \ {x} : rows'[d] = rows[d] BY <1>1, <1>6, <2>1, <2>2
  <2>4. Elsewhere(x) BY <2>1, <2>3 DEF Elsewhere, KInv, KindsOK
  <2>5. PICK r : Becomes(c, r) /\ r.pc = "announceAgain" /\ Follows(r, client[c])
    BY <1>0, <1>9, GoesTo DEF Insert
  <2>6. KindOK(r) /\ Progress(r, rows', stored', queue', applied') /\ Halfway(r)
    BY <1>1, <1>4, <2>3, <2>5 DEF KindOK, Progress, Halfway, Follows
  <2> QED BY <1>1, <1>4, <2>1, <2>4, <2>5, <2>6, Moves DEF Follows
<1>10. CASE InsertFails(c)
  <2>1. Ends(c, FALSE, TRUE) /\ UNCHANGED <<server, requests>> BY <1>10 DEF InsertFails
  <2>2. Elsewhere(x) BY <2>1, NothingElsewhere
  <2> QED BY <1>1, <1>4, <2>1, <2>2, EndsKeeps
<1>11. CASE AnnounceAgain(c)
  <2>1. /\ queue' = Append(queue, m) /\ UNCHANGED <<rows, stored, applied, requests>>
        /\ Ends(c, TRUE, TRUE) /\ client[c].pc = "announceAgain"
    BY <1>4, <1>7, <1>11 DEF AnnounceAgain, At
  <2>2. Tells(queue', applied', x, "present") BY <1>2, <1>3, <2>1, WriteElsewhere
  <2>3. Elsewhere(x) BY <1>2, <1>3, <2>1, WriteElsewhere DEF Elsewhere
  <2>4. client[c].alone => InDatabase(rows', stored', x) = "present"
    BY <1>1, <1>4, <2>1 DEF KInv, ProgressOK, Progress, InDatabase
  <2>5. client[c].alone => Tells(queue', applied', x, InDatabase(rows', stored', x))
    BY <2>2, <2>4
  <2> QED BY <1>1, <1>4, <2>1, <2>3, <2>5, EndsKeeps
<1> QED BY <1>8, <1>9, <1>10, <1>11

LEMMA RemoveDomainKeeps ==
  ASSUME KInv, NEW c \in Clients,
         FindDomain(c) \/ Withdraw(c) \/ FindAgain(c) \/ DeleteRow(c) \/ DeleteFails(c)
  PROVE  KPart'
<1> DEFINE x == client[c].name
           m == Msg("removeDomain", x, None, Nobody)
<1>0. IInv BY DEF KInv
<1>1. CASE DeleteFails(c)
  <2>1. Ends(c, FALSE, TRUE) /\ UNCHANGED <<server, requests>> /\ client[c].pc = "deleteRow"
    BY <1>1 DEF DeleteFails, At
  <2>2. Elsewhere(x) BY <2>1, NothingElsewhere
  <2> QED BY <2>1, <2>2, EndsKeeps
<1>2. FindDomain(c) \/ Withdraw(c) \/ FindAgain(c) \/ DeleteRow(c) => client[c].op = "removeDomain"
  BY DEF FindDomain, Withdraw, FindAgain, DeleteRow, At, Is, KInv, KindsOK, KindOK
<1> SUFFICES ASSUME client[c].op = "removeDomain",
                    FindDomain(c) \/ Withdraw(c) \/ FindAgain(c) \/ DeleteRow(c)
             PROVE  KPart'
  BY <1>1, <1>2
<1>3. x \in Domains /\ x \notin Certs
  BY <1>0, ClientIsOK, ConfigurationAssumption DEF RequestOK, NamedOK
<1>4. x = client[c].name OBVIOUS
<1>5. MessageOK(m) BY <1>0, MessageIsOK
<1>6. ToldOK(m) /\ Content(m) = "absent" /\ \A d : About(m, d) <=> d = x
  BY <1>3 DEF ToldOK, Content, About, Msg
<1>7. Write("removeDomain", x) => queue' = Append(queue, m) BY DEF Write
<1> HIDE DEF x, m
<1>8. CASE FindDomain(c)
  <2>1. client[c].pc = "find" /\ UNCHANGED <<server, requests>> BY <1>8 DEF FindDomain, At
  <2>2. CASE rows[x] = 0
    <3>1. Ends(c, FALSE, FALSE) BY <1>4, <1>8, <2>2 DEF FindDomain
    <3> QED BY <2>1, <3>1, RefusedKeeps DEF Halfway
  <2>3. CASE rows[x] # 0
    <3> DEFINE r == [client[c] EXCEPT !.pc = "withdraw", !.found = rows[x]]
    <3>1. Becomes(c, r) /\ trouble' = trouble BY <1>4, <1>8, <2>3 DEF FindDomain
    <3>2. r.pc = "withdraw" /\ Follows(r, client[c])
      BY <1>0, ClientIsOK, ClientSets DEF Follows
    <3> HIDE DEF r
    <3>3. KindOK(r) /\ Progress(r, rows, stored, queue, applied)
      BY <3>2 DEF KindOK, Progress, Follows
    <3> QED BY <2>1, <3>1, <3>2, <3>3, GoesOnKeeps DEF Halfway
  <2> QED BY <2>2, <2>3
<1>9. CASE Withdraw(c)
  <2>1. /\ queue' = Append(queue, m) /\ UNCHANGED <<rows, stored, applied, requests, trouble>>
        /\ client[c].pc = "withdraw"
    BY <1>4, <1>7, <1>9 DEF Withdraw, At
  <2>2. Elsewhere(x) BY <1>5, <1>6, <2>1, WriteElsewhere DEF Elsewhere
  <2>3. PICK r : Becomes(c, r) /\ r.pc = "findAgain" /\ Follows(r, client[c])
    BY <1>0, <1>9, GoesTo DEF Withdraw
  <2>4. KindOK(r) /\ Progress(r, rows', stored', queue', applied') /\ Halfway(r)
    BY <2>3 DEF KindOK, Progress, Halfway, Follows
  <2> QED BY <1>4, <2>1, <2>2, <2>3, <2>4, Moves DEF Follows
<1>10. CASE FindAgain(c)
  <2>1. client[c].pc = "findAgain" /\ UNCHANGED <<rows, stored, applied, requests>>
    BY <1>10 DEF FindAgain, At
  <2>2. CASE rows[x] = client[c].found
    <3>1. queue' = Append(queue, m) /\ Goes(c, "deleteRow") /\ trouble' = trouble
      BY <1>4, <1>7, <1>10, <2>2 DEF FindAgain
    <3>2. Tells(queue', applied', x, "absent") BY <1>5, <1>6, <2>1, <3>1, WriteElsewhere
    <3>5. Elsewhere(x) BY <1>5, <1>6, <2>1, <3>1, WriteElsewhere DEF Elsewhere
    <3>3. PICK r : Becomes(c, r) /\ r.pc = "deleteRow" /\ Follows(r, client[c])
                   /\ r.found = client[c].found
      BY <1>0, <3>1, GoesTo
    <3>4. KindOK(r) /\ Progress(r, rows', stored', queue', applied') /\ Halfway(r)
      BY <1>4, <2>1, <2>2, <3>2, <3>3 DEF KindOK, Progress, Halfway, Follows
    <3> QED BY <1>4, <2>1, <3>1, <3>3, <3>4, <3>5, Moves DEF Follows
  <2>3. CASE rows[x] # client[c].found
    <3>1. Ends(c, FALSE, TRUE) /\ UNCHANGED <<server, requests>>
      BY <1>4, <1>10, <2>3 DEF FindAgain, server
    <3>2. Elsewhere(x) BY <3>1, NothingElsewhere
    <3> QED BY <1>4, <2>1, <3>1, <3>2, EndsKeeps
  <2> QED BY <2>2, <2>3
<1>11. CASE DeleteRow(c)
  <2>1. /\ rows' = [rows EXCEPT ![x] = IF rows[x] = client[c].found THEN 0 ELSE rows[x]]
        /\ UNCHANGED <<stored, applied, queue, requests>>
        /\ Ends(c, TRUE, TRUE) /\ client[c].pc = "deleteRow"
    BY <1>4, <1>11 DEF DeleteRow, At
  <2>2. rows \in [Domains -> 0 .. MaxRequests] BY <1>0 DEF IInv, DataOK
  <2>3. /\ \A d \in Domains \ {x} : rows'[d] = rows[d]
        /\ rows[x] = client[c].found => rows'[x] = 0
    BY <1>3, <2>1, <2>2
  <2>4. Elsewhere(x) BY <2>1, <2>3 DEF Elsewhere, KInv, KindsOK
  <2>5. client[c].alone => rows[x] = client[c].found /\ Tells(queue, applied, x, "absent")
    BY <1>4, <2>1 DEF KInv, ProgressOK, Progress
  <2>6. client[c].alone => Tells(queue', applied', x, InDatabase(rows', stored', x))
    BY <1>3, <2>1, <2>3, <2>5 DEF InDatabase
  <2> QED BY <1>4, <2>1, <2>4, <2>6, EndsKeeps
<1> QED BY <1>8, <1>9, <1>10, <1>11

LEMMA CertKeeps ==
  ASSUME KInv, NEW c \in Clients,
         \/ FindCert(c) \/ StoreCert(c) \/ StoreFails(c)
         \/ FindCertToRemove(c) \/ WithdrawCert(c) \/ DeleteCert(c)
  PROVE  KPart'
<1> DEFINE x == client[c].name
           m == Msg("removeCert", x, None, Nobody)
<1>0. IInv BY DEF KInv
<1>1. client[c].op \in {"setCert", "removeCert", "unlock"}
  BY <1>0, ClientIsOK DEF RequestOK, NamedOK, FindCert, StoreCert, StoreFails, FindCertToRemove,
       WithdrawCert, DeleteCert, At, Is
<1>2. x \in Certs /\ x \notin Domains
  BY <1>1, ConfigurationAssumption DEF KInv, KindsOK, KindOK
<1>3. x = client[c].name OBVIOUS
<1>4. MessageOK(m) BY <1>0, MessageIsOK
<1>5. ToldOK(m) /\ Content(m) = None /\ \A d : About(m, d) <=> d = x
  BY <1>2 DEF ToldOK, Content, About, Msg
<1>6. Write("removeCert", x) => queue' = Append(queue, m) BY DEF Write
<1>7. stored \in [Certs -> Value] BY <1>0 DEF IInv, DataOK
<1> HIDE DEF x, m
<1>8. CASE FindCert(c)
  <2>1. client[c].pc = "find" /\ UNCHANGED <<server, requests>> /\ client[c].op \in {"setCert", "unlock"}
    BY <1>8 DEF FindCert, At, Is
  <2>2. CASE Ends(c, FALSE, FALSE) BY <2>1, <2>2, RefusedKeeps DEF Halfway
  <2>3. CASE ~Ends(c, FALSE, FALSE)
    <3> DEFINE r == [client[c] EXCEPT !.pc = "store",
                       !.found = IF stored[client[c].name] = None THEN 0 ELSE 1]
    <3>1. Becomes(c, r) /\ trouble' = trouble BY <1>8, <2>3 DEF FindCert
    <3>2. r.pc = "store" /\ Follows(r, client[c]) BY <1>0, ClientIsOK, ClientSets DEF Follows
    <3> HIDE DEF r
    <3>3. KindOK(r) /\ Progress(r, rows, stored, queue, applied)
      BY <1>2, <1>3, <2>1, <3>2 DEF KindOK, Progress, Follows
    <3> QED BY <2>1, <3>1, <3>2, <3>3, GoesOnKeeps DEF Halfway
  <2> QED BY <2>2, <2>3
<1>9. CASE StoreCert(c)
  <2>1. /\ stored' = [stored EXCEPT ![x] = client[c].value]
        /\ UNCHANGED <<rows, applied, queue, requests, trouble>> /\ client[c].pc = "store"
    BY <1>3, <1>9 DEF StoreCert, At
  <2>2. stored'[x] = client[c].value /\ \A d \in Certs \ {x} : stored'[d] = stored[d]
    BY <1>2, <1>7, <2>1
  <2>3. Elsewhere(x) BY <2>1, <2>2 DEF Elsewhere, KInv, KindsOK
  <2>4. PICK r : Becomes(c, r) /\ r.pc = "send" /\ Follows(r, client[c])
    BY <1>0, <1>9, GoesTo DEF StoreCert
  <2>5. KindOK(r) /\ Progress(r, rows', stored', queue', applied') /\ Halfway(r)
    BY <1>1, <1>2, <1>3, <2>2, <2>4 DEF KindOK, Progress, Halfway, Follows
  <2> QED BY <1>3, <2>1, <2>3, <2>4, <2>5, Moves DEF Follows
<1>10. CASE StoreFails(c)
  <2>1. Ends(c, FALSE, FALSE) /\ client[c].pc = "store" /\ UNCHANGED <<server, requests>>
    BY <1>10 DEF StoreFails, At
  <2> QED BY <2>1, RefusedKeeps DEF Halfway
<1>11. CASE FindCertToRemove(c)
  <2>1. client[c].pc = "find" /\ UNCHANGED <<server, requests>> /\ client[c].op = "removeCert"
    BY <1>11 DEF FindCertToRemove, At, Is
  <2>2. CASE Ends(c, FALSE, FALSE) BY <2>1, <2>2, RefusedKeeps DEF Halfway
  <2>3. CASE ~Ends(c, FALSE, FALSE)
    <3>1. Goes(c, "withdraw") /\ trouble' = trouble BY <1>11, <2>3 DEF FindCertToRemove
    <3>2. PICK r : Becomes(c, r) /\ r.pc = "withdraw" /\ Follows(r, client[c])
      BY <1>0, <3>1, GoesTo
    <3>3. KindOK(r) /\ Progress(r, rows, stored, queue, applied)
      BY <1>2, <1>3, <2>1, <3>2 DEF KindOK, Progress, Follows
    <3> QED BY <2>1, <3>1, <3>2, <3>3, GoesOnKeeps DEF Halfway
  <2> QED BY <2>2, <2>3
<1>12. CASE WithdrawCert(c)
  <2>1. /\ queue' = Append(queue, m) /\ UNCHANGED <<rows, stored, applied, requests, trouble>>
        /\ client[c].pc = "withdraw" /\ client[c].op = "removeCert"
    BY <1>3, <1>6, <1>12 DEF WithdrawCert, At, Is
  <2>2. Tells(queue', applied', x, None) BY <1>4, <1>5, <2>1, WriteElsewhere
  <2>3. Elsewhere(x) BY <1>4, <1>5, <2>1, WriteElsewhere DEF Elsewhere
  <2>4. PICK r : Becomes(c, r) /\ r.pc = "deleteRow" /\ Follows(r, client[c])
    BY <1>0, <1>12, GoesTo DEF WithdrawCert
  <2>5. KindOK(r) /\ Progress(r, rows', stored', queue', applied') /\ Halfway(r)
    BY <1>2, <1>3, <2>1, <2>2, <2>4 DEF KindOK, Progress, Halfway, Follows
  <2> QED BY <1>3, <2>1, <2>3, <2>4, <2>5, Moves DEF Follows
<1>13. CASE DeleteCert(c)
  <2>1. /\ stored' = [stored EXCEPT ![x] = None]
        /\ UNCHANGED <<rows, applied, queue, requests>> /\ Ends(c, TRUE, TRUE)
        /\ client[c].pc = "deleteRow" /\ client[c].op = "removeCert"
    BY <1>3, <1>13 DEF DeleteCert, At, Is
  <2>2. stored'[x] = None /\ \A d \in Certs \ {x} : stored'[d] = stored[d]
    BY <1>2, <1>7, <2>1
  <2>3. Elsewhere(x) BY <2>1, <2>2 DEF Elsewhere, KInv, KindsOK
  <2>4. client[c].alone => Tells(queue, applied, x, None)
    BY <1>3, <2>1 DEF KInv, ProgressOK, Progress
  <2>5. client[c].alone => Tells(queue', applied', x, InDatabase(rows', stored', x))
    BY <1>2, <2>1, <2>2, <2>4 DEF InDatabase
  <2> QED BY <1>3, <2>1, <2>3, <2>5, EndsKeeps
<1> QED BY <1>8, <1>9, <1>10, <1>11, <1>12, <1>13

LEMMA FindKeyKeeps ==
  ASSUME KInv, NEW c \in Clients, FindKey(c)
  PROVE  KPart'
<1>0. IInv BY DEF KInv
<1>1. client[c].pc = "find" /\ UNCHANGED <<server, requests>> /\ client[c].op \in {"generate", "destroy"}
  BY DEF FindKey, At, Is
<1>2. CASE Ends(c, FALSE, FALSE) BY <1>1, <1>2, RefusedKeeps DEF Halfway
<1>3. CASE ~Ends(c, FALSE, FALSE)
  <2>1. Goes(c, "send") /\ trouble' = trouble BY <1>3 DEF FindKey
  <2>2. PICK r : Becomes(c, r) /\ r.pc = "send" /\ Follows(r, client[c]) BY <1>0, <2>1, GoesTo
  <2>3. KindOK(r) /\ Progress(r, rows, stored, queue, applied)
    BY <1>1, <2>2 DEF KindOK, Progress, Follows
  <2> QED BY <1>1, <2>1, <2>2, <2>3, GoesOnKeeps DEF Halfway
<1> QED BY <1>2, <1>3

-----------------------------------------------------------------------------
(* Requests to rooty.                                                      *)

LEMMA RequestElsewhere ==
  ASSUME KInv, NEW c \in Clients, NEW op \in Awaited, NEW name \in Items, NEW todo,
         Request(c, op, name, todo), op = "generate" => name \in Keys,
         op = "installCert" => name \in Certs
  PROVE  \E m : /\ MessageOK(m) /\ ToldOK(m) /\ queue' = Append(queue, m)
               /\ m.op = op /\ m.name = name /\ m.value = client[c].value
<1> DEFINE m == Msg(op, name, client[c].value, c)
<1>1. client[c].value \in Value BY ClientIsOK, ClientSets DEF KInv
<1>2. m \in Message /\ m.op = op /\ m.name = name /\ m.value = client[c].value
  BY <1>1 DEF Msg, Message, Awaited
<1>3. queue' = Append(queue, m) BY DEF Request
<1> HIDE DEF m
<1>4. MessageOK(m) /\ ToldOK(m) BY <1>2 DEF MessageOK, ToldOK, Awaited
<1> QED BY <1>2, <1>3, <1>4

LEMMA SendKeeps ==
  ASSUME KInv, NEW c \in Clients, Send(c)
  PROVE  KPart'
<1> DEFINE x == client[c].name
           op == IF Is(c, {"setCert", "unlock"}) THEN "installCert"
                 ELSE IF Is(c, {"setSetting"}) THEN "update" ELSE client[c].op
<1>0. IInv BY DEF KInv
<1>1. /\ client[c].pc = "send" /\ Request(c, op, x, client[c].todo)
      /\ UNCHANGED <<rows, stored, applied, requests, trouble>>
  BY DEF Send, At
<1>2. /\ client[c].op \in {"setCert", "unlock", "setSetting", "generate", "destroy"}
      /\ client[c].op \in {"generate", "destroy"} => x \in Keys
      /\ client[c].op \in {"setCert", "unlock"} => x \in Certs
      /\ client[c].op = "setSetting" => x \in Settings
      /\ x \in Items
  BY <1>0, <1>1, ClientIsOK, ClientSets DEF RequestOK, NamedOK, KInv, KindsOK, KindOK
<1>3. /\ op \in Awaited /\ (op = "generate" => x \in Keys) /\ (op = "installCert" => x \in Certs)
      /\ op = "installCert" <=> client[c].op \in {"setCert", "unlock"}
      /\ op \notin {"newDomain", "removeDomain", "removeCert"}
  BY <1>2 DEF Is, Awaited
<1> HIDE DEF op
<1>4. x = client[c].name OBVIOUS
<1> HIDE DEF x
<1>5. PICK m : /\ MessageOK(m) /\ ToldOK(m) /\ queue' = Append(queue, m)
               /\ m.op = op /\ m.name = x /\ m.value = client[c].value
  BY <1>1, <1>2, <1>3, RequestElsewhere
<1>6. PICK r : Becomes(c, r) /\ r.pc = "await" /\ Follows(r, client[c])
  BY <1>0, <1>1, RequestGoes
<1>7. /\ \A d : About(m, d) => d = x
      /\ client[c].op \in {"setCert", "unlock"} => About(m, x) /\ Content(m) = client[c].value
  BY <1>3, <1>5 DEF About, Content
<1>8. Elsewhere(x) BY <1>1, <1>5, <1>7, WriteElsewhere DEF Elsewhere
<1>9. client[c].op \in {"setCert", "unlock"} => Tells(queue', applied', x, client[c].value)
  BY <1>1, <1>5, <1>7, WriteElsewhere
<1>10. client[c].alone /\ client[c].op \in {"setCert", "unlock"} => stored[x] = client[c].value
  BY <1>1, <1>4 DEF KInv, ProgressOK, Progress
<1>11. /\ KindOK(r) /\ Halfway(r)
       /\ client[c].alone => Progress(r, rows', stored', queue', applied')
  BY <1>1, <1>2, <1>4, <1>6, <1>9, <1>10 DEF KindOK, Progress, Halfway, Follows
<1> QED BY <1>1, <1>4, <1>6, <1>8, <1>11, Moves DEF Follows

LEMMA NextSettingKeeps ==
  ASSUME KInv, NEW c \in Clients, NextSetting(c)
  PROVE  KPart'
<1> DEFINE x == client[c].name
<1>0. IInv BY DEF KInv
<1>1. /\ client[c].pc = "nextSetting" /\ UNCHANGED <<rows, stored, applied, requests, trouble>>
      /\ \E op \in {"update", "allowSsh"}, name \in Items, todo \in SUBSET Settings : Request(c, op, name, todo)
  <2>1. x \in Items /\ client[c].todo \subseteq Settings BY <1>0, ClientIsOK, ClientSets
  <2> QED BY <2>1 DEF NextSetting, At, Items
<1>2. PICK op \in {"update", "allowSsh"}, name \in Items, todo \in SUBSET Settings : Request(c, op, name, todo) BY <1>1
<1>3. PICK m : /\ MessageOK(m) /\ ToldOK(m) /\ queue' = Append(queue, m) /\ m.op = op
  BY <1>2, RequestElsewhere DEF Awaited
<1>4. PICK r : Becomes(c, r) /\ r.pc = "await" /\ Follows(r, client[c])
  BY <1>0, <1>2, RequestGoes
<1>5. \A d : ~About(m, d) BY <1>3 DEF About
<1>6. /\ \A d, v : Tells(queue, applied, d, v) => Tells(queue', applied', d, v)
      /\ \A n \in DOMAIN queue' : ToldOK(queue'[n])
  BY <1>1, <1>3, <1>5, WriteElsewhere
<1>7. Elsewhere(x) BY <1>1, <1>6 DEF Elsewhere
<1>8. client[c].alone => Progress(client[c], rows, stored, queue, applied) BY DEF KInv, ProgressOK
<1>9. KindOK(client[c]) BY DEF KInv, KindsOK
<1>10. /\ KindOK(r) /\ Halfway(r)
       /\ client[c].alone => Progress(r, rows', stored', queue', applied')
  BY <1>1, <1>4, <1>6, <1>8, <1>9 DEF KindOK, Progress, Halfway, Follows
<1> QED BY <1>1, <1>4, <1>7, <1>10, Moves DEF Follows

\* A request that was answered, or gave up waiting.
LEMMA AnsweredKeeps ==
  ASSUME KInv, NEW c \in Clients, NEW ok \in BOOLEAN, Answered(c, ok), client[c].pc = "await",
         UNCHANGED <<rows, stored, applied, requests>>,
         \A d, v : Tells(queue, applied, d, v) => Tells(queue', applied', d, v),
         \A n \in DOMAIN queue' : ToldOK(queue'[n])
  PROVE  KPart'
<1> DEFINE x == client[c].name
<1>0. IInv BY DEF KInv
<1>1. Elsewhere(x) BY DEF Elsewhere
<1>2. KindOK(client[c]) /\ NamedOK(client[c]) BY DEF KInv, KindsOK, IInv, ClientsOK
<1>3. client[c].alone => Progress(client[c], rows, stored, queue, applied) BY DEF KInv, ProgressOK
<1>4. x \in Kept => x \in Certs /\ x \notin Domains /\ client[c].op \in {"setCert", "unlock"}
  BY <1>2, ConfigurationAssumption DEF KindOK, NamedOK, Kept
<1>5. x = client[c].name OBVIOUS
<1> HIDE DEF x
<1>6. x \in Kept /\ client[c].alone => Tells(queue', applied', x, InDatabase(rows', stored', x))
  BY <1>3, <1>4, <1>5 DEF Progress, InDatabase
<1>7. CASE Goes(c, "nextSetting") /\ trouble' = trouble
  <2>1. PICK r : Becomes(c, r) /\ r.pc = "nextSetting" /\ Follows(r, client[c])
    BY <1>0, <1>7, GoesTo
  <2>2. /\ KindOK(r) /\ Halfway(r)
        /\ client[c].alone => Progress(r, rows', stored', queue', applied')
    BY <1>2, <1>3, <2>1 DEF KindOK, Progress, Halfway, Follows
  <2> QED BY <1>1, <1>5, <1>7, <2>1, <2>2, Moves DEF Follows
<1>8. ASSUME NEW done \in BOOLEAN, Ends(c, done, TRUE) PROVE KPart'
  BY <1>1, <1>5, <1>6, <1>8, EndsKeeps
<1>9. (Goes(c, "nextSetting") /\ trouble' = trouble) \/ \E done \in BOOLEAN : Ends(c, done, TRUE)
  BY DEF Answered
<1> QED BY <1>7, <1>8, <1>9

LEMMA ReplyKeeps ==
  ASSUME KInv, NEW c \in Clients, TakeReply(c) \/ TimeOut(c) \/ Refresh(c)
  PROVE  KPart'
<1>0. IInv BY DEF KInv
<1>1. CASE TakeReply(c)
  <2>1. /\ Answered(c, client[c].reply = "ok") /\ client[c].pc = "await"
        /\ UNCHANGED <<rows, stored, applied, queue, requests>>
    BY <1>1 DEF TakeReply, At, server
  <2>2. \A n \in DOMAIN queue : ToldOK(queue[n]) BY DEF KInv, KindsOK
  <2>3. (client[c].reply = "ok") \in BOOLEAN OBVIOUS
  <2> QED BY <2>1, <2>2, <2>3, AnsweredKeeps
<1>2. CASE TimeOut(c)
  <2>1. /\ Answered(c, FALSE) /\ client[c].pc = "await" /\ queue' = Disowned({c})
        /\ UNCHANGED <<rows, stored, applied, requests>>
    BY <1>2 DEF TimeOut, At
  <2>2. \A d, v : Tells(queue, applied, d, v) => Tells(queue', applied', d, v)
    BY <1>0, <2>1, TellsDisowned
  <2>3. \A n \in DOMAIN queue' : ToldOK(queue'[n])
    <3>1. \A m \in Message : LET l == [m EXCEPT !.from = Nobody] IN
            l.op = m.op /\ l.name = m.name
      BY DEF Message
    <3>2. \A n \in DOMAIN queue : queue[n] \in Message /\ ToldOK(queue[n])
      BY <1>0 DEF IInv, QueueOK, MessageOK, KInv, KindsOK
    <3> QED BY <2>1, <3>1, <3>2 DEF Disowned, ToldOK
  <2> QED BY <2>1, <2>2, <2>3, AnsweredKeeps
<1>3. CASE Refresh(c)
  <2>1. /\ client[c].pc = "answered" /\ Becomes(c, Idle)
        /\ UNCHANGED <<rows, stored, applied, queue, requests, trouble>>
    BY <1>3 DEF Refresh, At, server
  <2>2. Idle.pc = "idle" /\ KindOK(Idle)
    <3>1. (CHOOSE x \in Certs : TRUE) \in Certs BY ConfigurationAssumption
    <3> QED BY <3>1 DEF Idle, KindOK
  <2>3. client'[c] = Idle /\ \A o \in Clients \ {c} : client'[o] = client[o]
    BY <1>0, <2>1 DEF IInv, ClientsOK, Becomes
  <2>4. KindsOK' BY <2>1, <2>2, <2>3 DEF KInv, KindsOK
  <2>5. AloneOK' BY <2>2, <2>3 DEF KInv, AloneOK
  <2>6. Progress(Idle, rows, stored, queue, applied) BY <2>2 DEF Progress
  <2>7. ProgressOK' BY <2>1, <2>3, <2>6 DEF KInv, ProgressOK
  <2>8. ~Halfway(client[c]) BY <2>1 DEF Halfway
  <2>9. AgreedOK' BY <2>1, <2>3, <2>8 DEF KInv, AgreedOK
  <2> QED BY <2>4, <2>5, <2>7, <2>9 DEF KPart
<1> QED BY <1>1, <1>2, <1>3

-----------------------------------------------------------------------------
(* Requests that begin, rooty, and crashes.                                *)

LEMMA AsksKeeps ==
  ASSUME KInv, NEW c \in Clients, Asks(c)
  PROVE  KPart'
<1>0. IInv BY DEF KInv
<1>1. PICK op \in Ops, name \in Items, value \in Value, step \in {"announce", "find", "send"} :
        /\ Begin(c, op, name, value, step)
        /\ op \in {"addDomain", "removeDomain"} => name \in Domains
        /\ op \in {"setCert", "removeCert", "unlock"} => name \in Certs
        /\ op \in {"generate", "destroy"} => name \in Keys
        /\ op = "setSetting" => name \in Settings
        /\ step = "announce" => op = "addDomain"
        /\ step = "send" => op = "setSetting"
  BY AsksBegins
<1>2. /\ client[c].pc = "idle" /\ requests' = requests + 1
      /\ UNCHANGED <<rows, stored, applied, queue, trouble, crashes>>
  BY <1>0, <1>1, Begins
<1>8. client'[c].pc = step /\ client'[c].op = op /\ client'[c].name = name
  BY <1>0, <1>1, Begins
<1>9. ASSUME NEW o \in Clients, o # c
      PROVE  /\ client'[o].pc = client[o].pc /\ client'[o].op = client[o].op
             /\ client'[o].name = client[o].name
             /\ client'[o].value = client[o].value /\ client'[o].found = client[o].found
             /\ client'[o].alone => client[o].alone
             /\ client[o].pc # "idle" /\ client[o].name = name => ~client'[c].alone /\ ~client'[o].alone
  <2>1. Beside(client[o], client'[o], client'[c]) BY <1>0, <1>1, <1>9, Begins
  <2>2. client[o].name \in Names(client[o]) /\ name \in Names(client'[c]) BY <1>8 DEF Names
  <2> QED BY <2>1, <2>2 DEF Beside, Meets
<1>10. KindsOK'
  <2>1. requests' # 0
    <3>1. requests \in Nat BY <1>0, ConfigurationAssumption DEF IInv, DataOK
    <3> QED BY <1>2, <3>1
  <2>2. ASSUME NEW o \in Clients PROVE KindOK(client'[o])
    <3>1. CASE o = c BY <1>1, <1>8, <3>1 DEF KindOK
    <3>2. CASE o # c BY <1>9, <3>2 DEF KInv, KindsOK, KindOK
    <3> QED BY <3>1, <3>2
  <2> QED BY <1>2, <2>1, <2>2 DEF KInv, KindsOK
<1>11. AloneOK'
  <2> SUFFICES ASSUME NEW a \in Clients, NEW o \in Clients, a # o, client'[a].alone,
                      client'[a].pc # "idle", client'[o].pc # "idle"
               PROVE  client'[a].name # client'[o].name
    BY DEF AloneOK
  <2>1. CASE a = c BY <1>8, <1>9, <2>1
  <2>2. CASE o = c BY <1>8, <1>9, <2>2
  <2>3. CASE a # c /\ o # c BY <1>9, <2>3 DEF KInv, AloneOK
  <2> QED BY <2>1, <2>2, <2>3
<1>12. ProgressOK'
  <2> SUFFICES ASSUME NEW o \in Clients, client'[o].alone
               PROVE  Progress(client'[o], rows, stored, queue, applied)
    BY <1>2 DEF ProgressOK
  <2>1. CASE o = c BY <1>1, <1>8, <2>1 DEF Progress
  <2>2. CASE o # c
    <3>1. Progress(client[o], rows, stored, queue, applied) BY <1>9, <2>2 DEF KInv, ProgressOK
    <3> QED BY <1>9, <2>2, <3>1 DEF Progress
  <2> QED BY <2>1, <2>2
<1>13. AgreedOK'
  <2>1. \A o \in Clients : o # c => client'[o].name = client[o].name /\ (Halfway(client'[o]) <=> Halfway(client[o]))
    BY <1>9 DEF Halfway
  <2>2. ~Halfway(client[c]) BY <1>2 DEF Halfway
  <2> QED BY <1>2, <2>1, <2>2 DEF KInv, AgreedOK
<1> QED BY <1>10, <1>11, <1>12, <1>13 DEF KPart

\* Rooty reads a message: what it tells goes into effect, except for the names
\* in failed, which are marked.
LEMMA ReadKeeps ==
  ASSUME KInv, NEW failed, queue # << >>, queue' = Tail(queue), UNCHANGED <<rows, stored, requests>>,
         \A d, v : d \in Kept \ failed /\ Tells(queue, applied, d, v) => Tells(queue', applied', d, v),
         trouble \cup (Kept \cap failed) \subseteq trouble',
         \A o \in Clients :
           /\ client'[o].op = client[o].op /\ client'[o].name = client[o].name
           /\ client'[o].value = client[o].value /\ client'[o].pc = client[o].pc
           /\ client'[o].found = client[o].found
           /\ client'[o].alone => client[o].alone /\ client[o].name \notin failed
  PROVE  KPart'
<1>0. IInv BY DEF KInv
<1>2. KindsOK'
  <2>1. queue \in Seq(Message) BY <1>0 DEF IInv, QueueOK
  <2>2. \A n \in DOMAIN queue' : n + 1 \in DOMAIN queue /\ queue'[n] = queue[n + 1] BY <2>1
  <2> QED BY <2>2 DEF KInv, KindsOK, KindOK
<1>3. AloneOK' BY DEF KInv, AloneOK
<1>4. ProgressOK'
  <2> SUFFICES ASSUME NEW o \in Clients, client'[o].alone
               PROVE  Progress(client'[o], rows, stored, queue', applied')
    BY DEF ProgressOK
  <2> DEFINE s == client[o]
  <2>1. Progress(s, rows, stored, queue, applied) BY DEF KInv, ProgressOK
  <2>2. NamedOK(s) /\ KindOK(s) BY DEF KInv, IInv, ClientsOK, KindsOK
  <2>3. /\ s.pc \in {"insert", "announceAgain"} => s.name \in Domains
        /\ s.op = "removeDomain" => s.name \in Domains
        /\ s.op \in {"setCert", "removeCert", "unlock"} => s.name \in Certs
    BY <2>2 DEF NamedOK, KindOK
  <2>4. s.name \notin failed OBVIOUS
  <2> HIDE DEF s
  <2>5. Progress(s, rows, stored, queue', applied') BY <2>1, <2>3, <2>4 DEF Progress, Kept
  <2> QED BY <2>5 DEF Progress, s
<1>5. AgreedOK'
  <2> SUFFICES ASSUME NEW d \in Kept \ trouble',
                      \A o \in Clients : client'[o].name = d => ~Halfway(client'[o])
               PROVE  Tells(queue', applied', d, InDatabase(rows, stored, d))
    BY DEF AgreedOK, Kept
  <2>1. d \in Kept \ trouble /\ d \notin failed OBVIOUS
  <2>2. \A o \in Clients : client[o].name = d => ~Halfway(client[o]) BY DEF Halfway
  <2>3. Tells(queue, applied, d, InDatabase(rows, stored, d)) BY <2>1, <2>2 DEF KInv, AgreedOK
  <2> QED BY <2>1, <2>3
<1> QED BY <1>2, <1>3, <1>4, <1>5 DEF KPart

LEMMA RootyKeeps ==
  ASSUME KInv, RootyApplies \/ RootyFails
  PROVE  KPart'
<1> DEFINE m == Head(queue)
<1>0. IInv BY DEF KInv
<1>1. queue # << >> /\ queue' = Tail(queue) /\ UNCHANGED <<rows, stored, requests>>
  BY DEF RootyApplies, RootyFails
<1>2. queue \in Seq(Message) BY <1>0 DEF IInv, QueueOK
<1>3. m \in Message /\ ToldOK(m)
  <2>1. 1 \in DOMAIN queue /\ m = queue[1] BY <1>1, <1>2
  <2> QED BY <1>2, <2>1 DEF KInv, KindsOK
<1>4. applied \in Applied BY <1>0 DEF IInv, DataOK
<1>5. ASSUME NEW x \in Kept, NEW v, Tells(queue, applied, x, v),
             applied' = Effect(m) \/ (applied' = applied /\ ~About(m, x))
      PROVE  Tells(queue', applied', x, v)
  <2>1. InEffect(applied', x) = IF About(m, x) THEN Content(m) ELSE InEffect(applied, x)
    BY <1>3, <1>4, <1>5, EffectIsTold
  <2>2. Tells(Tail(queue), applied', x, v) BY <1>1, <1>2, <1>5, <2>1, TellsTail
  <2> QED BY <1>1, <2>2
<1> HIDE DEF m
<1>6. {"ok", "error"} \subseteq Replies BY DEF Replies
<1>7. ASSUME NEW o \in Clients, NEW reply \in {"ok", "error"}
      PROVE  LET y == Replied(m, reply, o) IN
             /\ y \in Client /\ y.op = client[o].op /\ y.name = client[o].name
             /\ y.value = client[o].value /\ y.pc = client[o].pc
             /\ y.found = client[o].found /\ y.alone = client[o].alone
  <2>1. client[o] \in Client BY <1>0, ClientIsOK
  <2>2. LET t == [client[o] EXCEPT !.reply = reply] IN
        /\ t \in Client /\ t.op = client[o].op /\ t.name = client[o].name
        /\ t.value = client[o].value /\ t.pc = client[o].pc
        /\ t.found = client[o].found /\ t.alone = client[o].alone
    BY <1>6, <2>1, ClientSets
  <2> QED BY <2>1, <2>2 DEF Replied
<1>8. CASE RootyApplies
  <2> DEFINE failed == {}
  <2>1. /\ applied' = Effect(m) /\ trouble' = trouble
        /\ \A o \in Clients : client'[o] = Replied(m, "ok", o)
    BY <1>8 DEF RootyApplies, m
  <2>2. \A o \in Clients :
          /\ client'[o].op = client[o].op /\ client'[o].name = client[o].name
          /\ client'[o].value = client[o].value /\ client'[o].pc = client[o].pc
          /\ client'[o].found = client[o].found
          /\ client'[o].alone => client[o].alone /\ client[o].name \notin failed
    BY <1>7, <2>1
  <2>3. \A d, v : d \in Kept \ failed /\ Tells(queue, applied, d, v) => Tells(queue', applied', d, v)
    BY <1>5, <2>1
  <2>4. trouble \cup (Kept \cap failed) \subseteq trouble' BY <2>1
  <2> HIDE DEF failed
  <2> QED BY <1>1, <2>2, <2>3, <2>4, ReadKeeps
<1>9. CASE RootyFails
  <2> DEFINE y(o) == Replied(m, "error", o)
             alone(o) == y(o).alone /\ m.name \notin Names(client[o])
  <2>1. /\ applied' \in {applied, Effect(m)}
        /\ trouble' = trouble \cup ({m.name} \cap Kept)
        /\ client' = [o \in Clients |-> [y(o) EXCEPT !.alone = alone(o)]]
    BY <1>9 DEF RootyFails, m, Kept
  <2>2. \A o \in Clients : client[o].name \in Names(client[o]) BY DEF Names
  <2>3. ASSUME NEW o \in Clients
        PROVE  /\ y(o) \in Client /\ y(o).op = client[o].op /\ y(o).name = client[o].name
               /\ y(o).value = client[o].value /\ y(o).pc = client[o].pc
               /\ y(o).found = client[o].found /\ y(o).alone = client[o].alone
    BY <1>7
  <2> HIDE DEF y
  <2>4. ASSUME NEW o \in Clients
        PROVE  /\ client'[o].op = client[o].op /\ client'[o].name = client[o].name
               /\ client'[o].value = client[o].value /\ client'[o].pc = client[o].pc
               /\ client'[o].found = client[o].found
               /\ client'[o].alone => client[o].alone /\ client[o].name \notin {m.name}
    <3> HIDE DEF alone
    <3>1. LET t == [y(o) EXCEPT !.alone = alone(o)] IN
          /\ t.op = y(o).op /\ t.name = y(o).name /\ t.value = y(o).value /\ t.pc = y(o).pc
          /\ t.found = y(o).found /\ t.alone = alone(o)
      BY <2>3, ClientSets
    <3>2. client'[o] = [y(o) EXCEPT !.alone = alone(o)] BY <2>1
    <3>3. alone(o) => client[o].alone /\ client[o].name # m.name BY <2>2, <2>3 DEF alone
    <3> QED BY <2>3, <3>1, <3>2, <3>3
  <2>5. \A d, v : d \in Kept \ {m.name} /\ Tells(queue, applied, d, v) => Tells(queue', applied', d, v)
    BY <1>5, <2>1 DEF About
  <2>6. trouble \cup (Kept \cap {m.name}) \subseteq trouble' BY <2>1
  <2> QED BY <1>1, <2>4, <2>5, <2>6, ReadKeeps
<1> QED BY <1>8, <1>9

LEMMA CrashKeeps ==
  ASSUME KInv, Crash
  PROVE  KPart'
<1>0. IInv BY DEF KInv
<1>1. /\ client' = [c \in Clients |-> IF Active(c) THEN Over(client[c], FALSE) ELSE client[c]]
      /\ queue' = Disowned(Clients)
      /\ trouble' = trouble \cup {x \in Domains \cup Certs : \E c \in Clients : Active(c) /\ client[c].name = x}
      /\ UNCHANGED <<rows, stored, applied, requests>>
  BY DEF Crash
<1>2. ASSUME NEW c \in Clients
      PROVE  LET r == Over(client[c], FALSE) IN r.pc = "answered" /\ Follows(r, client[c])
  BY <1>0, ClientIsOK, ClientSets DEF Over, Follows
<1>3. ASSUME NEW c \in Clients
      PROVE  /\ client'[c].pc \in {"idle", "answered"} /\ Follows(client'[c], client[c])
             /\ client'[c].pc # "idle" => client[c].pc # "idle"
             /\ ~Active(c) => client'[c].pc = client[c].pc
  BY <1>1, <1>2 DEF Active, Follows
<1>4. KindsOK'
  <2>1. \A c \in Clients : KindOK(client'[c]) BY <1>3 DEF KInv, KindsOK, KindOK, Follows
  <2>2. \A m \in Message : LET l == [m EXCEPT !.from = Nobody] IN l.op = m.op /\ l.name = m.name
    BY DEF Message
  <2>3. \A n \in DOMAIN queue : queue[n] \in Message /\ ToldOK(queue[n])
    BY <1>0 DEF IInv, QueueOK, MessageOK, KInv, KindsOK
  <2>4. \A n \in DOMAIN queue' : ToldOK(queue'[n]) BY <1>1, <2>2, <2>3 DEF Disowned, ToldOK
  <2> QED BY <1>1, <1>3, <2>1, <2>4 DEF KInv, KindsOK
<1>5. AloneOK' BY <1>3 DEF KInv, AloneOK, Follows
<1>6. ProgressOK' BY <1>3 DEF ProgressOK, Progress
<1>7. AgreedOK'
  <2> SUFFICES ASSUME NEW d \in Kept \ trouble'
               PROVE  Tells(queue', applied', d, InDatabase(rows', stored', d))
    BY DEF AgreedOK, Kept
  <2>1. d \in Kept \ trouble /\ \A c \in Clients : client[c].name = d => ~Active(c)
    BY <1>1 DEF Kept
  <2>2. \A c \in Clients : client[c].name = d => ~Halfway(client[c]) BY <2>1 DEF Active, Halfway
  <2>3. Tells(queue, applied, d, InDatabase(rows, stored, d)) BY <2>1, <2>2 DEF KInv, AgreedOK
  <2>4. Tells(Disowned(Clients), applied, d, InDatabase(rows, stored, d))
    BY <1>0, <2>3, TellsDisowned
  <2> QED BY <1>1, <2>4
<1> QED BY <1>4, <1>5, <1>6, <1>7 DEF KPart

-----------------------------------------------------------------------------

LEMMA InitKeeps ==
  ASSUME Init
  PROVE  KInv
<1>1. IInv BY InitIsOK
<1>2. Idle.pc = "idle" /\ KindOK(Idle)
  <2>1. (CHOOSE x \in Certs : TRUE) \in Certs BY ConfigurationAssumption
  <2> QED BY <2>1 DEF Idle, KindOK
<1>3. KindsOK /\ AloneOK BY <1>2 DEF Init, KindsOK, AloneOK
<1>4. ProgressOK BY <1>2 DEF Init, ProgressOK, Progress
<1>5. AgreedOK
  <2> SUFFICES ASSUME NEW d \in Kept PROVE Tells(queue, applied, d, InDatabase(rows, stored, d))
    BY DEF AgreedOK
  <2>1. InEffect(applied, d) = InDatabase(rows, stored, d) BY DEF Init, InEffect, InDatabase, Kept
  <2>2. \A n \in DOMAIN queue : FALSE BY DEF Init
  <2> QED BY <2>1, <2>2 DEF Tells
<1> QED BY <1>1, <1>3, <1>4, <1>5 DEF KInv

LEMMA KeptInvariance == Spec => []KInv
<1>1. KInv /\ [Next]_vars => KInv'
  <2> SUFFICES ASSUME KInv, [Next]_vars PROVE KInv' OBVIOUS
  <2>1. IInv'
    <3>1. IInv BY DEF KInv
    <3> QED BY <3>1, StepKeepsTypes
  <2>2. KPart'
    <3>1. ASSUME NEW c \in Clients, Proceeds(c) PROVE KPart'
      BY <3>1, AddDomainKeeps, RemoveDomainKeeps, CertKeeps, FindKeyKeeps, SendKeeps,
         NextSettingKeeps, ReplyKeeps DEF Proceeds
    <3>2. ASSUME NEW c \in Clients, Asks(c) PROVE KPart' BY <3>2, AsksKeeps
    <3>3. CASE RootyApplies \/ RootyFails BY <3>3, RootyKeeps
    <3>4. CASE Crash BY <3>4, CrashKeeps
    <3>5. CASE UNCHANGED vars
      <4>1. UNCHANGED <<rows, stored, applied, queue, client, requests, trouble>> BY <3>5 DEF vars
      <4>2. KindsOK' BY <4>1 DEF KInv, KindsOK
      <4>3. AloneOK' BY <4>1 DEF KInv, AloneOK
      <4>4. ProgressOK' BY <4>1 DEF KInv, ProgressOK
      <4>5. AgreedOK' BY <4>1 DEF KInv, AgreedOK
      <4> QED BY <4>2, <4>3, <4>4, <4>5 DEF KPart
    <3> QED BY <3>1, <3>2, <3>3, <3>4, <3>5 DEF Next
  <2> QED BY <2>1, <2>2 DEF KInv, KPart
<1> QED BY <1>1, InitKeeps, PTL DEF Spec

\* Once nothing is under way for a domain or certificate, database and rooty
\* agree on it, unless its last request was cut short, met another for the same
\* name, or was not carried out (EmailDomainsResource, SslCertificatesResource).
THEOREM StaysInStep == Spec => []KeptInStep
<1>1. KInv => KeptInStep
  <2> SUFFICES ASSUME KInv PROVE KeptInStep OBVIOUS
  <2>1. ASSUME NEW x \in Kept, Settled(x) PROVE InEffect(applied, x) = InDatabase(rows, stored, x)
    <3>1. x \in Kept \ trouble BY <2>1 DEF Settled
    <3>2. \A c \in Clients : client[c].name = x => ~Halfway(client[c])
      BY <2>1 DEF Settled, Active, Halfway
    <3>3. Tells(queue, applied, x, InDatabase(rows, stored, x)) BY <3>1, <3>2 DEF KInv, AgreedOK
    <3>4. \A n \in DOMAIN queue : ~About(queue[n], x) BY <2>1 DEF Settled, About
    <3> QED BY <3>3, <3>4 DEF Tells
  <2>2. ASSUME NEW d \in Domains, Settled(d) PROVE (rows[d] # 0) <=> (d \in applied.domains)
    BY <2>1, <2>2 DEF Kept, InEffect, InDatabase
  <2>3. ASSUME NEW x \in Certs, Settled(x) PROVE applied.certs[x] = stored[x]
    BY <2>1, <2>3, ConfigurationAssumption DEF Kept, InEffect, InDatabase
  <2> QED BY <2>2, <2>3 DEF KeptInStep
<1> QED BY <1>1, KeptInvariance, PTL

-----------------------------------------------------------------------------
(* SuccessIsReal.                                                          *)

\* The keys and settings that a request has asked rooty for, unless it failed.
Sent(r) ==
  IF r.pc = "await" /\ r.reply = "error" /\ r.sent \in {"generate", "update"} THEN {}
  ELSE IF r.op \in {"generate", "setSetting"}
  THEN IF r.pc = "await" \/ (r.pc = "answered" /\ r.done) THEN {r.name} ELSE {}
  ELSE IF r.op = "unlock"
  THEN IF r.pc = "answered" THEN IF r.done THEN Settings ELSE {} ELSE Settings \ r.todo
  ELSE {}

\* A message that asks of its key or setting what the request wants of it.
Fits(r, m) ==
  IF r.op = "generate" THEN m.op = "generate" ELSE m.op = "update" /\ m.value = r.value

\* What the request wants of s is in effect, and no message left about s wants
\* another thing; or this holds of those that follow the one about s that c,
\* whose request it is, waits for.
Has(r, a, s) == IF r.op = "generate" THEN s \in a.keys ELSE a.settings[s] = r.value
InPlace(r, s, q, a) == Has(r, a, s) /\ \A n \in DOMAIN q : q[n].name = s => Fits(r, q[n])
Pending(c, r, s, q) ==
  /\ r.pc = "await" /\ r.reply = "none" /\ r.sent \in {"generate", "update"}
  /\ \E n \in DOMAIN q :
       /\ q[n].from = c /\ q[n].name = s
       /\ \A k \in DOMAIN q : k >= n /\ q[k].name = s => Fits(r, q[k])

\* What a request that met none that wants something else has done.
Done(c, r, rs, q, a) ==
  /\ r.op = "addDomain" /\ (r.pc = "announceAgain" \/ (r.pc = "answered" /\ r.done)) => rs[r.name] # 0
  /\ r.op = "removeDomain" /\ r.pc = "deleteRow" => rs[r.name] \in {r.found, 0}
  /\ r.op = "removeDomain" /\ r.pc = "answered" /\ r.done => rs[r.name] = 0
  /\ \A s \in Sent(r) : InPlace(r, s, q, a) \/ Pending(c, r, s, q)

\* Which message a request waits for.
SentOK(r) ==
  /\ r.pc = "await" =>
       /\ r.op = "generate" => r.sent = "generate"
       /\ r.op = "setSetting" => r.sent = "update"
       /\ r.op = "unlock" => r.sent \in {"installCert", "update", "allowSsh"}
       /\ r.op = "unlock" /\ r.sent = "allowSsh" => r.todo = {}
  /\ r.pc = "nextSetting" => r.op = "unlock"

SentsOK == \A c \in Clients : SentOK(client[c])
\* A request marked as having met none that wants something else of the same
\* names has met none.
AtOneOK ==
  \A c, o \in Clients :
    /\ c # o /\ ~client[c].opposed /\ client[c].pc # "idle" /\ client[o].pc # "idle"
    /\ Names(client[c]) \cap Names(client[o]) # {}
    => client[o].op = client[c].op /\ client[o].value = client[c].value
DoneOK ==
  \A c \in Clients : ~client[c].opposed /\ client[c].pc # "idle" =>
    Done(c, client[c], rows, queue, applied)

SPart == SentsOK /\ AtOneOK /\ DoneOK
SInv == KInv /\ SPart

-----------------------------------------------------------------------------
(* Messages that are added, disowned ones, and the last one.               *)

LEMMA SentNamed ==
  ASSUME NEW r
  PROVE  Sent(r) \subseteq Names(r) /\ r.name \in Names(r)
BY DEF Sent, Names

LEMMA OthersAppended ==
  ASSUME NEW q \in Seq(Message), NEW m \in Message, NEW s, NEW r, NEW a, NEW c,
         m.name = s => Fits(r, m)
  PROVE  /\ InPlace(r, s, q, a) => InPlace(r, s, Append(q, m), a)
         /\ Pending(c, r, s, q) => Pending(c, r, s, Append(q, m))
<1> DEFINE p == Append(q, m)
<1>1. /\ Len(q) \in Nat /\ p[Len(q) + 1] = m
      /\ \A n \in DOMAIN q : n \in DOMAIN p /\ p[n] = q[n]
      /\ \A n \in DOMAIN p : n \in DOMAIN q \/ n = Len(q) + 1
  OBVIOUS
<1> HIDE DEF p
<1>2. \A n \in DOMAIN p : p[n].name = s => (n \in DOMAIN q /\ q[n].name = s /\ p[n] = q[n]) \/ Fits(r, p[n])
  BY <1>1
<1>3. InPlace(r, s, q, a) => InPlace(r, s, p, a) BY <1>2 DEF InPlace
<1>4. Pending(c, r, s, q) => Pending(c, r, s, p) BY <1>1, <1>2 DEF Pending
<1> QED BY <1>3, <1>4 DEF p

LEMMA LastAppended ==
  ASSUME NEW q \in Seq(Message), NEW m \in Message, NEW r,
         r.pc = "await", r.reply = "none", r.sent \in {"generate", "update"}, Fits(r, m)
  PROVE  Pending(m.from, r, m.name, Append(q, m))
<1> DEFINE p == Append(q, m)
<1>1. /\ Len(q) + 1 \in DOMAIN p /\ p[Len(q) + 1] = m
      /\ \A n \in DOMAIN p : n >= Len(q) + 1 => n = Len(q) + 1
  OBVIOUS
<1> HIDE DEF p
<1>2. Pending(m.from, r, m.name, p) BY <1>1 DEF Pending
<1> QED BY <1>2 DEF p

LEMMA OthersDisowned ==
  ASSUME IInv, NEW gone \in SUBSET Clients, NEW s, NEW r, NEW a, NEW c
  PROVE  /\ InPlace(r, s, queue, a) => InPlace(r, s, Disowned(gone), a)
         /\ c \notin gone /\ Pending(c, r, s, queue) => Pending(c, r, s, Disowned(gone))
<1> DEFINE q == Disowned(gone)
<1>1. \A m \in Message : LET l == [m EXCEPT !.from = Nobody] IN l.name = m.name /\ l.value = m.value /\ l.op = m.op
  BY DEF Message
<1>2. \A n \in DOMAIN queue : queue[n] \in Message BY DEF IInv, QueueOK, MessageOK
<1>3. /\ DOMAIN q = DOMAIN queue
      /\ \A n \in DOMAIN queue : /\ q[n].name = queue[n].name /\ q[n].value = queue[n].value /\ q[n].op = queue[n].op
                                 /\ queue[n].from \notin gone => q[n] = queue[n]
  BY <1>1, <1>2 DEF Disowned
<1> HIDE DEF q
<1>4. InPlace(r, s, queue, a) => InPlace(r, s, q, a) BY <1>3 DEF InPlace, Fits
<1>5. c \notin gone /\ Pending(c, r, s, queue) => Pending(c, r, s, q) BY <1>3 DEF Pending, Fits
<1> QED BY <1>4, <1>5 DEF q

-----------------------------------------------------------------------------
(* A step of one request.                                                  *)

\* A message that a request may write: about its names, and of a key or setting
\* only what it wants.
Means(r, m) ==
  /\ m.name \in Names(r)
  /\ r.op = "generate" \/ (r.op \in {"setSetting", "unlock"} /\ m.name \in Settings) => Fits(r, m)

\* The step writes no message, and changes no row, but what the request of c
\* wants.
Minds(c) ==
  /\ \A d \in Domains \ {client[c].name} : rows'[d] = rows[d]
  /\ client[c].op = "addDomain" /\ rows[client[c].name] # 0 => rows'[client[c].name] # 0
  /\ client[c].op = "removeDomain" => rows'[client[c].name] \in {rows[client[c].name], 0}
  /\ applied' = applied
  /\ \/ queue' = queue
     \/ queue' = Disowned({c})
     \/ \E m \in Message : Means(client[c], m) /\ queue' = Append(queue, m)

LEMMA MindsOthers ==
  ASSUME SInv, NEW c \in Clients, client[c].pc # "idle", Minds(c),
         NEW o \in Clients, o # c, ~client[o].opposed, client[o].pc # "idle", NEW s \in Sent(client[o])
  PROVE  /\ InPlace(client[o], s, queue, applied) => InPlace(client[o], s, queue', applied')
         /\ Pending(o, client[o], s, queue) => Pending(o, client[o], s, queue')
<1> DEFINE r == client[o]
<1>0. IInv /\ KindOK(r) BY DEF SInv, KInv, KindsOK
<1>1. applied' = applied BY DEF Minds
<1>2. CASE queue' = queue BY <1>1, <1>2
<1>3. CASE queue' = Disowned({c})
  <2>1. {c} \in SUBSET Clients /\ o \notin {c} OBVIOUS
  <2> HIDE DEF r
  <2>2. /\ InPlace(r, s, queue, applied) => InPlace(r, s, queue', applied')
        /\ Pending(o, r, s, queue) => Pending(o, r, s, queue')
    BY <1>0, <1>1, <1>3, <2>1, OthersDisowned
  <2> QED BY <2>2 DEF r
<1>4. ASSUME NEW m \in Message, Means(client[c], m), queue' = Append(queue, m)
      PROVE  /\ InPlace(r, s, queue, applied) => InPlace(r, s, queue', applied')
             /\ Pending(o, r, s, queue) => Pending(o, r, s, queue')
  <2>1. queue \in Seq(Message) BY <1>0 DEF IInv, QueueOK
  <2>2. m.name = s => Fits(r, m)
    <3> SUFFICES ASSUME m.name = s PROVE Fits(r, m) OBVIOUS
    <3>1. s \in Names(r) \cap Names(client[c]) BY <1>4, SentNamed DEF Means
    <3>2. client[c].op = r.op /\ client[c].value = r.value BY <3>1 DEF SInv, SPart, AtOneOK
    <3>3. r.op = "generate" \/ (r.op \in {"setSetting", "unlock"} /\ s \in Settings)
      BY <1>0 DEF Sent, KindOK
    <3>4. Fits(client[c], m) BY <1>4, <3>2, <3>3 DEF Means
    <3> QED BY <3>2, <3>4 DEF Fits
  <2> HIDE DEF r
  <2> QED BY <1>1, <1>4, <2>1, <2>2, OthersAppended
<1> QED BY <1>2, <1>3, <1>4 DEF Minds

LEMMA RequestMoves ==
  ASSUME SInv, NEW c \in Clients, client[c].pc # "idle", Minds(c), NEW r, Becomes(c, r), SentOK(r),
         r.pc # "idle" => /\ Follows(r, client[c])
                          /\ ~r.opposed => Done(c, r, rows', queue', applied')
  PROVE  SPart'
<1>0. IInv BY DEF SInv, KInv
<1>1. client'[c] = r /\ \A o \in Clients \ {c} : client'[o] = client[o]
  BY <1>0 DEF IInv, ClientsOK, Becomes
<1>2. SentsOK' BY <1>1 DEF SInv, SPart, SentsOK
<1>3. AtOneOK'
  <2>1. r.pc # "idle" => /\ Names(r) = Names(client[c]) /\ r.opposed = client[c].opposed
                         /\ r.op = client[c].op /\ r.value = client[c].value
    BY DEF Names, Follows
  <2> QED BY <1>1, <2>1 DEF SInv, SPart, AtOneOK
<1>4. DoneOK'
  <2> SUFFICES ASSUME NEW o \in Clients, o # c, ~client[o].opposed, client[o].pc # "idle"
               PROVE  Done(o, client[o], rows', queue', applied')
    BY <1>1 DEF DoneOK
  <2> DEFINE y == client[o]
  <2>1. Done(o, y, rows, queue, applied) BY DEF SInv, SPart, DoneOK
  <2>2. y.name = client[c].name => client[c].op = y.op
    <3> SUFFICES ASSUME y.name = client[c].name PROVE client[c].op = y.op OBVIOUS
    <3>1. y.name \in Names(y) \cap Names(client[c]) BY DEF Names
    <3> QED BY <3>1 DEF SInv, SPart, AtOneOK
  <2>3. NamedOK(y) BY <1>0 DEF IInv, ClientsOK
  <2>4. ASSUME NEW s \in Sent(y)
        PROVE  InPlace(y, s, queue', applied') \/ Pending(o, y, s, queue')
    <3>1. InPlace(y, s, queue, applied) \/ Pending(o, y, s, queue) BY <2>1 DEF Done
    <3> QED BY <2>4, <3>1, MindsOthers
  <2>5. y.op = "addDomain" /\ rows[y.name] # 0 => rows'[y.name] # 0
    BY <2>2, <2>3 DEF NamedOK, Minds
  <2>6. y.op = "removeDomain" => rows'[y.name] \in {rows[y.name], 0}
    BY <2>2, <2>3 DEF NamedOK, Minds
  <2> HIDE DEF Sent, InPlace, Pending, y
  <2>7. Done(o, y, rows', queue', applied') BY <2>1, <2>4, <2>5, <2>6 DEF Done
  <2> QED BY <2>7 DEF y
<1> QED BY <1>2, <1>3, <1>4 DEF SPart

\* A request that goes on, or ends, before rooty was asked for anything.
LEMMA Refused ==
  ASSUME SInv, NEW c \in Clients, client[c].pc # "idle", Minds(c), NEW changed \in BOOLEAN,
         Ends(c, FALSE, changed)
  PROVE  SPart'
<1>0. IInv BY DEF SInv, KInv
<1> DEFINE r == Over(client[c], FALSE)
<1>1. r.pc = "answered" /\ ~r.done /\ Follows(r, client[c])
  BY <1>0, ClientIsOK, ClientSets DEF Over, Follows
<1>2. Becomes(c, r) BY DEF Ends
<1> HIDE DEF r
<1>3. SentOK(r) /\ Done(c, r, rows', queue', applied') BY <1>1 DEF SentOK, Done, Sent
<1> QED BY <1>1, <1>2, <1>3, RequestMoves

LEMMA Early ==
  ASSUME SInv, NEW c \in Clients, Minds(c), client[c].pc \notin {"idle", "await", "answered"},
         NEW r, Becomes(c, r), Follows(r, client[c]), r.pc \notin {"idle", "await", "nextSetting", "answered"},
         r.op = "unlock" => r.todo = client[c].todo /\ queue' = queue,
         r.op = "addDomain" /\ r.pc = "announceAgain" => rows'[r.name] # 0,
         r.op = "removeDomain" /\ r.pc = "deleteRow" => rows'[r.name] \in {r.found, 0}
  PROVE  SPart'
<1>1. SentOK(r) BY DEF SentOK
<1>2. ASSUME ~r.opposed PROVE Done(c, r, rows', queue', applied')
  <2>1. Done(c, client[c], rows, queue, applied) BY <1>2 DEF SInv, SPart, DoneOK, Follows
  <2>2. ASSUME NEW s \in Sent(r) PROVE InPlace(r, s, queue', applied')
    <3>1. r.op = "unlock" /\ s \in Settings \ r.todo BY <2>2 DEF Sent
    <3>2. s \in Sent(client[c]) BY <3>1 DEF Sent, Follows
    <3>3. InPlace(client[c], s, queue, applied) BY <2>1, <3>2 DEF Done, Pending
    <3>4. applied' = applied /\ queue' = queue BY <3>1 DEF Minds
    <3> QED BY <3>1, <3>3, <3>4 DEF InPlace, Has, Fits, Follows
  <2> QED BY <2>2 DEF Done, Follows
<1> QED BY <1>1, <1>2, RequestMoves

LEMMA EarlyGoes ==
  ASSUME SInv, NEW c \in Clients, Minds(c), client[c].pc \notin {"idle", "await", "answered"},
         NEW step, Goes(c, step), step \notin {"idle", "await", "nextSetting", "answered"},
         client[c].op = "unlock" => queue' = queue,
         client[c].op = "addDomain" /\ step = "announceAgain" => rows'[client[c].name] # 0,
         client[c].op = "removeDomain" /\ step = "deleteRow" =>
           rows'[client[c].name] \in {client[c].found, 0}
  PROVE  SPart'
<1> DEFINE r == [client[c] EXCEPT !.pc = step]
<1>1. r.pc = step /\ Follows(r, client[c]) /\ r.todo = client[c].todo /\ r.found = client[c].found
  BY ClientIsOK, ClientSets DEF Follows, SInv, KInv
<1>2. Becomes(c, r) BY DEF Goes
<1> HIDE DEF r
<1>3. r.op = "unlock" => client[c].op = "unlock" BY <1>1 DEF Follows
<1>4. r.op = client[c].op /\ r.name = client[c].name BY <1>1 DEF Follows
<1> QED BY <1>1, <1>2, <1>3, <1>4, Early

\* A message without content that a request writes of its name.
LEMMA WriteMinds ==
  ASSUME SInv, NEW c \in Clients, NEW op \in {"newDomain", "removeDomain", "removeCert"},
         client[c].op \in {"addDomain", "removeDomain", "removeCert"},
         Write(op, client[c].name), UNCHANGED <<rows, applied>>
  PROVE  Minds(c)
<1> DEFINE m == Msg(op, client[c].name, None, Nobody)
<1>1. client[c].name \in Items BY ClientIsOK, ClientSets DEF SInv, KInv
<1>2. m \in Message /\ m.name = client[c].name BY <1>1 DEF Msg, Message, Value
<1>3. queue' = Append(queue, m) BY DEF Write
<1> HIDE DEF m
<1>4. Means(client[c], m) BY <1>2, SentNamed DEF Means
<1> QED BY <1>2, <1>3, <1>4 DEF Minds

LEMMA DomainsDone ==
  ASSUME SInv, NEW c \in Clients,
         \/ Announce(c) \/ Insert(c) \/ InsertFails(c) \/ AnnounceAgain(c)
         \/ FindDomain(c) \/ Withdraw(c) \/ FindAgain(c) \/ DeleteRow(c) \/ DeleteFails(c)
  PROVE  SPart'
<1> DEFINE x == client[c].name
<1>0. IInv /\ KInv /\ NamedOK(client[c]) /\ KindOK(client[c])
  BY DEF SInv, KInv, IInv, ClientsOK, KindsOK
<1>1. rows \in [Domains -> 0 .. MaxRequests] BY <1>0 DEF IInv, DataOK
<1>2. UNCHANGED <<rows, applied, queue>> => Minds(c) BY DEF Minds
<1>3. ASSUME NEW ok \in BOOLEAN, Ends(c, ok, TRUE), client[c].op \in {"addDomain", "removeDomain"},
             client[c].pc # "idle", Minds(c),
             ok /\ ~client[c].opposed /\ client[c].op = "addDomain" => rows'[x] # 0,
             ok /\ ~client[c].opposed /\ client[c].op = "removeDomain" => rows'[x] = 0
      PROVE  SPart'
  <2> DEFINE r == Over(client[c], ok)
  <2>1. r.pc = "answered" /\ r.done = ok /\ Follows(r, client[c])
    BY <1>0, ClientIsOK, ClientSets DEF Over, Follows
  <2>2. Becomes(c, r) BY <1>3 DEF Ends
  <2> HIDE DEF r
  <2>3. SentOK(r) BY <2>1 DEF SentOK
  <2>4. ~r.opposed => Done(c, r, rows', queue', applied') BY <1>3, <2>1 DEF Done, Sent, Follows
  <2> QED BY <1>3, <2>1, <2>2, <2>3, <2>4, RequestMoves
<1>4. CASE Announce(c)
  <2>2. client[c].op = "addDomain" BY <1>0, <1>4 DEF NamedOK, Announce, At
  <2>1. Minds(c) BY <1>4, <2>2, WriteMinds DEF Announce
  <2> QED BY <1>4, <2>1, <2>2, EarlyGoes DEF Announce, At
<1>5. CASE Insert(c)
  <2>0. x \in Domains /\ client[c].op = "addDomain" BY <1>0, <1>5 DEF NamedOK, Insert, At
  <2>2. requests # 0 /\ requests \in Nat
    BY <1>0, <1>5, ConfigurationAssumption DEF KInv, KindsOK, Insert, At, IInv, DataOK
  <2>3. rows' = [rows EXCEPT ![x] = requests] /\ UNCHANGED <<applied, queue>> BY <1>5 DEF Insert
  <2>4. rows'[x] # 0 /\ \A d \in Domains \ {x} : rows'[d] = rows[d] BY <1>1, <2>0, <2>2, <2>3
  <2>1. Minds(c) BY <2>0, <2>3, <2>4 DEF Minds
  <2> QED BY <1>5, <2>0, <2>1, <2>4, EarlyGoes DEF Insert, At
<1>6. CASE InsertFails(c) BY <1>2, <1>6, Refused DEF InsertFails, At, server
<1>7. CASE AnnounceAgain(c)
  <2>2. client[c].op = "addDomain" /\ client[c].pc = "announceAgain" BY <1>0, <1>7 DEF NamedOK, AnnounceAgain, At
  <2>1. Minds(c) BY <1>7, <2>2, WriteMinds DEF AnnounceAgain
  <2>3. ~client[c].opposed => rows[x] # 0 BY <2>2 DEF SInv, SPart, DoneOK, Done
  <2>4. rows' = rows BY <1>7 DEF AnnounceAgain
  <2> HIDE DEF x
  <2> QED BY <1>3, <1>7, <2>1, <2>2, <2>3, <2>4 DEF AnnounceAgain
<1>8. CASE FindDomain(c)
  <2>1. Minds(c) /\ client[c].pc = "find" /\ client[c].op = "removeDomain"
    BY <1>2, <1>8 DEF FindDomain, At, Is, server
  <2>2. CASE Ends(c, FALSE, FALSE) BY <2>1, <2>2, Refused
  <2>3. CASE ~Ends(c, FALSE, FALSE)
    <3> DEFINE r == [client[c] EXCEPT !.pc = "withdraw", !.found = rows[client[c].name]]
    <3>1. Becomes(c, r) BY <1>8, <2>3 DEF FindDomain
    <3>2. r.pc = "withdraw" /\ Follows(r, client[c]) BY <1>0, ClientIsOK, ClientSets DEF Follows
    <3> HIDE DEF r
    <3>3. r.op # "unlock" BY <2>1, <3>2 DEF Follows
    <3> QED BY <2>1, <3>1, <3>2, <3>3, Early
  <2> QED BY <2>2, <2>3
<1>9. CASE Withdraw(c)
  <2>1. Minds(c) BY <1>9, WriteMinds DEF Withdraw, Is
  <2> QED BY <1>9, <2>1, EarlyGoes DEF Withdraw, At, Is
<1>10. CASE FindAgain(c)
  <2>1. client[c].pc = "findAgain" /\ client[c].op = "removeDomain" BY <1>0, <1>10 DEF KindOK, FindAgain, At
  <2>2. CASE rows[client[c].name] = client[c].found
    <3>1. Minds(c) BY <1>10, <2>1, <2>2, WriteMinds DEF FindAgain
    <3>2. rows' = rows BY <1>10 DEF FindAgain
    <3> QED BY <1>10, <2>1, <2>2, <3>1, <3>2, EarlyGoes DEF FindAgain
  <2>3. CASE rows[client[c].name] # client[c].found
    BY <1>2, <1>10, <2>1, <2>3, Refused DEF FindAgain
  <2> QED BY <2>2, <2>3
<1>11. CASE DeleteRow(c)
  <2>1. client[c].pc = "deleteRow" /\ client[c].op = "removeDomain" /\ x \in Domains
    BY <1>0, <1>11 DEF NamedOK, DeleteRow, At, Is
  <2>2. ~client[c].opposed => rows[x] \in {client[c].found, 0}
    BY <2>1 DEF SInv, SPart, DoneOK, Done
  <2>3. /\ rows' = [rows EXCEPT ![x] = IF rows[x] = client[c].found THEN 0 ELSE rows[x]]
        /\ UNCHANGED <<applied, queue>> /\ Ends(c, TRUE, TRUE)
    BY <1>11 DEF DeleteRow
  <2>4. /\ rows'[x] = IF rows[x] = client[c].found THEN 0 ELSE rows[x]
        /\ \A d \in Domains \ {x} : rows'[d] = rows[d]
    BY <1>1, <2>1, <2>3
  <2>5. Minds(c) BY <2>1, <2>3, <2>4 DEF Minds
  <2>6. ~client[c].opposed => rows'[x] = 0 BY <2>2, <2>4
  <2> HIDE DEF x
  <2> QED BY <1>3, <2>1, <2>3, <2>5, <2>6
<1>12. CASE DeleteFails(c) BY <1>2, <1>12, Refused DEF DeleteFails, At, server
<1> QED BY <1>4, <1>5, <1>6, <1>7, <1>8, <1>9, <1>10, <1>11, <1>12

LEMMA CertsDone ==
  ASSUME SInv, NEW c \in Clients,
         \/ FindCert(c) \/ StoreCert(c) \/ StoreFails(c) \/ FindKey(c)
         \/ FindCertToRemove(c) \/ WithdrawCert(c) \/ DeleteCert(c)
  PROVE  SPart'
<1>0. IInv BY DEF SInv, KInv
<1>1. UNCHANGED <<rows, applied, queue>> => Minds(c) BY DEF Minds
<1>2. CASE FindCert(c)
  <2>1. Minds(c) /\ client[c].pc = "find" /\ queue' = queue BY <1>1, <1>2 DEF FindCert, At, server
  <2>2. CASE Ends(c, FALSE, FALSE) BY <2>1, <2>2, Refused
  <2>3. CASE ~Ends(c, FALSE, FALSE)
    <3> DEFINE r == [client[c] EXCEPT !.pc = "store",
                       !.found = IF stored[client[c].name] = None THEN 0 ELSE 1]
    <3>1. Becomes(c, r) BY <1>2, <2>3 DEF FindCert
    <3>2. r.pc = "store" /\ Follows(r, client[c]) /\ r.todo = client[c].todo
      BY <1>0, ClientIsOK, ClientSets DEF Follows
    <3> HIDE DEF r
    <3> QED BY <2>1, <3>1, <3>2, Early
  <2> QED BY <2>2, <2>3
<1>3. CASE StoreCert(c)
  <2>1. Minds(c) /\ client[c].pc = "store" /\ Goes(c, "send") /\ queue' = queue
    BY <1>1, <1>3 DEF StoreCert, At
  <2> QED BY <2>1, EarlyGoes
<1>4. CASE StoreFails(c) BY <1>1, <1>4, Refused DEF StoreFails, At, server
<1>5. CASE FindKey(c) \/ FindCertToRemove(c)
  <2>1. /\ Minds(c) /\ client[c].pc = "find" /\ queue' = queue
        /\ Ends(c, FALSE, FALSE) \/ \E step \in {"send", "withdraw"} : Goes(c, step)
    BY <1>1, <1>5 DEF FindKey, FindCertToRemove, At, server
  <2>2. CASE Ends(c, FALSE, FALSE) BY <2>1, <2>2, Refused
  <2>3. ASSUME NEW step \in {"send", "withdraw"}, Goes(c, step) PROVE SPart'
    BY <2>1, <2>3, EarlyGoes
  <2> QED BY <2>1, <2>2, <2>3
<1>6. CASE WithdrawCert(c)
  <2>1. Minds(c) BY <1>6, WriteMinds DEF WithdrawCert, Is
  <2> QED BY <1>6, <2>1, EarlyGoes DEF WithdrawCert, At, Is
<1>7. CASE DeleteCert(c)
  <2> DEFINE r == Over(client[c], TRUE)
  <2>1. r.pc = "answered" /\ Follows(r, client[c])
    BY <1>0, ClientIsOK, ClientSets DEF Over, Follows
  <2>2. Becomes(c, r) /\ client[c].pc = "deleteRow" /\ client[c].op = "removeCert" /\ Minds(c)
    BY <1>1, <1>7 DEF Ends, DeleteCert, At, Is
  <2> HIDE DEF r
  <2>3. SentOK(r) /\ Done(c, r, rows', queue', applied')
    BY <2>1, <2>2 DEF SentOK, Done, Sent, Follows
  <2> QED BY <2>1, <2>2, <2>3, RequestMoves
<1> QED BY <1>2, <1>3, <1>4, <1>5, <1>6, <1>7

-----------------------------------------------------------------------------
(* Requests to rooty, and their answers.                                   *)

LEMMA RequestFields ==
  ASSUME SInv, NEW c \in Clients, NEW op \in Awaited, NEW name \in Items, NEW todo,
         Request(c, op, name, todo), name \in Names(client[c]), UNCHANGED <<rows, applied>>,
         client[c].op = "generate" => op = "generate",
         client[c].op \in {"setSetting", "unlock"} /\ name \in Settings => op = "update"
  PROVE  /\ Minds(c) /\ queue \in Seq(Message)
         /\ \E r, m : /\ Becomes(c, r) /\ r.pc = "await" /\ Follows(r, client[c]) /\ r.sent = op
                      /\ r.reply = "none" /\ r.todo = todo
                      /\ m \in Message /\ queue' = Append(queue, m) /\ m.name = name /\ m.op = op
                      /\ m.value = r.value /\ m.from = c
<1> DEFINE r == [client[c] EXCEPT !.pc = "await", !.sent = op, !.reply = "none", !.todo = todo]
           m == Msg(op, name, client[c].value, c)
<1>1. client[c] \in Client /\ client[c].value \in Value BY ClientIsOK, ClientSets DEF SInv, KInv
<1>2. /\ r.pc = "await" /\ Follows(r, client[c]) /\ r.sent = op /\ r.reply = "none" /\ r.todo = todo
  BY <1>1, ClientSets DEF Follows
<1>3. m \in Message /\ m.name = name /\ m.op = op /\ m.value = client[c].value /\ m.from = c
  BY <1>1 DEF Msg, Message, Awaited
<1>4. Becomes(c, r) /\ queue' = Append(queue, m) BY DEF Request
<1> HIDE DEF r, m
<1>5. Means(client[c], m) BY <1>3 DEF Means, Fits
<1>6. Minds(c) BY <1>3, <1>4, <1>5 DEF Minds
<1>7. queue \in Seq(Message) BY DEF SInv, KInv, IInv, QueueOK
<1> QED BY <1>2, <1>3, <1>4, <1>6, <1>7 DEF Follows

LEMMA SendDone ==
  ASSUME SInv, NEW c \in Clients, Send(c)
  PROVE  SPart'
<1> DEFINE op == IF Is(c, {"setCert", "unlock"}) THEN "installCert"
                 ELSE IF Is(c, {"setSetting"}) THEN "update" ELSE client[c].op
<1>0. IInv /\ NamedOK(client[c]) /\ KindOK(client[c])
  BY DEF SInv, KInv, IInv, ClientsOK, KindsOK
<1>1. /\ client[c].pc = "send" /\ Request(c, op, client[c].name, client[c].todo)
      /\ UNCHANGED <<rows, applied>>
  BY DEF Send, At
<1>2. client[c].op \in {"setCert", "unlock", "setSetting", "generate", "destroy"}
  BY <1>0, <1>1 DEF NamedOK
<1>3. /\ op \in Awaited
      /\ client[c].op \in {"generate", "destroy"} => op = client[c].op
      /\ client[c].op = "setSetting" => op = "update"
      /\ client[c].op = "unlock" => op = "installCert"
  BY <1>2 DEF Is, Awaited
<1> HIDE DEF op
<1>4. client[c].name \in Items BY <1>0, ClientIsOK, ClientSets
<1>10. client[c].op \in {"setSetting", "unlock"} /\ client[c].name \in Settings => op = "update"
  BY <1>0, <1>3, ConfigurationAssumption DEF KindOK
<1>5. client[c].name \in Names(client[c]) BY SentNamed
<1>6. Minds(c) /\ queue \in Seq(Message) BY <1>1, <1>3, <1>4, <1>5, <1>10, RequestFields
<1>7. PICK r, m : /\ Becomes(c, r) /\ r.pc = "await" /\ Follows(r, client[c]) /\ r.sent = op
                  /\ r.reply = "none" /\ r.todo = client[c].todo
                  /\ m \in Message /\ queue' = Append(queue, m) /\ m.name = client[c].name /\ m.op = op
                  /\ m.value = r.value /\ m.from = c
  BY <1>1, <1>3, <1>4, <1>5, <1>10, RequestFields
<1>8. SentOK(r) BY <1>3, <1>7 DEF SentOK, Follows
<1>9. ASSUME ~r.opposed PROVE Done(c, r, rows', queue', applied')
  <2>1. Done(c, client[c], rows, queue, applied) BY <1>1, <1>7, <1>9 DEF SInv, SPart, DoneOK, Follows
  <2>2. ASSUME NEW s \in Sent(r) PROVE InPlace(r, s, queue', applied') \/ Pending(c, r, s, queue')
    <3>1. CASE r.op \in {"generate", "setSetting"}
      <4>1. s = m.name BY <1>7, <2>2, <3>1 DEF Sent, Follows
      <4>2. r.sent \in {"generate", "update"} BY <1>3, <1>7, <3>1 DEF Follows
      <4>3. Fits(r, m) BY <1>3, <1>7, <3>1 DEF Fits, Follows
      <4> QED BY <1>6, <1>7, <4>1, <4>2, <4>3, LastAppended
    <3>2. CASE r.op = "unlock"
      <4>1. s \in Settings \ client[c].todo BY <1>7, <2>2, <3>2 DEF Sent
      <4>2. s \in Sent(client[c]) BY <1>1, <1>7, <3>2, <4>1 DEF Sent, Follows
      <4>3. InPlace(client[c], s, queue, applied) BY <1>1, <2>1, <4>2 DEF Done, Pending
      <4>4. client[c].name \in Certs BY <1>0, <1>7, <3>2 DEF KindOK, Follows
      <4>5. m.name # s BY <1>7, <4>1, <4>4, ConfigurationAssumption
      <4>6. InPlace(client[c], s, queue', applied') BY <1>1, <1>6, <1>7, <4>3, <4>5, OthersAppended
      <4> QED BY <1>7, <4>6 DEF InPlace, Has, Fits, Follows
    <3> QED BY <2>2, <3>1, <3>2 DEF Sent
  <2> QED BY <1>7, <2>2 DEF Done
<1> QED BY <1>1, <1>6, <1>7, <1>8, <1>9, RequestMoves

LEMMA NextSettingDone ==
  ASSUME SInv, NEW c \in Clients, NextSetting(c)
  PROVE  SPart'
<1>0. IInv /\ SentOK(client[c]) /\ KindOK(client[c])
  BY DEF SInv, SPart, SentsOK, KInv, KindsOK
<1>1. client[c].pc = "nextSetting" /\ client[c].op = "unlock" /\ UNCHANGED <<rows, applied>>
  BY <1>0 DEF NextSetting, At, SentOK
<1>2. client[c].name \in Certs /\ client[c].name \in Items /\ client[c].todo \subseteq Settings
  BY <1>0, <1>1, ClientIsOK, ClientSets DEF KindOK
<1>3. Settings \cap Certs = {} BY ConfigurationAssumption
<1>4. PICK op \in {"update", "allowSsh"}, name \in Items, todo \in SUBSET Settings :
        /\ Request(c, op, name, todo)
        /\ op = "allowSsh" => name \in Certs /\ client[c].todo = {} /\ todo = {}
        /\ op = "update" => name \in client[c].todo /\ todo = client[c].todo \ {name}
        /\ name \in Names(client[c])
  <2>1. CASE client[c].todo = {}
    <3>1. {} \in SUBSET Settings OBVIOUS
    <3> QED BY <1>2, <2>1, <3>1, SentNamed DEF NextSetting
  <2>2. CASE client[c].todo # {}
    <3>1. PICK s \in client[c].todo : Request(c, "update", s, client[c].todo \ {s})
      BY <2>2 DEF NextSetting
    <3>2. s \in Items /\ s \in Names(client[c]) /\ client[c].todo \ {s} \in SUBSET Settings
      BY <1>1, <1>2 DEF Items, Names
    <3> QED BY <3>1, <3>2
  <2> QED BY <2>1, <2>2
<1>5. op \in Awaited BY DEF Awaited
<1>10. name \in Settings => op = "update" BY <1>3, <1>4
<1>6. Minds(c) /\ queue \in Seq(Message) BY <1>1, <1>4, <1>5, <1>10, RequestFields
<1>7. PICK r, m : /\ Becomes(c, r) /\ r.pc = "await" /\ Follows(r, client[c]) /\ r.sent = op
                  /\ r.reply = "none" /\ r.todo = todo
                  /\ m \in Message /\ queue' = Append(queue, m) /\ m.name = name /\ m.op = op
                  /\ m.value = r.value /\ m.from = c
  BY <1>1, <1>4, <1>5, <1>10, RequestFields
<1>8. SentOK(r) /\ r.op = "unlock" BY <1>1, <1>4, <1>7 DEF SentOK, Follows
<1>9. ASSUME ~r.opposed PROVE Done(c, r, rows', queue', applied')
  <2>1. Done(c, client[c], rows, queue, applied) BY <1>1, <1>7, <1>9 DEF SInv, SPart, DoneOK, Follows
  <2>2. ASSUME NEW s \in Sent(r) PROVE InPlace(r, s, queue', applied') \/ Pending(c, r, s, queue')
    <3>1. s \in Settings \ todo BY <1>7, <1>8, <2>2 DEF Sent
    <3>2. CASE s = name
      <4>1. op = "update" BY <1>3, <1>4, <3>1, <3>2
      <4>2. Fits(r, m) BY <1>7, <1>8, <4>1 DEF Fits
      <4> QED BY <1>6, <1>7, <3>2, <4>1, <4>2, LastAppended
    <3>3. CASE s # name
      <4>1. s \in Sent(client[c]) BY <1>1, <1>4, <3>1, <3>3 DEF Sent
      <4>2. InPlace(client[c], s, queue, applied) BY <1>1, <2>1, <4>1 DEF Done, Pending
      <4>3. InPlace(client[c], s, queue', applied')
        BY <1>1, <1>6, <1>7, <3>3, <4>2, OthersAppended
      <4> QED BY <1>7, <4>3 DEF InPlace, Has, Fits, Follows
    <3> QED BY <3>2, <3>3
  <2> QED BY <1>7, <1>8, <2>2 DEF Done
<1> QED BY <1>1, <1>6, <1>7, <1>8, <1>9, RequestMoves

\* A request that was answered, or gave up waiting: only what rooty is said to
\* have done is taken for done.
LEMMA AnsweredDone ==
  ASSUME SInv, NEW c \in Clients, NEW ok \in BOOLEAN, Answered(c, ok), client[c].pc = "await",
         Minds(c), ok => client[c].reply = "ok", queue' = queue \/ queue' = Disowned({c})
  PROVE  SPart'
<1> DEFINE accepted == ok \/ client[c].sent \in {"installCert", "destroy"}
<1>0. IInv /\ SentOK(client[c]) /\ KindOK(client[c])
  BY DEF SInv, SPart, SentsOK, KInv, KindsOK
<1>1. client[c].op \in {"setCert", "unlock", "setSetting", "generate", "destroy"}
  BY <1>0 DEF KindOK
<1>2. ASSUME ~client[c].opposed, accepted, NEW s \in Sent(client[c])
      PROVE  InPlace(client[c], s, queue', applied')
  <2>1. Done(c, client[c], rows, queue, applied) BY <1>2 DEF SInv, SPart, DoneOK
  <2>2. ~Pending(c, client[c], s, queue) BY <1>2 DEF Pending
  <2>3. InPlace(client[c], s, queue, applied) BY <2>1, <2>2 DEF Done
  <2>4. applied' = applied BY DEF Minds
  <2>5. {c} \in SUBSET Clients OBVIOUS
  <2> QED BY <1>0, <2>3, <2>4, <2>5, OthersDisowned
<1>3. CASE accepted /\ Is(c, {"unlock"}) /\ client[c].sent # "allowSsh"
  <2> DEFINE r == [client[c] EXCEPT !.pc = "nextSetting"]
  <2>1. r.pc = "nextSetting" /\ Follows(r, client[c]) /\ r.todo = client[c].todo
    BY <1>0, ClientIsOK, ClientSets DEF Follows
  <2>2. Becomes(c, r) /\ client[c].op = "unlock" BY <1>3 DEF Answered, Goes, Is
  <2> HIDE DEF r
  <2>3. SentOK(r) /\ r.op = "unlock" BY <2>1, <2>2 DEF SentOK, Follows
  <2>4. Sent(r) = Sent(client[c]) BY <1>3, <2>1, <2>2, <2>3 DEF Sent
  <2>5. ASSUME ~r.opposed PROVE Done(c, r, rows', queue', applied')
    <3>1. \A s \in Sent(r) : InPlace(client[c], s, queue', applied') BY <1>2, <1>3, <2>1, <2>4, <2>5 DEF Follows
    <3> QED BY <2>1, <2>3, <3>1 DEF Done, InPlace, Has, Fits, Follows
  <2> QED BY <2>1, <2>2, <2>3, <2>5, RequestMoves
<1>4. CASE ~(accepted /\ Is(c, {"unlock"}) /\ client[c].sent # "allowSsh")
  <2> DEFINE r == Over(client[c], accepted)
  <2>0. Ends(c, accepted, TRUE) BY <1>4 DEF Answered
  <2>1. r.pc = "answered" /\ Follows(r, client[c]) /\ r.done = accepted
    BY <1>0, ClientIsOK, ClientSets DEF Over, Follows
  <2>2. Becomes(c, r) BY <2>0 DEF Ends
  <2> HIDE DEF r
  <2>3. SentOK(r) BY <2>1 DEF SentOK
  <2>4. ASSUME accepted PROVE Sent(r) \subseteq Sent(client[c])
    <3>1. client[c].op = "unlock" => client[c].todo = {}
      BY <1>0, <1>4, <2>4 DEF SentOK, Is
    <3> QED BY <2>1, <2>4, <3>1 DEF Sent, Follows
  <2>5. ASSUME ~r.opposed PROVE Done(c, r, rows', queue', applied')
    <3>1. ASSUME NEW s \in Sent(r) PROVE InPlace(r, s, queue', applied')
      <4>1. accepted BY <2>1, <3>1 DEF Sent
      <4>2. InPlace(client[c], s, queue', applied') BY <1>2, <2>1, <2>4, <2>5, <3>1, <4>1 DEF Follows
      <4> QED BY <2>1, <4>2 DEF InPlace, Has, Fits, Follows
    <3> QED BY <1>1, <2>1, <3>1 DEF Done, Follows
  <2> QED BY <2>1, <2>2, <2>3, <2>5, RequestMoves
<1> QED BY <1>3, <1>4

LEMMA ReplyDone ==
  ASSUME SInv, NEW c \in Clients, TakeReply(c) \/ TimeOut(c) \/ Refresh(c)
  PROVE  SPart'
<1>1. CASE TakeReply(c)
  <2>1. (client[c].reply = "ok") \in BOOLEAN OBVIOUS
  <2>2. Minds(c) /\ queue' = queue BY <1>1 DEF TakeReply, server, Minds
  <2> QED BY <1>1, <2>1, <2>2, AnsweredDone DEF TakeReply, At
<1>2. CASE TimeOut(c)
  <2>1. Minds(c) /\ queue' = Disowned({c}) BY <1>2 DEF TimeOut, Minds
  <2> QED BY <1>2, <2>1, AnsweredDone DEF TimeOut, At
<1>3. CASE Refresh(c)
  <2>1. Minds(c) /\ client[c].pc = "answered" /\ Becomes(c, Idle) BY <1>3 DEF Refresh, At, server, Minds
  <2>2. Idle.pc = "idle" /\ SentOK(Idle) BY DEF Idle, SentOK
  <2> QED BY <2>1, <2>2, RequestMoves
<1> QED BY <1>1, <1>2, <1>3

-----------------------------------------------------------------------------
(* Requests that begin, rooty, and crashes.                                *)

LEMMA AsksDone ==
  ASSUME SInv, NEW c \in Clients, Asks(c)
  PROVE  SPart'
<1>0. IInv BY DEF SInv, KInv
<1>1. PICK op \in Ops, name \in Items, value \in Value, step \in {"announce", "find", "send"} :
        Begin(c, op, name, value, step)
  BY AsksBegins
<1>2. UNCHANGED <<rows, applied, queue>> BY <1>0, <1>1, Begins
<1>3. /\ client'[c].pc = step /\ client'[c].op = op /\ client'[c].value = value
      /\ client'[c].todo = IF op = "unlock" THEN Settings ELSE {}
  BY <1>0, <1>1, Begins
<1>4. ASSUME NEW o \in Clients, o # c
      PROVE  Beside(client[o], client'[o], client'[c])
  BY <1>0, <1>1, <1>4, Begins
<1>5. SentsOK'
  <2> SUFFICES ASSUME NEW o \in Clients PROVE SentOK(client'[o]) BY DEF SentsOK
  <2>1. CASE o = c BY <1>3, <2>1 DEF SentOK
  <2>2. CASE o # c BY <1>4, <2>2 DEF Beside, SInv, SPart, SentsOK, SentOK
  <2> QED BY <2>1, <2>2
<1>6. \A o \in Clients : o # c => Names(client'[o]) = Names(client[o]) BY <1>4 DEF Beside, Names
<1>7. AtOneOK'
  <2> SUFFICES ASSUME NEW a \in Clients, NEW o \in Clients, a # o, ~client'[a].opposed,
                      client'[a].pc # "idle", client'[o].pc # "idle",
                      Names(client'[a]) \cap Names(client'[o]) # {}
               PROVE  client'[o].op = client'[a].op /\ client'[o].value = client'[a].value
    BY DEF AtOneOK
  <2>1. CASE a = c
    <3>1. Names(client[o]) \cap Names(client'[c]) # {} BY <1>6, <2>1
    <3> QED BY <1>4, <2>1, <3>1 DEF Beside, Meets, Agrees
  <2>2. CASE o = c
    <3>1. Names(client[a]) \cap Names(client'[c]) # {} BY <1>6, <2>2
    <3> QED BY <1>4, <2>2, <3>1 DEF Beside, Meets, Agrees
  <2>3. CASE a # c /\ o # c
    <3>1. ~client[a].opposed /\ client[a].pc # "idle" /\ client[o].pc # "idle"
      BY <1>4, <2>3 DEF Beside
    <3>2. Names(client[a]) \cap Names(client[o]) # {} BY <1>6, <2>3
    <3>3. client[o].op = client[a].op /\ client[o].value = client[a].value
      BY <3>1, <3>2 DEF SInv, SPart, AtOneOK
    <3> QED BY <1>4, <2>3, <3>3 DEF Beside
  <2> QED BY <2>1, <2>2, <2>3
<1>8. DoneOK'
  <2> SUFFICES ASSUME NEW o \in Clients, ~client'[o].opposed, client'[o].pc # "idle"
               PROVE  Done(o, client'[o], rows, queue, applied)
    BY <1>2 DEF DoneOK
  <2>1. CASE o = c BY <1>3, <2>1 DEF Done, Sent
  <2>2. CASE o # c
    <3> DEFINE x == client[o]
               y == client'[o]
    <3>1. /\ y.pc = x.pc /\ y.op = x.op /\ y.name = x.name /\ y.value = x.value /\ y.found = x.found
          /\ y.todo = x.todo /\ y.sent = x.sent /\ y.reply = x.reply /\ y.done = x.done
      BY <1>4, <2>2 DEF Beside
    <3>2. Done(o, x, rows, queue, applied) BY <1>4, <2>2 DEF Beside, SInv, SPart, DoneOK
    <3> HIDE DEF x, y
    <3>3. Sent(y) = Sent(x) BY <3>1 DEF Sent
    <3>4. ASSUME NEW s \in Sent(y)
          PROVE  InPlace(y, s, queue, applied) \/ Pending(o, y, s, queue)
      <4>1. InPlace(x, s, queue, applied) \/ Pending(o, x, s, queue) BY <3>2, <3>3 DEF Done
      <4> QED BY <3>1, <4>1 DEF InPlace, Pending, Has, Fits
    <3>5. Done(o, y, rows, queue, applied) BY <3>1, <3>2, <3>4 DEF Done
    <3> QED BY <3>5 DEF y
  <2> QED BY <2>1, <2>2
<1> QED BY <1>5, <1>7, <1>8 DEF SPart

LEMMA EffectElsewhere ==
  ASSUME applied \in Applied, NEW m \in Message, NEW s, s # m.name, NEW r,
         r.op # "generate" => s \in Settings
  PROVE  Has(r, Effect(m), s) <=> Has(r, applied, s)
<1>1. applied.settings \in [Settings -> Value] BY DEF Applied
<1>2. /\ s \in Effect(m).keys <=> s \in applied.keys
      /\ Effect(m).settings = applied.settings \/ Effect(m).settings = [applied.settings EXCEPT ![m.name] = m.value]
  BY DEF Effect, Applied, Message
<1>3. s \in Settings => Effect(m).settings[s] = applied.settings[s] BY <1>1, <1>2
<1> QED BY <1>2, <1>3 DEF Has

\* A message that fits leaves what the request wants of s in effect, whether
\* rooty fails or not, and puts it into effect when it does not.
LEMMA EffectFits ==
  ASSUME applied \in Applied, NEW m \in Message, NEW r, Fits(r, m),
         r.op # "generate" => m.name \in Settings
  PROVE  Has(r, Effect(m), m.name)
<1>1. CASE r.op = "generate"
  <2>1. m.op = "generate" BY <1>1 DEF Fits
  <2>2. Effect(m).keys = applied.keys \cup {m.name} BY <2>1 DEF Effect, Applied
  <2> QED BY <1>1, <2>2 DEF Has
<1>2. CASE r.op # "generate"
  <2>1. m.op = "update" /\ m.value = r.value BY <1>2 DEF Fits
  <2>2. applied.settings \in [Settings -> Value] BY DEF Applied
  <2>3. Effect(m).settings = [applied.settings EXCEPT ![m.name] = m.value]
    BY <2>1 DEF Effect, Applied
  <2> QED BY <1>2, <2>1, <2>2, <2>3 DEF Has
<1> QED BY <1>1, <1>2

\* Rooty reads a message, and carries it out if it says so.
LEMMA ReadDone ==
  ASSUME SInv, NEW m, queue # << >>, m = Head(queue), queue' = Tail(queue), rows' = rows,
         applied' \in {applied, Effect(m)}, NEW reply \in {"ok", "error"},
         reply = "ok" => applied' = Effect(m),
         \A o \in Clients :
           /\ client'[o].op = client[o].op /\ client'[o].name = client[o].name
           /\ client'[o].value = client[o].value /\ client'[o].found = client[o].found
           /\ client'[o].pc = client[o].pc /\ client'[o].todo = client[o].todo
           /\ client'[o].sent = client[o].sent /\ client'[o].done = client[o].done
           /\ client'[o].opposed = client[o].opposed
           /\ client'[o].reply = IF o = m.from THEN reply ELSE client[o].reply
  PROVE  SPart'
<1>0. IInv BY DEF SInv, KInv
<1>1. /\ queue \in Seq(Message) /\ OneEach(queue)
      /\ \A n \in DOMAIN queue : WaitedFor(queue[n], client)
  BY <1>0 DEF IInv, QueueOK
<1>2. /\ 1 \in DOMAIN queue /\ m = queue[1] /\ DOMAIN queue \subseteq Nat \ {0}
      /\ \A n \in DOMAIN queue' : n \in Nat \ {0} /\ n + 1 \in DOMAIN queue /\ queue'[n] = queue[n + 1]
      /\ \A n \in DOMAIN queue : n # 1 => n - 1 \in DOMAIN queue' /\ queue'[n - 1] = queue[n]
  BY <1>1
<1>3. m \in Message BY <1>1, <1>2
<1>4. applied \in Applied BY <1>0 DEF IInv, DataOK
<1>5. SentsOK' BY DEF SInv, SPart, SentsOK, SentOK
<1>6. AtOneOK'
  <2>1. \A o \in Clients :
          /\ Names(client'[o]) = Names(client[o]) /\ client'[o].opposed = client[o].opposed
          /\ client'[o].pc = client[o].pc /\ client'[o].op = client[o].op
          /\ client'[o].value = client[o].value
    BY DEF Names
  <2> QED BY <2>1 DEF SInv, SPart, AtOneOK
<1>7. DoneOK'
  <2> SUFFICES ASSUME NEW o \in Clients, ~client'[o].opposed, client'[o].pc # "idle"
               PROVE  Done(o, client'[o], rows, queue', applied')
    BY DEF DoneOK
  <2> DEFINE x == client[o]
             y == client'[o]
  <2>1. /\ y.pc = x.pc /\ y.op = x.op /\ y.name = x.name /\ y.value = x.value /\ y.found = x.found
        /\ y.todo = x.todo /\ y.sent = x.sent /\ y.done = x.done
        /\ y.reply = IF o = m.from THEN reply ELSE x.reply
    OBVIOUS
  <2>2. Done(o, x, rows, queue, applied) /\ SentOK(x) /\ KindOK(x)
    BY DEF SInv, SPart, DoneOK, SentsOK, KInv, KindsOK
  <2>3. o # Nobody BY ConfigurationAssumption
  <2>4. o = m.from => x.reply = "none" BY <1>1, <1>2, <2>3 DEF WaitedFor
  <2> HIDE DEF x, y
  <2>5. Sent(y) \subseteq Sent(x) BY <2>1, <2>4 DEF Sent
  <2>6. ASSUME NEW s \in Sent(y)
        PROVE  InPlace(y, s, queue', applied') \/ Pending(o, y, s, queue')
    <3>0. s \in Sent(x) /\ (x.op # "generate" => s \in Settings) BY <2>2, <2>5 DEF Sent, KindOK
    <3>1. CASE InPlace(x, s, queue, applied)
      <4>1. Has(x, applied', s)
        <5>1. CASE m.name # s
          <6>1. Has(x, Effect(m), s) <=> Has(x, applied, s) BY <1>3, <1>4, <3>0, <5>1, EffectElsewhere
          <6> QED BY <3>1, <6>1 DEF InPlace
        <5>2. CASE m.name = s
          <6>1. Fits(x, m) BY <1>2, <3>1, <5>2 DEF InPlace
          <6>2. Has(x, Effect(m), s) BY <1>3, <1>4, <3>0, <5>2, <6>1, EffectFits
          <6> QED BY <3>1, <6>2 DEF InPlace
        <5> QED BY <5>1, <5>2
      <4>2. \A n \in DOMAIN queue' : queue'[n].name = s => Fits(x, queue'[n])
        BY <1>2, <3>1 DEF InPlace
      <4> QED BY <2>1, <4>1, <4>2 DEF InPlace, Has, Fits
    <3>2. CASE Pending(o, x, s, queue)
      <4>1. PICK n \in DOMAIN queue :
              /\ queue[n].from = o /\ queue[n].name = s
              /\ \A k \in DOMAIN queue : k >= n /\ queue[k].name = s => Fits(x, queue[k])
        BY <3>2 DEF Pending
      <4>0. n \in Nat \ {0} BY <1>2
      <4>2. CASE n = 1
        <5>1. m.from = o /\ m.name = s BY <1>2, <4>1, <4>2
        <5>2. Fits(x, m) BY <1>2, <4>1, <4>2
        <5>3. reply = "ok" BY <2>1, <2>6, <3>2, <5>1 DEF Sent, Pending
        <5>4. Has(x, applied', s) BY <1>3, <1>4, <3>0, <5>1, <5>2, <5>3, EffectFits
        <5>5. \A k \in DOMAIN queue' : queue'[k].name = s => Fits(x, queue'[k])
          BY <1>2, <4>1, <4>2
        <5> QED BY <2>1, <5>4, <5>5 DEF InPlace, Has, Fits
      <4>3. CASE n # 1
        <5>1. n - 1 \in DOMAIN queue' /\ queue'[n - 1] = queue[n] BY <1>2, <4>3
        <5>2. ASSUME NEW k \in DOMAIN queue', k >= n - 1, queue'[k].name = s PROVE Fits(x, queue'[k])
          <6>1. k \in Nat /\ k + 1 \in DOMAIN queue /\ queue'[k] = queue[k + 1] BY <1>2
          <6>2. k + 1 >= n BY <4>0, <5>2, <6>1
          <6> QED BY <4>1, <5>2, <6>1, <6>2
        <5>3. m.from # o BY <1>1, <1>2, <2>3, <4>1, <4>3 DEF OneEach
        <5>4. Pending(o, x, s, queue') BY <3>2, <4>1, <5>1, <5>2 DEF Pending
        <5> QED BY <2>1, <5>3, <5>4 DEF Pending, Fits
      <4> QED BY <4>2, <4>3
    <3> QED BY <2>2, <3>0, <3>1, <3>2 DEF Done
  <2>7. Done(o, y, rows, queue', applied') BY <2>1, <2>2, <2>6 DEF Done
  <2> QED BY <2>7 DEF y
<1> QED BY <1>5, <1>6, <1>7 DEF SPart

LEMMA RootyDone ==
  ASSUME SInv, RootyApplies \/ RootyFails
  PROVE  SPart'
<1> DEFINE m == Head(queue)
<1>0. IInv BY DEF SInv, KInv
<1>1. /\ queue # << >> /\ queue' = Tail(queue) /\ rows' = rows /\ applied' \in {applied, Effect(m)}
  BY DEF RootyApplies, RootyFails
<1>2. m = Head(queue) OBVIOUS
<1> HIDE DEF m
<1>3. ASSUME NEW o \in Clients, NEW reply \in {"ok", "error"}, NEW y, y = Replied(m, reply, o)
      PROVE  /\ y \in Client
             /\ y.op = client[o].op /\ y.name = client[o].name /\ y.value = client[o].value
             /\ y.found = client[o].found /\ y.pc = client[o].pc /\ y.todo = client[o].todo
             /\ y.sent = client[o].sent /\ y.done = client[o].done /\ y.alone = client[o].alone
             /\ y.opposed = client[o].opposed
             /\ y.reply = IF o = m.from THEN reply ELSE client[o].reply
  <2>1. client[o] \in Client /\ reply \in Replies BY <1>0, ClientIsOK DEF Replies
  <2> DEFINE z == [client[o] EXCEPT !.reply = reply]
  <2>2. /\ z \in Client /\ z.op = client[o].op /\ z.name = client[o].name /\ z.value = client[o].value
        /\ z.found = client[o].found /\ z.pc = client[o].pc /\ z.todo = client[o].todo
        /\ z.sent = client[o].sent /\ z.done = client[o].done /\ z.alone = client[o].alone
        /\ z.opposed = client[o].opposed /\ z.reply = reply
    BY <2>1, ClientSets
  <2>3. y = IF o = m.from THEN z ELSE client[o] BY <1>3 DEF Replied
  <2> HIDE DEF z
  <2> QED BY <2>1, <2>2, <2>3
<1>4. CASE RootyApplies
  <2>1. applied' = Effect(m) /\ \A o \in Clients : client'[o] = Replied(m, "ok", o)
    BY <1>4 DEF RootyApplies, m
  <2>2. ASSUME NEW o \in Clients
        PROVE  /\ client'[o].op = client[o].op /\ client'[o].name = client[o].name
               /\ client'[o].value = client[o].value /\ client'[o].found = client[o].found
               /\ client'[o].pc = client[o].pc /\ client'[o].todo = client[o].todo
               /\ client'[o].sent = client[o].sent /\ client'[o].done = client[o].done
               /\ client'[o].opposed = client[o].opposed
               /\ client'[o].reply = IF o = m.from THEN "ok" ELSE client[o].reply
    <3>1. client'[o] = Replied(m, "ok", o) BY <2>1
    <3> QED BY <1>3, <3>1
  <2> QED BY <1>1, <1>2, <2>1, <2>2, ReadDone
<1>5. CASE RootyFails
  <2> DEFINE alone(o) == Replied(m, "error", o).alone /\ m.name \notin Names(client[o])
  <2>1. \A o \in Clients : client'[o] = [Replied(m, "error", o) EXCEPT !.alone = alone(o)]
    BY <1>5 DEF RootyFails, m
  <2>2. ASSUME NEW o \in Clients
        PROVE  /\ client'[o].op = client[o].op /\ client'[o].name = client[o].name
               /\ client'[o].value = client[o].value /\ client'[o].found = client[o].found
               /\ client'[o].pc = client[o].pc /\ client'[o].todo = client[o].todo
               /\ client'[o].sent = client[o].sent /\ client'[o].done = client[o].done
               /\ client'[o].opposed = client[o].opposed
               /\ client'[o].reply = IF o = m.from THEN "error" ELSE client[o].reply
    <3> DEFINE y == Replied(m, "error", o)
               b == alone(o)
    <3>1. client'[o] = [y EXCEPT !.alone = b] BY <2>1
    <3>2. y = Replied(m, "error", o) /\ "error" \in {"ok", "error"} OBVIOUS
    <3> HIDE DEF b, alone, y
    <3>3. /\ y \in Client
          /\ y.op = client[o].op /\ y.name = client[o].name /\ y.value = client[o].value
          /\ y.found = client[o].found /\ y.pc = client[o].pc /\ y.todo = client[o].todo
          /\ y.sent = client[o].sent /\ y.done = client[o].done
          /\ y.opposed = client[o].opposed
          /\ y.reply = IF o = m.from THEN "error" ELSE client[o].reply
      BY <1>3, <3>2
    <3>4. LET t == [y EXCEPT !.alone = b] IN
          /\ t.op = y.op /\ t.name = y.name /\ t.value = y.value /\ t.found = y.found
          /\ t.pc = y.pc /\ t.todo = y.todo /\ t.sent = y.sent /\ t.done = y.done
          /\ t.opposed = y.opposed /\ t.reply = y.reply
      BY <3>3, ClientSets
    <3> QED BY <3>1, <3>3, <3>4
  <2> QED BY <1>1, <1>2, <2>2, ReadDone
<1> QED BY <1>4, <1>5

LEMMA CrashDone ==
  ASSUME SInv, Crash
  PROVE  SPart'
<1>0. IInv BY DEF SInv, KInv
<1>1. /\ client' = [c \in Clients |-> IF Active(c) THEN Over(client[c], FALSE) ELSE client[c]]
      /\ queue' = Disowned(Clients) /\ UNCHANGED <<rows, applied>>
  BY DEF Crash
<1>2. ASSUME NEW c \in Clients
      PROVE  LET r == Over(client[c], FALSE) IN r.pc = "answered" /\ ~r.done /\ Follows(r, client[c])
  BY <1>0, ClientIsOK, ClientSets DEF Over, Follows
<1>3. ASSUME NEW c \in Clients
      PROVE  /\ client'[c].pc \in {"idle", "answered"} /\ Follows(client'[c], client[c])
             /\ client'[c].pc # "idle" => client[c].pc # "idle"
             /\ client'[c] = client[c] \/ (client'[c].pc = "answered" /\ ~client'[c].done)
  BY <1>1, <1>2 DEF Active, Follows
<1>4. SentsOK' BY <1>3 DEF SentsOK, SentOK
<1>5. AtOneOK' BY <1>3 DEF SInv, SPart, AtOneOK, Follows, Names
<1>6. DoneOK'
  <2> SUFFICES ASSUME NEW c \in Clients, ~client'[c].opposed, client'[c].pc # "idle"
               PROVE  Done(c, client'[c], rows, queue', applied)
    BY <1>1 DEF DoneOK
  <2>1. CASE client'[c].pc = "answered" /\ ~client'[c].done BY <2>1 DEF Done, Sent
  <2>2. CASE client'[c] = client[c]
    <3>1. Done(c, client[c], rows, queue, applied) /\ client[c].pc = "answered"
      BY <1>3, <2>2 DEF SInv, SPart, DoneOK
    <3>2. ASSUME NEW s \in Sent(client[c]) PROVE InPlace(client[c], s, queue', applied)
      <4>1. InPlace(client[c], s, queue, applied) BY <3>1 DEF Done, Pending
      <4>2. Clients \in SUBSET Clients OBVIOUS
      <4> QED BY <1>0, <1>1, <4>1, <4>2, OthersDisowned
    <3> QED BY <2>2, <3>1, <3>2 DEF Done
  <2> QED BY <1>3, <2>1, <2>2
<1> QED BY <1>4, <1>5, <1>6 DEF SPart

-----------------------------------------------------------------------------

LEMMA DoneInvariance == Spec => []SInv
<1>1. Init => SPart
  <2> SUFFICES ASSUME Init PROVE SPart OBVIOUS
  <2>1. Idle.pc = "idle" BY DEF Idle
  <2>2. \A c \in Clients : client[c].pc = "idle" BY <2>1 DEF Init
  <2> QED BY <2>2 DEF SPart, SentsOK, SentOK, AtOneOK, DoneOK
<1>2. KInv /\ SPart /\ [Next]_vars => SPart'
  <2> SUFFICES ASSUME SInv, [Next]_vars PROVE SPart' BY DEF SInv
  <2>1. ASSUME NEW c \in Clients, Proceeds(c) PROVE SPart'
    BY <2>1, DomainsDone, CertsDone, SendDone, NextSettingDone, ReplyDone DEF Proceeds
  <2>2. ASSUME NEW c \in Clients, Asks(c) PROVE SPart' BY <2>2, AsksDone
  <2>3. CASE RootyApplies \/ RootyFails BY <2>3, RootyDone
  <2>4. CASE Crash BY <2>4, CrashDone
  <2>5. CASE UNCHANGED vars
    <3>1. UNCHANGED <<rows, queue, applied, client>> BY <2>5 DEF vars
    <3>2. SentsOK' BY <3>1 DEF SInv, SPart, SentsOK
    <3>3. AtOneOK' BY <3>1 DEF SInv, SPart, AtOneOK
    <3>4. DoneOK' BY <3>1 DEF SInv, SPart, DoneOK
    <3> QED BY <3>2, <3>3, <3>4 DEF SPart
  <2> QED BY <2>1, <2>2, <2>3, <2>4, <2>5 DEF Next
<1> QED BY <1>1, <1>2, KeptInvariance, PTL DEF Spec, SInv

\* What a page was told is done is done when it goes on, whatever rooty failed to
\* do and whatever timed out or crashed before, if it met no request that wanted
\* something else of the same names: the domain is listed or is not any more, the
\* key is listed, rooty has the setting, or every setting of an unlock
\* (EmailDomainsResource, ServiceKeysResource, ConfigurationsResource).
THEOREM ToldIsDone == Spec => SuccessIsReal
<1> DEFINE Real(c) ==
      At(c, "answered") /\ At(c, "idle")' /\ client[c].done /\ ~client[c].opposed =>
        CASE Is(c, {"addDomain", "generate"}) -> client[c].name \in Listed
          [] Is(c, {"removeDomain"})          -> client[c].name \notin Listed
          [] Is(c, {"setSetting"})            -> applied.settings[client[c].name] = client[c].value
          [] Is(c, {"unlock"})                -> \A s \in Settings : applied.settings[s] = client[c].value
          [] OTHER                            -> TRUE
<1>1. ASSUME SInv, NEW c \in Clients PROVE Real(c)
  <2> SUFFICES ASSUME client[c].pc = "answered", client[c].done, ~client[c].opposed PROVE Real(c)
    BY DEF At
  <2>1. NamedOK(client[c]) /\ applied.keys \subseteq Keys /\ Keys \cap Domains = {}
    BY <1>1, ConfigurationAssumption DEF SInv, KInv, IInv, ClientsOK, DataOK, Applied
  <2>2. Done(c, client[c], rows, queue, applied) BY <1>1 DEF SInv, SPart, DoneOK
  <2>3. \A s \in Sent(client[c]) : Has(client[c], applied, s) BY <2>2 DEF Done, InPlace, Pending
  <2>4. CASE client[c].op \in {"addDomain", "removeDomain"}
    BY <2>1, <2>2, <2>4 DEF Done, NamedOK, Is, Listed
  <2>5. CASE client[c].op \in {"generate", "setSetting", "unlock"}
    BY <2>3, <2>5 DEF Sent, Has, Is, Listed
  <2>6. CASE client[c].op \notin {"addDomain", "removeDomain", "generate", "setSetting", "unlock"}
    BY <2>6 DEF Is
  <2> QED BY <2>4, <2>5, <2>6
<1>2. SInv => [\A c \in Clients : Real(c)]_vars BY <1>1
<1> QED BY <1>2, DoneInvariance, PTL DEF SuccessIsReal
=============================================================================
