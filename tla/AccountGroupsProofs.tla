------------------------- MODULE AccountGroupsProofs -------------------------
(***************************************************************************)
(* Proofs about AccountGroups, for any groups, accounts and requests: its  *)
(* type invariant for any number of threads, and for one request at a time *)
(* that no group contains itself, that mirrors have their sources, and     *)
(* that only a failed announcement leaves a group without its alias.       *)
(*                                                                         *)
(* One request at a time, what a request has checked still holds when it   *)
(* writes (InTurn).  That no group contains itself is then a fact about    *)
(* graphs (PutKeeps): an edge out of g closes no circle if g is not        *)
(* reached from where it leads, and reachability is a closed set of names. *)
(***************************************************************************)
EXTENDS AccountGroups, TLAPS

\* A request knows the group it is about, or the account that joins.
JobOK(at, x) ==
  /\ at \in {"create", "update", "delete", "announce", "remove", "unannounce"} => x.name \in Groups
  /\ at \in {"create", "update", "joined"} => x.group \in Group
  /\ at \in {"join", "joined"} => x.account \in Accounts

Typed == TypeOK /\ \A t \in Threads : JobOK(pc[t], job[t])

-----------------------------------------------------------------------------
(* Membership as a graph of names.                                         *)

GroupsIn(members) == {h \in Groups : GroupDN(h) \in members}

\* The groups that are members of group h, with the groups gs.
Inside(gs, h) == IF gs[h] = None THEN {} ELSE GroupsIn(gs[h].members)

\* A set of names that has, with a name, the names of its member groups.
Closed(gs, S) == \A h \in S : Inside(gs, h) \subseteq S

\* A group with these member groups would not contain itself.
Apart(gs, g, its) == \E S \in SUBSET (Groups \ {g}) : its \subseteq S /\ Closed(gs, S)

Acyclic(gs) == \A g \in Groups : gs[g] # None => Apart(gs, g, Inside(gs, g))

-----------------------------------------------------------------------------
(* One request at a time.                                                  *)

Alone == \A t, u \in Threads : t = u

\* Mirrored groups are there, or an update asked for them when they were not.
Sources(gs, un, m) == \A s \in m : gs[s] # None \/ s \in un

\* What a request has checked and not yet used.
Checked(at, x, gs, un) ==
  /\ at \in {"create", "update"} =>
       Apart(gs, x.name, GroupsIn(x.group.members)) /\ Sources(gs, un, x.group.mirrors)
  /\ at \in {"delete", "remove"} =>
       x.name # Default /\ \A h \in Groups : gs[h] # None => x.name \notin gs[h].mirrors
  /\ at = "joined" => /\ gs[Default] # None
                      /\ GroupsIn(x.group.members) = GroupsIn(gs[Default].members)
                      /\ x.group.mirrors = gs[Default].mirrors
  /\ at = "unannounce" => gs[x.name] = None

InTurn ==
  /\ Acyclic(groups)
  /\ MirrorSourcesExist
  /\ \A t \in Threads : Checked(pc[t], job[t], groups, unchecked)
  /\ \A g \in Groups \ {Default} : Exists(g) =>
       g \in aliases \cup untold \/ \E t \in Threads : pc[t] = "announce" /\ job[t].name = g

-----------------------------------------------------------------------------
(* Membership: putting a group in place and taking one away.               *)

LEMMA InsideType ==
  ASSUME NEW gs, NEW h \in Groups
  PROVE  Inside(gs, h) \subseteq Groups
BY DEF Inside, GroupsIn

\* The circularity check asks for what Apart says.
LEMMA NotCircular ==
  ASSUME NEW g \in Groups, NEW members
  PROVE  ~Circular(g, members) <=> Apart(groups, g, GroupsIn(members))
<1>1. ASSUME NEW h \in Groups \ {g}
      PROVE  MemberGroups(h, g, members) = Inside(groups, h)
  BY <1>1 DEF MemberGroups, Inside, GroupsIn, Exists
<1>2. MemberGroups(g, g, members) = GroupsIn(members) BY DEF MemberGroups, GroupsIn
<1>3. ASSUME NEW S \in SUBSET (Groups \ {g})
      PROVE  (\A h \in S \cup {g} : MemberGroups(h, g, members) \subseteq S)
             <=> GroupsIn(members) \subseteq S /\ Closed(groups, S)
  BY <1>1, <1>2 DEF Closed
<1>4. ~Circular(g, members) <=>
        \E S \in SUBSET (Groups \ {g}) : \A h \in S \cup {g} : MemberGroups(h, g, members) \subseteq S
  BY DEF Circular
<1> QED BY <1>3, <1>4 DEF Apart

LEMMA AcyclicMeans ==
  Acyclic(groups) <=> NoCircularMembership
BY NotCircular DEF Acyclic, NoCircularMembership, Exists, Inside

\* What is put in place of g leads nowhere that leads back to g: every other group
\* that did not contain itself still does not.  A set closed before is closed
\* after if it misses g; if it has g, it is closed together with, or within, the
\* set that keeps g apart.
LEMMA PutKeeps ==
  ASSUME NEW g \in Groups, Acyclic(groups),
         \A h \in Groups \ {g} : Inside(groups', h) = Inside(groups, h),
         \A h \in Groups \ {g} : groups'[h] # None => groups[h] # None,
         Apart(groups, g, Inside(groups', g))
  PROVE  Acyclic(groups')
<1>1. PICK T \in SUBSET (Groups \ {g}) : Inside(groups', g) \subseteq T /\ Closed(groups, T)
  BY DEF Apart
<1>2. Closed(groups', T) BY <1>1 DEF Closed
<1> SUFFICES ASSUME NEW k \in Groups, groups'[k] # None
             PROVE  Apart(groups', k, Inside(groups', k))
  BY DEF Acyclic
<1>3. CASE k = g BY <1>1, <1>2, <1>3 DEF Apart
<1>4. CASE k # g
  <2>1. Inside(groups', k) = Inside(groups, k) /\ groups[k] # None BY <1>4
  <2>2. PICK S \in SUBSET (Groups \ {k}) : Inside(groups, k) \subseteq S /\ Closed(groups, S)
    BY <2>1 DEF Acyclic, Apart
  <2>3. CASE g \notin S
    <3>1. Closed(groups', S) BY <2>2, <2>3 DEF Closed
    <3> QED BY <2>1, <2>2, <3>1 DEF Apart
  <2>4. CASE g \in S /\ k \in T
    <3>1. Inside(groups', k) \subseteq S \cap T BY <1>1, <2>1, <2>2, <2>4 DEF Closed
    <3>2. Closed(groups', S \cap T) BY <1>1, <2>2 DEF Closed
    <3>3. S \cap T \in SUBSET (Groups \ {k}) OBVIOUS
    <3> QED BY <3>1, <3>2, <3>3 DEF Apart
  <2>5. CASE g \in S /\ k \notin T
    <3>1. Inside(groups', k) \subseteq S \cup T BY <2>1, <2>2
    <3>2. ASSUME NEW h \in S \cup T PROVE Inside(groups', h) \subseteq S \cup T
      <4>1. CASE h \in T BY <1>2, <4>1 DEF Closed
      <4>2. CASE h = g BY <1>1, <4>2
      <4>3. CASE h \in S /\ h # g BY <2>2, <4>3 DEF Closed
      <4> QED BY <3>2, <4>1, <4>2, <4>3
    <3>3. S \cup T \in SUBSET (Groups \ {k}) BY <2>5
    <3> QED BY <3>1, <3>2, <3>3 DEF Apart, Closed
  <2> QED BY <2>3, <2>4, <2>5
<1> QED BY <1>3, <1>4

\* Taking a group away, or changing nothing of the memberships, makes no circle.
LEMMA FewerKeeps ==
  ASSUME NEW gs, NEW later, Acyclic(gs),
         \A h \in Groups : Inside(later, h) \subseteq Inside(gs, h),
         \A h \in Groups : later[h] # None => gs[h] # None \/ Inside(later, h) = {}
  PROVE  Acyclic(later)
<1> SUFFICES ASSUME NEW k \in Groups, later[k] # None
             PROVE  Apart(later, k, Inside(later, k))
  BY DEF Acyclic
<1>1. CASE gs[k] # None
  <2>1. PICK S \in SUBSET (Groups \ {k}) : Inside(gs, k) \subseteq S /\ Closed(gs, S)
    BY <1>1 DEF Acyclic, Apart
  <2>2. Inside(later, k) \subseteq S /\ Closed(later, S) BY <2>1 DEF Closed
  <2> QED BY <2>2 DEF Apart
<1>2. CASE gs[k] = None
  <2>1. Inside(later, k) = {} BY <1>2
  <2>2. {} \in SUBSET (Groups \ {k}) /\ Closed(later, {}) BY DEF Closed
  <2> QED BY <2>1, <2>2 DEF Apart
<1> QED BY <1>1, <1>2

LEMMA ApartKeeps ==
  ASSUME NEW gs, NEW later, NEW g \in Groups, NEW its, Apart(gs, g, its),
         \A h \in Groups : Inside(later, h) \subseteq Inside(gs, h)
  PROVE  Apart(later, g, its)
BY DEF Apart, Closed

-----------------------------------------------------------------------------
(* Types.                                                                  *)

Point == {"idle", "create", "update", "delete", "announce", "remove",
          "unannounce", "join", "joined"}

LEMMA DNTypes ==
  ASSUME accounts \subseteq Accounts, NEW l \in SUBSET Names, AllExist(l)
  PROVE  MembersOf(l) \in SUBSET DNs
<1> SUFFICES ASSUME NEW n \in l PROVE DNOf(n) \in DNs BY DEF MembersOf
<1>1. n \in accounts \/ n \in Groups BY DEF AllExist
<1> QED BY <1>1 DEF DNOf, DNs

LEMMA GroupTypes ==
  ASSUME NEW members \in SUBSET DNs, NEW mirrors \in SUBSET Groups
  PROVE  LET x == [members |-> members, mirrors |-> mirrors] IN
         x \in Group /\ x # None /\ x.members = members /\ x.mirrors = mirrors
BY NoneAssumption DEF Group

LEMMA EmptyType == Empty \in Group /\ Empty # None /\ GroupsIn(Empty.members) = {} /\ Empty.mirrors = {}
BY NoneAssumption DEF Group, Empty, GroupsIn

LEMMA JobFor ==
  ASSUME NEW g \in Groups
  PROVE  LET x == [NoJob EXCEPT !.name = g] IN x \in Job /\ x.name = g
BY DEF Job, NoJob

LEMMA JobToWrite ==
  ASSUME NEW g \in Groups, NEW new \in Group
  PROVE  LET x == [NoJob EXCEPT !.name = g, !.group = new] IN
         x \in Job /\ x.name = g /\ x.group = new
BY DEF Job, NoJob

LEMMA JobOfAccount ==
  ASSUME NEW n \in Accounts
  PROVE  LET x == [NoJob EXCEPT !.account = n] IN x \in Job /\ x.account = n
BY DEF Job, NoJob

LEMMA JobJoined ==
  ASSUME NEW x \in Job, NEW new \in Group
  PROVE  LET y == [x EXCEPT !.group = new] IN
         y \in Job /\ y.group = new /\ y.account = x.account
BY DEF Job

LEMMA NoJobType == NoJob \in Job
BY DEF Job, NoJob

\* The default group with one more account.
Joined(gs, n) ==
  LET default == IF gs[Default] # None THEN gs[Default] ELSE Empty IN
  [default EXCEPT !.members = @ \cup {AccountDN(n)}]

LEMMA JoinedType ==
  ASSUME NEW gs \in [Groups -> Group \cup {None}], NEW n \in Accounts
  PROVE  LET default == IF gs[Default] # None THEN gs[Default] ELSE Empty IN
         /\ default \in Group
         /\ Joined(gs, n) \in Group
         /\ GroupsIn(Joined(gs, n).members) = GroupsIn(default.members)
         /\ Joined(gs, n).mirrors = default.mirrors
<1> DEFINE default == IF gs[Default] # None THEN gs[Default] ELSE Empty
<1>1. default \in Group BY EmptyType, NamesAssumption
<1>2. Joined(gs, n) = [default EXCEPT !.members = @ \cup {AccountDN(n)}] BY DEF Joined
<1> HIDE DEF default
<1>3. AccountDN(n) \in DNs BY DEF DNs
<1>4. /\ Joined(gs, n) \in Group /\ Joined(gs, n).mirrors = default.mirrors
      /\ Joined(gs, n).members = default.members \cup {AccountDN(n)}
  BY <1>1, <1>2, <1>3 DEF Group
<1>5. \A h \in Groups : GroupDN(h) # AccountDN(n) BY DEF GroupDN, AccountDN
<1>6. GroupsIn(Joined(gs, n).members) = GroupsIn(default.members) BY <1>4, <1>5 DEF GroupsIn
<1> QED BY <1>1, <1>4, <1>6 DEF default

\* A step of one thread, with the work it goes on with.
LEMMA Steps ==
  ASSUME Typed, NEW t \in Threads, NEW from, NEW to \in Point, NEW x \in Job, JobOK(to, x),
         Step(t, from, to, x)
  PROVE  /\ pc' \in [Threads -> Point] /\ job' \in [Threads -> Job]
         /\ \A u \in Threads : JobOK(pc'[u], job'[u])
         /\ \A u \in Threads : pc'[u] \in {"create", "update", "joined"} => job'[u].group # None
         /\ pc[t] = from /\ pc'[t] = to /\ job'[t] = x
<1>1. pc \in [Threads -> Point] /\ job \in [Threads -> Job] BY DEF Typed, TypeOK, Point
<1>2. /\ pc' \in [Threads -> Point] /\ job' \in [Threads -> Job]
      /\ pc[t] = from /\ pc'[t] = to /\ job'[t] = x
      /\ \A u \in Threads \ {t} : pc'[u] = pc[u] /\ job'[u] = job[u]
  BY <1>1 DEF Step
<1>3. \A u \in Threads : JobOK(pc'[u], job'[u]) BY <1>2 DEF Typed
<1>4. \A u \in Threads : pc'[u] \in {"create", "update", "joined"} => job'[u].group # None
  BY <1>3, NoneAssumption DEF JobOK
<1> QED BY <1>2, <1>3, <1>4

LEMMA Ends ==
  ASSUME Typed, NEW t \in Threads, NEW from, End(t, from)
  PROVE  /\ pc' \in [Threads -> Point] /\ job' \in [Threads -> Job]
         /\ \A u \in Threads : JobOK(pc'[u], job'[u])
         /\ \A u \in Threads : pc'[u] \in {"create", "update", "joined"} => job'[u].group # None
         /\ pc[t] = from /\ pc'[t] = "idle" /\ job'[t] = NoJob
<1>1. "idle" \in Point /\ JobOK("idle", NoJob) BY DEF Point, JobOK
<1> QED BY <1>1, NoJobType, Steps DEF End

\* What is known of the thread that acts.
LEMMA TypedHas ==
  ASSUME Typed, NEW t \in Threads
  PROVE  JobOK(pc[t], job[t]) /\ job[t] \in Job /\ groups \in [Groups -> Group \cup {None}]
BY DEF Typed, TypeOK

LEMMA TypedLater ==
  ASSUME accounts' \subseteq Accounts, groups' \in [Groups -> Group \cup {None}],
         aliases' \subseteq Groups, untold' \subseteq Groups, unchecked' \subseteq Groups,
         pc' \in [Threads -> Point], job' \in [Threads -> Job],
         \A u \in Threads : JobOK(pc'[u], job'[u]),
         \A u \in Threads : pc'[u] \in {"create", "update", "joined"} => job'[u].group # None
  PROVE  Typed'
BY DEF Typed, TypeOK, Point

-----------------------------------------------------------------------------
(* InTurn, with the one thread named.                                      *)

MirrorsOK(gs, un) == \A g \in Groups : gs[g] # None => Sources(gs, un, gs[g].mirrors)

\* Every group has its alias, or was left without, or the thread is about to announce it.
Announced(gs, known, un, at, x) ==
  \A g \in Groups \ {Default} :
    gs[g] # None => g \in known \cup un \/ (at = "announce" /\ x.name = g)

LEMMA InTurnHas ==
  ASSUME Alone, InTurn, NEW t \in Threads
  PROVE  /\ Acyclic(groups) /\ MirrorsOK(groups, unchecked)
         /\ Checked(pc[t], job[t], groups, unchecked)
         /\ Announced(groups, aliases, untold, pc[t], job[t])
BY DEF InTurn, Alone, MirrorSourcesExist, Exists, MirrorsOK, Sources, Announced

LEMMA InTurnLater ==
  ASSUME Alone, NEW t \in Threads, Acyclic(groups'), MirrorsOK(groups', unchecked'),
         Checked(pc'[t], job'[t], groups', unchecked'),
         Announced(groups', aliases', untold', pc'[t], job'[t])
  PROVE  InTurn'
<1>1. \A u \in Threads : Checked(pc'[u], job'[u], groups', unchecked') BY DEF Alone
<1>2. MirrorSourcesExist' BY DEF MirrorSourcesExist, Exists, MirrorsOK, Sources
<1>3. \A g \in Groups \ {Default} : groups'[g] # None =>
        g \in aliases' \cup untold' \/ \E u \in Threads : pc'[u] = "announce" /\ job'[u].name = g
  BY DEF Announced
<1> QED BY <1>1, <1>2, <1>3 DEF InTurn, Exists

-----------------------------------------------------------------------------
(* AccountGroupsResource.create *)

LEMMA ValidateCreateKeeps ==
  ASSUME Typed, NEW t \in Threads, NEW g \in Groups, NEW l \in Lists, NEW m \in NewMirrors,
         ValidateCreate(t, g, l, m)
  PROVE  Typed' /\ (Alone /\ InTurn => InTurn')
<1> DEFINE recipients == IF l = {} /\ m = {} THEN {Caller} ELSE l
           members == MembersOf(recipients)
           new == [members |-> members, mirrors |-> m]
           x == [NoJob EXCEPT !.name = g, !.group = new]
<1>1. /\ ~Exists(g) /\ AllExist(recipients) /\ ~Circular(g, members)
      /\ \A s \in m : Exists(s) \/ s = Default
      /\ Step(t, "idle", "create", x)
      /\ groups' = IF Default \in m /\ ~Exists(Default)
                   THEN [groups EXCEPT ![Default] = Empty] ELSE groups
      /\ UNCHANGED <<accounts, aliases, untold, unchecked>>
  BY DEF ValidateCreate
<1>2. recipients \in SUBSET Names BY NamesAssumption DEF Lists, Names
<1>3. accounts \subseteq Accounts /\ groups \in [Groups -> Group \cup {None}]
      /\ aliases \subseteq Groups /\ untold \subseteq Groups /\ unchecked \subseteq Groups
  BY DEF Typed, TypeOK
<1> HIDE DEF recipients
<1>4. members \in SUBSET DNs BY <1>1, <1>2, <1>3, DNTypes
<1> HIDE DEF members
<1>5. new \in Group /\ new.members = members /\ new.mirrors = m BY <1>4, NamesAssumption, GroupTypes
<1> HIDE DEF new
<1>6. x \in Job /\ x.name = g /\ x.group = new BY <1>5, JobToWrite
<1> HIDE DEF x
<1>7. JobOK("create", x) BY <1>5, <1>6 DEF JobOK
<1>8. /\ pc' \in [Threads -> Point] /\ job' \in [Threads -> Job]
      /\ \A u \in Threads : JobOK(pc'[u], job'[u])
      /\ \A u \in Threads : pc'[u] \in {"create", "update", "joined"} => job'[u].group # None
      /\ pc'[t] = "create" /\ job'[t] = x
  BY <1>1, <1>6, <1>7, Steps DEF Point
<1>9. groups' \in [Groups -> Group \cup {None}] BY <1>1, <1>3, EmptyType
<1>10. Typed' BY <1>1, <1>3, <1>8, <1>9, TypedLater
<1>11. /\ \A h \in Groups : Inside(groups', h) = Inside(groups, h)
       /\ \A h \in Groups : groups[h] # None => groups'[h] = groups[h] /\ groups'[h] # None
       /\ \A h \in Groups \ {Default} : groups'[h] = groups[h]
       /\ Default \in m => groups'[Default] # None
       /\ groups'[Default] = groups[Default] \/ groups'[Default] = Empty
  BY <1>1, <1>3, NamesAssumption, EmptyType DEF Exists, Inside
<1>12. ASSUME Alone, InTurn PROVE InTurn'
  <2>1. Acyclic(groups) /\ MirrorsOK(groups, unchecked) /\ Announced(groups, aliases, untold, pc[t], job[t])
    BY <1>12, InTurnHas
  <2>2. \A h \in Groups : groups'[h] # None => groups[h] # None \/ Inside(groups', h) = {}
    BY <1>11, EmptyType DEF Inside
  <2>3. Acyclic(groups') BY <1>11, <2>1, <2>2, FewerKeeps
  <2>4. Apart(groups, g, GroupsIn(members)) BY <1>1, NotCircular
  <2>5. Apart(groups', g, GroupsIn(members)) BY <1>11, <2>4, ApartKeeps
  <2>6. Sources(groups', unchecked', m) BY <1>1, <1>11 DEF Sources, Exists
  <2>7. MirrorsOK(groups', unchecked')
    <3> SUFFICES ASSUME NEW h \in Groups, groups'[h] # None
                 PROVE  Sources(groups', unchecked', groups'[h].mirrors)
      BY DEF MirrorsOK
    <3>1. CASE groups'[h] = Empty BY <3>1, EmptyType DEF Sources
    <3>2. CASE groups'[h] = groups[h] BY <1>1, <1>11, <2>1, <3>2 DEF MirrorsOK, Sources
    <3> QED BY <1>11, <3>1, <3>2
  <2>8. Checked("create", x, groups', unchecked')
    BY <1>5, <1>6, <2>5, <2>6 DEF Checked
  <2>9. Announced(groups', aliases', untold', pc'[t], job'[t])
    BY <1>1, <1>11, <2>1, <1>8 DEF Announced, Step
  <2> QED BY <1>8, <1>12, <2>3, <2>7, <2>8, <2>9, InTurnLater
<1> QED BY <1>10, <1>12

\* The group a request has checked is put in place, and is to be announced.
LEMMA Written ==
  ASSUME Typed, Alone, InTurn, NEW t \in Threads, pc[t] \in {"create", "update"},
         groups' = [groups EXCEPT ![job[t].name] = job[t].group],
         UNCHANGED <<aliases, untold>>, unchecked \subseteq unchecked' \cup {job[t].name},
         pc'[t] = "announce", job'[t].name = job[t].name
  PROVE  InTurn'
<1> DEFINE g == job[t].name
<1>1. groups \in [Groups -> Group \cup {None}] /\ g \in Groups /\ job[t].group \in Group
  BY TypedHas DEF JobOK
<1>2. /\ groups'[g] = job[t].group /\ groups'[g] # None
      /\ \A h \in Groups \ {g} : groups'[h] = groups[h]
      /\ groups' \in [Groups -> Group \cup {None}]
  BY <1>1, NoneAssumption
<1>3. /\ Acyclic(groups) /\ MirrorsOK(groups, unchecked)
      /\ Checked(pc[t], job[t], groups, unchecked)
      /\ Announced(groups, aliases, untold, pc[t], job[t])
  BY InTurnHas
<1>4. Apart(groups, g, GroupsIn(job[t].group.members))
      /\ Sources(groups, unchecked, job[t].group.mirrors)
  BY <1>3 DEF Checked
<1> HIDE DEF g
<1>5. /\ Inside(groups', g) = GroupsIn(job[t].group.members)
      /\ \A h \in Groups \ {g} : Inside(groups', h) = Inside(groups, h)
  BY <1>2 DEF Inside
<1>6. Acyclic(groups')
  <2>1. \A h \in Groups \ {g} : groups'[h] # None => groups[h] # None BY <1>2
  <2>2. Apart(groups, g, Inside(groups', g)) BY <1>4, <1>5
  <2>3. g \in Groups /\ Acyclic(groups) BY <1>1, <1>3
  <2> QED BY <1>5, <2>1, <2>2, <2>3, PutKeeps
<1>7. \A h \in Groups : groups[h] # None => groups'[h] # None BY <1>2
<1>8. ASSUME NEW h \in Groups, groups'[h] # None
      PROVE  Sources(groups', unchecked', groups'[h].mirrors)
  <2>1. groups'[h] \in Group BY <1>2, <1>8
  <2>2. groups'[h].mirrors \in SUBSET Groups BY <2>1 DEF Group
  <2>3. Sources(groups, unchecked, groups'[h].mirrors) BY <1>2, <1>3, <1>4, <1>8 DEF MirrorsOK
  <2>4. unchecked \subseteq unchecked' \cup {g} BY DEF g
  <2> QED BY <1>2, <1>7, <2>2, <2>3, <2>4 DEF Sources
<1>9. MirrorsOK(groups', unchecked') BY <1>8 DEF MirrorsOK
<1>10. Checked(pc'[t], job'[t], groups', unchecked') BY DEF Checked
<1>11. Announced(groups', aliases', untold', pc'[t], job'[t]) BY <1>2, <1>3 DEF Announced, g
<1> QED BY <1>6, <1>9, <1>10, <1>11, InTurnLater

\* A step that only goes on, or ends, with nothing left to check or announce.
LEMMA OnlyGoesOn ==
  ASSUME Alone, InTurn, NEW t \in Threads, pc[t] # "announce", UNCHANGED <<groups, aliases, untold>>,
         unchecked \subseteq unchecked', Checked(pc'[t], job'[t], groups, unchecked')
  PROVE  InTurn'
<1>1. /\ Acyclic(groups) /\ MirrorsOK(groups, unchecked)
      /\ Announced(groups, aliases, untold, pc[t], job[t])
  BY InTurnHas
<1>2. MirrorsOK(groups, unchecked') BY <1>1 DEF MirrorsOK, Sources
<1>3. Announced(groups', aliases', untold', pc'[t], job'[t]) BY <1>1 DEF Announced
<1> QED BY <1>1, <1>2, <1>3, InTurnLater

LEMMA WriteNewKeeps ==
  ASSUME Typed, NEW t \in Threads, WriteNew(t)
  PROVE  Typed' /\ (Alone /\ InTurn => InTurn')
<1> DEFINE g == job[t].name
           x == [NoJob EXCEPT !.name = g]
<1>1. accounts \subseteq Accounts /\ groups \in [Groups -> Group \cup {None}]
      /\ aliases \subseteq Groups /\ untold \subseteq Groups /\ unchecked \subseteq Groups
  BY DEF Typed, TypeOK
<1>2. pc[t] = "create" /\ UNCHANGED <<accounts, aliases, untold>> BY DEF WriteNew
<1>3. g \in Groups /\ job[t].group \in Group BY <1>2, TypedHas DEF JobOK
<1>4. CASE Exists(g)
  <2>1. End(t, "create") /\ UNCHANGED <<groups, unchecked>> BY <1>4 DEF WriteNew
  <2>2. Typed' BY <1>1, <1>2, <2>1, Ends, TypedLater
  <2>3. pc'[t] = "idle" BY <2>1, Ends
  <2>4. Checked(pc'[t], job'[t], groups, unchecked') BY <2>3 DEF Checked
  <2> QED BY <1>2, <2>1, <2>2, <2>4, OnlyGoesOn
<1>5. CASE ~Exists(g)
  <2>1. Step(t, "create", "announce", x) /\ groups' = [groups EXCEPT ![g] = job[t].group]
        /\ unchecked' = unchecked \ {g}
    BY <1>5 DEF WriteNew
  <2>2. x \in Job /\ x.name = g BY <1>3, JobFor
  <2> HIDE DEF x
  <2>3. JobOK("announce", x) BY <1>3, <2>2 DEF JobOK
  <2>4. /\ pc' \in [Threads -> Point] /\ job' \in [Threads -> Job]
        /\ \A u \in Threads : JobOK(pc'[u], job'[u])
        /\ \A u \in Threads : pc'[u] \in {"create", "update", "joined"} => job'[u].group # None
        /\ pc'[t] = "announce" /\ job'[t] = x
    BY <2>1, <2>2, <2>3, Steps DEF Point
  <2>5. groups' \in [Groups -> Group \cup {None}] BY <1>1, <1>3, <2>1
  <2>6. Typed' BY <1>1, <1>2, <2>1, <2>4, <2>5, TypedLater
  <2> QED BY <1>2, <2>1, <2>2, <2>4, <2>6, Written
<1> QED BY <1>4, <1>5

\* What changes in rooty's aliases, or fails to.
Answers(t) == Announce(t) \/ AnnounceFails(t) \/ Unannounce(t) \/ UnannounceFails(t)

LEMMA AnnounceKeeps ==
  ASSUME Typed, NEW t \in Threads, Answers(t)
  PROVE  Typed' /\ (Alone /\ InTurn => InTurn')
<1> DEFINE g == job[t].name
<1>1. accounts \subseteq Accounts /\ groups \in [Groups -> Group \cup {None}]
      /\ aliases \subseteq Groups /\ untold \subseteq Groups /\ unchecked \subseteq Groups
  BY DEF Typed, TypeOK
<1>2. UNCHANGED <<accounts, groups, unchecked>>
  BY DEF Answers, Announce, AnnounceFails, Unannounce, UnannounceFails
<1>3. PICK from \in {"announce", "unannounce"} :
        /\ End(t, from)
        /\ aliases' \subseteq aliases \cup {g} /\ untold' \subseteq untold \cup {g}
        /\ from = "announce" =>
             /\ aliases \cup untold \subseteq aliases' \cup untold'
             /\ Exists(g) => g \in aliases' \cup untold'
        /\ from = "unannounce" => aliases \ {g} \subseteq aliases' /\ untold' = untold
  <2>1. CASE Announce(t) BY <2>1 DEF Announce
  <2>2. CASE AnnounceFails(t) BY <2>2 DEF AnnounceFails
  <2>3. CASE Unannounce(t) BY <2>3 DEF Unannounce
  <2>4. CASE UnannounceFails(t) BY <2>4 DEF UnannounceFails
  <2> QED BY <2>1, <2>2, <2>3, <2>4 DEF Answers
<1>4. pc[t] = from /\ pc'[t] = "idle" BY <1>3, Ends
<1>5. g \in Groups BY <1>4, TypedHas DEF JobOK
<1>6. aliases' \subseteq Groups /\ untold' \subseteq Groups BY <1>1, <1>3, <1>5
<1>7. Typed' BY <1>1, <1>2, <1>3, <1>6, Ends, TypedLater
<1>8. ASSUME Alone, InTurn PROVE InTurn'
  <2>1. /\ Acyclic(groups) /\ MirrorsOK(groups, unchecked)
        /\ Checked(pc[t], job[t], groups, unchecked)
        /\ Announced(groups, aliases, untold, pc[t], job[t])
    BY <1>8, InTurnHas
  <2>2. Checked(pc'[t], job'[t], groups', unchecked') BY <1>4 DEF Checked
  <2>3. from = "unannounce" => groups[g] = None BY <1>4, <2>1 DEF Checked
  <2>4. ASSUME NEW h \in Groups \ {Default}, groups[h] # None
        PROVE  h \in aliases' \cup untold'
    <3>1. h \in aliases \cup untold \/ (from = "announce" /\ g = h)
      BY <1>4, <2>1, <2>4 DEF Announced
    <3> HIDE DEF g
    <3>2. CASE from = "announce" BY <1>3, <2>4, <3>1, <3>2 DEF Exists
    <3>3. CASE from = "unannounce" BY <1>3, <2>3, <2>4, <3>1, <3>3
    <3> QED BY <3>2, <3>3
  <2>5. Announced(groups', aliases', untold', pc'[t], job'[t])
    BY <1>2, <2>4 DEF Announced
  <2> QED BY <1>2, <1>8, <2>1, <2>2, <2>5, InTurnLater
<1> QED BY <1>7, <1>8

\* A write that LDAP refuses changes nothing, and there is nothing to announce.
LEMMA LdapFailsKeeps ==
  ASSUME Typed, NEW t \in Threads, LdapFails(t)
  PROVE  Typed' /\ (Alone /\ InTurn => InTurn')
<1>1. /\ pc[t] # "announce" /\ End(t, pc[t])
      /\ UNCHANGED <<accounts, groups, aliases, untold, unchecked>>
  BY DEF LdapFails
<1>2. Typed' BY <1>1, Ends, TypedLater DEF Typed, TypeOK
<1>3. pc'[t] = "idle" BY <1>1, Ends
<1>4. Checked(pc'[t], job'[t], groups, unchecked') BY <1>3 DEF Checked
<1> QED BY <1>1, <1>2, <1>4, OnlyGoesOn

-----------------------------------------------------------------------------
(* AccountGroupsResource.update and remove *)

LEMMA ValidateUpdateKeeps ==
  ASSUME Typed, NEW t \in Threads, NEW g \in Groups, NEW l \in Lists, NEW m \in AddMirrors,
         ValidateUpdate(t, g, l, m)
  PROVE  Typed' /\ (Alone /\ InTurn => InTurn')
<1> DEFINE members == MembersOf(l)
           mirrors == groups[g].mirrors \cup m
           new == [members |-> members, mirrors |-> mirrors]
           x == [NoJob EXCEPT !.name = g, !.group = new]
<1>1. /\ Exists(g) /\ AllExist(l) /\ ~Circular(g, members)
      /\ Step(t, "idle", "update", x)
      /\ unchecked' = unchecked \cup {s \in m : ~Exists(s)}
      /\ UNCHANGED <<accounts, groups, aliases, untold>>
  BY DEF ValidateUpdate
<1>2. accounts \subseteq Accounts /\ groups \in [Groups -> Group \cup {None}]
      /\ aliases \subseteq Groups /\ untold \subseteq Groups /\ unchecked \subseteq Groups
  BY DEF Typed, TypeOK
<1>3. groups[g] \in Group BY <1>1, <1>2 DEF Exists
<1>4. m \in SUBSET Groups /\ mirrors \in SUBSET Groups BY <1>3, NamesAssumption DEF Group
<1>5. members \in SUBSET DNs BY <1>1, <1>2, DNTypes DEF Lists
<1> HIDE DEF members, mirrors
<1>6. new \in Group /\ new.members = members /\ new.mirrors = mirrors BY <1>4, <1>5, GroupTypes
<1> HIDE DEF new
<1>7. x \in Job /\ x.name = g /\ x.group = new BY <1>6, JobToWrite
<1> HIDE DEF x
<1>8. JobOK("update", x) BY <1>6, <1>7 DEF JobOK
<1>9. /\ pc' \in [Threads -> Point] /\ job' \in [Threads -> Job]
      /\ \A u \in Threads : JobOK(pc'[u], job'[u])
      /\ \A u \in Threads : pc'[u] \in {"create", "update", "joined"} => job'[u].group # None
      /\ pc[t] = "idle" /\ pc'[t] = "update" /\ job'[t] = x
  BY <1>1, <1>7, <1>8, Steps DEF Point
<1>10. unchecked' \subseteq Groups BY <1>1, <1>2, <1>4
<1>11. Typed' BY <1>1, <1>2, <1>9, <1>10, TypedLater
<1>12. ASSUME Alone, InTurn PROVE InTurn'
  <2>1. MirrorsOK(groups, unchecked) BY <1>12, InTurnHas
  <2>2. Apart(groups, g, GroupsIn(members)) BY <1>1, NotCircular
  <2>3. Sources(groups, unchecked, groups[g].mirrors) BY <1>1, <2>1 DEF MirrorsOK, Exists
  <2>4. Sources(groups, unchecked', mirrors) BY <1>1, <2>3 DEF Sources, Exists, mirrors
  <2>5. Checked("update", x, groups, unchecked') BY <1>6, <1>7, <2>2, <2>4 DEF Checked
  <2> QED BY <1>1, <1>9, <1>12, <2>5, OnlyGoesOn
<1> QED BY <1>11, <1>12

LEMMA ValidateDeleteKeeps ==
  ASSUME Typed, NEW t \in Threads, NEW g \in Groups, ValidateEmpty(t, g) \/ ValidateRemove(t, g)
  PROVE  Typed' /\ (Alone /\ InTurn => InTurn')
<1> DEFINE x == [NoJob EXCEPT !.name = g]
<1>1. /\ Exists(g) /\ Deletable(g)
      /\ \E to \in {"delete", "remove"} : Step(t, "idle", to, x)
      /\ UNCHANGED <<accounts, groups, aliases, untold, unchecked>>
  BY DEF ValidateEmpty, ValidateRemove
<1>2. PICK to \in {"delete", "remove"} : Step(t, "idle", to, x) BY <1>1
<1>3. x \in Job /\ x.name = g BY JobFor
<1> HIDE DEF x
<1>4. to \in Point /\ JobOK(to, x) BY <1>3 DEF JobOK, Point
<1>5. /\ pc' \in [Threads -> Point] /\ job' \in [Threads -> Job]
      /\ \A u \in Threads : JobOK(pc'[u], job'[u])
      /\ \A u \in Threads : pc'[u] \in {"create", "update", "joined"} => job'[u].group # None
      /\ pc[t] = "idle" /\ pc'[t] = to /\ job'[t] = x
  BY <1>2, <1>3, <1>4, Steps
<1>6. Typed' BY <1>1, <1>5, TypedLater DEF Typed, TypeOK
<1>7. Checked(to, x, groups, unchecked)
  BY <1>1, <1>3 DEF Checked, Deletable, Mirrors, Exists
<1> QED BY <1>1, <1>5, <1>6, <1>7, OnlyGoesOn

LEMMA WriteUpdateKeeps ==
  ASSUME Typed, NEW t \in Threads, WriteUpdate(t)
  PROVE  Typed' /\ (Alone /\ InTurn => InTurn')
<1> DEFINE g == job[t].name
           x == [NoJob EXCEPT !.name = g]
<1>1. accounts \subseteq Accounts /\ groups \in [Groups -> Group \cup {None}]
      /\ aliases \subseteq Groups /\ untold \subseteq Groups /\ unchecked \subseteq Groups
  BY DEF Typed, TypeOK
<1>2. pc[t] = "update" /\ UNCHANGED <<accounts, aliases, untold, unchecked>> BY DEF WriteUpdate
<1>3. g \in Groups /\ job[t].group \in Group BY <1>2, TypedHas DEF JobOK
<1>4. CASE ~Exists(g)
  <2>1. End(t, "update") /\ UNCHANGED groups BY <1>4 DEF WriteUpdate
  <2>2. Typed' BY <1>1, <1>2, <2>1, Ends, TypedLater
  <2>3. pc'[t] = "idle" BY <2>1, Ends
  <2>4. Checked(pc'[t], job'[t], groups, unchecked') BY <2>3 DEF Checked
  <2> QED BY <1>2, <2>1, <2>2, <2>4, OnlyGoesOn
<1>5. CASE Exists(g)
  <2>1. Step(t, "update", "announce", x) /\ groups' = [groups EXCEPT ![g] = job[t].group]
    BY <1>5 DEF WriteUpdate
  <2>2. x \in Job /\ x.name = g BY <1>3, JobFor
  <2> HIDE DEF x
  <2>3. JobOK("announce", x) BY <1>3, <2>2 DEF JobOK
  <2>4. /\ pc' \in [Threads -> Point] /\ job' \in [Threads -> Job]
        /\ \A u \in Threads : JobOK(pc'[u], job'[u])
        /\ \A u \in Threads : pc'[u] \in {"create", "update", "joined"} => job'[u].group # None
        /\ pc'[t] = "announce" /\ job'[t] = x
    BY <2>1, <2>2, <2>3, Steps DEF Point
  <2>5. groups' \in [Groups -> Group \cup {None}] BY <1>1, <1>3, <2>1
  <2>6. Typed' BY <1>1, <1>2, <2>4, <2>5, TypedLater
  <2> QED BY <1>2, <2>1, <2>2, <2>4, <2>6, Written
<1> QED BY <1>4, <1>5

\* What was deletable still is when it is deleted: nothing mirrors it.
LEMMA DeleteKeeps ==
  ASSUME Typed, NEW t \in Threads, DeleteEmptied(t) \/ DeleteRemoved(t)
  PROVE  Typed' /\ (Alone /\ InTurn => InTurn')
<1> DEFINE g == job[t].name
<1>1. accounts \subseteq Accounts /\ groups \in [Groups -> Group \cup {None}]
      /\ aliases \subseteq Groups /\ untold \subseteq Groups /\ unchecked \subseteq Groups
  BY DEF Typed, TypeOK
<1>2. PICK from \in {"delete", "remove"}, to \in {"announce", "unannounce"} :
        /\ Step(t, from, to, job[t])
        /\ groups' = [groups EXCEPT ![g] = None]
        /\ untold' = untold \ {g}
        /\ UNCHANGED <<accounts, aliases, unchecked>>
  BY DEF DeleteEmptied, DeleteRemoved
<1>3. pc[t] = from BY <1>2 DEF Step
<1>4. g \in Groups /\ job[t] \in Job BY <1>3, TypedHas DEF JobOK
<1>5. to \in Point /\ JobOK(to, job[t]) BY <1>4 DEF JobOK, Point
<1>6. /\ pc' \in [Threads -> Point] /\ job' \in [Threads -> Job]
      /\ \A u \in Threads : JobOK(pc'[u], job'[u])
      /\ \A u \in Threads : pc'[u] \in {"create", "update", "joined"} => job'[u].group # None
      /\ pc'[t] = to /\ job'[t] = job[t]
  BY <1>2, <1>4, <1>5, Steps
<1>7. groups' \in [Groups -> Group \cup {None}] BY <1>1, <1>2
<1>8. Typed' BY <1>1, <1>2, <1>6, <1>7, TypedLater
<1>9. groups'[g] = None /\ \A h \in Groups \ {g} : groups'[h] = groups[h] BY <1>1, <1>2, <1>4
<1>10. ASSUME Alone, InTurn PROVE InTurn'
  <2>1. /\ Acyclic(groups) /\ MirrorsOK(groups, unchecked)
        /\ Checked(pc[t], job[t], groups, unchecked)
        /\ Announced(groups, aliases, untold, pc[t], job[t])
    BY <1>10, InTurnHas
  <2>2. \A h \in Groups : groups[h] # None => g \notin groups[h].mirrors
    BY <1>3, <2>1 DEF Checked
  <2> HIDE DEF g
  <2>3. /\ \A h \in Groups : Inside(groups', h) \subseteq Inside(groups, h)
        /\ \A h \in Groups : groups'[h] # None => groups[h] # None
    BY <1>9 DEF Inside
  <2>4. Acyclic(groups') BY <2>1, <2>3, FewerKeeps
  <2>5. MirrorsOK(groups', unchecked')
    <3> SUFFICES ASSUME NEW h \in Groups, groups'[h] # None, NEW s \in groups'[h].mirrors
                 PROVE  groups'[s] # None \/ s \in unchecked'
      BY DEF MirrorsOK, Sources
    <3>1. groups'[h] = groups[h] /\ groups[h] \in Group BY <1>1, <1>9
    <3>2. s \in Groups /\ s # g BY <2>2, <3>1 DEF Group
    <3> QED BY <1>2, <1>9, <2>1, <3>1, <3>2 DEF MirrorsOK, Sources
  <2>6. Checked(to, job[t], groups', unchecked') BY <1>9 DEF Checked, g
  <2>7. Announced(groups', aliases', untold', to, job[t]) BY <1>2, <1>3, <1>9, <2>1 DEF Announced
  <2> QED BY <1>6, <1>10, <2>4, <2>5, <2>6, <2>7, InTurnLater
<1> QED BY <1>8, <1>10

-----------------------------------------------------------------------------
(* Accounts *)

LEMMA AccountKeeps ==
  ASSUME Typed, NEW n \in Accounts, (\E t \in Threads : CreateAccount(t, n)) \/ DeleteAccount(n)
  PROVE  Typed' /\ (Alone /\ InTurn => InTurn')
<1>1. CASE DeleteAccount(n)
  <2>1. UNCHANGED <<groups, aliases, untold, pc, job, unchecked>> /\ accounts' \subseteq accounts
    BY <1>1 DEF DeleteAccount
  <2> QED BY <2>1 DEF Typed, TypeOK, InTurn, MirrorSourcesExist, Exists
<1>2. ASSUME NEW t \in Threads, CreateAccount(t, n)
      PROVE  Typed' /\ (Alone /\ InTurn => InTurn')
  <2> DEFINE x == [NoJob EXCEPT !.account = n]
  <2>1. /\ Step(t, "idle", "join", x) /\ accounts' = accounts \cup {n}
        /\ UNCHANGED <<groups, aliases, untold, unchecked>>
    BY <1>2 DEF CreateAccount
  <2>2. x \in Job /\ x.account = n BY JobOfAccount
  <2> HIDE DEF x
  <2>3. "join" \in Point /\ JobOK("join", x) BY <2>2 DEF JobOK, Point
  <2>4. /\ pc' \in [Threads -> Point] /\ job' \in [Threads -> Job]
        /\ \A u \in Threads : JobOK(pc'[u], job'[u])
        /\ \A u \in Threads : pc'[u] \in {"create", "update", "joined"} => job'[u].group # None
        /\ pc[t] = "idle" /\ pc'[t] = "join" /\ job'[t] = x
    BY <2>1, <2>2, <2>3, Steps
  <2>5. Typed' BY <2>1, <2>4, TypedLater DEF Typed, TypeOK
  <2>6. Checked("join", x, groups, unchecked) BY DEF Checked
  <2> QED BY <2>1, <2>4, <2>5, <2>6, OnlyGoesOn
<1> QED BY <1>1, <1>2

LEMMA DefaultKeeps ==
  ASSUME Typed, NEW t \in Threads, ReadDefault(t) \/ WriteDefault(t)
  PROVE  Typed' /\ (Alone /\ InTurn => InTurn')
<1>1. accounts \subseteq Accounts /\ groups \in [Groups -> Group \cup {None}]
      /\ aliases \subseteq Groups /\ untold \subseteq Groups /\ unchecked \subseteq Groups /\ Default \in Groups
  BY NamesAssumption DEF Typed, TypeOK
<1>2. UNCHANGED <<accounts, aliases, untold, unchecked>> BY DEF ReadDefault, WriteDefault
<1>3. pc[t] \in {"join", "joined"} BY DEF ReadDefault, WriteDefault, End, Step
<1>4. job[t].account \in Accounts /\ job[t] \in Job BY <1>3, TypedHas DEF JobOK
\* The default group changes, in nothing that matters here but its members.
<1>5. ASSUME Alone, InTurn, groups'[Default] \in Group,
             \A h \in Groups \ {Default} : groups'[h] = groups[h],
             groups[Default] # None =>
               /\ GroupsIn(groups'[Default].members) = GroupsIn(groups[Default].members)
               /\ groups'[Default].mirrors = groups[Default].mirrors,
             groups[Default] = None =>
               GroupsIn(groups'[Default].members) = {} /\ groups'[Default].mirrors = {},
             Checked(pc'[t], job'[t], groups', unchecked')
      PROVE  InTurn'
  <2>1. /\ Acyclic(groups) /\ MirrorsOK(groups, unchecked)
        /\ Announced(groups, aliases, untold, pc[t], job[t])
    BY <1>5, InTurnHas
  <2>2. groups'[Default] # None BY <1>5, NoneAssumption
  <2>3. \A h \in Groups : Inside(groups', h) = Inside(groups, h)
    BY <1>5, <2>2 DEF Inside
  <2>4. \A h \in Groups : groups'[h] # None => groups[h] # None \/ Inside(groups', h) = {}
    BY <1>5, <2>2 DEF Inside
  <2>5. Acyclic(groups') BY <2>1, <2>3, <2>4, FewerKeeps
  <2>6. MirrorsOK(groups', unchecked')
    <3> SUFFICES ASSUME NEW h \in Groups, groups'[h] # None
                 PROVE  Sources(groups', unchecked', groups'[h].mirrors)
      BY DEF MirrorsOK
    <3>1. \A s \in Groups : groups[s] # None => groups'[s] # None BY <1>5, <2>2
    <3>2. CASE groups[h] = None
      <4>1. groups'[h].mirrors = {} BY <1>5, <3>2
      <4> QED BY <4>1 DEF Sources
    <3>3. CASE groups[h] # None
      <4>1. groups'[h].mirrors = groups[h].mirrors BY <1>5, <3>3
      <4>2. groups[h].mirrors \in SUBSET Groups BY <1>1, <3>3 DEF Group
      <4>3. Sources(groups, unchecked, groups[h].mirrors) BY <2>1, <3>3 DEF MirrorsOK
      <4> QED BY <1>2, <3>1, <4>1, <4>2, <4>3 DEF Sources
    <3> QED BY <3>2, <3>3
  <2>7. Announced(groups', aliases', untold', pc'[t], job'[t])
    BY <1>2, <1>3, <1>5, <2>1 DEF Announced
  <2> QED BY <1>5, <2>5, <2>6, <2>7, InTurnLater
<1>6. CASE ReadDefault(t)
  <2> DEFINE default == IF groups[Default] # None THEN groups[Default] ELSE Empty
             x == [job[t] EXCEPT !.group = Joined(groups, job[t].account)]
  <2>1. Step(t, "join", "joined", x) /\ groups' = [groups EXCEPT ![Default] = default]
    BY <1>6 DEF ReadDefault, Exists, Joined
  <2>2. /\ default \in Group /\ Joined(groups, job[t].account) \in Group
        /\ GroupsIn(Joined(groups, job[t].account).members) = GroupsIn(default.members)
        /\ Joined(groups, job[t].account).mirrors = default.mirrors
    BY <1>1, <1>4, JoinedType
  <2>3. x \in Job /\ x.group = Joined(groups, job[t].account) /\ x.account = job[t].account
    BY <1>4, <2>2, JobJoined
  <2>4. groups[Default] = None => GroupsIn(default.members) = {} /\ default.mirrors = {}
    BY EmptyType
  <2>5. groups[Default] # None => default = groups[Default] OBVIOUS
  <2> HIDE DEF x, default
  <2>6. "joined" \in Point /\ JobOK("joined", x) BY <1>4, <2>2, <2>3 DEF JobOK, Point
  <2>7. /\ pc' \in [Threads -> Point] /\ job' \in [Threads -> Job]
        /\ \A u \in Threads : JobOK(pc'[u], job'[u])
        /\ \A u \in Threads : pc'[u] \in {"create", "update", "joined"} => job'[u].group # None
        /\ pc'[t] = "joined" /\ job'[t] = x
    BY <2>1, <2>3, <2>6, Steps
  <2>8. /\ groups' \in [Groups -> Group \cup {None}] /\ groups'[Default] = default
        /\ \A h \in Groups \ {Default} : groups'[h] = groups[h]
    BY <1>1, <2>1, <2>2
  <2>9. Typed' BY <1>1, <1>2, <2>7, <2>8, TypedLater
  <2>10. Checked(pc'[t], job'[t], groups', unchecked')
    BY <2>2, <2>3, <2>7, <2>8, NoneAssumption DEF Checked
  <2> QED BY <1>5, <2>2, <2>4, <2>5, <2>8, <2>9, <2>10
<1>7. CASE WriteDefault(t)
  <2>1. End(t, "joined") /\ groups' = [groups EXCEPT ![Default] = job[t].group]
    BY <1>7 DEF WriteDefault
  <2>2. pc[t] = "joined" /\ pc'[t] = "idle" BY <2>1, Ends
  <2>3. job[t].group \in Group BY <2>2, TypedHas DEF JobOK
  <2>4. /\ groups' \in [Groups -> Group \cup {None}] /\ groups'[Default] = job[t].group
        /\ \A h \in Groups \ {Default} : groups'[h] = groups[h]
    BY <1>1, <2>1, <2>3
  <2>5. Typed' BY <1>1, <1>2, <2>1, <2>4, Ends, TypedLater
  <2>6. ASSUME Alone, InTurn PROVE InTurn'
    <3>1. Checked("joined", job[t], groups, unchecked) BY <2>2, <2>6, InTurnHas
    <3>2. /\ groups[Default] # None
          /\ GroupsIn(job[t].group.members) = GroupsIn(groups[Default].members)
          /\ job[t].group.mirrors = groups[Default].mirrors
      BY <3>1 DEF Checked
    <3>3. Checked(pc'[t], job'[t], groups', unchecked') BY <2>2 DEF Checked
    <3> QED BY <1>5, <2>3, <2>4, <2>6, <3>2, <3>3
  <2> QED BY <2>5, <2>6
<1> QED BY <1>6, <1>7

-----------------------------------------------------------------------------
(* The theorems.                                                           *)

LEMMA InitHolds == Init => Typed /\ InTurn
<1> SUFFICES ASSUME Init PROVE Typed /\ InTurn OBVIOUS
<1> DEFINE first == [Empty EXCEPT !.members = {AccountDN(Caller)}]
<1>1. /\ groups = [g \in Groups |-> IF g = Default THEN first ELSE None]
      /\ \A t \in Threads : pc[t] = "idle" /\ job[t] = NoJob
  BY DEF Init
<1>2. AccountDN(Caller) \in DNs /\ \A h \in Groups : GroupDN(h) # AccountDN(Caller)
  BY NamesAssumption DEF DNs, AccountDN, GroupDN
<1>3. first \in Group /\ first.mirrors = {} /\ GroupsIn(first.members) = {}
  BY <1>2 DEF Empty, Group, GroupsIn
<1> HIDE DEF first
<1>4. groups \in [Groups -> Group \cup {None}] BY <1>1, <1>3
<1>5. Typed
  BY <1>4, NoJobType, NamesAssumption DEF Init, Typed, TypeOK, JobOK
<1>6. \A h \in Groups : Inside(groups, h) = {} BY <1>1, <1>3 DEF Inside
<1>7. Acyclic(groups)
  <2>1. \A g \in Groups : {} \in SUBSET (Groups \ {g}) /\ Closed(groups, {}) BY DEF Closed
  <2> QED BY <1>6, <2>1 DEF Acyclic, Apart
<1>8. MirrorSourcesExist BY <1>1, <1>3 DEF MirrorSourcesExist, Exists
<1>9. \A t \in Threads : Checked(pc[t], job[t], groups, unchecked) BY <1>1 DEF Checked
<1>10. \A g \in Groups \ {Default} : ~Exists(g) BY <1>1 DEF Exists
<1> QED BY <1>5, <1>7, <1>8, <1>9, <1>10 DEF InTurn

LEMMA NextKeeps == Typed /\ [Next]_vars => Typed' /\ (Alone /\ InTurn => InTurn')
<1> SUFFICES ASSUME Typed, [Next]_vars PROVE Typed' /\ (Alone /\ InTurn => InTurn') OBVIOUS
<1>1. ASSUME NEW t \in Threads, NEW g \in Groups, NEW l \in Lists, NEW m \in NewMirrors,
             ValidateCreate(t, g, l, m)
      PROVE  Typed' /\ (Alone /\ InTurn => InTurn')
  BY <1>1, ValidateCreateKeeps
<1>2. ASSUME NEW t \in Threads, NEW g \in Groups, NEW l \in Lists, NEW m \in AddMirrors,
             ValidateUpdate(t, g, l, m)
      PROVE  Typed' /\ (Alone /\ InTurn => InTurn')
  BY <1>2, ValidateUpdateKeeps
<1>3. ASSUME NEW t \in Threads, NEW g \in Groups, ValidateEmpty(t, g) \/ ValidateRemove(t, g)
      PROVE  Typed' /\ (Alone /\ InTurn => InTurn')
  BY <1>3, ValidateDeleteKeeps
<1>4. ASSUME NEW t \in Threads,
             \/ WriteNew(t) \/ WriteUpdate(t) \/ Answers(t) \/ LdapFails(t)
             \/ DeleteEmptied(t) \/ DeleteRemoved(t) \/ ReadDefault(t) \/ WriteDefault(t)
      PROVE  Typed' /\ (Alone /\ InTurn => InTurn')
  BY <1>4, WriteNewKeeps, WriteUpdateKeeps, AnnounceKeeps, LdapFailsKeeps, DeleteKeeps,
     DefaultKeeps
<1>5. ASSUME NEW n \in Accounts, (\E t \in Threads : CreateAccount(t, n)) \/ DeleteAccount(n)
      PROVE  Typed' /\ (Alone /\ InTurn => InTurn')
  BY <1>5, AccountKeeps
<1>6. CASE UNCHANGED vars
  BY <1>6 DEF vars, Typed, TypeOK, InTurn, MirrorSourcesExist, Exists
<1> QED BY <1>1, <1>2, <1>3, <1>4, <1>5, <1>6 DEF Next, Answers

\* Every variable keeps its type, for any number of threads, groups and accounts:
\* AccountGroupDAO lists no member that is neither an account nor a group.
THEOREM TypeCorrect == Spec => []TypeOK
<1>1. Init => Typed BY InitHolds
<1>2. Typed /\ [Next]_vars => Typed' BY NextKeeps
<1>3. Typed => TypeOK BY DEF Typed
<1> QED BY <1>1, <1>2, <1>3, PTL DEF Spec

LEMMA InTurnInvariant == ASSUME Alone PROVE Spec => [](Typed /\ InTurn)
<1>1. Init => Typed /\ InTurn BY InitHolds
<1>2. Typed /\ InTurn /\ [Next]_vars => (Typed /\ InTurn)' BY NextKeeps
<1> QED BY <1>1, <1>2, PTL DEF Spec

\* One request at a time: createsCircularReference lets no group come to contain
\* itself, however groups are created, changed, deleted and created again.
THEOREM NeverCircular == ASSUME Alone PROVE Spec => []NoCircularMembership
<1>1. InTurn => NoCircularMembership BY AcyclicMeans DEF InTurn
<1> QED BY <1>1, InTurnInvariant, PTL

\* One request at a time: the check of AccountGroupDAO.delete that nothing mirrors
\* the group keeps the source of every mirror that was looked up when it was made.
THEOREM MirrorsKeepSources == ASSUME Alone PROVE Spec => []MirrorSourcesExist
<1>1. InTurn => MirrorSourcesExist BY DEF InTurn
<1> QED BY <1>1, InTurnInvariant, PTL

\* One request at a time: when it is over, rooty has been told of every group that
\* AccountGroupsResource created and did not remove, but those whose announcement
\* failed after they were written and was not repeated.
THEOREM AliasesFollowGroups == ASSUME Alone PROVE Spec => []GroupsHaveAliases
<1>1. InTurn => GroupsHaveAliases BY DEF InTurn, GroupsHaveAliases, Idle
<1> QED BY <1>1, InTurnInvariant, PTL
=============================================================================
