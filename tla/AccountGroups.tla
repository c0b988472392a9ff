---------------------------- MODULE AccountGroups ----------------------------
(***************************************************************************)
(* Groups of accounts in LDAP: AccountGroupsResource and AccountGroupDAO,  *)
(* with the e-mail aliases rooty keeps for them, and the part of account   *)
(* creation and deletion that touches them.  A group has members, which    *)
(* are accounts or groups, and mirrors: the groups whose members it also   *)
(* has.  A request reads LDAP, decides, and writes back; requests on other *)
(* threads come between.                                                   *)
(*                                                                         *)
(* A definition whose name has a suffix (Deletable_MirrorsIgnored) is the  *)
(* one that follows it with a plausible bug; the specification never uses  *)
(* it.                                                                     *)
(***************************************************************************)
EXTENDS Naturals, FiniteSets

CONSTANTS
  Threads,   \* server threads
  Groups,    \* names a group may have
  Accounts,  \* names an account may have
  Default,   \* DEFAULT_GROUP_NAME, which every new account joins
  None,      \* null
  Caller,    \* the administrator who makes the requests
  NewMirrors,  \* the mirrors a new group may have
  AddMirrors,  \* the mirrors an update may ask for
  MaxList    \* bound on the names a request lists

ASSUME NamesAssumption ==
  /\ Default \in Groups
  /\ Caller \in Accounts \ Groups
  /\ None \notin Groups \cup Accounts
  /\ NewMirrors \subseteq SUBSET Groups
  /\ AddMirrors \subseteq SUBSET Groups
  /\ MaxList \in Nat

VARIABLES
  accounts,  \* the accounts in LDAP
  groups,    \* per name, the group in LDAP or None
  aliases,   \* groups rooty was told to have an e-mail alias for
  pc, job,
  untold,    \* history: groups without an alias because an announcement failed
  unchecked  \* history: groups that were not there when an update asked to mirror
             \* them, and have not been created since

vars == <<accounts, groups, aliases, pc, job, untold, unchecked>>

\* Distinguished names tell accounts and groups of one name apart.
AccountDN(n) == <<"account", n>>
GroupDN(n) == <<"group", n>>
DNs   == {AccountDN(n) : n \in Accounts} \cup {GroupDN(n) : n \in Groups}
Group == [members : SUBSET DNs, mirrors : SUBSET Groups]
Names == Groups \cup Accounts

ASSUME NoneAssumption == None \notin Group

Lists == {l \in SUBSET Names : Cardinality(l) <= MaxList}

\* A request's group name and the group it will write, or the account that joins.
Job   == [name : Groups \cup {None}, group : Group \cup {None},
          account : Accounts \cup {None}]
Empty == [members |-> {}, mirrors |-> {}]
NoJob == [name |-> None, group |-> None, account |-> None]

Init ==
  /\ accounts = {Caller}
  /\ groups = [g \in Groups |->
       IF g = Default THEN [Empty EXCEPT !.members = {AccountDN(Caller)}] ELSE None]
  /\ aliases = {}
  /\ pc = [t \in Threads |-> "idle"]
  /\ job = [t \in Threads |-> NoJob]
  /\ untold = {}
  /\ unchecked = {}

-----------------------------------------------------------------------------
(* Helpers *)

Exists(g) == groups[g] # None

Step(t, from, to, j) ==
  /\ pc[t] = from
  /\ pc' = [pc EXCEPT ![t] = to]
  /\ job' = [job EXCEPT ![t] = j]

\* The request is over, with whatever status.
End(t, from) == Step(t, from, "idle", NoJob)

DNOf_AccountsOnly(n) == AccountDN(n)

\* findAccountOrGroupDN: an account goes before a group of the same name.
DNOf(n) == IF n \in accounts THEN AccountDN(n) ELSE GroupDN(n)

MembersOf(l) == {DNOf(n) : n \in l}

AllExist(l) == \A n \in l : n \in accounts \/ (n \in Groups /\ Exists(n))

\* The groups that are members of a group, if it had these members.
MemberGroups(g, name, members) ==
  LET its == IF g = name THEN members ELSE IF Exists(g) THEN groups[g].members ELSE {}
  IN  {h \in Groups : GroupDN(h) \in its}

\* createsCircularReference: whether the group would contain itself.  (It also
\* refuses members it meets twice, which is one more request that is refused.)
\* A group does not contain itself if its member groups are among a set of groups
\* that has their member groups too, and not itself.
Circular(name, members) ==
  \A S \in SUBSET (Groups \ {name}) :
    \E g \in S \cup {name} : ~ MemberGroups(g, name, members) \subseteq S

\* AccountGroupDAO.delete's conditions.
Mirrors(g) == {h \in Groups : Exists(h) /\ g \in groups[h].mirrors}

Deletable_MirrorsIgnored(g) == g # Default

Deletable(g) == Mirrors(g) = {} /\ g # Default

\* The members of a group's mirror sources.  A source may have gone.
MirroredMembers(mirrors) ==
  UNION {groups[m].members : m \in {m \in mirrors : Exists(m)}}

-----------------------------------------------------------------------------
(* AccountGroupsResource.create *)

\* A group that would be empty gets the caller as its member.  AccountGroupDAO
\* validates: sources and recipients exist (the default group is created for a
\* mirror), the name is free, no circular reference, members in the end.
ValidateCreate(t, g, l, m) ==
  LET recipients == IF l = {} /\ m = {} THEN {Caller} ELSE l
      members    == MembersOf(recipients) IN
  /\ pc[t] = "idle"
  /\ ~Exists(g)
  /\ \A s \in m : Exists(s) \/ s = Default
  /\ g \notin accounts
  /\ AllExist(recipients)
  /\ ~Circular(g, members)
  /\ members \cup MirroredMembers(m) # {}
  /\ Step(t, "idle", "create",
          [NoJob EXCEPT !.name = g, !.group = [members |-> members, mirrors |-> m]])
  /\ groups' = IF Default \in m /\ ~Exists(Default)
               THEN [groups EXCEPT ![Default] = Empty] ELSE groups
  /\ UNCHANGED <<accounts, aliases, untold, unchecked>>

WriteNew_NotAnnounced(t) ==
  LET g == job[t].name IN
  /\ End(t, "create")
  /\ groups' = IF Exists(g) THEN groups ELSE [groups EXCEPT ![g] = job[t].group]
  /\ unchecked' = unchecked \ {g}
  /\ UNCHANGED <<accounts, aliases, untold>>

\* super.create; LDAP refuses a name that is taken by now.
WriteNew(t) ==
  LET g == job[t].name IN
  /\ pc[t] = "create"
  /\ IF Exists(g)
     THEN End(t, "create") /\ UNCHANGED <<groups, unchecked>>
     ELSE Step(t, "create", "announce", [NoJob EXCEPT !.name = g])
          /\ groups' = [groups EXCEPT ![g] = job[t].group]
          /\ unchecked' = unchecked \ {g}
  /\ UNCHANGED <<accounts, aliases, untold>>

\* announce(NewEmailAliasEvent)
Announce(t) ==
  /\ End(t, "announce")
  /\ aliases' = aliases \cup {job[t].name}
  /\ untold' = untold \ {job[t].name}
  /\ UNCHANGED <<accounts, groups, unchecked>>

\* The queue does not take the event, or the view of the new group cannot be
\* built: the request ends with an error, and the group stays as written.
AnnounceFails(t) ==
  /\ End(t, "announce")
  /\ untold' = untold \cup {g \in {job[t].name} : Exists(g) /\ g \notin aliases}
  /\ UNCHANGED <<accounts, groups, aliases, unchecked>>

-----------------------------------------------------------------------------
(* AccountGroupsResource.update *)

\* With recipients: they must exist and close no circle.  The mirrors asked for
\* are added to those the group has, and not looked up.
ValidateUpdate_NotCircular(t, g, l, m) ==
  /\ pc[t] = "idle"
  /\ Exists(g)
  /\ l # {} /\ AllExist(l)
  /\ Step(t, "idle", "update",
          [NoJob EXCEPT !.name = g,
             !.group = [members |-> MembersOf(l), mirrors |-> groups[g].mirrors \cup m]])
  /\ unchecked' = unchecked \cup {s \in m : ~Exists(s)}
  /\ UNCHANGED <<accounts, groups, aliases, untold>>

ValidateUpdate(t, g, l, m) ==
  /\ pc[t] = "idle"
  /\ Exists(g)
  /\ l # {} /\ AllExist(l)
  /\ ~Circular(g, MembersOf(l))
  /\ Step(t, "idle", "update",
          [NoJob EXCEPT !.name = g,
             !.group = [members |-> MembersOf(l), mirrors |-> groups[g].mirrors \cup m]])
  /\ unchecked' = unchecked \cup {s \in m : ~Exists(s)}
  /\ UNCHANGED <<accounts, groups, aliases, untold>>

\* Without: the group is to be deleted, and announced as if it were new.
ValidateEmpty(t, g) ==
  /\ Exists(g)
  /\ Deletable(g)
  /\ Step(t, "idle", "delete", [NoJob EXCEPT !.name = g])
  /\ UNCHANGED <<accounts, groups, aliases, untold, unchecked>>

\* update(group): the whole group as it was read and changed, if still there.
WriteUpdate(t) ==
  LET g == job[t].name IN
  /\ pc[t] = "update"
  /\ IF Exists(g)
     THEN Step(t, "update", "announce", [NoJob EXCEPT !.name = g])
          /\ groups' = [groups EXCEPT ![g] = job[t].group]
     ELSE End(t, "update") /\ UNCHANGED groups
  /\ UNCHANGED <<accounts, aliases, untold, unchecked>>

DeleteEmptied(t) ==
  /\ pc[t] = "delete"
  /\ Step(t, "delete", "announce", job[t])
  /\ groups' = [groups EXCEPT ![job[t].name] = None]
  /\ untold' = untold \ {job[t].name}
  /\ UNCHANGED <<accounts, aliases, unchecked>>

-----------------------------------------------------------------------------
(* AccountGroupsResource.remove *)

ValidateRemove(t, g) ==
  /\ Exists(g)
  /\ Deletable(g)
  /\ Step(t, "idle", "remove", [NoJob EXCEPT !.name = g])
  /\ UNCHANGED <<accounts, groups, aliases, untold, unchecked>>

DeleteRemoved(t) ==
  /\ pc[t] = "remove"
  /\ Step(t, "remove", "unannounce", job[t])
  /\ groups' = [groups EXCEPT ![job[t].name] = None]
  /\ untold' = untold \ {job[t].name}
  /\ UNCHANGED <<accounts, aliases, unchecked>>

\* announce(RemoveEmailAliasEvent)
Unannounce(t) ==
  /\ End(t, "unannounce")
  /\ aliases' = aliases \ {job[t].name}
  /\ UNCHANGED <<accounts, groups, untold, unchecked>>

\* The group is gone and its alias stays.
UnannounceFails(t) ==
  /\ End(t, "unannounce")
  /\ UNCHANGED <<accounts, groups, aliases, untold, unchecked>>

-----------------------------------------------------------------------------
(* Accounts: AccountDAO.create with postCreate, and AccountDAO.delete *)

\* The account's entry; nothing asks whether a group has that name.
CreateAccount(t, n) ==
  /\ n \notin accounts
  /\ Step(t, "idle", "join", [NoJob EXCEPT !.account = n])
  /\ accounts' = accounts \cup {n}
  /\ UNCHANGED <<groups, aliases, untold, unchecked>>

\* addToDefaultGroup reads the default group, creating it if need be ...
ReadDefault(t) ==
  LET default == IF Exists(Default) THEN groups[Default] ELSE Empty IN
  /\ Step(t, "join", "joined", [job[t] EXCEPT !.group =
       [default EXCEPT !.members = @ \cup {AccountDN(job[t].account)}]])
  /\ groups' = [groups EXCEPT ![Default] = default]
  /\ UNCHANGED <<accounts, aliases, untold, unchecked>>

\* ... and writes it back with the new member.
WriteDefault(t) ==
  /\ End(t, "joined")
  /\ groups' = [groups EXCEPT ![Default] = job[t].group]
  /\ UNCHANGED <<accounts, aliases, untold, unchecked>>

\* Whatever a request was about to write to LDAP is not written, and it ends.
LdapFails(t) ==
  /\ pc[t] \in {"create", "update", "delete", "remove", "join", "joined"}
  /\ End(t, pc[t])
  /\ UNCHANGED <<accounts, groups, aliases, untold, unchecked>>

\* Its memberships stay.  The caller cannot delete its own account.
DeleteAccount(n) ==
  /\ n \in accounts \ {Caller}
  /\ accounts' = accounts \ {n}
  /\ UNCHANGED <<groups, aliases, untold, pc, job, unchecked>>

-----------------------------------------------------------------------------
Next ==
  \/ \E t \in Threads :
       \/ \E g \in Groups, l \in Lists :
            \/ \E m \in NewMirrors : ValidateCreate(t, g, l, m)
            \/ \E m \in AddMirrors : ValidateUpdate(t, g, l, m)
       \/ \E g \in Groups : ValidateEmpty(t, g) \/ ValidateRemove(t, g)
       \/ WriteNew(t) \/ WriteUpdate(t) \/ Announce(t) \/ AnnounceFails(t)
       \/ DeleteEmptied(t) \/ DeleteRemoved(t) \/ Unannounce(t) \/ UnannounceFails(t)
       \/ LdapFails(t)
       \/ \E n \in Accounts : CreateAccount(t, n)
       \/ ReadDefault(t) \/ WriteDefault(t)
  \/ \E n \in Accounts : DeleteAccount(n)

Spec == Init /\ [][Next]_vars

-----------------------------------------------------------------------------
(* Properties *)

Idle == \A t \in Threads : pc[t] = "idle"

\* Every variable has its type, every member that was ever listed is an account
\* or a group by that name, and a thread that writes has a group to write.
TypeOK ==
  /\ accounts \subseteq Accounts
  /\ groups \in [Groups -> Group \cup {None}]
  /\ aliases \subseteq Groups
  /\ untold \subseteq Groups
  /\ unchecked \subseteq Groups
  /\ pc \in [Threads -> {"idle", "create", "update", "delete", "announce", "remove",
                         "unannounce", "join", "joined"}]
  /\ job \in [Threads -> Job]
  /\ \A t \in Threads : pc[t] \in {"create", "update", "joined"} => job[t].group # None

\* No group contains itself, directly or through others, although a group may be
\* deleted while it is a member and another may be created in its name: the
\* check follows names, not groups.
NoCircularMembership ==
  \A g \in Groups :
    Exists(g) => ~Circular(g, groups[g].members)

\* One request at a time, what a mirror mirrors exists: a source with mirrors is
\* not deleted, and a source must be there when a mirror of it is created.  Only
\* an update may name a source that is not there, which nothing checks; once it
\* is created it is kept like any other.
MirrorSourcesExist ==
  \A g \in Groups : Exists(g) => \A s \in groups[g].mirrors : Exists(s) \/ s \in unchecked

\* Once no request is in progress, rooty has been told of every group, or the last
\* announcement of the group failed after the group was written: no request that
\* succeeds, in whatever order groups are created, changed, emptied and removed,
\* leaves a group without its alias.  The default group is not announced.
GroupsHaveAliases ==
  Idle => \A g \in Groups \ {Default} : Exists(g) => g \in aliases \/ g \in untold
=============================================================================
