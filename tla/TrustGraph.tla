----------------------------- MODULE TrustGraph -----------------------------
(***************************************************************************)
(* The trust graph (internal/trust/graph.go, tier.go): which peers belong  *)
(* to which small group, and which group vouches for which.  Every method  *)
(* holds the graph's lock, so each is one step.  A group that is not in    *)
(* the map is a group without members: the code makes no difference.       *)
(***************************************************************************)
EXTENDS Names, Naturals

VARIABLES members,   \* group -> its members
          endorsed   \* the pairs <<from, to>> of "from vouches for to"

graphVars == <<members, endorsed>>

NoMembers == [g \in Groups |-> {}]

GraphInit ==
  /\ members = NoMembers
  /\ endorsed = {}

\* CreateGroup and AddMember are the same operation.
AddMember(g, p) ==
  /\ members' = [members EXCEPT ![g] = @ \cup {p}]
  /\ UNCHANGED endorsed

Endorse(from, to) ==
  /\ endorsed' = endorsed \cup {<<from, to>>}
  /\ UNCHANGED members

IsMember(g, p) == p \in members[g]
GroupsOf(p) == {g \in Groups : IsMember(g, p)}

Stranger == 0
Endorsed == 1
SameGroup == 2

\* How far "from" trusts "to": a shared group outranks an endorsed one.
Trust(from, to) ==
  IF GroupsOf(from) \cap GroupsOf(to) # {} THEN SameGroup
  ELSE IF (GroupsOf(from) \X GroupsOf(to)) \cap endorsed # {} THEN Endorsed
  ELSE Stranger
=============================================================================
