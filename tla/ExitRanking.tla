---------------------------- MODULE ExitRanking ----------------------------
(***************************************************************************)
(* How a node picks an exit (internal/routing, trust/scope.go, and         *)
(* discoverExit in cmd/whatgate/main.go): the directory and the exits      *)
(* found on the private DHT are merged, filtered by the user's trust       *)
(* scope, probed and ranked.  All operators are pure.                      *)
(*                                                                         *)
(* Exits of other regions are as good as not listed.  What a node reports  *)
(* as its load only breaks ties, which are left open here, and a latency   *)
(* stands for the average over the probes (ewma.go).                       *)
(***************************************************************************)
EXTENDS Integers, FiniteSets, Functions

CONSTANTS Nodes, Self,  \* the nodes a directory may list, and this one
          TrustWeight, LatencyWeight  \* -rank-trust-weight, -rank-latency-weight

Tiers == 0..2
Stranger == 0
Endorsed == 1

Scopes == {"conservative", "open"}

Allows(range, tier) == range = "open" \/ tier >= Endorsed

\* What a directory says of the nodes it lists, and what probes can find.
Entries == [tier : Tiers, want : BOOLEAN]
Directories == UNION {[S -> Entries] : S \in SUBSET Nodes}
Near == 1
Far == 3  \* 1 << 30: unreachable this round
Probes == [Nodes \ {Self} -> {Near, Far}]

\* Mutant: who has a verified record is taken for endorsed.
MergeVouched(dir, found) ==
  [n \in DOMAIN dir \cup found |->
     IF n \in DOMAIN dir THEN dir[n] ELSE [tier |-> Endorsed, want |-> TRUE]]

\* MergeExits: the directory's entry wins; the DHT cannot vouch for anybody.
Merge(dir, found) ==
  [n \in DOMAIN dir \cup found |->
     IF n \in DOMAIN dir THEN dir[n] ELSE [tier |-> Stranger, want |-> TRUE]]

Eligible(nodes, range) ==
  {n \in DOMAIN nodes \ {Self} : nodes[n].want /\ Allows(range, nodes[n].tier)}

\* RankExits: trust first, then latency.
Precedes(nodes, latency, m, n) ==
  \/ nodes[m].tier > nodes[n].tier
  \/ nodes[m].tier = nodes[n].tier /\ latency[m] < latency[n]

Score(nodes, latency, n) == TrustWeight * nodes[n].tier - LatencyWeight * latency[n]

\* RankExitsWeighted, taken when a weight is set.
PrecedesWeighted(nodes, latency, m, n) ==
  LET a == Score(nodes, latency, m)
      b == Score(nodes, latency, n)
  IN  a > b \/ (a = b /\ Precedes(nodes, latency, m, n))

Before(nodes, latency, weighted, m, n) ==
  IF weighted THEN PrecedesWeighted(nodes, latency, m, n)
              ELSE Precedes(nodes, latency, m, n)

\* Those that may be ranked first.
First(nodes, latency, weighted, range) ==
  {n \in Eligible(nodes, range) :
     \A m \in Eligible(nodes, range) : ~Before(nodes, latency, weighted, m, n)}

\* The tier the coordinator gives a node: nobody else can.
TierIn(dir, n) == IF n \in DOMAIN dir THEN dir[n].tier ELSE Stranger

\* The nodes a ranking may put first, over all probes.
Leaders(nodes, range) ==
  UNION {First(nodes, latency, weighted, range) : latency \in Probes, weighted \in BOOLEAN}

\* What discoverExit may return with a directory and what the plane found.
Picks(range, plane, dir, found) ==
  {[scope |-> range, dht |-> plane, exit |-> n, tier |-> TierIn(dir, n)] :
     n \in Leaders(Merge(dir, found), range)}

\* The same over all directories.  plane: the node takes part in the discovery
\* plane; without it nothing is found there.
Found ==
  UNION {Picks(range, plane, dir, IF plane THEN found ELSE {}) :
           range \in Scopes, plane \in BOOLEAN, dir \in Directories, found \in SUBSET Nodes}
=============================================================================
