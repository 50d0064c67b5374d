---------------------------- MODULE SourceLimits ----------------------------
(***************************************************************************)
(* What the coordinator counts per source address: the token buckets of    *)
(* internal/ratelimit and the distinct identities of internal/anomaly.     *)
(* Both keep a map that is swept only when a new source appears in a full  *)
(* map.  Tokens are counted in fractions: a request costs Cost of them and *)
(* a tick of the clock brings Rate.                                        *)
(***************************************************************************)
EXTENDS Integers, FiniteSets, FiniteSetsExt, Functions

CONSTANTS Sources,    \* client addresses
          Identities, \* peers
          Burst, Rate, Cost,
          IdleTime,   \* an idle bucket may go after this (time.Minute)
          FullMap,    \* a map with so many keys is swept (1024)
          Window, Threshold

ASSUME LimitsAssumption ==
  /\ {Burst, Rate, IdleTime, FullMap, Window, Threshold} \subseteq Nat
  /\ Cost \in 1..Burst

VARIABLES buckets,  \* source -> tokens and when they were counted
          sightings \* source -> identity -> when it was last seen

limitVars == <<buckets, sightings>>

LimitsTypeOK ==
  /\ DOMAIN buckets \subseteq Sources /\ DOMAIN sightings \subseteq Sources
  /\ \A k \in DOMAIN buckets : buckets[k] \in [tokens : 0..Burst, last : Nat]
  /\ \A k \in DOMAIN sightings : DOMAIN sightings[k] \subseteq Identities

LimitsInit ==
  /\ buckets = << >>
  /\ sightings = << >>

-----------------------------------------------------------------------------
(* ratelimit.Limiter                                                       *)

\* Mutant: an idle bucket goes even if it is not full.
IdleOnly(b, now) == now - b.last > IdleTime

Disposable(b, now) == now - b.last > IdleTime /\ b.tokens >= Burst

Prune(bs, now) ==
  IF Cardinality(DOMAIN bs) < FullMap THEN bs
  ELSE Restrict(bs, {k \in DOMAIN bs : ~Disposable(bs[k], now)})

WithBucket(k, now) ==
  IF k \in DOMAIN buckets THEN buckets
  ELSE Prune([j \in DOMAIN buckets \cup {k} |->
                IF j = k THEN [tokens |-> Burst, last |-> now] ELSE buckets[j]],
             now)

\* A reading of the clock that is older than the bucket's refills nothing.
Refilled(b, now) ==
  IF now <= b.last THEN b
  ELSE [tokens |-> Min({Burst, b.tokens + (now - b.last) * Rate}), last |-> now]

\* Allow(k), with the clock read at now, before the lock was taken.
HasToken(k, now) == Refilled(WithBucket(k, now)[k], now).tokens >= Cost

\* Mutant: a refused request costs its tokens too.
AlwaysSpend(k, now) ==
  buckets' = [WithBucket(k, now) EXCEPT ![k] =
    [Refilled(@, now) EXCEPT !.tokens = @ - Cost]]

Allow(k, now) ==
  buckets' = [WithBucket(k, now) EXCEPT ![k] =
    LET b == Refilled(@, now)
    IN  IF b.tokens >= Cost THEN [b EXCEPT !.tokens = @ - Cost] ELSE b]

-----------------------------------------------------------------------------
(* anomaly.Detector                                                        *)

Recent(ids, now) == {i \in DOMAIN ids : now - ids[i] <= Window}

InWindow(ids, now) == Restrict(ids, Recent(ids, now))

Sweep(seen, now) ==
  LET kept == [k \in DOMAIN seen |-> InWindow(seen[k], now)]
  IN  Restrict(kept, {k \in DOMAIN seen : DOMAIN kept[k] # {}})

\* Observe makes an empty entry for a new source and sweeps a full map, which
\* takes the empty entry away again: the identity is then written to a map
\* that nothing refers to.
WithEntry(k, now) ==
  IF k \in DOMAIN sightings THEN sightings
  ELSE LET grown == [j \in DOMAIN sightings \cup {k} |->
                       IF j = k THEN << >> ELSE sightings[j]]
       IN  IF Cardinality(DOMAIN grown) < FullMap THEN grown ELSE Sweep(grown, now)

Observed(k, id, now) ==
  LET seen == WithEntry(k, now)
  IN  IF k \notin DOMAIN seen THEN seen
      ELSE [seen EXCEPT ![k] = InWindow(
             [i \in DOMAIN @ \cup {id} |-> IF i = id THEN now ELSE @[i]], now)]

Observe(k, id, now) == sightings' = Observed(k, id, now)

Suspicious(k, id, now) ==
  LET seen == Observed(k, id, now)
  IN  k \in DOMAIN seen /\ Cardinality(DOMAIN seen[k]) >= Threshold
=============================================================================
