------------------------- MODULE RequestGate_proofs -------------------------
(***************************************************************************)
(* Proofs about signed requests, for any network of callers and proxies,   *)
(* any headers, clocks and limits: who a request is attributed to, what an *)
(* address can get through, that a request takes effect once, and who is   *)
(* listed in the presence directory.                                       *)
(***************************************************************************)
EXTENDS RequestGate, FiniteSetTheorems, SequenceTheorems, TLAPS

-----------------------------------------------------------------------------
(* Arithmetic.                                                             *)

LEMMA MinOfTwo ==
  ASSUME NEW a \in Int, NEW b \in Int
  PROVE  Min({a, b}) = IF a <= b THEN a ELSE b
BY DEF Min

LEMMA MaxIs ==
  ASSUME NEW S \in SUBSET Int, NEW x \in S, \A y \in S : y <= x
  PROVE  Max(S) = x
<1>1. \E z \in S : \A y \in S : z >= y
  OBVIOUS
<1>2. PICK m \in S : m = Max(S) /\ \A y \in S : m >= y
  BY <1>1 DEF Max
<1>3. m = x
  BY <1>2
<1> QED
  BY <1>2, <1>3

LEMMA DivBelow == \A t \in Int, d \in Nat \ {0} : (t \div d) * d \in Int /\ (t \div d) * d <= t
OBVIOUS

\* A timestamp is not later than the clock it was read from.
LEMMA SecondBelow == \A t \in Int : Second(t) \in Int /\ Second(t) <= t
<1>1. PerSecond \in Nat \ {0}
  BY GateAssumption
<1> QED
  BY <1>1, DivBelow DEF Second

LEMMA OneMore == \A a \in Int, b \in Int : (a + 1) * b = a * b + b
OBVIOUS

-----------------------------------------------------------------------------
(* Attribution.                                                            *)

\* Whatever a client writes in the header and however many trusted proxies
\* pass its request on, the request is attributed to the client's address.
THEOREM Attribution == \A k \in Callers : ClientIP[k] = Origin[k]
<1> SUFFICES ASSUME NEW k \in Callers PROVE ClientIP[k] = Origin[k]
  OBVIOUS
<1> DEFINE F == Forwarded(k)
           I == {i \in 1..Len(F) : F[i] \notin Trusted}
           n == Len(Claimed) + 1
<1>1. Origin[k] \in Sources /\ Origin[k] \notin Trusted /\ Hops[k] \in Seq(Trusted)
  BY GateAssumption
<1>2. CASE Hops[k] = << >>
  BY <1>1, <1>2 DEF ClientIP, Remote
<1>3. CASE Hops[k] # << >>
  <2>1. Len(Hops[k]) \in Nat \ {0}
    BY <1>1, <1>3, EmptySeq, LenProperties
  <2>2. Last(Hops[k]) \in Trusted
    BY <1>1, <2>1 DEF Last
  <2>3. /\ Front(Hops[k]) \in Seq(Trusted)
        /\ Len(Front(Hops[k])) = Len(Hops[k]) - 1
    BY <1>1, <2>1 DEF Front
  <2>4. Claimed \in Seq(Sources) /\ Len(Claimed) \in Nat
    BY GateAssumption, LenProperties
  <2>5. F = (Claimed \o <<Origin[k]>>) \o Front(Hops[k])
    BY <1>3 DEF Forwarded
  <2>6. /\ n \in 1..Len(F) /\ F[n] = Origin[k]
        /\ \A i \in 1..Len(F) : i > n => F[i] \in Trusted
    <3> DEFINE A == Claimed \o <<Origin[k]>>  B == Front(Hops[k])
    <3>1. A \in Seq(Sources) /\ Len(A) = n /\ A[n] = Origin[k] /\ n \in Nat \ {0}
      BY <1>1, <2>4
    <3>2. /\ Len(A \o B) = Len(A) + Len(B)
          /\ \A i \in 1..Len(A) + Len(B) :
               (A \o B)[i] = IF i <= Len(A) THEN A[i] ELSE B[i - Len(A)]
      <4>1. A \in Seq(Sources \cup Trusted) /\ B \in Seq(Sources \cup Trusted)
        BY <2>3, <3>1, SeqMonotonic
      <4> QED
        BY <4>1, ConcatProperties
    <3>3. F = A \o B /\ Len(B) \in Nat
      BY <2>3, <2>5, LenProperties
    <3> HIDE DEF A, B, F, n
    <3>4. /\ Len(F) = n + Len(B)
          /\ \A i \in 1..n + Len(B) : F[i] = IF i <= n THEN A[i] ELSE B[i - n]
      BY <3>1, <3>2, <3>3
    <3>5. ASSUME NEW i \in 1..Len(F), i > n PROVE F[i] \in Trusted
      <4>1. F[i] = B[i - n] /\ i - n \in 1..Len(B)
        BY <3>1, <3>3, <3>4, <3>5
      <4> QED
        BY <2>3, <4>1, ElementOfSeq DEF B
    <3> QED
      BY <3>1, <3>3, <3>4, <3>5
  <2> HIDE DEF F
  <2>7. Max(I) = n
    <3>1. n \in I /\ I \in SUBSET Int /\ \A i \in I : i <= n
      BY <1>1, <2>4, <2>6
    <3> QED
      BY <3>1, MaxIs
  <2>8. SelectLastInSeq(F, LAMBDA a : a \notin Trusted) = n
    BY <1>1, <2>6, <2>7 DEF SelectLastInSeq
  <2>9. Remote(k) \in Trusted
    BY <1>3, <2>2 DEF Remote
  <2> QED
    BY <2>4, <2>6, <2>8, <2>9 DEF ClientIP, F
<1> QED
  BY <1>2, <1>3

-----------------------------------------------------------------------------
(* The token buckets.                                                      *)

BucketsOK ==
  /\ clock \in Nat /\ DOMAIN buckets \subseteq Sources
  /\ buckets \in [DOMAIN buckets -> [tokens : 0..Burst, last : 0..clock]]

\* What an address could spend now; an address without a bucket has it full.
Level(o) == IF o \in DOMAIN buckets THEN Refilled(buckets[o], clock).tokens ELSE Burst

LEMMA LimitConstants ==
  /\ Burst \in Nat \ {0} /\ Rate \in Nat /\ IdleTime \in Nat /\ Cost \in 1..Burst
BY LimitsAssumption

\* A bucket that is refilled at the time now.
LEMMA RefilledIs ==
  ASSUME NEW now \in Nat, NEW b \in [tokens : 0..Burst, last : 0..now]
  PROVE  LET sum == b.tokens + (now - b.last) * Rate
         IN  /\ Refilled(b, now) \in [tokens : 0..Burst, last : 0..now]
             /\ Refilled(b, now).last = now /\ sum \in Nat
             /\ Refilled(b, now).tokens = IF Burst <= sum THEN Burst ELSE sum
<1> DEFINE sum == b.tokens + (now - b.last) * Rate
<1>1. sum \in Nat
  BY LimitConstants
<1>2. Min({Burst, sum}) = IF Burst <= sum THEN Burst ELSE sum
  BY <1>1, LimitConstants, MinOfTwo
<1>3. CASE now <= b.last
  <2>1. b.last = now /\ b.tokens \in 0..Burst /\ Refilled(b, now) = b
    BY <1>3 DEF Refilled
  <2>2. sum = b.tokens
    BY <2>1, LimitConstants
  <2> QED
    BY <2>1, <2>2, LimitConstants
<1>4. CASE now > b.last
  <2>1. Refilled(b, now) = [tokens |-> Min({Burst, sum}), last |-> now]
    BY <1>4 DEF Refilled
  <2> HIDE DEF sum
  <2>2. Min({Burst, sum}) \in 0..Burst
    BY <1>1, <1>2, LimitConstants
  <2>3. /\ Refilled(b, now) \in [tokens : 0..Burst, last : 0..now]
        /\ Refilled(b, now).last = now /\ Refilled(b, now).tokens = Min({Burst, sum})
    BY <2>1, <2>2
  <2> QED
    BY <1>1, <1>2, <2>3 DEF sum
<1> QED
  BY <1>3, <1>4

\* A full bucket stays full.
LEMMA FullStaysFull ==
  ASSUME NEW now \in Nat, NEW b \in [tokens : 0..Burst, last : 0..now],
         b.tokens = Burst
  PROVE  Refilled(b, now).tokens = Burst
<1> DEFINE more == (now - b.last) * Rate
<1>1. now - b.last \in Nat
  OBVIOUS
<1>2. more \in Nat
  BY <1>1, LimitConstants
<1>3. Refilled(b, now).tokens = IF Burst <= Burst + more THEN Burst ELSE Burst + more
  BY RefilledIs
<1> HIDE DEF more
<1> QED
  BY <1>2, <1>3, LimitConstants

LEMMA PruneIs ==
  ASSUME NEW bs, NEW now
  PROVE  \/ Prune(bs, now) = bs
         \/ Prune(bs, now) = [q \in {k \in DOMAIN bs : ~Disposable(bs[k], now)} |-> bs[q]]
BY DEF Prune, Restrict

\* What Allow works on: the buckets, with a full one for a new address.
LEMMA WithBucketIs ==
  ASSUME BucketsOK, NEW o \in Sources
  PROVE  LET W == WithBucket(o, clock)
         IN  /\ o \in DOMAIN W /\ DOMAIN W \subseteq DOMAIN buckets \cup {o}
             /\ W[o] = IF o \in DOMAIN buckets THEN buckets[o]
                       ELSE [tokens |-> Burst, last |-> clock]
             /\ \A q \in DOMAIN W \ {o} : W[q] = buckets[q]
             /\ \A q \in DOMAIN buckets \ DOMAIN W : buckets[q].tokens = Burst
             /\ W = [q \in DOMAIN W |-> W[q]]
<1> DEFINE grown == [q \in DOMAIN buckets \cup {o} |->
                       IF q = o THEN [tokens |-> Burst, last |-> clock] ELSE buckets[q]]
<1>1. CASE o \in DOMAIN buckets
  <2>1. WithBucket(o, clock) = buckets /\ buckets = [q \in DOMAIN buckets |-> buckets[q]]
    BY <1>1 DEF WithBucket, BucketsOK
  <2> QED
    BY <1>1, <2>1
<1>2. CASE o \notin DOMAIN buckets
  <2>1. WithBucket(o, clock) = Prune(grown, clock)
    BY <1>2 DEF WithBucket
  <2>2. ~Disposable(grown[o], clock)
    BY LimitConstants DEF Disposable, BucketsOK
  <2>3. \A q \in DOMAIN buckets : Disposable(grown[q], clock) => buckets[q].tokens = Burst
    BY <1>2, LimitConstants DEF Disposable, BucketsOK
  <2>4. \/ Prune(grown, clock) = grown
        \/ Prune(grown, clock) =
             [q \in {k \in DOMAIN grown : ~Disposable(grown[k], clock)} |-> grown[q]]
    BY PruneIs
  <2> QED
    BY <1>2, <2>1, <2>2, <2>3, <2>4
<1> QED
  BY <1>1, <1>2

\* Allow takes the cost from the level of the address it is called for, if
\* that is enough, and changes no other level, whatever it prunes.
LEMMA AllowIs ==
  ASSUME BucketsOK, NEW o \in Sources, Allow(o, clock), clock' = clock
  PROVE  /\ BucketsOK'
         /\ HasToken(o, clock) <=> Level(o) >= Cost
         /\ Level(o)' = IF HasToken(o, clock) THEN Level(o) - Cost ELSE Level(o)
         /\ \A q \in Sources \ {o} : Level(q)' = Level(q)
         /\ \A q \in Sources : Level(q) \in 0..Burst
<1> DEFINE W == WithBucket(o, clock)
           b == Refilled(W[o], clock)
           c == IF b.tokens >= Cost THEN [b EXCEPT !.tokens = @ - Cost] ELSE b
<1>1. clock \in Nat /\ W[o] \in [tokens : 0..Burst, last : 0..clock]
  BY WithBucketIs, LimitConstants DEF BucketsOK
<1>2. /\ b \in [tokens : 0..Burst, last : 0..clock] /\ b.last = clock
      /\ Level(o) = b.tokens
  <2>1. b \in [tokens : 0..Burst, last : 0..clock] /\ b.last = clock
    BY <1>1, RefilledIs
  <2>2. o \notin DOMAIN buckets => b.tokens = Burst
    BY WithBucketIs DEF Refilled, BucketsOK
  <2>3. o \in DOMAIN buckets => W[o] = buckets[o]
    BY WithBucketIs
  <2> QED
    BY <2>1, <2>2, <2>3 DEF Level
<1>3. c \in [tokens : 0..Burst, last : 0..clock] /\ c.last = clock
  BY <1>2, LimitConstants
<1>4. /\ DOMAIN buckets' = DOMAIN W /\ o \in DOMAIN W /\ buckets'[o] = c
      /\ \A q \in DOMAIN W \ {o} : buckets'[q] = W[q]
      /\ buckets' = [q \in DOMAIN buckets' |-> buckets'[q]]
  <2>1. buckets' = [W EXCEPT ![o] = c]
    BY DEF Allow
  <2> HIDE DEF W, c
  <2>2. o \in DOMAIN W /\ W = [q \in DOMAIN W |-> W[q]]
    BY WithBucketIs DEF W
  <2> QED
    BY <2>1, <2>2
<1>5. \A q \in DOMAIN W \ {o} : q \in DOMAIN buckets /\ buckets'[q] = buckets[q]
  BY <1>4, WithBucketIs
<1> HIDE DEF W, b, c
<1>6. BucketsOK'
  <2>1. DOMAIN buckets' \subseteq Sources
    BY <1>4, <1>5 DEF BucketsOK
  <2>2. \A q \in DOMAIN buckets' : buckets'[q] \in [tokens : 0..Burst, last : 0..clock]
    BY <1>3, <1>4, <1>5 DEF BucketsOK
  <2>3. buckets' \in [DOMAIN buckets' -> [tokens : 0..Burst, last : 0..clock]]
    BY <1>4, <2>2
  <2> QED
    BY <1>1, <2>1, <2>3 DEF BucketsOK
<1>7. HasToken(o, clock) <=> b.tokens >= Cost
  BY DEF HasToken, W, b
<1>8. Level(o)' = c.tokens
  BY <1>3, <1>4 DEF Level, Refilled
<1>9. ASSUME NEW q \in Sources \ {o} PROVE Level(q)' = Level(q)
  <2>1. CASE q \in DOMAIN W
    BY <1>4, <1>5, <2>1 DEF Level
  <2>2. CASE q \in DOMAIN buckets \ DOMAIN W
    <3>1. buckets[q].tokens = Burst /\ buckets[q] \in [tokens : 0..Burst, last : 0..clock]
      BY <2>2, WithBucketIs DEF W, BucketsOK
    <3>2. Refilled(buckets[q], clock).tokens = Burst
      BY <1>1, <3>1, FullStaysFull
    <3> QED
      BY <1>4, <2>2, <3>2 DEF Level
  <2>3. CASE q \notin DOMAIN buckets /\ q \notin DOMAIN W
    BY <1>4, <2>3 DEF Level
  <2> QED
    BY <2>1, <2>2, <2>3
<1>10. ASSUME NEW q \in Sources PROVE Level(q) \in 0..Burst
  BY <1>1, RefilledIs, LimitConstants DEF Level, BucketsOK
<1>11. c.tokens = IF b.tokens >= Cost THEN b.tokens - Cost ELSE b.tokens
  BY <1>2 DEF c
<1> QED
  BY <1>2, <1>6, <1>7, <1>8, <1>9, <1>10, <1>11

-----------------------------------------------------------------------------
(* The invariant, and the steps as its parts see them.                     *)

\* What a caller still tries, or the network still carries.
Pending == wire \cup {call[k] : k \in {c \in Callers : call[c] # None}}

\* A client whose clock is not ahead signs no time that is yet to come.
SignedInPast == \A m \in Pending : Drift[m.peer] <= 0 => m.ts <= clock

\* What took effect is remembered until its timestamp is too old.
Remembered(sig) ==
  \/ sig \in DOMAIN seen /\ seen[sig] > sig[3] + Skew
  \/ clock > sig[3] + Skew

Once ==
  /\ DOMAIN applied \subseteq Signatures
  /\ \A sig \in DOMAIN applied :
       Drift[sig[2]] <= 0 => applied[sig] = 1 /\ Remembered(sig)

\* What got through, and what an address can still spend, are what it was
\* given; it spends nothing for others.
Metered ==
  /\ BucketsOK
  /\ passes \in [Sources -> [0..MaxTime -> Nat]]
  /\ \A o \in Sources :
       /\ \A t \in 0..MaxTime :
            IF t > clock THEN passes[o][t] = 0
            ELSE Cost * passes[o][t] + Level(o) <= Burst + Rate * (clock - t)
       /\ Cost * passes[o][0] + Level(o) >= Burst

\* A registration was fresh when it was written.
Dated ==
  /\ clock \in Int
  /\ \A p \in DOMAIN entries :
       /\ entries[p].lastSeen \in Int /\ entries[p].ts \in Int
       /\ entries[p].lastSeen - entries[p].ts <= Skew

IInv == TypeOK /\ SignedInPast /\ Once /\ Metered /\ Dated

\* Signed requests, and the calls of the steps that change nothing else.
ClientStep(k) == Call(k) \/ NextAddress(k) \/ GiveUp(k)

LEMMA Constants ==
  /\ {Tries, PerSecond, Skew, Ttl} \subseteq Nat \ {0}
  /\ {MaxTime, MaxCalls, MaxRestarts} \subseteq Nat
  /\ \A k \in Callers : Origin[k] \in Sources
  /\ \A p \in Identities : Drift[p] \in Int
BY GateAssumption

\* Who handles a copy works for the caller's own address.
LEMMA LetInIs ==
  ASSUME TypeOK, NEW m \in wire, LetIn(m)
  PROVE  LET o == Origin[m.by]
         IN  /\ Handle(m) /\ o \in Sources /\ HasToken(o, clock) /\ Allow(o, clock)
             /\ passes' = [passes EXCEPT ![o] =
                             [t \in DOMAIN @ |-> IF t <= clock THEN @[t] + 1 ELSE 0]]
<1>1. m.by \in Callers
  BY DEF TypeOK, Requests
<1> QED
  BY <1>1, Attribution, Constants DEF LetIn

\* What a step does to the limiter and the history of passes.
LEMMA LimiterCases ==
  ASSUME TypeOK, [Next]_vars
  PROVE  \/ UNCHANGED <<clock, buckets, passes>>
         \/ \E m \in wire : LetIn(m)
         \/ \E m \in wire : TooMany(m)
         \/ Restart
         \/ Tick
<1>1. ASSUME NEW k \in Callers, ClientStep(k) PROVE UNCHANGED <<clock, buckets, passes>>
  BY <1>1 DEF ClientStep, Call, NextAddress, GiveUp, gateVars, limitVars, history
<1>2. CASE UNCHANGED vars
  BY <1>2 DEF vars, gateVars, limitVars, history
<1>3. ASSUME NEW m \in wire, \/ NotAuthentic(m) \/ LooksLikeAFleet(m) \/ Join(m)
                             \/ Register(m) \/ NotRegistered(m)
      PROVE  LetIn(m)
  BY <1>3 DEF NotAuthentic, LooksLikeAFleet, Join, Register, NotRegistered, JoinOf, Authentic
<1> QED
  BY <1>1, <1>2, <1>3 DEF Next, ClientStep

\* What a step does to the signatures seen and applied.
LEMMA SignatureCases ==
  ASSUME [Next]_vars
  PROVE  \/ UNCHANGED <<clock, seen, applied>>
         \/ \E m \in wire : Authentic(m) /\ (TakesEffect(m) \/ UNCHANGED applied)
         \/ Restart
         \/ Tick
<1>1. ASSUME NEW k \in Callers, ClientStep(k) PROVE UNCHANGED <<clock, seen, applied>>
  BY <1>1 DEF ClientStep, Call, NextAddress, GiveUp, gateVars, history
<1>2. CASE UNCHANGED vars
  BY <1>2 DEF vars, gateVars, history
<1>3. ASSUME NEW m \in wire, TooMany(m) \/ NotAuthentic(m)
      PROVE  UNCHANGED <<clock, seen, applied>>
  BY <1>3 DEF TooMany, NotAuthentic, LetIn, Handle, history
<1>4. ASSUME NEW m \in wire, LooksLikeAFleet(m) \/ Join(m) \/ Register(m) \/ NotRegistered(m)
      PROVE  Authentic(m) /\ (TakesEffect(m) \/ UNCHANGED applied)
  BY <1>4 DEF LooksLikeAFleet, Join, Register, NotRegistered, JoinOf
<1> QED
  BY <1>1, <1>2, <1>3, <1>4 DEF Next, ClientStep

\* What a step does to the directory.
LEMMA EntryCases ==
  ASSUME [Next]_vars
  PROVE  \/ UNCHANGED <<clock, entries>>
         \/ \E m \in wire : Register(m)
         \/ Restart
         \/ Tick
<1>1. ASSUME NEW k \in Callers, ClientStep(k) PROVE UNCHANGED <<clock, entries>>
  BY <1>1 DEF ClientStep, Call, NextAddress, GiveUp, storeVars
<1>2. CASE UNCHANGED vars
  BY <1>2 DEF vars, storeVars
<1>3. ASSUME NEW m \in wire, \/ TooMany(m) \/ NotAuthentic(m) \/ LooksLikeAFleet(m)
                             \/ Join(m) \/ NotRegistered(m)
      PROVE  UNCHANGED <<clock, entries>>
  BY <1>3
     DEF TooMany, NotAuthentic, LooksLikeAFleet, Join, NotRegistered, JoinOf, Authentic, LetIn,
         Handle, storeVars
<1> QED
  BY <1>1, <1>2, <1>3 DEF Next, ClientStep

-----------------------------------------------------------------------------
(* The detector.                                                           *)

\* The identities of an address, none if it has no entry.
SeenAt(o) == IF o \in DOMAIN sightings THEN sightings[o] ELSE << >>

\* Identities with p, seen now, without those that left the window.
Refreshed(ids, p, now) ==
  InWindow([i \in DOMAIN ids \cup {p} |-> IF i = p THEN now ELSE ids[i]], now)

LEMMA InWindowIs ==
  ASSUME NEW ids, NEW now
  PROVE  /\ DOMAIN InWindow(ids, now) = Recent(ids, now)
         /\ \A i \in Recent(ids, now) : InWindow(ids, now)[i] = ids[i]
         /\ Recent(ids, now) \subseteq DOMAIN ids
BY DEF InWindow, Recent, Restrict

LEMMA EmptyIsEmpty == DOMAIN << >> = {}
OBVIOUS

\* An address with an entry, or one for which the map has room.
LEMMA ObservedWithRoom ==
  ASSUME NEW o, NEW p, NEW now,
         o \in DOMAIN sightings \/ Cardinality(DOMAIN sightings \cup {o}) < FullMap
  PROVE  LET S == Observed(o, p, now)
         IN  /\ DOMAIN S = DOMAIN sightings \cup {o}
             /\ S[o] = Refreshed(SeenAt(o), p, now)
             /\ \A q \in DOMAIN sightings \ {o} : S[q] = sightings[q]
<1> DEFINE W == WithEntry(o, now)
<1>1. /\ DOMAIN W = DOMAIN sightings \cup {o} /\ W[o] = SeenAt(o)
      /\ \A q \in DOMAIN sightings \ {o} : W[q] = sightings[q]
  BY DEF WithEntry, SeenAt
<1> HIDE DEF W
<1>2. Observed(o, p, now) = [W EXCEPT ![o] = Refreshed(W[o], p, now)]
  BY <1>1 DEF Observed, Refreshed, W
<1> QED
  BY <1>1, <1>2

\* A new address when the map is full: it is swept, and the new entry too.
LEMMA ObservedFull ==
  ASSUME NEW o, NEW p, NEW now,
         o \notin DOMAIN sightings, ~(Cardinality(DOMAIN sightings \cup {o}) < FullMap)
  PROVE  LET S == Observed(o, p, now)
         IN  /\ DOMAIN S \subseteq DOMAIN sightings
             /\ \A q \in DOMAIN S : S[q] = InWindow(sightings[q], now)
<1> DEFINE grown == [j \in DOMAIN sightings \cup {o} |-> IF j = o THEN << >> ELSE sightings[j]]
           kept == [q \in DOMAIN grown |-> InWindow(grown[q], now)]
           W == WithEntry(o, now)
<1>1. W = Sweep(grown, now)
  BY DEF WithEntry
<1>2. Sweep(grown, now) = Restrict(kept, {q \in DOMAIN grown : DOMAIN kept[q] # {}})
  BY DEF Sweep
<1>3. DOMAIN grown = DOMAIN sightings \cup {o}
  OBVIOUS
<1>4. \A q \in DOMAIN sightings : kept[q] = InWindow(sightings[q], now)
  OBVIOUS
<1>5. kept[o] = InWindow(<< >>, now)
  OBVIOUS
<1>6. DOMAIN kept[o] = {}
  <2>1. DOMAIN InWindow(<< >>, now) \subseteq DOMAIN << >>
    BY InWindowIs
  <2> QED
    BY <1>5, <2>1, EmptyIsEmpty
<1> HIDE DEF kept, grown
<1>7. /\ DOMAIN W = {q \in DOMAIN grown : DOMAIN kept[q] # {}}
      /\ \A q \in DOMAIN W : W[q] = kept[q]
  BY <1>1, <1>2 DEF Restrict
<1>8. o \notin DOMAIN W
  BY <1>6, <1>7
<1>9. Observed(o, p, now) = W
  BY <1>8 DEF Observed
<1> QED
  BY <1>3, <1>4, <1>7, <1>8, <1>9

\* In both cases the detector knows no other addresses and identities than it
\* knew, or was just told.
LEMMA ObservedKnows ==
  ASSUME NEW o, NEW p, NEW now
  PROVE  LET S == Observed(o, p, now)
         IN  /\ DOMAIN S \subseteq DOMAIN sightings \cup {o}
             /\ \A q \in DOMAIN S : DOMAIN S[q] \subseteq DOMAIN SeenAt(q) \cup {p}
<1> DEFINE S == Observed(o, p, now)
<1>1. CASE o \in DOMAIN sightings \/ Cardinality(DOMAIN sightings \cup {o}) < FullMap
  <2>1. DOMAIN Refreshed(SeenAt(o), p, now) \subseteq DOMAIN SeenAt(o) \cup {p}
    BY InWindowIs DEF Refreshed
  <2> HIDE DEF S
  <2>2. /\ DOMAIN S = DOMAIN sightings \cup {o} /\ S[o] = Refreshed(SeenAt(o), p, now)
        /\ \A q \in DOMAIN sightings \ {o} : S[q] = sightings[q]
    BY <1>1, ObservedWithRoom DEF S
  <2> QED
    BY <2>1, <2>2 DEF SeenAt, S
<1>2. CASE o \notin DOMAIN sightings /\ ~(Cardinality(DOMAIN sightings \cup {o}) < FullMap)
  <2> HIDE DEF S
  <2>1. DOMAIN S \subseteq DOMAIN sightings /\ \A q \in DOMAIN S : S[q] = InWindow(sightings[q], now)
    BY <1>2, ObservedFull DEF S
  <2> QED
    BY <2>1, InWindowIs DEF SeenAt, S
<1> QED
  BY <1>1, <1>2

-----------------------------------------------------------------------------
(* Each part of the invariant is preserved.                                *)

LEMMA TypesStay ==
  ASSUME TypeOK, BucketsOK', [Next]_vars
  PROVE  TypeOK'
<1> USE Constants DEF TypeOK, LimitsTypeOK
<1>1. (\A o \in DOMAIN buckets : buckets[o] \in [tokens : 0..Burst, last : Nat])'
  BY DEF BucketsOK
<1>2. ASSUME NEW k \in Callers, ClientStep(k) PROVE TypeOK'
  <2>1. CASE Call(k)
    <3>1. PICK kind \in Kinds, p \in Identities :
            Try(k, [n |-> calls + 1, by |-> k, kind |-> kind, peer |-> p,
                    ts |-> Second(clock + Drift[p]), try |-> 1])
      BY <2>1 DEF Call
    <3>2. Second(clock + Drift[p]) \in Int
      BY SecondBelow
    <3>3. calls + 1 \in 1..MaxCalls /\ calls' = calls + 1 /\ 1 \in 1..Tries
      BY <2>1 DEF Call
    <3>4. [n |-> calls + 1, by |-> k, kind |-> kind, peer |-> p,
           ts |-> Second(clock + Drift[p]), try |-> 1] \in Requests
      BY <3>2, <3>3 DEF Requests
    <3>5. wire' \subseteq Requests /\ call' \in [Callers -> Requests \cup {None}]
      BY <3>1, <3>4 DEF Try
    <3>6. UNCHANGED <<clock, restarts, gateVars, storeVars, history>>
      BY <2>1 DEF Call
    <3> QED
      BY <1>1, <3>3, <3>5, <3>6 DEF gateVars, limitVars, storeVars
  <2>2. CASE NextAddress(k)
    <3>1. [call[k] EXCEPT !.try = @ + 1] \in Requests
      BY <2>2 DEF NextAddress, Requests
    <3>2. wire' \subseteq Requests /\ call' \in [Callers -> Requests \cup {None}]
      BY <2>2, <3>1 DEF NextAddress, Try
    <3> QED
      BY <1>1, <2>2, <3>2 DEF NextAddress, gateVars, limitVars, storeVars
  <2>3. CASE GiveUp(k)
    BY <1>1, <2>3 DEF GiveUp, gateVars, limitVars, storeVars
  <2> QED
    BY <1>2, <2>1, <2>2, <2>3 DEF ClientStep
<1>3. ASSUME NEW m \in wire, Handle(m), DOMAIN buckets' \subseteq Sources,
             DOMAIN seen' \subseteq Signatures, \A s \in DOMAIN seen' : seen'[s] \in Nat,
             DOMAIN sightings' \subseteq Sources,
             \A q \in DOMAIN sightings' : DOMAIN sightings'[q] \subseteq Identities,
             admitted' \subseteq Identities, DOMAIN entries' \subseteq Identities
      PROVE  TypeOK'
  <2>1. wire' \subseteq Requests /\ call' \in [Callers -> Requests \cup {None}]
    BY <1>3 DEF Handle
  <2> QED
    BY <1>1, <1>3, <2>1 DEF Handle
<1>4. DOMAIN buckets' \subseteq Sources
  BY DEF BucketsOK
<1>5. ASSUME NEW m \in wire, TooMany(m) PROVE TypeOK'
  BY <1>3, <1>4, <1>5 DEF TooMany, storeVars
<1>6. ASSUME NEW m \in wire, NotAuthentic(m) PROVE TypeOK'
  BY <1>3, <1>4, <1>6 DEF NotAuthentic, LetIn, storeVars
<1>7. ASSUME NEW m \in wire, Authentic(m)
      PROVE  /\ Handle(m) /\ m.peer \in Identities
             /\ DOMAIN seen' \subseteq Signatures /\ \A s \in DOMAIN seen' : seen'[s] \in Nat
  <2>1. Signature(m) \in Signatures /\ clock + Skew \in Nat
    BY DEF Requests, Signature, Signatures
  <2>2. Remember(Signature(m)) /\ Handle(m) /\ m.peer \in Identities
    BY <1>7 DEF Authentic, LetIn, Requests
  <2> QED
    BY <2>1, <2>2 DEF Remember, Restrict
<1>8. ASSUME NEW m \in wire, Authentic(m), Observe(ClientIP[m.by], m.peer, clock)
      PROVE  /\ DOMAIN sightings' \subseteq Sources
             /\ \A q \in DOMAIN sightings' : DOMAIN sightings'[q] \subseteq Identities
  <2>1. ClientIP[m.by] \in Sources /\ m.peer \in Identities
    BY Attribution DEF Requests
  <2>2. /\ DOMAIN sightings' \subseteq DOMAIN sightings \cup {ClientIP[m.by]}
        /\ \A q \in DOMAIN sightings' : DOMAIN sightings'[q] \subseteq DOMAIN SeenAt(q) \cup {m.peer}
    BY <1>8, ObservedKnows DEF Observe
  <2>3. \A q : DOMAIN SeenAt(q) \subseteq Identities
    BY EmptyIsEmpty DEF SeenAt
  <2> QED
    BY <2>1, <2>2, <2>3
<1>9. ASSUME NEW m \in wire, LooksLikeAFleet(m) \/ Join(m) PROVE TypeOK'
  <2>1. /\ Authentic(m) /\ Observe(ClientIP[m.by], m.peer, clock) /\ UNCHANGED entries
        /\ admitted' \subseteq admitted \cup {m.peer}
    BY <1>9 DEF LooksLikeAFleet, Join, JoinOf
  <2> QED
    BY <1>3, <1>4, <1>7, <1>8, <2>1
<1>10. ASSUME NEW m \in wire, Register(m) \/ NotRegistered(m) PROVE TypeOK'
  <2>1. /\ Authentic(m) /\ UNCHANGED <<admitted, sightings>>
        /\ DOMAIN entries' \subseteq DOMAIN entries \cup {m.peer}
    BY <1>10 DEF Register, NotRegistered, storeVars
  <2> QED
    BY <1>3, <1>4, <1>7, <2>1
<1>11. CASE Restart
  BY <1>1, <1>11, EmptyIsEmpty DEF Restart, clientVars
<1>12. CASE Tick
  BY <1>1, <1>12 DEF Tick, clientVars, gateVars, limitVars, storeVars
<1>13. CASE UNCHANGED vars
  BY <1>1, <1>13 DEF vars, clientVars, gateVars, limitVars, storeVars
<1> QED
  BY <1>2, <1>5, <1>6, <1>9, <1>10, <1>11, <1>12, <1>13 DEF Next, ClientStep

\* A signature is older than the clock from then on.
LEMMA SignedStays ==
  ASSUME TypeOK, SignedInPast, [Next]_vars
  PROVE  SignedInPast'
<1> USE DEF TypeOK
<1>1. ASSUME clock' >= clock, Pending' \subseteq Pending, clock' \in Int PROVE SignedInPast'
  BY <1>1, Constants DEF SignedInPast, Pending, Requests
<1>2. ASSUME NEW k \in Callers, ClientStep(k) PROVE SignedInPast'
  <2>1. CASE GiveUp(k)
    BY <1>1, <2>1 DEF GiveUp, Pending
  <2>2. ASSUME NEW m, Try(k, m), Drift[m.peer] <= 0 => m.ts <= clock, clock' = clock
        PROVE  SignedInPast'
    BY <2>2 DEF SignedInPast, Pending, Try
  <2>3. CASE NextAddress(k)
    <3>1. call[k] \in Requests /\ call[k] \in Pending
      BY <2>3 DEF NextAddress, Pending
    <3>2. LET m == [call[k] EXCEPT !.try = @ + 1] IN m.peer = call[k].peer /\ m.ts = call[k].ts
      BY <3>1 DEF Requests
    <3> QED
      BY <2>2, <2>3, <3>1, <3>2 DEF NextAddress, SignedInPast
  <2>4. CASE Call(k)
    <3>1. PICK kind \in Kinds, p \in Identities :
            Try(k, [n |-> calls + 1, by |-> k, kind |-> kind, peer |-> p,
                    ts |-> Second(clock + Drift[p]), try |-> 1])
      BY <2>4 DEF Call
    <3>2. Drift[p] <= 0 => Second(clock + Drift[p]) <= clock
      BY Constants, SecondBelow
    <3> QED
      BY <2>2, <2>4, <3>1, <3>2 DEF Call
  <2> QED
    BY <1>2, <2>1, <2>3, <2>4 DEF ClientStep
<1>3. ASSUME NEW m \in wire, Handle(m) PROVE SignedInPast'
  BY <1>1, <1>3 DEF Handle, Pending
<1>4. ASSUME NEW m \in wire,
             \/ TooMany(m) \/ NotAuthentic(m) \/ LooksLikeAFleet(m)
             \/ Join(m) \/ Register(m) \/ NotRegistered(m)
      PROVE  Handle(m)
  BY <1>4
     DEF TooMany, NotAuthentic, LooksLikeAFleet, Join, Register, NotRegistered, JoinOf,
         Authentic, LetIn
<1>5. CASE Restart \/ Tick \/ UNCHANGED vars
  BY <1>1, <1>5, Constants DEF Restart, Tick, vars, clientVars, Pending
<1> QED
  BY <1>2, <1>3, <1>4, <1>5 DEF Next, ClientStep

LEMMA OnceStays ==
  ASSUME TypeOK, SignedInPast, Once, [Next]_vars
  PROVE  Once'
<1> USE Constants
<1>1. clock \in Nat
  BY DEF TypeOK
<1>2. CASE UNCHANGED <<clock, seen, applied>>
  BY <1>2 DEF Once, Remembered
<1>3. ASSUME NEW m \in wire, Authentic(m), TakesEffect(m) \/ UNCHANGED applied PROVE Once'
  <2> DEFINE sig == Signature(m)
  <2>1. /\ Fresh(m) /\ ~Known(sig) /\ Remember(sig) /\ clock' = clock /\ clock # m.ts
        /\ m \in Requests /\ sig[2] = m.peer /\ sig[3] = m.ts /\ m \in Pending
        /\ sig \in Signatures
    BY <1>3 DEF Authentic, LetIn, Handle, TypeOK, Pending, Signature, Signatures, Requests
  <2>2. m.ts \in Int /\ Drift[m.peer] \in Int /\ m.ts + Skew >= clock
    BY <1>1, <2>1 DEF Fresh, Requests
  <2>3. \A s \in DOMAIN seen : seen[s] \in Nat
    BY DEF TypeOK
  <2> HIDE DEF sig
  <2>4. \/ DOMAIN seen' = DOMAIN seen \cup {sig}
        \/ DOMAIN seen' = {s \in DOMAIN seen \cup {sig} :
                             clock < IF s = sig THEN clock + Skew ELSE seen[s]}
    BY <2>1 DEF Remember, Restrict
  <2>5. \A s \in DOMAIN seen' : seen'[s] = IF s = sig THEN clock + Skew ELSE seen[s]
    BY <2>1 DEF Remember, Restrict
  <2>6. sig \in DOMAIN seen' /\ seen'[sig] = clock + Skew
    BY <1>1, <2>4, <2>5
  <2>7. Drift[m.peer] <= 0 => m.ts < clock
    BY <1>1, <2>1, <2>2 DEF SignedInPast
  <2>8. Drift[m.peer] <= 0 => Remembered(sig)'
    BY <1>1, <2>1, <2>2, <2>6, <2>7 DEF Remembered
  <2>9. ASSUME NEW s \in DOMAIN applied, s # sig, Drift[s[2]] <= 0 PROVE Remembered(s)'
    <3>1. Remembered(s)
      BY <2>9 DEF Once
    <3>2. CASE s \in DOMAIN seen' \/ clock > s[3] + Skew
      BY <2>1, <2>5, <2>9, <3>1, <3>2, <2>4 DEF Remembered
    <3>3. CASE s \notin DOMAIN seen' /\ ~(clock > s[3] + Skew)
      <4>1. s \in DOMAIN seen /\ seen[s] > s[3] + Skew /\ ~(clock < seen[s])
        BY <2>4, <2>9, <3>1, <3>3 DEF Remembered
      <4>2. s[3] \in Int
        BY <4>1 DEF TypeOK, Signatures
      <4> QED
        BY <1>1, <2>3, <3>3, <4>1, <4>2
    <3> QED
      BY <3>2, <3>3
  <2>10. Drift[m.peer] <= 0 => sig \notin DOMAIN applied
    <3> SUFFICES ASSUME Drift[m.peer] <= 0, sig \in DOMAIN applied PROVE FALSE
      OBVIOUS
    <3>1. Remembered(sig)
      BY <2>1 DEF Once
    <3> QED
      BY <1>1, <2>1, <2>2, <2>3, <3>1 DEF Remembered, Known
  <2>11. CASE UNCHANGED applied
    <3>1. ASSUME NEW s \in DOMAIN applied, Drift[s[2]] <= 0 PROVE s # sig
      BY <2>1, <2>10, <3>1
    <3> QED
      BY <2>9, <2>11, <3>1 DEF Once
  <2>12. CASE TakesEffect(m)
    <3>1. /\ DOMAIN applied' = DOMAIN applied \cup {sig}
          /\ \A s \in DOMAIN applied \ {sig} : applied'[s] = applied[s] + 0
          /\ sig \notin DOMAIN applied => applied'[sig] = 0 + 1
      BY <2>12 DEF TakesEffect, SetToBag, (+), sig
    <3>2. ASSUME NEW s \in DOMAIN applied', Drift[s[2]] <= 0
          PROVE  applied'[s] = 1 /\ Remembered(s)'
      <4>1. CASE s = sig
        BY <2>1, <2>8, <2>10, <3>1, <3>2, <4>1
      <4>2. CASE s # sig
        BY <2>9, <3>1, <3>2, <4>2 DEF Once
      <4> QED
        BY <4>1, <4>2
    <3> QED
      BY <2>1, <3>1, <3>2 DEF Once
  <2> QED
    BY <1>3, <2>11, <2>12
<1>4. CASE Restart
  BY <1>4 DEF Restart, EmptyBag, SetToBag, Once
<1>5. CASE Tick
  <2>1. clock' = clock + 1 /\ UNCHANGED <<seen, applied>>
    BY <1>5 DEF Tick, gateVars, history
  <2>2. ASSUME NEW s \in DOMAIN applied, Drift[s[2]] <= 0 PROVE Remembered(s)'
    <3>1. Remembered(s) /\ s[3] \in Int
      BY <2>2 DEF Once, Signatures
    <3> QED
      BY <1>1, <2>1, <3>1 DEF Remembered
  <2> QED
    BY <2>1, <2>2 DEF Once
<1> QED
  BY <1>2, <1>3, <1>4, <1>5, SignatureCases

LEMMA DatedStays ==
  ASSUME TypeOK, Dated, [Next]_vars
  PROVE  Dated'
<1> USE Constants
<1>1. clock \in Nat
  BY DEF TypeOK
<1>2. CASE UNCHANGED <<clock, entries>>
  BY <1>2 DEF Dated
<1>3. ASSUME NEW m \in wire, Register(m) PROVE Dated'
  <2>1. Fresh(m) /\ clock' = clock /\ m.ts \in Int
    BY <1>3 DEF Register, Authentic, LetIn, Handle, TypeOK, Requests
  <2>2. clock - m.ts <= Skew
    BY <1>1, <2>1 DEF Fresh
  <2>3. entries' = [p \in DOMAIN entries \cup {m.peer} |->
                      IF p = m.peer THEN [lastSeen |-> clock, ts |-> m.ts] ELSE entries[p]]
    BY <1>3 DEF Register
  <2> QED
    BY <1>1, <2>1, <2>2, <2>3 DEF Dated
<1>4. CASE Restart
  BY <1>1, <1>4, EmptyIsEmpty DEF Restart, Dated
<1>5. CASE Tick
  BY <1>1, <1>5 DEF Tick, storeVars, Dated
<1> QED
  BY <1>2, <1>3, <1>4, <1>5, EntryCases

\* An address and its bucket: what it can spend later is what it can now, and
\* what time brings, up to the burst.
LEMMA LevelRises ==
  ASSUME BucketsOK, clock' = clock + 1, buckets' = buckets, NEW o \in Sources
  PROVE  /\ BucketsOK' /\ Level(o) \in 0..Burst /\ Level(o)' \in 0..Burst
         /\ Level(o) <= Level(o)' /\ Level(o)' <= Level(o) + Rate
<1> USE LimitConstants
<1>1. clock \in Nat /\ clock + 1 \in Nat /\ clock' = clock + 1
  BY DEF BucketsOK
<1>2. BucketsOK'
  BY <1>1 DEF BucketsOK
<1>3. CASE o \notin DOMAIN buckets
  BY <1>2, <1>3 DEF Level
<1>4. CASE o \in DOMAIN buckets
  <2> DEFINE b == buckets[o]
             d == (clock - b.last) * Rate
             e == (clock + 1 - b.last) * Rate
  <2>1. /\ b \in [tokens : 0..Burst, last : 0..clock]
        /\ b \in [tokens : 0..Burst, last : 0..clock + 1]
    BY <1>1, <1>4 DEF BucketsOK
  <2>2. /\ Level(o) = Refilled(b, clock).tokens /\ Level(o)' = Refilled(b, clock + 1).tokens
    BY <1>1, <1>4 DEF Level
  <2> HIDE DEF b
  <2>3. clock - b.last \in Nat /\ b.tokens \in 0..Burst
    BY <1>1, <2>1
  <2>4. e = d + Rate /\ d \in Nat /\ e \in Nat
    <3>1. clock + 1 - b.last = (clock - b.last) + 1
      BY <1>1, <2>1
    <3> QED
      BY <2>3, <3>1, OneMore
  <2>5. /\ Level(o) = IF Burst <= b.tokens + d THEN Burst ELSE b.tokens + d
        /\ Level(o)' = IF Burst <= b.tokens + e THEN Burst ELSE b.tokens + e
    BY <1>1, <2>1, <2>2, RefilledIs
  <2> HIDE DEF d, e
  <2> QED
    BY <1>2, <2>3, <2>4, <2>5
<1> QED
  BY <1>3, <1>4

LEMMA MeteredStays ==
  ASSUME TypeOK, Metered, [Next]_vars
  PROVE  Metered'
<1> USE Constants, LimitConstants
<1>1. /\ clock \in 0..MaxTime /\ BucketsOK /\ passes \in [Sources -> [0..MaxTime -> Nat]]
  BY DEF TypeOK, Metered
<1>2. CASE UNCHANGED <<clock, buckets, passes>>
  BY <1>2 DEF Metered, Level, BucketsOK
<1>3. ASSUME NEW m \in wire, LetIn(m) PROVE Metered'
  <2> DEFINE o == Origin[m.by]
  <2>1. /\ Handle(m) /\ o \in Sources /\ HasToken(o, clock) /\ Allow(o, clock)
        /\ passes' = [passes EXCEPT ![o] = [t \in DOMAIN @ |-> IF t <= clock THEN @[t] + 1 ELSE 0]]
    BY <1>3, LetInIs
  <2> HIDE DEF o
  <2>2. clock' = clock
    BY <2>1 DEF Handle
  <2>3. /\ BucketsOK' /\ Level(o) >= Cost /\ Level(o)' = Level(o) - Cost
        /\ \A q \in Sources \ {o} : Level(q)' = Level(q)
        /\ \A q \in Sources : Level(q) \in 0..Burst
    BY <1>1, <2>1, <2>2, AllowIs
  <2>4. /\ passes' \in [Sources -> [0..MaxTime -> Nat]]
        /\ \A q \in Sources \ {o} : passes'[q] = passes[q]
        /\ \A t \in 0..MaxTime : passes'[o][t] = IF t <= clock THEN passes[o][t] + 1 ELSE 0
    BY <1>1, <2>1
  <2>5. ASSUME NEW t \in 0..MaxTime, t <= clock
        PROVE  Cost * passes'[o][t] + Level(o)' = Cost * passes[o][t] + Level(o)
    <3>1. passes[o][t] \in Nat /\ passes'[o][t] = passes[o][t] + 1
      BY <1>1, <2>1, <2>4, <2>5
    <3>2. Cost * passes'[o][t] = Cost * passes[o][t] + Cost
      BY <3>1, OneMore
    <3>3. Cost * passes[o][t] \in Int
      BY <3>1
    <3> QED
      BY <2>1, <2>3, <3>2, <3>3
  <2>6. ASSUME NEW q \in Sources
        PROVE  /\ \A t \in 0..MaxTime :
                    IF t > clock THEN passes'[q][t] = 0
                    ELSE Cost * passes'[q][t] + Level(q)' <= Burst + Rate * (clock - t)
               /\ Cost * passes'[q][0] + Level(q)' >= Burst
    <3>1. CASE q = o
      <4>1. /\ \A t \in 0..MaxTime :
                 t <= clock => Cost * passes[o][t] + Level(o) <= Burst + Rate * (clock - t)
            /\ Cost * passes[o][0] + Level(o) >= Burst
            /\ 0 \in 0..MaxTime /\ 0 <= clock
        <5>1. /\ \A t \in 0..MaxTime :
                   IF t > clock THEN passes[o][t] = 0
                   ELSE Cost * passes[o][t] + Level(o) <= Burst + Rate * (clock - t)
              /\ Cost * passes[o][0] + Level(o) >= Burst
          BY <2>1 DEF Metered
        <5>2. \A t \in 0..MaxTime : t <= clock => ~(t > clock)
          BY ONLY <1>1
        <5>3. 0 \in 0..MaxTime /\ 0 <= clock
          BY ONLY <1>1, Constants
        <5>4. ASSUME NEW t \in 0..MaxTime, t <= clock
              PROVE  Cost * passes[o][t] + Level(o) <= Burst + Rate * (clock - t)
          BY ONLY <5>1, <5>2, <5>4
        <5> QED
          BY ONLY <5>1, <5>3, <5>4
      <4>2. \A t \in 0..MaxTime :
              t <= clock => Cost * passes'[o][t] + Level(o)' <= Burst + Rate * (clock - t)
        BY <2>5, <4>1
      <4>3. Cost * passes'[o][0] + Level(o)' >= Burst
        BY <2>5, <4>1
      <4>4. \A t \in 0..MaxTime : t > clock => passes'[o][t] = 0
        BY <1>1, <2>4
      <4>5. ASSUME NEW t \in 0..MaxTime
            PROVE  IF t > clock THEN passes'[o][t] = 0
                   ELSE Cost * passes'[o][t] + Level(o)' <= Burst + Rate * (clock - t)
        <5>1. t <= clock \/ t > clock
          BY ONLY <1>1
        <5>2. CASE t > clock
          BY ONLY <4>4, <5>2
        <5>3. CASE ~(t > clock)
          BY ONLY <4>2, <5>1, <5>3
        <5> QED
          BY ONLY <5>2, <5>3
      <4> QED
        BY ONLY <3>1, <4>3, <4>5
    <3>2. CASE q # o
      BY <2>3, <2>4, <3>2 DEF Metered
    <3> QED
      BY <3>1, <3>2
  <2> QED
    BY <2>2, <2>3, <2>4, <2>6 DEF Metered
<1>4. ASSUME NEW m \in wire, TooMany(m) PROVE Metered'
  <2>1. /\ ClientIP[m.by] \in Sources /\ ~HasToken(ClientIP[m.by], clock)
        /\ Allow(ClientIP[m.by], clock) /\ clock' = clock /\ passes' = passes
    BY <1>4, Attribution DEF TooMany, Handle, history, TypeOK, Requests
  <2>2. BucketsOK' /\ \A q \in Sources : Level(q)' = Level(q)
    BY <1>1, <2>1, AllowIs
  <2> QED
    BY <2>1, <2>2 DEF Metered
<1>5. CASE Restart
  <2>1. /\ clock' = clock /\ buckets' = << >> /\ passes' = NoPasses
    BY <1>5 DEF Restart
  <2>2. BucketsOK' /\ \A q \in Sources : Level(q)' = Burst
    BY <1>1, <2>1, EmptyIsEmpty DEF BucketsOK, Level
  <2>3. /\ passes' \in [Sources -> [0..MaxTime -> Nat]]
        /\ \A q \in Sources, t \in 0..MaxTime : passes'[q][t] = 0
    BY <2>1 DEF NoPasses
  <2>4. \A t \in 0..MaxTime : t <= clock => Rate * (clock - t) \in Nat
    BY <1>1
  <2> QED
    BY <1>1, <2>1, <2>2, <2>3, <2>4 DEF Metered
<1>6. CASE Tick
  <2>1. clock' = clock + 1 /\ UNCHANGED <<buckets, passes>> /\ clock' \in 0..MaxTime
    BY <1>1, <1>6 DEF Tick, gateVars, limitVars, history
  <2>2. ASSUME NEW q \in Sources
        PROVE  /\ \A t \in 0..MaxTime :
                    IF t > clock + 1 THEN passes[q][t] = 0
                    ELSE Cost * passes[q][t] + Level(q)' <= Burst + Rate * (clock + 1 - t)
               /\ Cost * passes[q][0] + Level(q)' >= Burst
    <3>1. /\ Level(q) \in 0..Burst /\ Level(q)' \in 0..Burst
          /\ Level(q) <= Level(q)' /\ Level(q)' <= Level(q) + Rate
      BY <1>1, <2>1, LevelRises
    <3>2. ASSUME NEW t \in 0..MaxTime, t <= clock
          PROVE  Cost * passes[q][t] + Level(q)' <= Burst + Rate * (clock + 1 - t)
      <4>1. Cost * passes[q][t] + Level(q) <= Burst + Rate * (clock - t)
        BY <1>1, <3>2 DEF Metered
      <4>2. Rate * (clock + 1 - t) = Rate * (clock - t) + Rate
        <5>1. clock + 1 - t = (clock - t) + 1 /\ clock - t \in Int
          BY <1>1
        <5> QED
          BY <5>1, OneMore
      <4>3. Cost * passes[q][t] \in Int /\ Rate * (clock - t) \in Int
        BY <1>1
      <4> HIDE DEF Metered
      <4> QED
        BY <3>1, <4>1, <4>2, <4>3
    <3>3. ASSUME NEW t \in 0..MaxTime, t > clock PROVE passes[q][t] = 0
      BY <3>3 DEF Metered
    <3>4. Cost * passes[q][0] + Level(q)' >= Burst
      <4>1. Cost * passes[q][0] + Level(q) >= Burst
        BY DEF Metered
      <4>2. passes[q][0] \in Nat
        BY <1>1
      <4>3. Cost * passes[q][0] \in Int
        BY <4>2
      <4> QED
        BY <3>1, <4>1, <4>3
    <3>5. ASSUME NEW t \in 0..MaxTime, t = clock + 1
          PROVE  Cost * passes[q][t] + Level(q)' <= Burst + Rate * (clock + 1 - t)
      <4>1. t > clock /\ clock + 1 - t = 0
        BY ONLY <1>1, <3>5
      <4>2. passes[q][t] = 0
        BY ONLY <3>3, <4>1
      <4>3. Cost * passes[q][t] = 0 /\ Rate * (clock + 1 - t) = 0
        BY ONLY <4>1, <4>2, LimitConstants
      <4> QED
        BY ONLY <3>1, <4>3, LimitConstants
    <3>6. ASSUME NEW t \in 0..MaxTime
          PROVE  IF t > clock + 1 THEN passes[q][t] = 0
                 ELSE Cost * passes[q][t] + Level(q)' <= Burst + Rate * (clock + 1 - t)
      <4>1. CASE t > clock + 1
        <5>1. t > clock
          BY <1>1, <4>1
        <5> QED
          BY <3>3, <4>1, <5>1
      <4>2. CASE ~(t > clock + 1)
        <5>1. t <= clock \/ t = clock + 1
          BY <1>1, <4>2
        <5>2. Cost * passes[q][t] + Level(q)' <= Burst + Rate * (clock + 1 - t)
          BY <3>2, <3>5, <5>1
        <5> QED
          BY <4>2, <5>2
      <4> QED
        BY <4>1, <4>2
    <3> QED
      BY <3>4, <3>6
  <2>3. BucketsOK'
    BY <1>1, <2>1 DEF BucketsOK
  <2> QED
    BY <1>1, <2>1, <2>2, <2>3 DEF Metered
<1> QED
  BY <1>2, <1>3, <1>4, <1>5, <1>6, LimiterCases

-----------------------------------------------------------------------------
(* The theorems.                                                           *)

\* The inductive invariant holds throughout, whatever the order of signing,
\* sending, replaying, gate keeping and sweeping.
THEOREM InductiveInvariant == Spec => []IInv
<1> USE Constants, LimitConstants
<1>1. ASSUME Init PROVE IInv
  <2>1. TypeOK
    BY <1>1, EmptyIsEmpty DEF Init, LimitsInit, TypeOK, LimitsTypeOK
  <2>2. SignedInPast
    BY <1>1 DEF Init, SignedInPast, Pending
  <2>3. Once
    BY <1>1 DEF Init, Once, EmptyBag, SetToBag
  <2>4. Dated
    BY <1>1, EmptyIsEmpty DEF Init, Dated
  <2>5. Metered
    <3>1. clock = 0 /\ buckets = << >> /\ passes = NoPasses
      BY <1>1 DEF Init, LimitsInit
    <3>2. BucketsOK /\ \A q \in Sources : Level(q) = Burst
      BY <3>1, EmptyIsEmpty DEF BucketsOK, Level
    <3>3. /\ passes \in [Sources -> [0..MaxTime -> Nat]]
          /\ \A q \in Sources, t \in 0..MaxTime : passes[q][t] = 0
      BY <3>1 DEF NoPasses
    <3> QED
      BY <3>1, <3>2, <3>3 DEF Metered
  <2> QED
    BY <2>1, <2>2, <2>3, <2>4, <2>5 DEF IInv
<1>2. ASSUME IInv, [Next]_vars PROVE IInv'
  BY <1>2, TypesStay, SignedStays, OnceStays, MeteredStays, DatedStays DEF IInv, Metered
<1> QED
  BY <1>1, <1>2, PTL DEF Spec

\* The gate's variables keep their types.
THEOREM TypeCorrect == Spec => []TypeOK
BY InductiveInvariant, PTL DEF IInv

\* However copies are sent, delayed and delivered, and however many callers
\* and addresses there are, a request whose client's clock is not ahead takes
\* effect once at most while the coordinator runs.
THEOREM OncePerRequest == Spec => []AppliedOnce
<1>1. IInv => AppliedOnce
  BY DEF IInv, Once, AppliedOnce, BagToSet
<1> QED
  BY <1>1, InductiveInvariant, PTL

\* In any span of time an address gets through its burst and what the span
\* refills, and no more, whatever other addresses do and the limiter prunes.
THEOREM RateHolds == Spec => []RateBounded
<1>1. ASSUME IInv PROVE RateBounded
  <2> SUFFICES ASSUME NEW o \in Sources, NEW from \in 0..clock
               PROVE  Cost * passes[o][from] <= Burst + Rate * (clock - from)
    BY DEF RateBounded
  <2>1. clock \in 0..MaxTime /\ from \in 0..MaxTime /\ ~(from > clock)
    <3>1. clock \in 0..MaxTime
      BY <1>1 DEF IInv, TypeOK
    <3> QED
      BY <3>1, Constants
  <2>2. Cost * passes[o][from] + Level(o) <= Burst + Rate * (clock - from)
    BY <1>1, <2>1 DEF IInv, Metered
  <2>3. Level(o) \in Nat
    BY <1>1, RefilledIs, LimitConstants DEF IInv, Metered, BucketsOK, Level
  <2>4. Cost * passes[o][from] \in Int /\ Rate * (clock - from) \in Int /\ Burst \in Int
    <3>1. passes[o][from] \in Nat
      BY <1>1, <2>1 DEF IInv, Metered
    <3> QED
      BY <2>1, <3>1, Constants, LimitConstants
  <2> QED
    BY <2>2, <2>3, <2>4
<1> QED
  BY <1>1, InductiveInvariant, PTL

\* An address is refused only when its own requests have used up its burst.
THEOREM RefusedHolds == Spec => []RefusedForOwnUse
<1>1. ASSUME IInv PROVE RefusedForOwnUse
  <2> SUFFICES ASSUME NEW k \in Callers, ~HasToken(ClientIP[k], clock)
               PROVE  Cost * (passes[Origin[k]][0] + 1) > Burst
    BY DEF RefusedForOwnUse
  <2> DEFINE o == Origin[k]
  <2>1. o \in Sources /\ ~HasToken(o, clock)
    BY Attribution, Constants
  <2>2. BucketsOK /\ clock \in 0..MaxTime
    BY <1>1 DEF IInv, Metered, TypeOK
  <2>3. Level(o) < Cost /\ Level(o) \in Nat
    <3> DEFINE b == WithBucket(o, clock)[o]
    <3>1. /\ clock \in Nat
          /\ b = IF o \in DOMAIN buckets THEN buckets[o] ELSE [tokens |-> Burst, last |-> clock]
      BY <2>1, <2>2, WithBucketIs DEF BucketsOK
    <3>2. b \in [tokens : 0..Burst, last : 0..clock]
      BY <2>2, <3>1, LimitConstants DEF BucketsOK
    <3>3. Refilled(b, clock).tokens \in 0..Burst /\ Level(o) = Refilled(b, clock).tokens
      BY <3>1, <3>2, RefilledIs, LimitConstants DEF Level, Refilled
    <3> QED
      BY <2>1, <3>3, LimitConstants DEF HasToken
  <2>4. Cost * passes[o][0] + Level(o) >= Burst
    BY <1>1, <2>1 DEF IInv, Metered
  <2>5. passes[o][0] \in Nat
    <3>1. passes \in [Sources -> [0..MaxTime -> Nat]] /\ 0 \in 0..MaxTime
      BY <1>1, Constants DEF IInv, Metered
    <3> QED
      BY <2>1, <3>1
  <2>6. Cost * (passes[o][0] + 1) = Cost * passes[o][0] + Cost /\ Cost * passes[o][0] \in Int
    BY <2>5, LimitConstants, OneMore
  <2> QED
    BY <2>3, <2>4, <2>6, LimitConstants
<1> QED
  BY <1>1, InductiveInvariant, PTL

\* No copy, however late, puts or keeps a node in the directory that did not
\* sign within the time to live and the allowed skew.
THEOREM ListedHolds == Spec => []ListedWasAlive
<1>1. ASSUME IInv PROVE ListedWasAlive
  BY <1>1, Constants DEF IInv, Dated, ListedWasAlive, Listed
<1> QED
  BY <1>1, InductiveInvariant, PTL

-----------------------------------------------------------------------------
(* Identities per address.                                                 *)

Froms == {j.from : j \in joins}

PeersIn(o, from) ==
  {j.peer : j \in {i \in joins : i.from = o /\ i.at \in from..(from + Window)}}

\* While the detector's map has not filled, it holds every address that got an
\* identity through and every identity that is still in the window, and no
\* window holds as many identities as the threshold.
Watched ==
  /\ \A j \in joins : j.from \in Sources /\ j.at \in 0..clock
  /\ IsFiniteSet(Froms) /\ DOMAIN sightings \subseteq Froms
  /\ \A o \in DOMAIN sightings :
       IsFiniteSet(DOMAIN sightings[o]) /\ \A i \in DOMAIN sightings[o] : sightings[o][i] \in Nat
  /\ Cardinality(Froms) < FullMap =>
       /\ Froms \subseteq DOMAIN sightings
       /\ \A j \in joins :
            clock - j.at <= Window =>
              j.peer \in DOMAIN sightings[j.from] /\ sightings[j.from][j.peer] >= j.at
       /\ \A o \in Sources, from \in Nat : Cardinality(PeersIn(o, from)) < Threshold

LEMMA DetectorCases ==
  ASSUME [Next]_vars
  PROVE  \/ UNCHANGED <<clock, sightings, joins>>
         \/ \E m \in wire : LooksLikeAFleet(m) \/ Join(m)
         \/ Restart
         \/ Tick
<1>1. ASSUME NEW k \in Callers, ClientStep(k) PROVE UNCHANGED <<clock, sightings, joins>>
  BY <1>1 DEF ClientStep, Call, NextAddress, GiveUp, gateVars, limitVars, history
<1>2. CASE UNCHANGED vars
  BY <1>2 DEF vars, gateVars, limitVars, history
<1>3. ASSUME NEW m \in wire, TooMany(m) \/ NotAuthentic(m) \/ Register(m) \/ NotRegistered(m)
      PROVE  UNCHANGED <<clock, sightings, joins>>
  BY <1>3 DEF TooMany, NotAuthentic, Register, NotRegistered, Authentic, LetIn, Handle, history
<1> QED
  BY <1>1, <1>2, <1>3 DEF Next, ClientStep

LEMMA WindowConstants == Window \in Nat /\ Threshold \in Nat /\ FullMap \in Nat
BY LimitsAssumption

\* What Refreshed keeps: p, and what was seen within the window.
LEMMA RefreshedIs ==
  ASSUME NEW ids, NEW p, NEW now \in Nat, IsFiniteSet(DOMAIN ids),
         \A i \in DOMAIN ids : ids[i] \in Nat
  PROVE  LET R == Refreshed(ids, p, now)
         IN  /\ p \in DOMAIN R /\ R[p] = now
             /\ DOMAIN R \subseteq DOMAIN ids \cup {p} /\ IsFiniteSet(DOMAIN R)
             /\ \A i \in DOMAIN R : R[i] \in Nat
             /\ \A i \in DOMAIN ids : now - ids[i] <= Window => i \in DOMAIN R
             /\ \A i \in DOMAIN ids \ {p} : i \in DOMAIN R => R[i] = ids[i]
<1> DEFINE all == [i \in DOMAIN ids \cup {p} |-> IF i = p THEN now ELSE ids[i]]
           R == Refreshed(ids, p, now)
<1>1. /\ DOMAIN R = Recent(all, now) /\ \A i \in Recent(all, now) : R[i] = all[i]
  BY InWindowIs DEF Refreshed
<1>2. Recent(all, now) = {i \in DOMAIN ids \cup {p} : now - all[i] <= Window}
  BY DEF Recent
<1>3. p \in Recent(all, now)
  BY <1>2, WindowConstants
<1>4. IsFiniteSet(DOMAIN R)
  BY <1>1, <1>2, FS_AddElement, FS_Subset
<1> HIDE DEF R
<1>5. DOMAIN R \subseteq DOMAIN ids \cup {p} /\ p \in DOMAIN R /\ R[p] = now
  BY <1>1, <1>2, <1>3
<1>6. \A i \in DOMAIN R : R[i] \in Nat
  BY <1>1, <1>2
<1>7. \A i \in DOMAIN ids : now - ids[i] <= Window => i \in DOMAIN R
  BY <1>1, <1>2, <1>3
<1>8. \A i \in DOMAIN ids \ {p} : i \in DOMAIN R => R[i] = ids[i]
  BY <1>1, <1>2
<1> QED
  BY <1>4, <1>5, <1>6, <1>7, <1>8 DEF R

\* The detector takes a sighting of p at o in.
LEMMA SightingIs ==
  ASSUME clock \in Nat, Watched, NEW o, NEW p,
         o \in DOMAIN sightings \/ Cardinality(DOMAIN sightings \cup {o}) < FullMap,
         Observe(o, p, clock)
  PROVE  /\ DOMAIN sightings' = DOMAIN sightings \cup {o}
         /\ \A q \in DOMAIN sightings \ {o} : sightings'[q] = sightings[q]
         /\ p \in DOMAIN sightings'[o] /\ sightings'[o][p] = clock
         /\ IsFiniteSet(DOMAIN sightings'[o])
         /\ \A i \in DOMAIN sightings'[o] : sightings'[o][i] \in Nat
         /\ \A i \in DOMAIN SeenAt(o) :
              clock - SeenAt(o)[i] <= Window => i \in DOMAIN sightings'[o]
         /\ \A i \in DOMAIN SeenAt(o) \ {p} :
              i \in DOMAIN sightings'[o] => sightings'[o][i] = SeenAt(o)[i]
<1>1. IsFiniteSet(DOMAIN SeenAt(o)) /\ \A i \in DOMAIN SeenAt(o) : SeenAt(o)[i] \in Nat
  BY EmptyIsEmpty, FS_EmptySet DEF SeenAt, Watched
<1>2. /\ DOMAIN sightings' = DOMAIN sightings \cup {o}
      /\ sightings'[o] = Refreshed(SeenAt(o), p, clock)
      /\ \A q \in DOMAIN sightings \ {o} : sightings'[q] = sightings[q]
  BY ObservedWithRoom DEF Observe
<1> DEFINE ids == SeenAt(o)
           R == Refreshed(ids, p, clock)
<1>3. /\ p \in DOMAIN R /\ R[p] = clock /\ IsFiniteSet(DOMAIN R)
      /\ \A i \in DOMAIN R : R[i] \in Nat
      /\ \A i \in DOMAIN ids : clock - ids[i] <= Window => i \in DOMAIN R
      /\ \A i \in DOMAIN ids \ {p} : i \in DOMAIN R => R[i] = ids[i]
  <2> HIDE DEF ids
  <2> QED
    BY <1>1, RefreshedIs DEF ids
<1>4. sightings'[o] = R
  BY <1>2
<1> HIDE DEF R
<1> QED
  BY <1>2, <1>3, <1>4

\* An identity in the window stays recorded when another sighting comes in.
LEMMA RecordStays ==
  ASSUME clock \in Nat, Watched, NEW o, NEW p,
         o \in DOMAIN sightings \/ Cardinality(DOMAIN sightings \cup {o}) < FullMap,
         Observe(o, p, clock),
         NEW j \in joins, clock - j.at <= Window, j.from \in DOMAIN sightings,
         j.peer \in DOMAIN sightings[j.from], sightings[j.from][j.peer] >= j.at
  PROVE  j.peer \in DOMAIN sightings'[j.from] /\ sightings'[j.from][j.peer] >= j.at
<1>1. j.at \in 0..clock /\ sightings[j.from][j.peer] \in Nat
  BY DEF Watched
<1>2. CASE j.from # o
  <2>1. sightings'[j.from] = sightings[j.from]
    BY <1>2, SightingIs
  <2> QED
    BY <2>1
<1>3. CASE j.from = o
  <2> DEFINE R == sightings'[o]
  <2>1. /\ p \in DOMAIN R /\ R[p] = clock
        /\ \A i \in DOMAIN SeenAt(o) : clock - SeenAt(o)[i] <= Window => i \in DOMAIN R
        /\ \A i \in DOMAIN SeenAt(o) \ {p} : i \in DOMAIN R => R[i] = SeenAt(o)[i]
    BY SightingIs
  <2>2. SeenAt(o) = sightings[o]
    BY <1>3 DEF SeenAt
  <2> HIDE DEF R
  <2>3. clock - sightings[o][j.peer] <= Window
    BY <1>1, <1>3, WindowConstants
  <2>4. j.peer \in DOMAIN R
    BY <1>3, <2>1, <2>2, <2>3
  <2>5. R[j.peer] >= j.at
    BY <1>1, <1>3, <2>1, <2>2, <2>4
  <2> QED
    BY <1>3, <2>4, <2>5 DEF R
<1> QED
  BY <1>2, <1>3

\* A sighting leaves the finite sets finite.
LEMMA SightingFinite ==
  ASSUME clock \in Nat, Watched, NEW o, NEW p,
         o \in DOMAIN sightings \/ Cardinality(DOMAIN sightings \cup {o}) < FullMap,
         Observe(o, p, clock), NEW q \in DOMAIN sightings'
  PROVE  IsFiniteSet(DOMAIN sightings'[q]) /\ \A i \in DOMAIN sightings'[q] : sightings'[q][i] \in Nat
<1>1. CASE q = o
  BY <1>1, SightingIs
<1>2. CASE q # o
  BY <1>2, SightingIs DEF Watched
<1> QED
  BY <1>1, <1>2

\* With a threshold of two at least, an address that the detector flags has an
\* entry already.
LEMMA FlaggedHasEntry ==
  ASSUME Threshold >= 2, clock \in Nat, Watched, NEW o, NEW p, Suspicious(o, p, clock)
  PROVE  o \in DOMAIN sightings
<1> SUFFICES ASSUME o \notin DOMAIN sightings PROVE FALSE
  OBVIOUS
<1> DEFINE S == Observed(o, p, clock)
<1>1. o \in DOMAIN S /\ Cardinality(DOMAIN S[o]) >= Threshold
  BY DEF Suspicious
<1>2. CASE Cardinality(DOMAIN sightings \cup {o}) < FullMap
  <2>1. S[o] = Refreshed(SeenAt(o), p, clock)
    BY <1>2, ObservedWithRoom
  <2>2. DOMAIN SeenAt(o) = {} /\ IsFiniteSet(DOMAIN SeenAt(o))
    BY EmptyIsEmpty, FS_EmptySet DEF SeenAt
  <2>4. DOMAIN Refreshed(SeenAt(o), p, clock) = {p}
    <3> DEFINE ids == SeenAt(o)
    <3> HIDE DEF ids
    <3>1. DOMAIN ids = {} /\ IsFiniteSet(DOMAIN ids)
      BY <2>2 DEF ids
    <3> DEFINE R == Refreshed(ids, p, clock)
    <3>2. p \in DOMAIN R /\ DOMAIN R \subseteq DOMAIN ids \cup {p}
      BY <3>1, RefreshedIs
    <3> QED
      BY <3>1, <3>2 DEF ids
  <2>3. Cardinality({p}) = 1
    BY FS_Singleton
  <2> HIDE DEF S
  <2> QED
    BY <1>1, <2>1, <2>3, <2>4, WindowConstants
<1>3. CASE ~(Cardinality(DOMAIN sightings \cup {o}) < FullMap)
  BY <1>1, <1>3, ObservedFull
<1> QED
  BY <1>2, <1>3

LEMMA WatchedStays ==
  ASSUME Threshold >= 2, TypeOK, Watched, [Next]_vars
  PROVE  Watched'
<1> USE WindowConstants
<1>1. clock \in Nat
  BY DEF TypeOK
<1>2. CASE UNCHANGED <<clock, sightings, joins>>
  BY <1>2 DEF Watched, Froms, PeersIn
<1>3. ASSUME NEW m \in wire, LooksLikeAFleet(m) PROVE Watched'
  <2> DEFINE o == ClientIP[m.by]  p == m.peer
  <2>1. /\ UNCHANGED <<clock, joins>> /\ Observe(o, p, clock) /\ Suspicious(o, p, clock)
    BY <1>3 DEF LooksLikeAFleet, JoinOf, Authentic, LetIn, Handle
  <2>2. o \in DOMAIN sightings
    BY <1>1, <2>1, FlaggedHasEntry
  <2> HIDE DEF o, p
  <2>3. DOMAIN sightings' = DOMAIN sightings
    BY <1>1, <2>1, <2>2, SightingIs
  <2>4. Froms' = Froms /\ \A q \in Sources, from \in Nat : PeersIn(q, from)' = PeersIn(q, from)
    BY <2>1 DEF Froms, PeersIn
  <2>5. \A q \in DOMAIN sightings' :
          IsFiniteSet(DOMAIN sightings'[q]) /\ \A i \in DOMAIN sightings'[q] : sightings'[q][i] \in Nat
    BY <1>1, <2>1, <2>2, SightingFinite
  <2>6. ASSUME Cardinality(Froms) < FullMap, NEW j \in joins, clock - j.at <= Window
        PROVE  j.peer \in DOMAIN sightings'[j.from] /\ sightings'[j.from][j.peer] >= j.at
    <3>1. /\ j.from \in DOMAIN sightings
          /\ j.peer \in DOMAIN sightings[j.from] /\ sightings[j.from][j.peer] >= j.at
      BY <2>6 DEF Watched, Froms
    <3> QED
      BY <1>1, <2>1, <2>2, <2>6, <3>1, RecordStays
  <2> QED
    BY <2>1, <2>3, <2>4, <2>5, <2>6 DEF Watched
<1>4. ASSUME NEW m \in wire, Join(m) PROVE Watched'
  <2> DEFINE o == ClientIP[m.by]  p == m.peer
             new == [from |-> o, peer |-> p, at |-> clock]
  <2>1. /\ clock' = clock /\ Observe(o, p, clock) /\ ~Suspicious(o, p, clock)
        /\ o \in Sources /\ joins' = joins \cup {new}
    BY <1>4, Attribution, Constants
       DEF Join, JoinOf, Authentic, LetIn, Handle, TypeOK, Requests
  <2> HIDE DEF o, p
  <2>0. new.from = o /\ new.peer = p /\ new.at = clock
    OBVIOUS
  <2> HIDE DEF new
  <2>2. Froms' = Froms \cup {o} /\ \A j \in joins : j.from \in Froms
    BY <2>0, <2>1 DEF Froms
  <2>3. IsFiniteSet(Froms) /\ IsFiniteSet(Froms') /\ IsFiniteSet(DOMAIN sightings \cup {o})
    BY <2>2, FS_AddElement, FS_Subset DEF Watched
  <2>4. \A j \in joins' : j.from \in Sources /\ j.at \in 0..clock
    BY <1>1, <2>0, <2>1 DEF Watched
  <2>5. DOMAIN sightings' \subseteq Froms'
    BY <2>1, <2>2, ObservedKnows DEF Observe, Watched
  <2>6. ASSUME ~(o \in DOMAIN sightings \/ Cardinality(DOMAIN sightings \cup {o}) < FullMap)
        PROVE  Watched'
    <3>1. /\ DOMAIN sightings' \subseteq DOMAIN sightings
          /\ \A q \in DOMAIN sightings' : sightings'[q] = InWindow(sightings[q], clock)
      BY <2>1, <2>6, ObservedFull DEF Observe
    <3>2. ASSUME NEW q \in DOMAIN sightings'
          PROVE  /\ IsFiniteSet(DOMAIN sightings'[q])
                 /\ \A i \in DOMAIN sightings'[q] : sightings'[q][i] \in Nat
      <4>1. /\ DOMAIN sightings'[q] \subseteq DOMAIN sightings[q]
            /\ \A i \in DOMAIN sightings'[q] : sightings'[q][i] = sightings[q][i]
        BY <3>1, InWindowIs
      <4>2. IsFiniteSet(DOMAIN sightings[q]) /\ \A i \in DOMAIN sightings[q] : sightings[q][i] \in Nat
        BY <3>1 DEF Watched
      <4> QED
        BY <4>1, <4>2, FS_Subset
    <3>3. Cardinality(DOMAIN sightings \cup {o}) <= Cardinality(Froms')
      BY <2>2, <2>3, FS_Subset DEF Watched
    <3>4. ~(Cardinality(Froms') < FullMap)
      BY <2>3, <2>6, <3>3, FS_CardinalityType
    <3> QED
      BY <2>1, <2>3, <2>4, <2>5, <3>2, <3>4 DEF Watched
  <2>7. ASSUME o \in DOMAIN sightings \/ Cardinality(DOMAIN sightings \cup {o}) < FullMap
        PROVE  Watched'
    <3>1. /\ DOMAIN sightings' = DOMAIN sightings \cup {o}
          /\ p \in DOMAIN sightings'[o] /\ sightings'[o][p] = clock
      BY <1>1, <2>1, <2>7, SightingIs
    <3>2. \A q \in DOMAIN sightings' :
            IsFiniteSet(DOMAIN sightings'[q]) /\ \A i \in DOMAIN sightings'[q] : sightings'[q][i] \in Nat
      BY <1>1, <2>1, <2>7, SightingFinite
    <3>3. ASSUME Cardinality(Froms') < FullMap
          PROVE  /\ Froms' \subseteq DOMAIN sightings'
                 /\ \A j \in joins' :
                      clock - j.at <= Window =>
                        /\ j.peer \in DOMAIN sightings'[j.from]
                        /\ sightings'[j.from][j.peer] >= j.at
                 /\ \A q \in Sources, from \in Nat : Cardinality(PeersIn(q, from)') < Threshold
      <4>1. Cardinality(Froms) < FullMap
        BY <2>2, <2>3, <3>3, FS_Subset, FS_CardinalityType
      <4>2. Froms' \subseteq DOMAIN sightings'
        BY <2>2, <3>1, <4>1 DEF Watched
      <4>3. ASSUME NEW j \in joins', clock - j.at <= Window
            PROVE  j.peer \in DOMAIN sightings'[j.from] /\ sightings'[j.from][j.peer] >= j.at
        <5>1. CASE j = new
          BY <1>1, <2>0, <3>1, <5>1
        <5>2. CASE j \in joins
          <6>1. /\ j.from \in DOMAIN sightings
                /\ j.peer \in DOMAIN sightings[j.from] /\ sightings[j.from][j.peer] >= j.at
            BY <4>1, <4>3, <5>2, <2>2 DEF Watched
          <6> QED
            BY <1>1, <2>1, <2>7, <4>3, <5>2, <6>1, RecordStays
        <5> QED
          BY <2>1, <5>1, <5>2
      <4>4. ASSUME NEW q \in Sources, NEW from \in Nat
            PROVE  Cardinality(PeersIn(q, from)') < Threshold
        <5>1. CASE q # o \/ clock \notin from..(from + Window)
          <6>1. PeersIn(q, from)' = PeersIn(q, from)
            BY <2>0, <2>1, <5>1 DEF PeersIn
          <6> QED
            BY <4>1, <6>1 DEF Watched
        <5>2. CASE q = o /\ clock \in from..(from + Window)
          <6>1. ASSUME NEW x \in PeersIn(q, from)' PROVE x \in DOMAIN sightings'[o]
            <7>1. PICK j \in joins' : j.peer = x /\ j.from = q /\ j.at \in from..(from + Window)
              BY <6>1 DEF PeersIn
            <7>2. clock - j.at <= Window
              BY <1>1, <2>4, <5>2, <7>1
            <7> QED
              BY <4>3, <5>2, <7>1, <7>2
          <6>2. IsFiniteSet(DOMAIN sightings'[o]) /\ Cardinality(DOMAIN sightings'[o]) < Threshold
            <7>1. IsFiniteSet(DOMAIN sightings'[o])
              BY <3>1, <3>2
            <7>2. ~(Cardinality(DOMAIN sightings'[o]) >= Threshold)
              BY <2>1, <3>1 DEF Suspicious, Observe
            <7> QED
              BY <7>1, <7>2, FS_CardinalityType
          <6>3. Cardinality(PeersIn(q, from)') <= Cardinality(DOMAIN sightings'[o])
                /\ IsFiniteSet(PeersIn(q, from)')
            BY <6>1, <6>2, FS_Subset
          <6> QED
            BY <6>2, <6>3, FS_CardinalityType
        <5> QED
          BY <5>1, <5>2
      <4> QED
        BY <4>2, <4>3, <4>4
    <3> QED
      BY <2>1, <2>3, <2>4, <2>5, <3>2, <3>3 DEF Watched
  <2> QED
    BY <2>6, <2>7
<1>5. CASE Restart
  <2>1. joins' = {} /\ sightings' = << >>
    BY <1>5 DEF Restart
  <2>2. Froms' = {} /\ \A q \in Sources, from \in Nat : PeersIn(q, from)' = {}
    BY <2>1 DEF Froms, PeersIn
  <2>3. IsFiniteSet(Froms') /\ DOMAIN sightings' = {}
    BY <2>1, <2>2, EmptyIsEmpty, FS_EmptySet
  <2>4. \A q \in Sources, from \in Nat : Cardinality(PeersIn(q, from)') < Threshold
    BY <2>2, FS_EmptySet
  <2> QED
    BY <2>1, <2>2, <2>3, <2>4 DEF Watched
<1>6. CASE Tick
  <2>1. clock' = clock + 1 /\ UNCHANGED <<sightings, joins>>
    BY <1>6 DEF Tick, gateVars, limitVars, history
  <2>2. Froms' = Froms /\ \A q \in Sources, from \in Nat : PeersIn(q, from)' = PeersIn(q, from)
    BY <2>1 DEF Froms, PeersIn
  <2>3. \A j \in joins : /\ j.at \in 0..clock /\ j.at \in 0..clock'
                         /\ clock' - j.at <= Window => clock - j.at <= Window
    BY <1>1, <2>1 DEF Watched
  <2> QED
    BY <2>1, <2>2, <2>3 DEF Watched
<1> QED
  BY <1>2, <1>3, <1>4, <1>5, <1>6, DetectorCases

\* With a threshold of two identities at least, both of an address's bounds
\* hold.  (A threshold of one flags addresses that get no identity through, and
\* those can fill the map.)
THEOREM SourcesHold ==
  ASSUME Threshold >= 2
  PROVE  Spec => []SourcesBounded
<1>1. ASSUME Init PROVE Watched
  <2>1. joins = {} /\ sightings = << >>
    BY <1>1 DEF Init, LimitsInit
  <2>2. Froms = {} /\ \A q \in Sources, from \in Nat : PeersIn(q, from) = {}
    BY <2>1 DEF Froms, PeersIn
  <2>3. IsFiniteSet(Froms) /\ DOMAIN sightings = {}
    BY <2>1, <2>2, EmptyIsEmpty, FS_EmptySet
  <2>4. \A q \in Sources, from \in Nat : Cardinality(PeersIn(q, from)) < Threshold
    BY <2>2, FS_EmptySet, WindowConstants
  <2> QED
    BY <2>1, <2>2, <2>3, <2>4 DEF Watched
<1>2. ASSUME TypeOK, Watched, [Next]_vars PROVE Watched'
  BY <1>2, WatchedStays
<1>3. ASSUME TypeOK, Watched PROVE IdentityBound
  <2>1. \A from \in 0..clock : from \in Nat
    BY <1>3 DEF TypeOK
  <2> QED
    BY <1>3, <2>1 DEF Watched, IdentityBound, Froms, PeersIn
<1> QED
  BY <1>1, <1>2, <1>3, TypeCorrect, RateHolds, PTL DEF Spec, SourcesBounded

=============================================================================
