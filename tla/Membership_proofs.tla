------------------------- MODULE Membership_proofs -------------------------
(***************************************************************************)
(* Proofs about the discovery plane, for any number of devices, issuers,   *)
(* places and goroutines and any lifetimes: no certificate escalates, no   *)
(* equivocation goes unnoticed within the guard's span, who is out stays   *)
(* out, and an eligible exit was not revoked longer ago than the permitted *)
(* staleness.                                                              *)
(***************************************************************************)
EXTENDS Membership, FiniteSetTheorems, TLAPS

\* A bounded, non-empty set of naturals has a greatest member: among the sets
\* of members above a member there is one that contains no other.
LEMMA MaxIs ==
  ASSUME NEW N \in Nat, NEW S, S \subseteq 0..N, S # {}
  PROVE  Max(S) \in S /\ \A y \in S : Max(S) >= y
<1> DEFINE Above(x) == {y \in S : y > x}
           T == {Above(x) : x \in S}
<1>1. IsFiniteSet(S)
  <2>1. IsFiniteSet(0..N)
    BY FS_Interval
  <2> QED
    BY <2>1, FS_Subset
<1>2. T \subseteq FiniteSubsetsOf(S) /\ T # {}
  <2>1. \A x \in S : Above(x) \in SUBSET S
    OBVIOUS
  <2>2. \A x \in S : IsFiniteSet(Above(x))
    BY <1>1, <2>1, FS_Subset
  <2> HIDE DEF Above
  <2> QED
    BY <2>1, <2>2 DEF FiniteSubsetsOf
<1>3. IsWellFoundedOn(StrictSubsetOrdering(S), FiniteSubsetsOf(S))
  BY FS_StrictSubsetOrderingWellFounded
<1> HIDE DEF T
<1>4. PICK U \in T : \A V \in T : <<V, U>> \notin StrictSubsetOrdering(S)
  BY <1>2, <1>3, WFMin
<1>5. PICK x \in S : U = Above(x)
  BY <1>4 DEF T
<1>6. \A y \in S : x >= y
  <2> SUFFICES ASSUME NEW y \in S, y > x PROVE FALSE
    OBVIOUS
  <2>1. Above(y) \in T
    BY DEF T
  <2>2. Above(y) \subseteq Above(x) /\ Above(y) # Above(x)
    <3>1. y \in Above(x) /\ y \notin Above(y)
      OBVIOUS
    <3>2. \A z \in S : z > y => z > x
      OBVIOUS
    <3> QED
      BY <3>1, <3>2
  <2>3. <<Above(y), U>> \in StrictSubsetOrdering(S)
    BY <1>5, <2>2 DEF StrictSubsetOrdering
  <2> QED
    BY <1>4, <2>1, <2>3
<1> QED
  BY <1>6 DEF Max

-----------------------------------------------------------------------------
Exits ==
  [peer : Peers, issuer : Issuers, roles : SUBSET Roles, gen : 0..MaxTime,
   place : Places, at : 0..MaxTime, checked : BOOLEAN, eligible : BOOLEAN]

Types ==
  /\ clock \in 0..MaxTime /\ signed \in 0..MaxSigned /\ fetches \in 0..MaxFetches
  /\ cert \in [Peers -> Certs \cup {None}]
  /\ record \in [Devices -> Records \cup {None}]
  /\ \A d \in Devices : record[d] # None => cert[Key[d]] \in Certs
  /\ providers \subseteq Peers /\ isolated \subseteq Peers
  /\ fetch \in [Resolvers -> Responses \cup {None}]
  /\ DOMAIN gens = Peers /\ \A p \in Peers : DOMAIN gens[p] \subseteq 0..MaxTime
  /\ accepted \subseteq Exits

\* The checkpoints are a history: a later one is not older and revokes no less.
\* The querying node goes by one of them, and all it learned is in that one.
Checked ==
  /\ versions \in Seq(Checkpoints) /\ Len(versions) <= signed
  /\ \A n \in DOMAIN versions : versions[n].version = n /\ versions[n].thisUpdate <= clock
  /\ \A n, m \in DOMAIN versions :
       n <= m => /\ versions[n].thisUpdate <= versions[m].thisUpdate
                 /\ versions[n].revoked \subseteq versions[m].revoked
  /\ \/ checkpoint = None /\ learned = {}
     \/ \E n \in DOMAIN versions :
          checkpoint = versions[n] /\ learned \subseteq versions[n].revoked

\* What the guard remembers of a peer is of exits returned, and an exit returned
\* is remembered unless a newer one pushed it out of the span.
Guarded ==
  \A p \in Peers \ isolated :
    /\ \A g \in DOMAIN gens[p] : \E c \in accepted : c.peer = p /\ c.gen = g
    /\ \A a \in accepted :
         a.peer = p =>
           \/ a.gen \in DOMAIN gens[p] /\ gens[p][a.gen] = a.place
           \/ \E c \in accepted : c.peer = p /\ c.gen > a.gen + Span

\* The inductive invariant.
IInv ==
  /\ Types /\ Checked /\ Guarded
  /\ NoEscalation /\ ConflictCaught
  /\ \A a \in accepted : a.at <= clock
  /\ RevocationIsTimely

LEMMA Numbers ==
  /\ {CertTtl, RecordTtl, CheckTtl, MaxStaleness, Deadline, Span} \subseteq Nat
  /\ {MaxTime, MaxSigned, MaxFetches} \subseteq Nat
  /\ {"member", "exit"} \subseteq Roles /\ Online \in Issuers
BY MembershipAssumption

LEMMA EmptyIsEmpty == DOMAIN << >> = {}
OBVIOUS

\* What a returned exit was verified for, and how it is recorded.
LEMMA AcceptIs ==
  ASSUME Types, NEW r \in Resolvers, Accept(r)
  PROVE  \E a \in Exits :
           /\ accepted' = accepted \cup {a} /\ a.peer = fetch[r].peer
           /\ a.gen = fetch[r].record.gen /\ a.place = fetch[r].record.place
           /\ a.at = clock /\ a.roles \subseteq Grants[a.issuer]
           /\ a.checked <=> checkpoint # None
           /\ a.eligible <=> checkpoint = None \/ ~Stale(checkpoint)
           /\ checkpoint # None => {a.peer, a.issuer} \cap checkpoint.revoked = {}
           /\ a.peer \notin isolated /\ ~Conflict(a.peer, fetch[r].record)
           /\ Remember(a.peer, fetch[r].record)
<1> DEFINE f == fetch[r]
           a == [peer |-> f.peer, issuer |-> f.cert.issuer, roles |-> f.record.roles,
                 gen |-> f.record.gen, place |-> f.record.place, at |-> clock,
                 checked |-> checkpoint # None,
                 eligible |-> checkpoint = None \/ ~Stale(checkpoint)]
<1>1. accepted' = accepted \cup {a}
  BY DEF Accept
<1>2. /\ f.peer \in Peers /\ f.cert \in Certs /\ f.record \in Records /\ clock \in 0..MaxTime
  BY DEF Accept, Usable, Types, Responses
<1>3. /\ f.cert.issuer \in Issuers /\ f.record.roles \in SUBSET Roles
      /\ f.record.gen \in 0..MaxTime /\ f.record.place \in Places
  BY <1>2 DEF Certs, Records
<1>4. (checkpoint # None) \in BOOLEAN /\ (checkpoint = None \/ ~Stale(checkpoint)) \in BOOLEAN
  OBVIOUS
<1>5. f.record.roles \subseteq Grants[f.cert.issuer]
  BY DEF Accept, Usable, Verified, VerifyNodeRecord, VerifyMemberCert
<1>6. checkpoint # None => {f.peer, f.cert.issuer} \cap checkpoint.revoked = {}
  BY DEF Accept, Usable, Revoked, Revokes
<1>7. /\ f.peer \notin isolated /\ ~Conflict(f.peer, f.record) /\ Remember(f.peer, f.record)
  BY DEF Accept, Welcome
<1>8. /\ a.peer = f.peer /\ a.issuer = f.cert.issuer /\ a.roles = f.record.roles
      /\ a.gen = f.record.gen /\ a.place = f.record.place /\ a.at = clock
      /\ a.checked = (checkpoint # None)
      /\ a.eligible = (checkpoint = None \/ ~Stale(checkpoint))
  OBVIOUS
<1> HIDE DEF f
<1>9. a \in Exits
  BY <1>2, <1>3, <1>4 DEF Exits
<1> HIDE DEF a
<1>10. WITNESS a \in Exits
<1> QED
  BY <1>1, <1>5, <1>6, <1>7, <1>8 DEF f

\* Only Accept returns an exit.
LEMMA OnlyAccept ==
  ASSUME [Next]_vars, ~ \E r \in Resolvers : Accept(r)
  PROVE  accepted' = accepted
BY DEF Next, vars, IssueMemberCert, Certify, Publish, SignCheckpoint, TakeCheckpoint, Fetch,
       Discard, Isolate, StillIsolated, Tick

\* Time goes on.
LEMMA ClockRises ==
  ASSUME Types, [Next]_vars
  PROVE  clock \in Nat /\ clock' \in 0..MaxTime /\ clock' >= clock
<1>1. clock \in 0..MaxTime /\ clock \in Nat /\ clock >= clock
  BY Numbers DEF Types
<1>2. CASE Tick
  BY <1>1, <1>2, Numbers DEF Tick
<1>3. CASE clock' = clock
  BY <1>1, <1>3
<1>4. Tick \/ clock' = clock
  BY DEF Next, vars, IssueMemberCert, Certify, Publish, SignCheckpoint, TakeCheckpoint, Fetch,
       Discard, Isolate, StillIsolated, Accept, Done
<1> QED
  BY <1>1, <1>2, <1>3, <1>4

-----------------------------------------------------------------------------
LEMMA RestrictIs ==
  ASSUME NEW f, NEW S, S \subseteq DOMAIN f
  PROVE  DOMAIN Restrict(f, S) = S /\ \A x \in S : Restrict(f, S)[x] = f[x]
BY DEF Restrict

\* What the guard remembers of a peer after a record: the record, and of the
\* rest what is within the span of the newest generation.
LEMMA RememberIs ==
  ASSUME Types, NEW p \in Peers, NEW rec \in Records, Remember(p, rec)
  PROVE  /\ DOMAIN gens' = Peers /\ \A q \in Peers \ {p} : gens'[q] = gens[q]
         /\ DOMAIN gens'[p] \subseteq DOMAIN gens[p] \cup {rec.gen}
         /\ \A g \in DOMAIN gens[p] \cup {rec.gen} :
              \/ /\ g \in DOMAIN gens'[p]
                 /\ gens'[p][g] = IF g = rec.gen THEN rec.place ELSE gens[p][g]
              \/ \E m \in DOMAIN gens[p] \cup {rec.gen} : m > g + Span
<1> DEFINE D == DOMAIN gens[p] \cup {rec.gen}
           all == [g \in D |-> IF g = rec.gen THEN rec.place ELSE gens[p][g]]
           newest == Max(D)
<1>1. gens' = [gens EXCEPT ![p] = Prune(all)]
  BY DEF Remember
<1>2. D \subseteq 0..MaxTime /\ D # {} /\ MaxTime \in Nat /\ Span \in Nat
  BY Numbers DEF Types, Records
<1>3. newest \in D /\ \A g \in D : g <= newest
  <2> HIDE DEF D
  <2>1. Max(D) \in D /\ \A g \in D : Max(D) >= g
    BY <1>2, MaxIs
  <2>2. \A g \in D : g \in Nat
    BY <1>2
  <2> QED
    BY <2>1, <2>2
<1>4. DOMAIN all = D /\ \A g \in D : all[g] = IF g = rec.gen THEN rec.place ELSE gens[p][g]
  OBVIOUS
<1> HIDE DEF all, D
<1>5. /\ DOMAIN Prune(all) \subseteq D
      /\ \A g \in D : \/ g \in DOMAIN Prune(all) /\ Prune(all)[g] = all[g]
                      \/ newest > g + Span
  <2> DEFINE K == {g \in D : g >= newest - Span}
  <2>1. K \subseteq DOMAIN all
    BY <1>4
  <2>2. Prune(all) = IF newest > Span THEN Restrict(all, K) ELSE all
    BY <1>4 DEF Prune
  <2>3. DOMAIN Restrict(all, K) = K /\ \A g \in K : Restrict(all, K)[g] = all[g]
    BY <2>1, RestrictIs
  <2>4. \A g \in D : g \in K \/ newest > g + Span
    <3> HIDE DEF newest
    <3>1. newest \in Nat /\ \A g \in D : g \in Nat
      BY <1>2, <1>3
    <3> QED
      BY <1>2, <3>1
  <2>5. K \subseteq D
    OBVIOUS
  <2> HIDE DEF K, newest
  <2> QED
    BY <1>4, <2>2, <2>3, <2>4, <2>5
<1>6. /\ DOMAIN gens' = Peers /\ gens'[p] = Prune(all)
      /\ \A q \in Peers \ {p} : gens'[q] = gens[q]
  BY <1>1 DEF Types
<1> QED
  BY <1>3, <1>4, <1>5, <1>6 DEF D

LEMMA GensStay ==
  ASSUME Types, [Next]_vars
  PROVE  DOMAIN gens' = Peers /\ \A p \in Peers : DOMAIN gens'[p] \subseteq 0..MaxTime
<1>1. ASSUME NEW r \in Resolvers, Accept(r)
      PROVE  DOMAIN gens' = Peers /\ \A p \in Peers : DOMAIN gens'[p] \subseteq 0..MaxTime
  <2> DEFINE p == fetch[r].peer  rec == fetch[r].record
  <2>1. p \in Peers /\ rec \in Records /\ Remember(p, rec) /\ rec.gen \in 0..MaxTime
    BY <1>1 DEF Accept, Usable, Types, Responses, Records
  <2> HIDE DEF p, rec
  <2>2. /\ DOMAIN gens' = Peers /\ \A q \in Peers \ {p} : gens'[q] = gens[q]
        /\ DOMAIN gens'[p] \subseteq DOMAIN gens[p] \cup {rec.gen}
    BY <2>1, RememberIs
  <2> QED
    BY <2>1, <2>2 DEF Types
<1>2. ASSUME NEW r \in Resolvers, Isolate(r)
      PROVE  DOMAIN gens' = Peers /\ \A p \in Peers : DOMAIN gens'[p] \subseteq 0..MaxTime
  BY <1>2, EmptyIsEmpty DEF Isolate, Types
<1>3. CASE gens' = gens
  BY <1>3 DEF Types
<1>4. gens' = gens \/ \E r \in Resolvers : Accept(r) \/ Isolate(r)
  BY DEF Next, vars, guardVars, IssueMemberCert, Certify, Publish, SignCheckpoint,
         TakeCheckpoint, Fetch, Discard, StillIsolated, Tick
<1> QED
  BY <1>1, <1>2, <1>3, <1>4

LEMMA FetchStays ==
  ASSUME Types, [Next]_vars
  PROVE  fetch' \in [Resolvers -> Responses \cup {None}]
<1>1. ASSUME NEW r \in Resolvers, NEW d \in Devices, Fetch(r, d)
      PROVE  fetch' \in [Resolvers -> Responses \cup {None}]
  <2> DEFINE f == [peer |-> Key[d], at |-> clock, cert |-> cert[Key[d]], record |-> record[d]]
  <2>1. Key[d] \in Peers /\ clock \in 0..MaxTime /\ cert[Key[d]] \in Certs /\ record[d] \in Records
    BY <1>1 DEF Fetch, Types, Peers
  <2>2. f \in Responses
    BY <2>1 DEF Responses
  <2>3. fetch' = [fetch EXCEPT ![r] = f]
    BY <1>1 DEF Fetch
  <2> HIDE DEF f
  <2> QED
    BY <2>2, <2>3 DEF Types
<1>2. ASSUME NEW r \in Resolvers, Done(r) PROVE fetch' \in [Resolvers -> Responses \cup {None}]
  BY <1>2 DEF Done, Types
<1>3. CASE fetch' = fetch
  BY <1>3 DEF Types
<1>4. \/ fetch' = fetch \/ \E r \in Resolvers : Done(r) \/ \E d \in Devices : Fetch(r, d)
  BY DEF Next, vars, queryVars, IssueMemberCert, Certify, Publish, SignCheckpoint,
         TakeCheckpoint, Discard, StillIsolated, Isolate, Accept, Tick
<1> QED
  BY <1>1, <1>2, <1>3, <1>4

\* Who signs: certs and records are of their types, and a device with a record
\* has a cert.
LEMMA SignedStays ==
  ASSUME Types, [Next]_vars
  PROVE  /\ cert' \in [Peers -> Certs \cup {None}] /\ providers' \subseteq Peers
         /\ record' \in [Devices -> Records \cup {None}] /\ signed' \in 0..MaxSigned
         /\ \A d \in Devices : record'[d] # None => cert'[Key[d]] \in Certs
<1> DEFINE Goal == /\ cert' \in [Peers -> Certs \cup {None}] /\ providers' \subseteq Peers
                   /\ record' \in [Devices -> Records \cup {None}] /\ signed' \in 0..MaxSigned
                   /\ \A d \in Devices : record'[d] # None => cert'[Key[d]] \in Certs
<1>1. SignOneMore => signed' \in 0..MaxSigned
  BY Numbers DEF SignOneMore, Types
<1>0. clock \in 0..MaxTime /\ clock \in Nat /\ \A d \in Devices : Key[d] \in Peers
  BY Numbers DEF Types, Peers
<1>2. ASSUME NEW i \in Issuers, NEW p \in Peers, NEW roles \in SUBSET Roles,
             SignMemberCert(i, p, roles), UNCHANGED <<record, providers>>
      PROVE  Goal
  <2> DEFINE c == [issuer |-> i, roles |-> roles, expires |-> clock + CertTtl]
  <2>1. c \in Certs
    <3>1. clock + CertTtl \in Nat
      BY <1>0, Numbers
    <3> QED
      BY <3>1 DEF Certs
  <2>2. cert' = [cert EXCEPT ![p] = c] /\ signed' \in 0..MaxSigned
    BY <1>1, <1>2 DEF SignMemberCert
  <2> HIDE DEF c
  <2> QED
    BY <1>0, <1>2, <2>1, <2>2 DEF Types
<1>3. ASSUME NEW p \in Peers, IssueMemberCert(p) PROVE Goal
  <2>1. SignMemberCert(Online, p, {"member"}) /\ UNCHANGED <<record, providers>>
    BY <1>3 DEF IssueMemberCert
  <2> QED
    BY <1>2, <2>1, Numbers
<1>4. ASSUME NEW p \in Peers, NEW i \in Issuers, Certify(i, p) PROVE Goal
  <2>1. PICK roles \in SUBSET Roles : SignMemberCert(i, p, roles)
    BY <1>4 DEF Certify
  <2> QED
    BY <1>2, <1>4, <2>1 DEF Certify
<1>5. ASSUME NEW d \in Devices, NEW place \in Places, Publish(d, place) PROVE Goal
  <2> DEFINE n == [gen |-> clock, place |-> place, roles |-> {"exit"},
                   expires |-> clock + RecordTtl]
  <2>1. n \in Records
    <3>1. clock + RecordTtl \in Nat
      BY <1>0, Numbers
    <3> QED
      BY <1>0, <3>1, Numbers DEF Records
  <2>2. /\ record' = [record EXCEPT ![d] = n] /\ signed' \in 0..MaxSigned
        /\ cert' = cert /\ cert[Key[d]] \in Certs /\ providers' = providers \cup {Key[d]}
    BY <1>0, <1>1, <1>5 DEF Publish, Types
  <2> HIDE DEF n
  <2> QED
    BY <1>0, <2>1, <2>2 DEF Types
<1>6. ASSUME NEW s \in Subjects, SignCheckpoint(s) PROVE Goal
  BY <1>1, <1>6 DEF SignCheckpoint, Types
<1>7. CASE UNCHANGED worldVars
  BY <1>7 DEF worldVars, Types
<1>8. \/ \E p \in Peers : IssueMemberCert(p) \/ \E i \in Issuers : Certify(i, p)
      \/ \E d \in Devices, place \in Places : Publish(d, place)
      \/ \E s \in Subjects : SignCheckpoint(s)
      \/ UNCHANGED worldVars
  BY DEF Next, vars, TakeCheckpoint, Fetch, Discard, StillIsolated, Isolate, Accept, Done, Tick,
         worldVars
<1> QED
  BY <1>3, <1>4, <1>5, <1>6, <1>7, <1>8

LEMMA TypesStay == ASSUME Types, [Next]_vars PROVE Types'
<1>1. fetches' \in 0..MaxFetches
  <2>1. fetches' = fetches \/ (fetches < MaxFetches /\ fetches' = fetches + 1)
    BY DEF Next, vars, queryVars, IssueMemberCert, Certify, Publish, SignCheckpoint,
           TakeCheckpoint, Fetch, Discard, StillIsolated, Isolate, Accept, Done, Tick
  <2> QED
    BY <2>1, Numbers DEF Types
<1>2. isolated' \subseteq Peers
  <2>1. ASSUME NEW r \in Resolvers, Isolate(r) PROVE isolated' \subseteq Peers
    BY <2>1 DEF Isolate, Usable, Types, Responses
  <2>2. isolated' = isolated \/ \E r \in Resolvers : Isolate(r)
    BY DEF Next, vars, guardVars, IssueMemberCert, Certify, Publish, SignCheckpoint,
         TakeCheckpoint, Fetch, Discard, StillIsolated, Accept, Tick
  <2> QED
    BY <2>1, <2>2 DEF Types
<1>3. accepted' \subseteq Exits
  BY AcceptIs, OnlyAccept DEF Types
<1> QED
  BY <1>1, <1>2, <1>3, ClockRises, GensStay, FetchStays, SignedStays DEF Types

-----------------------------------------------------------------------------
LEMMA CheckedStays == ASSUME Types, Checked, [Next]_vars PROVE Checked'
<1>1. /\ Len(versions) \in Nat /\ DOMAIN versions = 1..Len(versions)
      /\ clock \in Nat /\ clock' \in Nat /\ clock' >= clock /\ signed \in Nat
      /\ \A n \in DOMAIN versions : versions[n] \in Checkpoints
  BY ClockRises, Numbers DEF Checked, Types
<1>2. ASSUME NEW s \in Subjects, SignCheckpoint(s) PROVE Checked'
  <2> DEFINE k == Len(versions)
             old == IF k = 0 THEN {} ELSE versions[k].revoked
             new == [version |-> k + 1, thisUpdate |-> clock, revoked |-> old \cup {s}]
  <2>1. /\ signed < MaxSigned /\ signed' = signed + 1 /\ versions' = Append(versions, new)
        /\ UNCHANGED <<clock, checkpoint, learned>>
    BY <1>2 DEF SignCheckpoint, SignOneMore, checkVars
  <2>2. old \in SUBSET Subjects /\ \A n \in DOMAIN versions : versions[n].revoked \subseteq old
    <3>1. CASE k = 0
      BY <1>1, <3>1
    <3>2. CASE k # 0
      <4>1. k \in DOMAIN versions /\ \A n \in DOMAIN versions : n <= k
        BY <1>1, <3>2
      <4>2. versions[k].revoked \in SUBSET Subjects
        BY <1>1, <4>1 DEF Checkpoints
      <4> QED
        BY <3>2, <4>1, <4>2 DEF Checked
    <3> QED
      BY <3>1, <3>2
  <2> HIDE DEF old
  <2>3. new \in Checkpoints
    <3>1. k + 1 \in 1..MaxSigned
      BY <1>1, <2>1, Numbers DEF Checked
    <3>2. clock \in 0..MaxTime /\ old \cup {s} \in SUBSET Subjects
      BY <2>2 DEF Types
    <3> QED
      BY <3>1, <3>2 DEF Checkpoints
  <2>4. new.version = k + 1 /\ new.thisUpdate = clock /\ old \subseteq new.revoked
    OBVIOUS
  <2> HIDE DEF new
  <2>5. /\ versions' \in Seq(Checkpoints) /\ Len(versions') = k + 1
        /\ DOMAIN versions' = 1..(k + 1) /\ versions'[k + 1] = new
        /\ \A n \in DOMAIN versions : versions'[n] = versions[n] /\ n \in DOMAIN versions'
    BY <1>1, <2>1, <2>3 DEF Checked
  <2>6. \A n \in DOMAIN versions' : n \in DOMAIN versions \/ n = k + 1
    BY <1>1, <2>5
  <2>7. Len(versions') <= signed'
    BY <1>1, <2>1, <2>5 DEF Checked
  <2>8. \A n \in DOMAIN versions' : versions'[n].version = n /\ versions'[n].thisUpdate <= clock'
    BY <1>1, <2>1, <2>4, <2>5, <2>6 DEF Checked
  <2>9. ASSUME NEW n \in DOMAIN versions', NEW m \in DOMAIN versions', n <= m
        PROVE  /\ versions'[n].thisUpdate <= versions'[m].thisUpdate
               /\ versions'[n].revoked \subseteq versions'[m].revoked
    <3>1. CASE n \in DOMAIN versions /\ m \in DOMAIN versions
      BY <2>5, <2>9, <3>1 DEF Checked
    <3>2. CASE n \in DOMAIN versions /\ m = k + 1
      BY <2>2, <2>4, <2>5, <3>2 DEF Checked
    <3>3. CASE n = k + 1
      <4>1. m = k + 1
        BY <1>1, <2>5, <2>9, <3>3
      <4> QED
        BY <1>1, <2>4, <2>5, <3>3, <4>1
    <3> QED
      BY <2>6, <3>1, <3>2, <3>3
  <2>10. \/ checkpoint' = None /\ learned' = {}
         \/ \E n \in DOMAIN versions' :
              checkpoint' = versions'[n] /\ learned' \subseteq versions'[n].revoked
    BY <2>1, <2>5 DEF Checked
  <2> QED
    BY <2>5, <2>7, <2>8, <2>9, <2>10 DEF Checked
<1>3. CASE TakeCheckpoint
  <2>1. PICK n \in DOMAIN versions :
          /\ VerifyCheckpoint(versions[n]) /\ checkpoint' = versions[n]
          /\ learned' = learned \cup versions[n].revoked
    BY <1>3 DEF TakeCheckpoint
  <2>2. UNCHANGED <<clock, versions, signed>>
    BY <1>3 DEF TakeCheckpoint, worldVars
  <2>3. learned \subseteq versions[n].revoked
    <3>1. CASE learned = {}
      BY <3>1
    <3>2. ASSUME NEW m \in DOMAIN versions,
                 checkpoint = versions[m], learned \subseteq versions[m].revoked
          PROVE  learned \subseteq versions[n].revoked
      <4>1. checkpoint # None
        BY <1>1, <3>2, MembershipAssumption
      <4>2. n >= m
        BY <2>1, <3>2, <4>1 DEF VerifyCheckpoint, VersionFloor, Checked
      <4> QED
        BY <1>1, <3>2, <4>2 DEF Checked
    <3> QED
      BY <3>1, <3>2 DEF Checked
  <2> QED
    BY <2>1, <2>2, <2>3 DEF Checked
<1>4. CASE UNCHANGED <<versions, checkpoint, learned>>
  <2>1. signed' >= signed
    <3>1. signed' = signed \/ signed' = signed + 1
      BY DEF Next, vars, IssueMemberCert, Certify, SignMemberCert, SignOneMore, Publish, worldVars,
         SignCheckpoint, TakeCheckpoint, Fetch, Discard, StillIsolated, Isolate, Accept, Done, Tick
    <3> QED
      BY <1>1, <3>1
  <2>2. Len(versions) <= signed'
    BY <1>1, <2>1, SignedStays, Numbers DEF Checked
  <2>3. \A n \in DOMAIN versions : versions[n].thisUpdate <= clock'
    <3>1. \A n \in DOMAIN versions : versions[n].thisUpdate \in Nat
      BY <1>1, Numbers DEF Checkpoints
    <3> QED
      BY <1>1, <3>1 DEF Checked
  <2> QED
    BY <1>4, <2>2, <2>3 DEF Checked
<1>5. \/ \E s \in Subjects : SignCheckpoint(s)
      \/ TakeCheckpoint
      \/ UNCHANGED <<versions, checkpoint, learned>>
  BY DEF Next, vars, checkVars, worldVars, IssueMemberCert, Certify, Publish, Fetch, Discard,
         StillIsolated, Isolate, Accept, Done, Tick
<1> QED
  BY <1>2, <1>3, <1>4, <1>5

\* What is learned is in the checkpoint the node goes by.
LEMMA LearnedIs ==
  ASSUME Checked
  PROVE  \/ checkpoint = None /\ learned = {}
         \/ checkpoint # None /\ learned \subseteq checkpoint.revoked
<1>1. \A n \in DOMAIN versions : versions[n] \in Checkpoints
  BY DEF Checked
<1> QED
  BY <1>1, MembershipAssumption DEF Checked

\* The guard.
LEMMA GuardedStays ==
  ASSUME Types, Guarded, ConflictCaught, [Next]_vars
  PROVE  Guarded' /\ ConflictCaught'
<1>0. /\ Span \in Nat /\ \A a \in accepted : a.gen \in Nat /\ a.peer \in Peers
      /\ \A p \in Peers : \A g \in DOMAIN gens[p] : g \in Nat
  BY Numbers DEF Types, Exits
<1>1. ASSUME NEW r \in Resolvers, Accept(r) PROVE Guarded' /\ ConflictCaught'
  <2> DEFINE rec == fetch[r].record
  <2>1. PICK a \in Exits :
          /\ accepted' = accepted \cup {a} /\ a.gen = rec.gen /\ a.place = rec.place
          /\ a.peer \notin isolated /\ ~Conflict(a.peer, rec) /\ Remember(a.peer, rec)
    BY <1>1, AcceptIs
  <2>2. rec \in Records /\ a.peer \in Peers /\ a.gen \in Nat
    BY <1>1, Numbers DEF Accept, Usable, Types, Responses, Exits
  <2>3. isolated' = isolated
    BY <1>1 DEF Accept
  <2> HIDE DEF rec
  <2> DEFINE p == a.peer
  <2>4. /\ \A q \in Peers \ {p} : gens'[q] = gens[q]
        /\ DOMAIN gens'[p] \subseteq DOMAIN gens[p] \cup {a.gen}
        /\ \A g \in DOMAIN gens[p] \cup {a.gen} :
             \/ /\ g \in DOMAIN gens'[p]
                /\ gens'[p][g] = IF g = a.gen THEN a.place ELSE gens[p][g]
             \/ \E m \in DOMAIN gens[p] \cup {a.gen} : m > g + Span
    BY <2>1, <2>2, RememberIs
  <2>5. /\ \A g \in DOMAIN gens[p] : \E c \in accepted : c.peer = p /\ c.gen = g
        /\ \A b \in accepted :
             b.peer = p =>
               \/ b.gen \in DOMAIN gens[p] /\ gens[p][b.gen] = b.place
               \/ \E c \in accepted : c.peer = p /\ c.gen > b.gen + Span
    BY <2>1, <2>2 DEF Guarded
  <2>6. a.gen \in DOMAIN gens[p] => gens[p][a.gen] = a.place
    BY <2>1 DEF Conflict
  <2>7. \A g \in DOMAIN gens[p] \cup {a.gen} : \E c \in accepted' : c.peer = p /\ c.gen = g
    BY <2>1, <2>5
  <2>8. ASSUME NEW b \in accepted', b.peer = p
        PROVE  \/ b.gen \in DOMAIN gens'[p] /\ gens'[p][b.gen] = b.place
               \/ \E c \in accepted' : c.peer = p /\ c.gen > b.gen + Span
    <3>1. CASE \E c \in accepted : c.peer = p /\ c.gen > b.gen + Span
      BY <2>1, <3>1
    <3>2. ASSUME b.gen \in DOMAIN gens[p] \cup {a.gen},
                 b.gen = a.gen => b.place = a.place,
                 b.gen # a.gen => gens[p][b.gen] = b.place
          PROVE  \/ b.gen \in DOMAIN gens'[p] /\ gens'[p][b.gen] = b.place
                 \/ \E c \in accepted' : c.peer = p /\ c.gen > b.gen + Span
      <4>1. CASE \E m \in DOMAIN gens[p] \cup {a.gen} : m > b.gen + Span
        BY <2>7, <4>1
      <4>2. CASE /\ b.gen \in DOMAIN gens'[p]
                 /\ gens'[p][b.gen] = IF b.gen = a.gen THEN a.place ELSE gens[p][b.gen]
        BY <3>2, <4>2
      <4> QED
        BY <2>4, <3>2, <4>1, <4>2
    <3>3. CASE b = a
      BY <3>2, <3>3
    <3>4. CASE b \in accepted
      <4>1. CASE b.gen \in DOMAIN gens[p] /\ gens[p][b.gen] = b.place
        BY <2>6, <3>2, <4>1
      <4> QED
        BY <2>5, <2>8, <3>1, <3>4, <4>1
    <3> QED
      BY <2>1, <3>3, <3>4
  <2>9. Guarded'
    <3>1. ASSUME NEW q \in Peers \ isolated, q # p
          PROVE  /\ \A g \in DOMAIN gens'[q] : \E c \in accepted' : c.peer = q /\ c.gen = g
                 /\ \A b \in accepted' :
                      b.peer = q =>
                        \/ b.gen \in DOMAIN gens'[q] /\ gens'[q][b.gen] = b.place
                        \/ \E c \in accepted' : c.peer = q /\ c.gen > b.gen + Span
      BY <2>1, <2>4, <3>1 DEF Guarded
    <3>2. \A g \in DOMAIN gens'[p] : \E c \in accepted' : c.peer = p /\ c.gen = g
      BY <2>4, <2>7
    <3> HIDE DEF p
    <3> QED
      BY <2>3, <2>8, <3>1, <3>2 DEF Guarded
  <2>10. ASSUME NEW b \in accepted, b.peer = p, b.gen = a.gen, b.place # a.place
         PROVE  \E c \in accepted' : c.peer = p /\ c.gen > a.gen + Span
    <3>1. ~(b.gen \in DOMAIN gens[p] /\ gens[p][b.gen] = b.place)
      BY <2>6, <2>10
    <3> QED
      BY <2>1, <2>5, <2>10, <3>1
  <2>11. ConflictCaught'
    <3> SUFFICES ASSUME NEW b \in accepted', NEW d \in accepted',
                        b.peer = d.peer, b.gen = d.gen, b.place # d.place
                 PROVE  \E c \in accepted' : c.peer = b.peer /\ c.gen > b.gen + Span
      BY DEF ConflictCaught
    <3>1. CASE b \in accepted /\ d \in accepted
      BY <2>1, <3>1 DEF ConflictCaught
    <3>2. CASE b = a /\ d \in accepted
      BY <2>10, <3>2
    <3>3. CASE b \in accepted /\ d = a
      BY <2>10, <3>3
    <3> QED
      BY <2>1, <3>1, <3>2, <3>3
  <2> QED
    BY <2>9, <2>11
<1>2. ASSUME NEW r \in Resolvers, Isolate(r) PROVE Guarded' /\ ConflictCaught'
  <2> DEFINE p == fetch[r].peer
  <2>1. /\ isolated' = isolated \cup {p} /\ accepted' = accepted
        /\ gens' = [gens EXCEPT ![p] = << >>]
    BY <1>2 DEF Isolate
  <2> HIDE DEF p
  <2>2. \A q \in Peers \ isolated' : q \in Peers \ isolated /\ gens'[q] = gens[q]
    BY <2>1 DEF Types
  <2> QED
    BY <2>1, <2>2 DEF Guarded, ConflictCaught
<1>3. CASE UNCHANGED <<gens, isolated, accepted>>
  BY <1>3 DEF Guarded, ConflictCaught
<1>4. \/ \E r \in Resolvers : Accept(r) \/ Isolate(r)
      \/ UNCHANGED <<gens, isolated, accepted>>
  BY DEF Next, vars, guardVars, IssueMemberCert, Certify, Publish, SignCheckpoint,
         TakeCheckpoint, Fetch, Discard, StillIsolated, Tick
<1> QED
  BY <1>1, <1>2, <1>3, <1>4

\* An exit returned as eligible was not revoked too long ago.
LEMMA TimelyStays ==
  ASSUME Types, Checked, RevocationIsTimely, \A a \in accepted : a.at <= clock, [Next]_vars
  PROVE  RevocationIsTimely' /\ \A a \in accepted' : a.at <= clock'
<1>1. /\ clock \in Nat /\ clock' \in Nat /\ clock' >= clock /\ MaxStaleness \in Nat
      /\ \A a \in accepted : a.at \in Nat
      /\ \A n \in DOMAIN versions : versions[n].thisUpdate \in Nat
  <2>1. clock \in Nat /\ clock' \in Nat /\ clock' >= clock /\ MaxStaleness \in Nat
    BY ClockRises, Numbers
  <2>2. \A a \in accepted : a.at \in Nat
    BY Numbers DEF Types, Exits
  <2>3. \A n \in DOMAIN versions : versions[n] \in Checkpoints
    BY DEF Checked
  <2>4. \A n \in DOMAIN versions : versions[n].thisUpdate \in Nat
    BY <2>3, Numbers DEF Checkpoints
  <2> QED
    BY <2>1, <2>2, <2>4
<1>2. ASSUME NEW r \in Resolvers, Accept(r)
      PROVE  RevocationIsTimely' /\ \A a \in accepted' : a.at <= clock'
  <2>1. PICK a \in Exits :
          /\ accepted' = accepted \cup {a} /\ a.at = clock
          /\ a.checked <=> checkpoint # None
          /\ a.eligible <=> checkpoint = None \/ ~Stale(checkpoint)
          /\ checkpoint # None => {a.peer, a.issuer} \cap checkpoint.revoked = {}
    BY <1>2, AcceptIs
  <2>2. clock' = clock /\ versions' = versions
    BY <1>2 DEF Accept, Done, worldVars
  <2>3. ASSUME a.checked, a.eligible, NEW n \in DOMAIN versions,
               versions[n].thisUpdate < a.at - MaxStaleness
        PROVE  {a.peer, a.issuer} \cap versions[n].revoked = {}
    <3>1. checkpoint # None /\ ~Stale(checkpoint)
      BY <2>1, <2>3
    <3>2. PICK m \in DOMAIN versions : checkpoint = versions[m]
      BY <3>1 DEF Checked
    <3>3. versions[n].thisUpdate < versions[m].thisUpdate
      BY <1>1, <2>1, <2>3, <3>1, <3>2 DEF Stale
    <3>4. n <= m
      <4>1. n \in Nat /\ m \in Nat
        BY DEF Checked
      <4>2. ~(m <= n)
        BY <1>1, <3>3 DEF Checked
      <4> QED
        BY <4>1, <4>2
    <3>5. versions[n].revoked \subseteq checkpoint.revoked
      BY <3>2, <3>4 DEF Checked
    <3> QED
      BY <2>1, <3>1, <3>5
  <2>4. RevocationIsTimely'
    BY <2>1, <2>2, <2>3 DEF RevocationIsTimely
  <2>5. \A b \in accepted' : b.at <= clock'
    BY <1>1, <2>1, <2>2
  <2> QED
    BY <2>4, <2>5
<1>3. CASE ~ \E r \in Resolvers : Accept(r)
  <2>1. accepted' = accepted
    BY <1>3, OnlyAccept
  <2>2. \A a \in accepted' : a.at <= clock'
    BY <1>1, <2>1
  <2>3. ASSUME NEW a \in accepted, a.checked, a.eligible, NEW n \in DOMAIN versions',
               versions'[n].thisUpdate < a.at - MaxStaleness
        PROVE  {a.peer, a.issuer} \cap versions'[n].revoked = {}
    <3>1. CASE versions' = versions
      BY <2>3, <3>1 DEF RevocationIsTimely
    <3>2. ASSUME NEW s \in Subjects, SignCheckpoint(s)
          PROVE  {a.peer, a.issuer} \cap versions'[n].revoked = {}
      <4> DEFINE k == Len(versions)
                 v == [version |-> k + 1, thisUpdate |-> clock,
                       revoked |-> (IF k = 0 THEN {} ELSE versions[k].revoked) \cup {s}]
      <4>1. versions' = Append(versions, v) /\ v.thisUpdate = clock
        BY <3>2 DEF SignCheckpoint
      <4> HIDE DEF v
      <4>2. /\ versions \in Seq(Checkpoints) /\ k \in Nat /\ DOMAIN versions = 1..k
        BY DEF Checked
      <4>3. /\ DOMAIN versions' = 1..(k + 1) /\ versions'[k + 1] = v
            /\ \A i \in 1..k : versions'[i] = versions[i]
        BY <4>1, <4>2
      <4>4. CASE n = k + 1
        BY <1>1, <2>3, <4>1, <4>3, <4>4
      <4>5. CASE n \in 1..k
        BY <2>3, <4>2, <4>3, <4>5 DEF RevocationIsTimely
      <4> QED
        BY <4>2, <4>3, <4>4, <4>5
    <3>3. versions' = versions \/ \E s \in Subjects : SignCheckpoint(s)
      BY DEF Next, vars, worldVars, IssueMemberCert, Certify, Publish, TakeCheckpoint, Fetch,
             Discard, StillIsolated, Isolate, Accept, Done, Tick
    <3> QED
      BY <3>1, <3>2, <3>3
  <2> QED
    BY <2>1, <2>2, <2>3 DEF RevocationIsTimely
<1> QED
  BY <1>2, <1>3

-----------------------------------------------------------------------------
LEMMA InvInit == ASSUME Init PROVE IInv
<1>1. Types
  BY Numbers, EmptyIsEmpty DEF Init, Types
<1>2. Checked
  <2>1. versions = << >> /\ signed = 0
    BY DEF Init
  <2>2. versions \in Seq(Checkpoints) /\ Len(versions) = 0 /\ DOMAIN versions = {}
    BY <2>1, EmptyIsEmpty
  <2> QED
    BY <2>1, <2>2 DEF Init, Checked
<1>3. Guarded
  BY EmptyIsEmpty DEF Init, Guarded
<1> QED
  BY <1>1, <1>2, <1>3 DEF Init, IInv, NoEscalation, ConflictCaught, RevocationIsTimely

LEMMA InvNext == ASSUME IInv, [Next]_vars PROVE IInv'
<1>1. NoEscalation'
  <2>1. ASSUME NEW r \in Resolvers, Accept(r) PROVE NoEscalation'
    <3>1. PICK a \in Exits : accepted' = accepted \cup {a} /\ a.roles \subseteq Grants[a.issuer]
      BY <2>1, AcceptIs DEF IInv
    <3> QED
      BY <3>1 DEF IInv, NoEscalation
  <2> QED
    BY <2>1, OnlyAccept DEF IInv, NoEscalation
<1> QED
  BY <1>1, TypesStay, CheckedStays, GuardedStays, TimelyStays DEF IInv

\* What the verifying side relies on, in all reachable states.
THEOREM InductiveInvariant == Spec => []IInv
BY InvInit, InvNext, PTL DEF Spec

\* Every variable has its type.
THEOREM TypeCorrect == Spec => []TypeOK
<1>1. ASSUME IInv PROVE TypeOK
  <2>1. \A n \in DOMAIN versions : versions[n] \in Checkpoints
    BY <1>1 DEF IInv, Checked
  <2>2. checkpoint \in Checkpoints \cup {None} /\ learned \subseteq Subjects
    BY <1>1, <2>1 DEF IInv, Checked, Checkpoints
  <2> QED
    BY <1>1, <2>2 DEF IInv, Types, TypeOK
<1> QED
  BY <1>1, InductiveInvariant, PTL

\* No exit is returned in a role that the root did not let its issuer grant.
THEOREM NoEscalationHolds == Spec => []NoEscalation
BY InductiveInvariant, PTL DEF IInv

\* Two records of one generation are not both returned, unless one more than
\* the span newer came in between.
THEOREM ConflictHolds == Spec => []ConflictCaught
BY InductiveInvariant, PTL DEF IInv

\* An exit returned as eligible was not revoked longer ago than is permitted.
THEOREM TimelyHolds == Spec => []RevocationIsTimely
BY InductiveInvariant, PTL DEF IInv

\* Who was caught stays out, and so does who was revoked.
THEOREM ExpelledHolds == Spec => ExpelledStaysOut
<1>1. ASSUME IInv, [Next]_vars
      PROVE  /\ [/\ isolated \subseteq isolated'
                 /\ \A a \in accepted' \ accepted : a.peer \notin isolated]_vars
             /\ [\A a \in accepted' \ accepted : {a.peer, a.issuer} \cap learned = {}]_vars
  <2>1. isolated \subseteq isolated'
    BY <1>1 DEF Next, vars, guardVars, IssueMemberCert, Certify, Publish, SignCheckpoint,
         TakeCheckpoint, Fetch, Discard, StillIsolated, Isolate, Accept, Tick
  <2>2. ASSUME NEW r \in Resolvers, Accept(r)
        PROVE  \A a \in accepted' \ accepted :
                 a.peer \notin isolated /\ {a.peer, a.issuer} \cap learned = {}
    <3>1. PICK a \in Exits :
            /\ accepted' = accepted \cup {a} /\ a.peer \notin isolated
            /\ checkpoint # None => {a.peer, a.issuer} \cap checkpoint.revoked = {}
      BY <1>1, <2>2, AcceptIs DEF IInv
    <3> QED
      BY <1>1, <3>1, LearnedIs DEF IInv
  <2> QED
    BY <1>1, <2>1, <2>2, OnlyAccept
<1> QED
  BY <1>1, InductiveInvariant, PTL DEF Spec, ExpelledStaysOut, CaughtStaysOut, RevokedStaysOut

=============================================================================
