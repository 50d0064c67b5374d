----------------------------- MODULE Membership -----------------------------
(***************************************************************************)
(* The decentralized discovery plane: certificate chains                   *)
(* (membership/cert.go), revocation checkpoints (revocation.go), signed    *)
(* node records (membership/noderecord.go, node/noderecord.go), the guard  *)
(* against equivocation (equivocation.go) and ResolveExits                 *)
(* (node/resolve.go), which puts them together.                            *)
(*                                                                         *)
(* A signed object is a record only its signer's actions make; what a      *)
(* verifier checks besides the signature is modelled.  A node is a peer,   *)
(* that is a key; the same key may be used by several devices, each of     *)
(* which serves a record of its own.  The querying node has one guard and  *)
(* one checkpoint, shared by the calls of ResolveExits in progress.        *)
(***************************************************************************)
EXTENDS Integers, FiniteSets, FiniteSetsExt, Functions, Sequences

CONSTANTS Devices, Key,    \* device -> its peer
          Issuers, Grants, \* issuer -> roles its root-signed cert allows
          Online,          \* the issuer the coordinator serves with
          Roles,           \* contains "member" and "exit"
          Places,          \* what a record says: addresses
          Resolvers,       \* goroutines in ResolveExits
          None,
          CertTtl, RecordTtl, CheckTtl, MaxStaleness,
          Deadline,        \* of the record-fetch stream
          Span,            \* EquivocationGuard.window
          MaxTime, MaxSigned, MaxFetches

Peers == {Key[d] : d \in Devices}

Subjects == Peers \cup Issuers

Checkpoints ==
  [version : 1..MaxSigned, thisUpdate : 0..MaxTime, revoked : SUBSET Subjects]

ASSUME MembershipAssumption ==
  /\ Grants \in [Issuers -> SUBSET Roles] /\ Online \in Issuers
  /\ {"member", "exit"} \subseteq Roles
  /\ {CertTtl, RecordTtl, CheckTtl, MaxStaleness, Deadline, Span} \subseteq Nat
  /\ {MaxTime, MaxSigned, MaxFetches} \subseteq Nat
  /\ None \notin Checkpoints

VARIABLES clock,
          cert,       \* peer -> its member cert
          record,     \* device -> its node record
          providers,  \* peers announced on the DHT
          versions,   \* checkpoints signed so far, the n-th has Version n
          checkpoint, \* the one the querying node goes by
          fetch,      \* resolver -> the response it received
          gens,       \* guard.seen: peer -> generation -> payload
          isolated,   \* guard.isolat
          learned,    \* history: who was revoked by a checkpoint it went by
          accepted,   \* history: exits returned by ResolveExits
          signed, fetches \* how many objects and exchanges so far

worldVars == <<cert, record, providers, versions, signed>>
guardVars == <<gens, isolated>>
queryVars == <<fetch, fetches>>
checkVars == <<checkpoint, learned>>
vars == <<clock, worldVars, checkVars, queryVars, guardVars, accepted>>

Certs == [issuer : Issuers, roles : SUBSET Roles, expires : Nat]
Records == [gen : 0..MaxTime, place : Places, roles : SUBSET Roles, expires : Nat]
Responses == [peer : Peers, at : 0..MaxTime, cert : Certs, record : Records]

Init ==
  /\ clock = 0
  /\ cert = [p \in Peers |-> None] /\ record = [d \in Devices |-> None]
  /\ providers = {} /\ versions = << >> /\ checkpoint = None
  /\ fetch = [r \in Resolvers |-> None]
  /\ gens = [p \in Peers |-> << >>] /\ isolated = {}
  /\ learned = {} /\ accepted = {} /\ signed = 0 /\ fetches = 0

-----------------------------------------------------------------------------
(* Those who sign.                                                         *)

SignOneMore == signed < MaxSigned /\ signed' = signed + 1

\* SignMemberCert does not look at what the issuer may grant.
SignMemberCert(i, p, roles) ==
  /\ SignOneMore
  /\ cert' = [cert EXCEPT ![p] = [issuer |-> i, roles |-> roles, expires |-> clock + CertTtl]]

\* The coordinator certifies who joins: issueMemberCert.
IssueMemberCert(p) ==
  /\ SignMemberCert(Online, p, {"member"})
  /\ UNCHANGED <<clock, record, providers, versions, checkVars, queryVars, guardVars, accepted>>

\* A cert that was made offline, by any issuer for any roles.
Certify(i, p) ==
  /\ \E roles \in SUBSET Roles \ {{}} : SignMemberCert(i, p, roles)
  /\ UNCHANGED <<clock, record, providers, versions, checkVars, queryVars, guardVars, accepted>>

\* Mutant: a node without a credential publishes too.
PublishAnyway(d, place) ==
  /\ SignOneMore
  /\ record' = [record EXCEPT ![d] =
       [gen |-> clock, place |-> place, roles |-> {"exit"}, expires |-> clock + RecordTtl]]
  /\ providers' = providers \cup {Key[d]}
  /\ UNCHANGED <<clock, cert, versions, checkVars, queryVars, guardVars, accepted>>

\* startDHTDiscovery and readvertiseExit of a device: the generation is the
\* time.  The addresses are those it has now.
Publish(d, place) ==
  /\ cert[Key[d]] # None /\ SignOneMore
  /\ record' = [record EXCEPT ![d] =
       [gen |-> clock, place |-> place, roles |-> {"exit"}, expires |-> clock + RecordTtl]]
  /\ providers' = providers \cup {Key[d]}
  /\ UNCHANGED <<clock, cert, versions, checkVars, queryVars, guardVars, accepted>>

\* The operator signs a checkpoint that revokes one more.
SignCheckpoint(s) ==
  LET n == Len(versions)
      old == IF n = 0 THEN {} ELSE versions[n].revoked
  IN  /\ s \notin old
      /\ SignOneMore
      /\ versions' = Append(versions,
           [version |-> n + 1, thisUpdate |-> clock, revoked |-> old \cup {s}])
      /\ UNCHANGED <<clock, cert, record, providers, checkVars, queryVars, guardVars, accepted>>

-----------------------------------------------------------------------------
(* Those who verify.                                                       *)

VersionFloor == IF checkpoint = None THEN 0 ELSE checkpoint.version

\* Mutant: no floor, a version that was replaced verifies.
AnyVersion(v) == clock <= v.thisUpdate + CheckTtl

\* VerifyRevocationCheckpoint, the floor being the version accepted before.
VerifyCheckpoint(v) == v.version >= VersionFloor /\ clock <= v.thisUpdate + CheckTtl

\* A signed checkpoint reaches the querying node, in any order.
TakeCheckpoint ==
  /\ \E n \in DOMAIN versions :
       /\ VerifyCheckpoint(versions[n])
       /\ checkpoint' = versions[n]
       /\ learned' = learned \cup versions[n].revoked
  /\ UNCHANGED <<clock, worldVars, queryVars, guardVars, accepted>>

Revokes(v, p, c) == p \in v.revoked \/ c.issuer \in v.revoked

\* Mutant: a checkpoint never gets stale.
NeverStale(v) == FALSE

Stale(v) == clock > v.thisUpdate + MaxStaleness

\* Mutant: the chain is verified without the roles.
SignaturesOnly(c) == clock <= c.expires

\* VerifyMemberCert: signed by an issuer whose cert the pinned root signed.
VerifyMemberCert(c) == clock <= c.expires /\ c.roles \subseteq Grants[c.issuer]

VerifyNodeRecord(c, rec) ==
  /\ VerifyMemberCert(c)
  /\ clock <= rec.expires
  /\ rec.roles \subseteq c.roles

\* FindCandidates and the exchange of FetchNodeRecord: a device that has the
\* candidate's key answers.
Fetch(r, d) ==
  /\ fetch[r] = None /\ fetches < MaxFetches
  /\ fetches' = fetches + 1
  /\ Key[d] \in providers /\ record[d] # None
  /\ fetch' = [fetch EXCEPT ![r] =
       [peer |-> Key[d], at |-> clock, cert |-> cert[Key[d]], record |-> record[d]]]
  /\ UNCHANGED <<clock, worldVars, checkVars, guardVars, accepted>>

Done(r) ==
  /\ fetch' = [fetch EXCEPT ![r] = None]
  /\ UNCHANGED <<clock, worldVars, checkVars, fetches>>

InTime(f) == clock - f.at <= Deadline
Verified(f) == InTime(f) /\ VerifyNodeRecord(f.cert, f.record)
Revoked(f) == checkpoint # None /\ Revokes(checkpoint, f.peer, f.cert)

\* Verification fails, or the deadline passes, or the candidate is revoked.
Discard(r) ==
  /\ fetch[r] # None
  /\ ~Verified(fetch[r]) \/ Revoked(fetch[r])
  /\ Done(r)
  /\ UNCHANGED <<guardVars, accepted>>

\* What EquivocationGuard.Observe finds.
Conflict(p, rec) == rec.gen \in DOMAIN gens[p] /\ gens[p][rec.gen] # rec.place

\* Mutant: the window is one generation short.
PruneOne(seen) == Restrict(seen, {g \in DOMAIN seen : g > Max(DOMAIN seen) - Span})

Prune(seen) ==
  LET newest == Max(DOMAIN seen)
  IN  IF newest > Span THEN Restrict(seen, {g \in DOMAIN seen : g >= newest - Span})
      ELSE seen

Remember(p, rec) ==
  gens' = [gens EXCEPT ![p] =
    Prune([g \in DOMAIN @ \cup {rec.gen} |-> IF g = rec.gen THEN rec.place ELSE @[g]])]

Usable(r) == fetch[r] # None /\ Verified(fetch[r]) /\ ~Revoked(fetch[r])

Isolate(r) ==
  LET p == fetch[r].peer
  IN  /\ Usable(r)
      /\ p \notin isolated /\ Conflict(p, fetch[r].record)
      /\ isolated' = isolated \cup {p}
      /\ gens' = [gens EXCEPT ![p] = << >>]
      /\ Done(r)
      /\ UNCHANGED accepted

StillIsolated(r) ==
  /\ Usable(r) /\ fetch[r].peer \in isolated
  /\ Done(r)
  /\ UNCHANGED <<guardVars, accepted>>

Welcome(p, rec) == p \notin isolated /\ ~Conflict(p, rec)

\* The exit is returned, eligible if the checkpoint is fresh.
Accept(r) ==
  LET f == fetch[r]
  IN  /\ Usable(r)
      /\ Welcome(f.peer, f.record)
      /\ Remember(f.peer, f.record)
      /\ accepted' = accepted \cup
           {[peer |-> f.peer, issuer |-> f.cert.issuer, roles |-> f.record.roles,
             gen |-> f.record.gen, place |-> f.record.place, at |-> clock,
             checked |-> checkpoint # None,
             eligible |-> checkpoint = None \/ ~Stale(checkpoint)]}
      /\ Done(r)
      /\ UNCHANGED isolated

Tick ==
  /\ clock < MaxTime
  /\ clock' = clock + 1
  /\ UNCHANGED <<worldVars, checkVars, queryVars, guardVars, accepted>>

Next ==
  \/ \E p \in Peers : IssueMemberCert(p) \/ \E i \in Issuers : Certify(i, p)
  \/ \E d \in Devices, place \in Places : Publish(d, place)
  \/ \E s \in Subjects : SignCheckpoint(s)
  \/ TakeCheckpoint
  \/ \E r \in Resolvers :
       \/ \E d \in Devices : Fetch(r, d)
       \/ Discard(r) \/ Isolate(r) \/ StillIsolated(r) \/ Accept(r)
  \/ Tick

Spec == Init /\ [][Next]_vars

-----------------------------------------------------------------------------
TypeOK ==
  /\ clock \in 0..MaxTime /\ signed \in 0..MaxSigned /\ fetches \in 0..MaxFetches
  /\ cert \in [Peers -> Certs \cup {None}]
  /\ record \in [Devices -> Records \cup {None}]
  /\ providers \subseteq Peers /\ isolated \subseteq Peers
  /\ checkpoint \in Checkpoints \cup {None} /\ learned \subseteq Subjects
  /\ fetch \in [Resolvers -> Responses \cup {None}]
  /\ \A p \in Peers : DOMAIN gens[p] \subseteq 0..MaxTime

\* No exit is returned in a role that the pinned root did not let its issuer
\* grant, whatever certs the issuer signs and the node presents (cert.go:9-14).
NoEscalation == \A a \in accepted : a.roles \subseteq Grants[a.issuer]

\* Two different records of one generation are not both returned, in whatever
\* order they and others arrive, unless a generation more than the guard's span
\* newer came in between (equivocation.go:57-99).
ConflictCaught ==
  \A a, b \in accepted :
    a.peer = b.peer /\ a.gen = b.gen /\ a.place # b.place =>
      \E c \in accepted : c.peer = a.peer /\ c.gen > a.gen + Span

\* A peer that was caught stays out, although what was known of its records is
\* deleted then (equivocation.go:67-69, 79).
CaughtStaysOut ==
  [][/\ isolated \subseteq isolated'
     /\ \A a \in accepted' \ accepted : a.peer \notin isolated]_vars

\* What a checkpoint revoked stays revoked for the node that went by it, in
\* whatever order later and earlier checkpoints reach it (revocation.go:23-25).
RevokedStaysOut ==
  [][\A a \in accepted' \ accepted : {a.peer, a.issuer} \cap learned = {}]_vars

\* Who is out, by its own records or by a checkpoint, is out for good, in
\* whatever order later records and checkpoints arrive.
ExpelledStaysOut == CaughtStaysOut /\ RevokedStaysOut

\* An exit returned as eligible by a node with a checkpoint was not revoked
\* longer than the permitted staleness before (revocation.go:17-22).
RevocationIsTimely ==
  \A a \in accepted : a.checked /\ a.eligible =>
    \A n \in DOMAIN versions :
      versions[n].thisUpdate < a.at - MaxStaleness =>
        {a.peer, a.issuer} \cap versions[n].revoked = {}
=============================================================================
