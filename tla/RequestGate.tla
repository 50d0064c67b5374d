---------------------------- MODULE RequestGate ----------------------------
(***************************************************************************)
(* Signed requests on their way from a node to the coordinator's stores:   *)
(* the client signs once per call and tries one address after the other    *)
(* with the same body (coordinator/client.go); the network may lose or     *)
(* delay any copy; the coordinator (coordinator/api.go, internal/authn)    *)
(* attributes the request to a source, limits its rate, checks the         *)
(* signature's time, refuses one it has seen, looks at the identities of   *)
(* the source (for a join) and applies the request.                        *)
(*                                                                         *)
(* The stores behind the gate are in Coordinator; of what a request does   *)
(* there, this module keeps who is admitted and the presence directory     *)
(* (coordinator/directory.go).                                             *)
(*                                                                         *)
(* A request is handled in one action: every lock it takes guards a map of *)
(* its own, and no step reads a map that an earlier step of the same       *)
(* handler wrote.  The clock counts ticks, PerSecond to a second.          *)
(***************************************************************************)
EXTENDS SourceLimits, Sequences, SequencesExt, Bags

CONSTANTS Callers,   \* goroutines that call the coordinator
          Origin,    \* caller -> address it calls from
          Hops,      \* caller -> proxies between it and the coordinator
          Claimed,   \* what clients write in X-Forwarded-For
          Trusted,   \* the proxies the coordinator trusts
          Tries,     \* addresses of the coordinator known to a client
          PerSecond, Drift, \* identity -> how far its clock is ahead
          Skew,      \* authMaxSkew
          Ttl,       \* time to live of a directory entry
          None,
          MaxTime, MaxCalls, MaxRestarts

ASSUME GateAssumption ==
  /\ Origin \in [Callers -> Sources] /\ Hops \in [Callers -> Seq(Trusted)]
  /\ Claimed \in Seq(Sources) /\ Trusted \cap Sources = {}
  /\ {Tries, PerSecond, Skew, Ttl} \subseteq Nat \ {0}
  /\ {MaxTime, MaxCalls, MaxRestarts} \subseteq Nat
  /\ Drift \in [Identities -> Int]

VARIABLES clock,
          call,     \* caller -> the request it is trying, or None
          wire,     \* copies sent and not yet answered
          calls, restarts, \* how many so far
          seen,     \* Server.seenSigs: signature -> expiry
          admitted, \* peers with an admission
          entries,  \* Directory.entries: peer -> last seen, with the timestamp
                    \*   of its request (history)
          passes,   \* history of this life of the coordinator: address ->
                    \*   tick -> requests let in since
          joins,    \* history: identities let through for a source
          applied   \* history: the bag of signatures that took effect

clientVars == <<call, calls>>
history == <<passes, joins, applied>>
gateVars == <<seen, limitVars>>
storeVars == <<admitted, entries>>
vars == <<clock, clientVars, wire, restarts, gateVars, storeVars, history>>

Kinds == {"join", "register"}

Requests ==
  [n : 1..MaxCalls, by : Callers, kind : Kinds, peer : Identities,
   ts : Int, try : 1..Tries]

\* A signature covers action, peer and second.
Signature(m) == <<m.kind, m.peer, m.ts>>
Signatures == Kinds \X Identities \X Int

NoPasses == [o \in Sources |-> [t \in 0..MaxTime |-> 0]]

Init ==
  /\ clock = 0
  /\ call = [k \in Callers |-> None] /\ wire = {}
  /\ calls = 0 /\ restarts = 0
  /\ seen = << >> /\ entries = << >> /\ LimitsInit
  /\ admitted \in SUBSET Identities
  /\ passes = NoPasses /\ joins = {} /\ applied = EmptyBag

-----------------------------------------------------------------------------
(* The client.                                                             *)

Second(t) == (t \div PerSecond) * PerSecond

\* A copy goes to an address.  One that never arrives is one that stays on the
\* wire for ever.
Try(k, m) ==
  /\ call' = [call EXCEPT ![k] = m]
  /\ wire' = wire \cup {m}

\* Join or Register: sign, then attempt with the first address.
Call(k) ==
  /\ call[k] = None /\ calls < MaxCalls
  /\ calls' = calls + 1
  /\ \E kind \in Kinds, p \in Identities :
       Try(k, [n |-> calls + 1, by |-> k, kind |-> kind, peer |-> p,
               ts |-> Second(clock + Drift[p]), try |-> 1])
  /\ UNCHANGED <<clock, restarts, gateVars, storeVars, history>>

\* attempt, after an error of the connection, which comes before the request
\* was sent, after it, or in place of the response: the same body goes to the
\* next address.
NextAddress(k) ==
  /\ call[k] # None /\ call[k].try < Tries
  /\ Try(k, [call[k] EXCEPT !.try = @ + 1])
  /\ UNCHANGED <<clock, calls, restarts, gateVars, storeVars, history>>

GiveUp(k) ==
  /\ call[k] # None /\ call[k].try = Tries
  /\ call' = [call EXCEPT ![k] = None]
  /\ UNCHANGED <<clock, calls, wire, restarts, gateVars, storeVars, history>>

-----------------------------------------------------------------------------
(* The coordinator.                                                        *)

\* Every proxy adds the address it was called from.
Remote(k) == IF Hops[k] = << >> THEN Origin[k] ELSE Last(Hops[k])
Forwarded(k) ==
  IF Hops[k] = << >> THEN Claimed ELSE Claimed \o <<Origin[k]>> \o Front(Hops[k])

\* Mutant: the first address named, as written by the client.
FirstNamed ==
  [k \in Callers |->
     IF Remote(k) \notin Trusted THEN Remote(k) ELSE Head(Forwarded(k))]

\* The last address named that is not a trusted proxy's.
ClientIP ==
  [k \in Callers |->
     LET i == SelectLastInSeq(Forwarded(k), LAMBDA a : a \notin Trusted)
     IN  IF Remote(k) \notin Trusted \/ i = 0 THEN Remote(k) ELSE Forwarded(k)[i]]

\* A copy arrives and is answered.  The response ends the caller's attempt if
\* it still waits for this one.  A timestamp is the beginning of a second; that
\* a request arrives at that very instant is left out.
Handle(m) ==
  /\ clock # m.ts
  /\ wire' = wire \ {m}
  /\ call' = [k \in Callers |-> IF call[k] = m THEN None ELSE call[k]]
  /\ UNCHANGED <<clock, calls, restarts>>

LetIn(m) ==
  /\ Handle(m)
  /\ HasToken(ClientIP[m.by], clock) /\ Allow(ClientIP[m.by], clock)
  /\ passes' = [passes EXCEPT ![Origin[m.by]] =
       [t \in DOMAIN @ |-> IF t <= clock THEN @[t] + 1 ELSE 0]]

TooMany(m) ==
  /\ Handle(m)
  /\ ~HasToken(ClientIP[m.by], clock) /\ Allow(ClientIP[m.by], clock)
  /\ UNCHANGED <<seen, sightings, storeVars, history>>

Fresh(m) == clock - m.ts \in -Skew..Skew

Known(sig) == sig \in DOMAIN seen /\ clock < seen[sig]

\* Mutant: a signature is kept for a tick less.
KeepShorter(sig) ==
  seen' = [s \in DOMAIN seen \cup {sig} |->
             IF s = sig THEN clock + Skew - 1 ELSE seen[s]]

\* seenSignature of a new signature: it is kept for Skew, expired ones go.
Remember(sig) ==
  LET all == [s \in DOMAIN seen \cup {sig} |->
                IF s = sig THEN clock + Skew ELSE seen[s]]
  IN  seen' = IF Cardinality(DOMAIN all) > 1
              THEN Restrict(all, {s \in DOMAIN all : clock < all[s]}) ELSE all

NotAuthentic(m) ==
  /\ LetIn(m)
  /\ ~Fresh(m) \/ Known(Signature(m))
  /\ UNCHANGED <<seen, sightings, storeVars, joins, applied>>

Authentic(m) ==
  /\ LetIn(m)
  /\ Fresh(m) /\ ~Known(Signature(m)) /\ Remember(Signature(m))

TakesEffect(m) == applied' = applied (+) SetToBag({Signature(m)})

\* handleJoin: the detector, then the invite store, which may refuse.
JoinOf(m) ==
  /\ m.kind = "join"
  /\ Authentic(m)
  /\ Observe(ClientIP[m.by], m.peer, clock)
  /\ UNCHANGED entries

LooksLikeAFleet(m) ==
  /\ JoinOf(m)
  /\ Suspicious(ClientIP[m.by], m.peer, clock)
  /\ UNCHANGED <<admitted, joins, applied>>

Join(m) ==
  /\ JoinOf(m)
  /\ ~Suspicious(ClientIP[m.by], m.peer, clock)
  /\ joins' = joins \cup {[from |-> Origin[m.by], peer |-> m.peer, at |-> clock]}
  /\ \/ admitted' = admitted \cup {m.peer} /\ TakesEffect(m)
     \/ UNCHANGED <<admitted, applied>>

\* handleRegister, for a peer that is admitted.
Register(m) ==
  /\ m.kind = "register" /\ m.peer \in admitted
  /\ Authentic(m) /\ TakesEffect(m)
  /\ entries' = [p \in DOMAIN entries \cup {m.peer} |->
       IF p = m.peer THEN [lastSeen |-> clock, ts |-> m.ts] ELSE entries[p]]
  /\ UNCHANGED <<admitted, joins, sightings>>

\* The peer is not admitted, or names too many addresses.
NotRegistered(m) ==
  /\ m.kind = "register"
  /\ Authentic(m)
  /\ UNCHANGED <<storeVars, joins, sightings, applied>>

\* Mutant: List does not look at the time.
All == DOMAIN entries

\* List: who is in the directory that is served now.
Listed == {p \in DOMAIN entries : entries[p].lastSeen > clock - Ttl}

\* The coordinator ends and starts again: only admissions were saved.
Restart ==
  /\ restarts < MaxRestarts
  /\ restarts' = restarts + 1
  /\ seen' = << >> /\ entries' = << >> /\ buckets' = << >> /\ sightings' = << >>
  /\ passes' = NoPasses /\ joins' = {} /\ applied' = EmptyBag
  /\ UNCHANGED <<clock, clientVars, wire, admitted>>

Tick ==
  /\ clock < MaxTime
  /\ clock' = clock + 1
  /\ UNCHANGED <<clientVars, wire, restarts, gateVars, storeVars, history>>

Next ==
  \/ \E k \in Callers : Call(k) \/ NextAddress(k) \/ GiveUp(k)
  \/ \E m \in wire :
       \/ TooMany(m) \/ NotAuthentic(m) \/ LooksLikeAFleet(m)
       \/ Join(m) \/ Register(m) \/ NotRegistered(m)
  \/ Restart
  \/ Tick

Spec == Init /\ [][Next]_vars

-----------------------------------------------------------------------------
TypeOK ==
  /\ clock \in 0..MaxTime /\ calls \in 0..MaxCalls /\ restarts \in 0..MaxRestarts
  /\ call \in [Callers -> Requests \cup {None}]
  /\ wire \subseteq Requests
  /\ LimitsTypeOK
  /\ DOMAIN seen \subseteq Signatures
  /\ \A s \in DOMAIN seen : seen[s] \in Nat
  /\ admitted \subseteq Identities /\ DOMAIN entries \subseteq Identities

\* A request takes effect at most once while the coordinator runs, however
\* often its copies are sent, delayed and delivered: what the timestamp check
\* still accepts, seenSigs still remembers (api.go:372-392).  A node whose clock
\* is ahead is not protected: its copies are acceptable for longer than the
\* signature is kept.
AppliedOnce ==
  \A sig \in BagToSet(applied) :
    Drift[sig[2]] <= 0 => applied[sig] = 1

\* In no span of time does an address get more requests through than its burst
\* and what the span refills, whatever is pruned in between (limiter.go).
RateBounded ==
  \A o \in Sources, from \in 0..clock :
    Cost * passes[o][from] <= Burst + Rate * (clock - from)

\* An address is refused for its own requests only: it has used its burst,
\* whatever other addresses, proxies and forwarding headers do
\* (api.go:482-497 and limiter.go).
RefusedForOwnUse ==
  \A k \in Callers :
    ~HasToken(ClientIP[k], clock) => Cost * (passes[Origin[k]][0] + 1) > Burst

\* Within a window an address gets fewer than Threshold identities through to
\* the invite store, as long as the detector's map is not full (detector.go).
IdentityBound ==
  Cardinality({j.from : j \in joins}) < FullMap =>
    \A o \in Sources, from \in 0..clock :
      Cardinality({j.peer : j \in {i \in joins : i.from = o /\ i.at \in from..(from + Window)}})
        < Threshold

\* What one address can do is bounded on both counts, although the limiter's
\* map is pruned and the detector's is capped.
SourcesBounded == RateBounded /\ IdentityBound

\* Who is listed signed a registration not longer ago than the time to live
\* plus the allowed skew: no late copy keeps a node that is gone in the
\* directory (api.go:358-369, directory.go:64-75).
ListedWasAlive == \A p \in Listed : clock - entries[p].ts < Ttl + Skew
=============================================================================
