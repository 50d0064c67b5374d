------------------------- MODULE ExitServer_proofs -------------------------
(***************************************************************************)
(* Proofs about an exit at work, for any number of tunnels, relays,        *)
(* targets and requesters and any limits: its counters are the slots that  *)
(* are held, the breaker bounds what a requester can overdraw, and tunnels *)
(* and relays together implement the slot pool.                            *)
(***************************************************************************)
EXTENDS ExitServer, FiniteSetTheorems, TLAPS

TunnelPhases == {"target", "check", "slot", "dial", "relay", "cut", "closed"}
RelayPhases == {"read", "check", "slot", "resolve", "send", "drain", "closed"}

GuardTypes ==
  /\ active \in Int /\ perReq \in [Requesters -> Int] /\ tokens \in [Requesters -> Int]

StreamTypes ==
  /\ owner \in [Streams -> Requesters \cup {Nobody}]
  /\ phase \in [Streams -> TunnelPhases \cup RelayPhases]
  /\ load \in Int /\ dirs \in [Tunnels -> 0..2]
  /\ cur \in [Relays -> Targets \cup {Nobody}]
  /\ entry \in [Relays -> [Targets -> {"absent", "live", "deaf"}]]

\* The variables the counters and the budgets depend on have their types.
TypeOK == GuardTypes /\ StreamTypes

\* A stream has a requester exactly while it is open, and takes the steps of
\* its kind.
Owned ==
  /\ \A s \in Streams : owner[s] = Nobody <=> phase[s] = "closed"
  /\ \A s \in Tunnels : phase[s] \in TunnelPhases
  /\ \A u \in Relays : phase[u] \in RelayPhases

\* The target of a datagram is known while it is handled, it gets a slot only
\* when it has no entry, and a relay that ended has no entries.
Relaying(u) ==
  /\ phase[u] \in {"check", "slot", "resolve", "send"} => cur[u] \in Targets
  /\ phase[u] \in {"slot", "resolve"} => entry[u][cur[u]] = "absent"
  /\ phase[u] = "check" => entry[u][cur[u]] = "absent"
  /\ phase[u] = "closed" => entry[u] = NoEntries

Shape == TypeOK /\ Owned /\ \A u \in Relays : Relaying(u)

\* The goroutines that copy: two of a tunnel, a relay's loop (which stands for
\* the target Nobody), and a reader for each of its targets.
Goroutines == Tunnels \X {1, 2} \cup Relays \X (Targets \cup {Nobody})

\* Those of r that may still charge it once, should its budget be gone.
Spenders(r) ==
  {g \in Tunnels \X {1, 2} :
     /\ owner[g[1]] = r
     /\ \/ phase[g[1]] \in {"slot", "dial"}
        \/ phase[g[1]] \in {"relay", "cut"} /\ g[2] <= dirs[g[1]]}
  \cup {g \in Relays \X Targets :
          /\ owner[g[1]] = r
          /\ \/ entry[g[1]][g[2]] = "live"
             \/ phase[g[1]] \in {"slot", "resolve"} /\ cur[g[1]] = g[2]}
  \cup {g \in Relays \X {Nobody} :
          /\ owner[g[1]] = r
          /\ \/ phase[g[1]] \in {"slot", "resolve", "send"}
             \/ phase[g[1]] \in {"read", "check"} /\ entry[g[1]] # NoEntries}

\* A goroutine that overdraws ends, and nobody starts to spend without the
\* budget check, so overdraft and spenders together stay below the number of
\* goroutines there can be.
Covered(r) == Cardinality(Spenders(r)) <= tokens[r] + Cardinality(Goroutines)

\* The inductive invariant.
IInv ==
  /\ Shape
  /\ CountersExact
  /\ \A r \in Requesters : Covered(r)

-----------------------------------------------------------------------------
(* Types and what goes with them.                                          *)

\* Tunnels are no relays.
LEMMA KindsApart ==
  /\ Tunnels \subseteq Streams /\ Relays \subseteq Streams
  /\ \A s \in Tunnels, u \in Relays : s # u
  /\ Nobody \notin Requesters /\ Nobody \notin Targets
BY ServerAssumption DEF Streams

\* The ways a tunnel can move: ending with or without a slot, and the rest.
LEMMA TunnelCases ==
  ASSUME NEW s, TunnelStep(s)
  PROVE  \/ \E r \in Requesters : Accept(s, r)
         \/ Leave(s) /\ phase[s] \in {"target", "check", "slot"}
         \/ LeaveSlot(s) /\ phase[s] \in {"dial", "cut"}
         \/ WithinBudget(s) \/ TakeSlot(s) \/ Chunk(s) \/ DirectionEnds(s)
         \/ ReadTarget(s) \/ Dialed(s) \/ Cut(s)
BY DEF TunnelStep, TunnelProgress, TunnelChecked, NoTarget, NoSlot, DialFails, Finish,
       PolicyDenies, OverBudget

\* The ways a relay can.
LEMMA RelayCases ==
  ASSUME NEW u, RelayStep(u)
  PROVE  \/ \E r \in Requesters : Open(u, r)
         \/ Drop(u) /\ phase[u] \in {"check", "slot"}
         \/ HangUp(u) \/ WithinBudget(u) \/ ReadFails(u)
         \/ TakeTargetSlot(u) \/ ResolveFails(u) \/ Resolved(u)
         \/ Send(u) \/ SendTrips(u) \/ Drained(u)
         \/ \E t \in Targets :
              ReadDatagram(u, t) \/ Reply(u, t) \/ ReaderIdles(u, t) \/ CloseTarget(u, t)
BY DEF RelayStep, RelayProgress, RelayChecked, TargetDenied, NoTargetSlot

LEMMA TunnelShape ==
  ASSUME Shape, NEW s \in Tunnels, TunnelStep(s)
  PROVE  Shape'
<1> USE KindsApart DEF Shape, TypeOK, GuardTypes, StreamTypes, Owned, Relaying, Streams,
                       TunnelPhases, RelayPhases, Goto, Move,
                       tunnelVars, relayVars, streamVars, guardVars
<1>1. ASSUME NEW r \in Requesters, Accept(s, r) PROVE Shape'
  BY <1>1 DEF Accept, Begin
<1>2. ASSUME Leave(s) PROVE Shape'
  BY <1>2 DEF Leave, End
<1>3. ASSUME LeaveSlot(s), phase[s] # "closed" PROVE Shape'
  BY <1>3 DEF LeaveSlot, End, Release
<1>4. CASE TakeSlot(s)
  BY <1>4 DEF TakeSlot, Acquire
<1>5. CASE Chunk(s)
  BY <1>5 DEF Chunk, Meter, Charge
<1>6. CASE DirectionEnds(s)
  BY <1>6 DEF DirectionEnds
<1>7. CASE WithinBudget(s) \/ ReadTarget(s) \/ Dialed(s) \/ Cut(s)
  BY <1>7 DEF WithinBudget, ReadTarget, Dialed, Cut
<1> QED
  BY TunnelCases, <1>1, <1>2, <1>3, <1>4, <1>5, <1>6, <1>7

LEMMA RelayShape ==
  ASSUME Shape, NEW u \in Relays, RelayStep(u)
  PROVE  Shape'
<1> USE KindsApart DEF Shape, TypeOK, GuardTypes, StreamTypes, Owned, Relaying, Streams,
                       TunnelPhases, RelayPhases, Goto, Move, NoEntries,
                       tunnelVars, relayVars, streamVars, guardVars
<1>1. ASSUME NEW r \in Requesters, Open(u, r) PROVE Shape'
  BY <1>1 DEF Open, Begin
<1>2. CASE HangUp(u) \/ WithinBudget(u) \/ ReadFails(u)
  BY <1>2 DEF HangUp, WithinBudget, ReadFails
<1>3. ASSUME Drop(u), phase[u] # "closed" PROVE Shape'
  BY <1>3 DEF Drop, NextDatagram
<1>4. CASE TakeTargetSlot(u)
  BY <1>4 DEF TakeTargetSlot, Acquire
<1>5. CASE ResolveFails(u)
  BY <1>5 DEF ResolveFails, Release, NextDatagram
<1>6. CASE Resolved(u)
  BY <1>6 DEF Resolved
<1>7. CASE Send(u)
  BY <1>7 DEF Send, Meter, Charge, NextDatagram
<1>8. CASE SendTrips(u)
  BY <1>8 DEF SendTrips, Meter, Charge
<1>9. ASSUME NEW t \in Targets, ReadDatagram(u, t) PROVE Shape'
  BY <1>9 DEF ReadDatagram
<1>10. ASSUME NEW t \in Targets, Reply(u, t) PROVE Shape'
  BY <1>10 DEF Reply, Meter, Charge
<1>11. ASSUME NEW t \in Targets, ReaderIdles(u, t) PROVE Shape'
  BY <1>11 DEF ReaderIdles
<1>12. ASSUME NEW t \in Targets, CloseTarget(u, t) PROVE Shape'
  BY <1>12 DEF CloseTarget, Release
<1>13. CASE Drained(u)
  BY <1>13 DEF Drained, End
<1> QED
  BY RelayCases, <1>1, <1>2, <1>3, <1>4, <1>5, <1>6, <1>7, <1>8, <1>9, <1>10, <1>11, <1>12,
     <1>13

-----------------------------------------------------------------------------
(* What a step does to the slots: nothing, or it takes or gives back one.  *)

Kept == UNCHANGED <<active, perReq>> /\ \A r \in Requesters : HeldBy(r)' = HeldBy(r)

Took(r, k) ==
  /\ HasRoom(r) /\ active' = active + 1 /\ perReq' = [perReq EXCEPT ![r] = @ + 1]
  /\ \A q \in Requesters : k \notin HeldBy(q)
  /\ HeldBy(r)' = HeldBy(r) \cup {k}
  /\ \A q \in Requesters \ {r} : HeldBy(q)' = HeldBy(q)

Gave(r, k) ==
  /\ active' = active - 1
  /\ perReq' = [perReq EXCEPT ![r] = IF @ - 1 <= 0 THEN 0 ELSE @ - 1]
  /\ k \in HeldBy(r) /\ \A q \in Requesters \ {r} : k \notin HeldBy(q)
  /\ HeldBy(r)' = HeldBy(r) \ {k}
  /\ \A q \in Requesters \ {r} : HeldBy(q)' = HeldBy(q)

\* A ticket's holder is the requester of its stream, now and after a step.
TunnelHolds(s, r) == owner[s] = r /\ phase[s] \in {"dial", "relay", "cut"}
TargetHolds(u, t, r) ==
  /\ owner[u] = r
  /\ entry[u][t] # "absent" \/ (phase[u] = "resolve" /\ cur[u] = t)

HoldersAre ==
  \A r \in Requesters :
    /\ \A s \in Tunnels : s \in HeldBy(r) <=> TunnelHolds(s, r)
    /\ \A u \in Relays, t \in Targets : <<u, t>> \in HeldBy(r) <=> TargetHolds(u, t, r)
    /\ HeldBy(r) \subseteq Tickets

LEMMA InHeldBy == HoldersAre /\ HoldersAre'
<1> USE ServerAssumption DEF HeldBy, Tickets, TunnelHolds, TargetHolds
<1>1. HoldersAre
  <2> SUFFICES ASSUME NEW r \in Requesters
               PROVE  /\ \A s \in Tunnels : s \in HeldBy(r) <=> TunnelHolds(s, r)
                      /\ \A u \in Relays, t \in Targets :
                           <<u, t>> \in HeldBy(r) <=> TargetHolds(u, t, r)
                      /\ HeldBy(r) \subseteq Tickets
    BY DEF HoldersAre
  <2> QED
    OBVIOUS
<1>2. HoldersAre'
  <2> SUFFICES ASSUME NEW r \in Requesters
               PROVE  /\ \A s \in Tunnels : s \in HeldBy(r)' <=> TunnelHolds(s, r)'
                      /\ \A u \in Relays, t \in Targets :
                           <<u, t>> \in HeldBy(r)' <=> TargetHolds(u, t, r)'
                      /\ HeldBy(r)' \subseteq Tickets
    BY DEF HoldersAre
  <2> QED
    OBVIOUS
<1> QED
  BY <1>1, <1>2

\* No ticket but k changes its holder.
OthersStay(k) ==
  \A r \in Requesters : \A x \in Tickets \ {k} : x \in HeldBy(r)' <=> x \in HeldBy(r)

LEMMA OthersStayIf ==
  ASSUME NEW k,
         \A r \in Requesters : \A s \in Tunnels \ {k} : TunnelHolds(s, r)' <=> TunnelHolds(s, r),
         \A r \in Requesters, u \in Relays, t \in Targets :
           <<u, t>> # k => (TargetHolds(u, t, r)' <=> TargetHolds(u, t, r))
  PROVE  OthersStay(k)
BY InHeldBy DEF OthersStay, HoldersAre, Tickets

\* A ticket that nobody held has a holder.
LEMMA TookIf ==
  ASSUME NEW r \in Requesters, NEW k \in Tickets, Acquire(r), OthersStay(k),
         \A q \in Requesters : k \notin HeldBy(q) /\ (k \in HeldBy(q)' <=> q = r)
  PROVE  Took(r, k)
<1>1. \A q \in Requesters : HeldBy(q) \subseteq Tickets /\ HeldBy(q)' \subseteq Tickets
  BY InHeldBy DEF HoldersAre, Tickets
<1> QED
  BY <1>1 DEF Took, Acquire, OthersStay

\* A ticket's holder gives it back.
LEMMA GaveIf ==
  ASSUME NEW r \in Requesters, NEW k \in Tickets, Release(r), OthersStay(k),
         \A q \in Requesters : k \notin HeldBy(q)' /\ (k \in HeldBy(q) <=> q = r)
  PROVE  Gave(r, k)
<1>1. \A q \in Requesters : HeldBy(q) \subseteq Tickets /\ HeldBy(q)' \subseteq Tickets
  BY InHeldBy DEF HoldersAre, Tickets
<1> QED
  BY <1>1 DEF Gave, Release, OthersStay

\* All holders stay.
LEMMA KeptIf ==
  ASSUME UNCHANGED <<active, perReq>>,
         \A r \in Requesters, s \in Tunnels : TunnelHolds(s, r)' <=> TunnelHolds(s, r),
         \A r \in Requesters, u \in Relays, t \in Targets :
           TargetHolds(u, t, r)' <=> TargetHolds(u, t, r)
  PROVE  Kept
<1>1. \A q \in Requesters : HeldBy(q) \subseteq Tickets /\ HeldBy(q)' \subseteq Tickets
  BY InHeldBy DEF HoldersAre, Tickets
<1>2. \A q \in Requesters : \A x \in Tickets : x \in HeldBy(q)' <=> x \in HeldBy(q)
  BY InHeldBy DEF HoldersAre, Tickets
<1> QED
  BY <1>1, <1>2 DEF Kept

LEMMA TunnelSlots ==
  ASSUME Shape, NEW s \in Tunnels, TunnelStep(s)
  PROVE  Kept \/ \E r \in Requesters : Took(r, s) \/ Gave(r, s)
<1>1. /\ phase \in [Streams -> TunnelPhases \cup RelayPhases] /\ s \in Streams /\ s \in Tickets
      /\ owner \in [Streams -> Requesters \cup {Nobody}] /\ Nobody \notin Requesters
      /\ phase[s] # "closed" => owner[s] \in Requesters
      /\ \A u \in Relays : u # s
  BY KindsApart DEF Shape, TypeOK, StreamTypes, Owned, Tickets
<1>2. ASSUME NEW r \in Requesters, Accept(s, r) PROVE Kept
  BY <1>1, <1>2, KeptIf, KindsApart
     DEF Accept, Begin, Move, Goto, TunnelHolds, TargetHolds, guardVars, relayVars
<1>3. ASSUME Leave(s), phase[s] \in {"target", "check", "slot"} PROVE Kept
  BY <1>1, <1>3, KeptIf, KindsApart
     DEF Leave, End, Goto, TunnelHolds, TargetHolds, guardVars, relayVars
<1>4. ASSUME LeaveSlot(s), phase[s] \in {"dial", "cut"} PROVE Gave(owner[s], s)
  <2>1. OthersStay(s)
    BY <1>1, <1>4, OthersStayIf, KindsApart
       DEF LeaveSlot, End, Goto, TunnelHolds, TargetHolds, relayVars
  <2> QED
    BY <1>1, <1>4, <2>1, GaveIf, InHeldBy DEF LeaveSlot, End, Goto, HoldersAre, TunnelHolds
<1>5. ASSUME TakeSlot(s) PROVE Took(owner[s], s)
  <2>1. OthersStay(s)
    BY <1>1, <1>5, OthersStayIf, KindsApart
       DEF TakeSlot, Move, Goto, TunnelHolds, TargetHolds, relayVars, streamVars
  <2> QED
    BY <1>1, <1>5, <2>1, TookIf, InHeldBy
       DEF TakeSlot, Move, Goto, HoldersAre, TunnelHolds, streamVars
<1>6. CASE Chunk(s) \/ DirectionEnds(s)
  BY <1>6, KeptIf
     DEF Chunk, DirectionEnds, Meter, Charge, TunnelHolds, TargetHolds, guardVars, relayVars,
         streamVars
<1>7. CASE WithinBudget(s) \/ ReadTarget(s) \/ Dialed(s) \/ Cut(s)
  BY <1>1, <1>7, KeptIf, KindsApart
     DEF WithinBudget, ReadTarget, Dialed, Cut, Move, Goto, TunnelHolds, TargetHolds,
         guardVars, relayVars, streamVars
<1> QED
  BY TunnelCases, <1>1, <1>2, <1>3, <1>4, <1>5, <1>6, <1>7 DEF TakeSlot, Move

\* A relay that moves on without a name to resolve takes no slot and gives none back.
LEMMA MovesOn ==
  ASSUME Shape, NEW u \in Relays, NEW p, Goto(u, p), {p, phase[u]} \cap {"resolve"} = {},
         UNCHANGED <<active, perReq, owner, entry>>,
         \A v \in Relays \ {u} : cur'[v] = cur[v]
  PROVE  Kept
<1>1. phase \in [Streams -> TunnelPhases \cup RelayPhases] /\ u \in Streams
  BY KindsApart DEF Shape, TypeOK, StreamTypes
<1>2. \A r \in Requesters, s \in Tunnels : TunnelHolds(s, r)' <=> TunnelHolds(s, r)
  BY <1>1, KindsApart DEF Goto, TunnelHolds
<1>3. ASSUME NEW r \in Requesters, NEW v \in Relays, NEW t \in Targets
      PROVE  TargetHolds(v, t, r)' <=> TargetHolds(v, t, r)
  <2>1. CASE v = u
    BY <1>1, <2>1 DEF Goto, TargetHolds
  <2>2. CASE v # u
    BY <1>1, <2>2, KindsApart DEF Goto, TargetHolds
  <2> QED
    BY <2>1, <2>2
<1> QED
  BY <1>2, <1>3, KeptIf

LEMMA RelaySlots ==
  ASSUME Shape, NEW u \in Relays, RelayStep(u)
  PROVE  Kept \/ \E r \in Requesters, t \in Targets : Took(r, <<u, t>>) \/ Gave(r, <<u, t>>)
<1>1. /\ phase \in [Streams -> TunnelPhases \cup RelayPhases] /\ u \in Streams
      /\ owner \in [Streams -> Requesters \cup {Nobody}] /\ Nobody \notin Requesters
      /\ entry \in [Relays -> [Targets -> {"absent", "live", "deaf"}]]
      /\ cur \in [Relays -> Targets \cup {Nobody}]
      /\ phase[u] # "closed" => owner[u] \in Requesters
      /\ \A s \in Tunnels : s # u /\ s \in Streams
  BY KindsApart DEF Shape, TypeOK, StreamTypes, Owned
<1>2. /\ phase[u] \in {"slot", "resolve"} => cur[u] \in Targets /\ entry[u][cur[u]] = "absent"
      /\ phase[u] = "closed" => \A t \in Targets : entry[u][t] = "absent"
      /\ \A t \in Targets : <<u, t>> \in Tickets /\ <<u, t>> \notin Tunnels
  BY ServerAssumption DEF Shape, Relaying, NoEntries, Tickets
<1>3. ASSUME NEW r \in Requesters, Open(u, r) PROVE Kept
  BY <1>1, <1>2, <1>3, KeptIf
     DEF Open, Begin, Move, Goto, TunnelHolds, TargetHolds, guardVars, relayVars
<1>4. ASSUME HangUp(u) \/ WithinBudget(u) \/ ReadFails(u) PROVE Kept
  <2>1. CASE HangUp(u)
    <3>1. UNCHANGED <<active, perReq, owner, phase, cur, entry>>
      BY <2>1 DEF HangUp, guardVars, streamVars
    <3> QED
      BY <3>1, KeptIf DEF TunnelHolds, TargetHolds
  <2>2. CASE WithinBudget(u) \/ ReadFails(u)
    <3>1. /\ phase[u] \in {"check", "read"} /\ (Goto(u, "slot") \/ Goto(u, "drain"))
          /\ UNCHANGED <<active, perReq, owner, cur, entry>>
      BY <2>2 DEF WithinBudget, ReadFails, Move, guardVars, relayVars, streamVars
    <3> QED
      BY <3>1, MovesOn
  <2> QED
    BY <1>4, <2>1, <2>2
<1>5. ASSUME Drop(u), phase[u] \in {"check", "slot"} PROVE Kept
  BY <1>1, <1>5, KeptIf
     DEF Drop, NextDatagram, Goto, TunnelHolds, TargetHolds, guardVars, streamVars
<1>6. ASSUME TakeTargetSlot(u) PROVE Took(owner[u], <<u, cur[u]>>)
  <2>1. OthersStay(<<u, cur[u]>>)
    BY <1>1, <1>2, <1>6, OthersStayIf
       DEF TakeTargetSlot, Move, Goto, TunnelHolds, TargetHolds, relayVars, streamVars
  <2> QED
    BY <1>1, <1>2, <1>6, <2>1, TookIf, InHeldBy
       DEF TakeTargetSlot, Move, Goto, HoldersAre, TargetHolds, relayVars, streamVars
<1>7. ASSUME ResolveFails(u) PROVE Gave(owner[u], <<u, cur[u]>>)
  <2>1. OthersStay(<<u, cur[u]>>)
    BY <1>1, <1>2, <1>7, OthersStayIf
       DEF ResolveFails, NextDatagram, Goto, TunnelHolds, TargetHolds, streamVars
  <2> QED
    BY <1>1, <1>2, <1>7, <2>1, GaveIf, InHeldBy
       DEF ResolveFails, NextDatagram, Goto, HoldersAre, TargetHolds, streamVars
<1>8. ASSUME Resolved(u) PROVE Kept
  <2>1. /\ phase[u] = "resolve" /\ cur[u] \in Targets
        /\ phase' = [phase EXCEPT ![u] = "send"]
        /\ entry' = [entry EXCEPT ![u][cur[u]] = "live"]
        /\ UNCHANGED <<active, perReq, owner, cur>>
    BY <1>2, <1>8 DEF Resolved, Move, Goto, guardVars, streamVars
  <2>2. \A r \in Requesters, s \in Tunnels : TunnelHolds(s, r)' <=> TunnelHolds(s, r)
    BY <1>1, <2>1 DEF TunnelHolds
  <2>3. ASSUME NEW r \in Requesters, NEW v \in Relays, NEW t \in Targets
        PROVE  TargetHolds(v, t, r)' <=> TargetHolds(v, t, r)
    <3>1. CASE v = u /\ t = cur[u]
      BY <1>1, <2>1, <3>1 DEF TargetHolds
    <3>2. CASE ~(v = u /\ t = cur[u])
      BY <1>1, <2>1, <3>2, KindsApart DEF TargetHolds
    <3> QED
      BY <3>1, <3>2
  <2> QED
    BY <2>1, <2>2, <2>3, KeptIf
<1>9. ASSUME Send(u) \/ SendTrips(u) PROVE Kept
  <2>1. /\ phase[u] = "send" /\ (Goto(u, "read") \/ Goto(u, "drain"))
        /\ cur' = [cur EXCEPT ![u] = Nobody]
        /\ UNCHANGED <<active, perReq, owner, entry>>
    BY <1>9 DEF Send, SendTrips, Meter, Charge, NextDatagram, Move
  <2> QED
    BY <1>1, <2>1, MovesOn
<1>10. ASSUME NEW t \in Targets, ReadDatagram(u, t) PROVE Kept
  BY <1>1, <1>10, KeptIf
     DEF ReadDatagram, Move, Goto, TunnelHolds, TargetHolds, guardVars, streamVars
<1>11. ASSUME NEW t \in Targets, Reply(u, t) \/ ReaderIdles(u, t) PROVE Kept
  BY <1>1, <1>11, KeptIf
     DEF Reply, ReaderIdles, Meter, Charge, TunnelHolds, TargetHolds, guardVars, streamVars
<1>12. ASSUME NEW t \in Targets, CloseTarget(u, t) PROVE Gave(owner[u], <<u, t>>)
  <2>1. OthersStay(<<u, t>>)
    BY <1>1, <1>2, <1>12, OthersStayIf
       DEF CloseTarget, TunnelHolds, TargetHolds, streamVars
  <2> QED
    BY <1>1, <1>2, <1>12, <2>1, GaveIf, InHeldBy
       DEF CloseTarget, HoldersAre, TargetHolds, streamVars
<1>13. CASE Drained(u)
  BY <1>1, <1>13, KeptIf
     DEF Drained, End, Goto, NoEntries, TunnelHolds, TargetHolds, guardVars, relayVars
<1>14. CASE \E t \in Targets : ReadDatagram(u, t) \/ Reply(u, t) \/ ReaderIdles(u, t)
  BY <1>10, <1>11, <1>14
<1>15. CASE TakeTargetSlot(u) \/ ResolveFails(u)
  <2>1. owner[u] \in Requesters /\ cur[u] \in Targets
    BY <1>1, <1>2, <1>15 DEF TakeTargetSlot, ResolveFails, Move
  <2> QED
    BY <2>1, <1>6, <1>7, <1>15
<1>16. ASSUME NEW t \in Targets, CloseTarget(u, t) PROVE \E r \in Requesters : Gave(r, <<u, t>>)
  <2>1. owner[u] \in Requesters
    BY <1>1, <1>16 DEF CloseTarget
  <2> QED
    BY <2>1, <1>12, <1>16
<1> QED
  BY RelayCases, <1>3, <1>4, <1>5, <1>8, <1>9, <1>13, <1>14, <1>15, <1>16

-----------------------------------------------------------------------------
(* The counters.                                                           *)

\* The sets that are counted are finite.
LEMMA HeldFinite ==
  /\ IsFiniteSet(Tickets) /\ IsFiniteSet(Held)
  /\ \A r \in Requesters : IsFiniteSet(HeldBy(r)) /\ HeldBy(r) \subseteq Tickets
<1>1. IsFiniteSet(Tickets)
  BY ServerAssumption, FS_Product, FS_Union DEF Tickets
<1>2. \A r \in Requesters : HeldBy(r) \subseteq Tickets
  BY InHeldBy DEF HoldersAre
<1>3. Held \subseteq Tickets
  BY <1>2 DEF Held
<1> QED
  BY <1>1, <1>2, <1>3, FS_Subset

\* A slot taken adds a ticket to the held ones, a slot given back removes it.
LEMMA HeldAfter ==
  ASSUME NEW r \in Requesters, NEW k
  PROVE  /\ Took(r, k) => k \notin Held /\ Held' = Held \cup {k}
         /\ Gave(r, k) => k \in Held /\ Held' = Held \ {k}
<1>1. ASSUME Took(r, k) PROVE k \notin Held /\ Held' = Held \cup {k}
  BY <1>1 DEF Took, Held
<1>2. ASSUME Gave(r, k) PROVE k \in Held /\ Held' = Held \ {k}
  BY <1>2 DEF Gave, Held
<1> QED
  BY <1>1, <1>2

\* The guard's counters follow the slots.
LEMMA SlotsFollow ==
  ASSUME GuardTypes, SlotsExact,
         Kept \/ \E r \in Requesters, k \in Tickets : Took(r, k) \/ Gave(r, k)
  PROVE  SlotsExact'
<1>1. ASSUME Kept PROVE SlotsExact'
  <2>1. Held' = Held
    BY <1>1 DEF Kept, Held
  <2> QED
    BY <1>1, <2>1 DEF Kept, SlotsExact
<1>2. ASSUME NEW r \in Requesters, NEW k \in Tickets, Took(r, k) PROVE SlotsExact'
  <2>1. Cardinality(Held') = Cardinality(Held) + 1
    BY <1>2, HeldAfter, HeldFinite, FS_AddElement
  <2>2. Cardinality(HeldBy(r)') = Cardinality(HeldBy(r)) + 1
    BY <1>2, HeldFinite, FS_AddElement DEF Took
  <2> QED
    BY <1>2, <2>1, <2>2 DEF Took, SlotsExact, GuardTypes
<1>3. ASSUME NEW r \in Requesters, NEW k \in Tickets, Gave(r, k) PROVE SlotsExact'
  <2>1. Cardinality(Held') = Cardinality(Held) - 1
    BY <1>3, HeldAfter, HeldFinite, FS_RemoveElement
  <2>2. /\ Cardinality(HeldBy(r)') = Cardinality(HeldBy(r)) - 1
        /\ Cardinality(HeldBy(r)') \in Nat
    BY <1>3, HeldFinite, FS_RemoveElement, FS_CardinalityType DEF Gave
  <2>3. perReq'[r] = Cardinality(HeldBy(r)')
    BY <1>3, <2>2, HeldFinite, FS_CardinalityType DEF Gave, SlotsExact, GuardTypes
  <2>4. \A q \in Requesters \ {r} : perReq'[q] = Cardinality(HeldBy(q)')
    BY <1>3 DEF Gave, SlotsExact, GuardTypes
  <2> QED
    BY <1>3, <2>1, <2>3, <2>4 DEF Gave, SlotsExact, GuardTypes
<1> QED
  BY <1>1, <1>2, <1>3

OpenTunnels == {s \in Tunnels : phase[s] # "closed"}

\* The advertised load follows the tunnels.
LEMMA LoadFollows ==
  ASSUME Shape, LoadExact, NEW s \in Tunnels, TunnelStep(s)
  PROVE  LoadExact'
<1>1. /\ phase \in [Streams -> TunnelPhases \cup RelayPhases] /\ Tunnels \subseteq Streams
      /\ load = Cardinality(OpenTunnels) /\ IsFiniteSet(OpenTunnels)
  BY KindsApart, ServerAssumption, FS_Subset
     DEF Shape, TypeOK, StreamTypes, LoadExact, OpenTunnels
<1>2. ASSUME load' = load + 1, phase[s] = "closed", NEW p, p # "closed", Goto(s, p)
      PROVE  LoadExact'
  <2>1. OpenTunnels' = OpenTunnels \cup {s} /\ s \notin OpenTunnels
    BY <1>1, <1>2 DEF OpenTunnels, Goto
  <2>2. Cardinality(OpenTunnels') = Cardinality(OpenTunnels) + 1
    BY <1>1, <2>1, FS_AddElement
  <2> QED
    BY <1>1, <1>2, <2>2 DEF LoadExact, OpenTunnels
<1>3. ASSUME load' = load - 1, phase[s] # "closed", Goto(s, "closed")
      PROVE  LoadExact'
  <2>1. OpenTunnels' = OpenTunnels \ {s} /\ s \in OpenTunnels
    BY <1>1, <1>3 DEF OpenTunnels, Goto
  <2>2. Cardinality(OpenTunnels') = Cardinality(OpenTunnels) - 1
    BY <1>1, <2>1, FS_RemoveElement
  <2> QED
    BY <1>1, <1>3, <2>2 DEF LoadExact, OpenTunnels
<1>4. ASSUME load' = load, phase[s] # "closed", NEW p, p # "closed",
             Goto(s, p) \/ phase' = phase
      PROVE  LoadExact'
  <2>1. OpenTunnels' = OpenTunnels
    BY <1>1, <1>4 DEF OpenTunnels, Goto
  <2> QED
    BY <1>1, <1>4, <2>1 DEF LoadExact, OpenTunnels
<1>5. ASSUME NEW r \in Requesters, Accept(s, r) PROVE LoadExact'
  BY <1>2, <1>5 DEF Accept, Begin, Move
<1>6. ASSUME Leave(s) \/ LeaveSlot(s), phase[s] # "closed" PROVE LoadExact'
  BY <1>3, <1>6 DEF Leave, LeaveSlot, End
<1>7. CASE \/ WithinBudget(s) \/ TakeSlot(s) \/ ReadTarget(s) \/ Dialed(s) \/ Cut(s)
           \/ Chunk(s) \/ DirectionEnds(s)
  BY <1>4, <1>7
     DEF WithinBudget, TakeSlot, ReadTarget, Dialed, Cut, Chunk, DirectionEnds, Move, tunnelVars
<1> QED
  BY TunnelCases, <1>5, <1>6, <1>7

\* No relay changes it.
LEMMA LoadStays ==
  ASSUME Shape, LoadExact, NEW u \in Relays, RelayStep(u)
  PROVE  LoadExact'
<1>1. load' = load
  BY RelayCases
     DEF Open, Drop, NextDatagram, HangUp, WithinBudget, ReadFails, TakeTargetSlot,
         ResolveFails, Resolved, Send, SendTrips, Drained, ReadDatagram, Reply, ReaderIdles,
         CloseTarget, tunnelVars
<1>2. \A s \in Tunnels : phase'[s] = phase[s]
  <2>1. phase' = phase \/ \E p : Goto(u, p)
    BY RelayCases
       DEF Open, Begin, Drop, NextDatagram, HangUp, WithinBudget, ReadFails, TakeTargetSlot,
           ResolveFails, Resolved, Send, SendTrips, Drained, End, ReadDatagram, Reply,
           ReaderIdles, CloseTarget, Move
  <2> QED
    BY <2>1, KindsApart DEF Goto, Shape, TypeOK, StreamTypes
<1> QED
  BY <1>1, <1>2 DEF LoadExact

-----------------------------------------------------------------------------
(* The budgets.                                                            *)

TunnelSpends(s, i, r) ==
  /\ owner[s] = r
  /\ phase[s] \in {"slot", "dial"} \/ (phase[s] \in {"relay", "cut"} /\ i <= dirs[s])

ReaderSpends(u, t, r) ==
  /\ owner[u] = r
  /\ entry[u][t] = "live" \/ (phase[u] \in {"slot", "resolve"} /\ cur[u] = t)

LoopSpends(u, r) ==
  /\ owner[u] = r
  /\ \/ phase[u] \in {"slot", "resolve", "send"}
     \/ phase[u] \in {"read", "check"} /\ entry[u] # NoEntries

\* Nobody starts to spend, and the budget is no smaller; the budget is not
\* overdrawn; or one more token is gone and so is the goroutine that took it.
Fewer(r) == Spenders(r)' \subseteq Spenders(r) /\ tokens'[r] >= tokens[r]
Fresh(r) == tokens'[r] >= 0
Spent(r) ==
  \E g \in Spenders(r) : Spenders(r)' \subseteq Spenders(r) \ {g} /\ tokens'[r] = tokens[r] - 1

Steady(r) == Fewer(r) \/ Fresh(r) \/ Spent(r)

\* A step of the stream x leaves the other streams alone.
Frame(x) ==
  /\ \A y \in Streams \ {x} : phase'[y] = phase[y] /\ owner'[y] = owner[y]
  /\ \A s \in Tunnels \ {x} : dirs'[s] = dirs[s]
  /\ \A u \in Relays \ {x} : entry'[u] = entry[u] /\ cur'[u] = cur[u]

\* There are as many goroutines as there are directions, loops and readers.
LEMMA GoroutineCount ==
  /\ IsFiniteSet(Goroutines)
  /\ Cardinality(Goroutines) =
       2 * Cardinality(Tunnels) + Cardinality(Relays) * (1 + Cardinality(Targets))
<1> DEFINE A == Tunnels \X {1, 2}  B == Relays \X (Targets \cup {Nobody})
<1>1. IsFiniteSet({1, 2}) /\ Cardinality({1, 2}) = 2
  <2>1. {1, 2} = {1} \cup {2} /\ 2 \notin {1}
    OBVIOUS
  <2>2. IsFiniteSet({1}) /\ Cardinality({1}) = 1
    BY FS_Singleton
  <2> QED
    BY <2>1, <2>2, FS_AddElement
<1>2. /\ IsFiniteSet(Targets \cup {Nobody})
      /\ Cardinality(Targets \cup {Nobody}) = Cardinality(Targets) + 1
  BY KindsApart, ServerAssumption, FS_AddElement
<1>3. IsFiniteSet(A) /\ Cardinality(A) = Cardinality(Tunnels) * 2
  BY <1>1, ServerAssumption, FS_Product
<1>4. IsFiniteSet(B) /\ Cardinality(B) = Cardinality(Relays) * (Cardinality(Targets) + 1)
  BY <1>2, ServerAssumption, FS_Product
<1>5. A \cap B = {} /\ Goroutines = A \cup B
  BY KindsApart DEF Goroutines
<1>6. /\ IsFiniteSet(A \cup B)
      /\ Cardinality(A \cup B) = Cardinality(A) + Cardinality(B) - Cardinality(A \cap B)
  BY <1>3, <1>4, FS_Union
<1>7. Cardinality(A \cap B) = 0
  BY <1>5, FS_EmptySet
<1>8. /\ Cardinality(Tunnels) \in Nat /\ Cardinality(Relays) \in Nat
      /\ Cardinality(Targets) \in Nat
  BY ServerAssumption, FS_CardinalityType
<1> QED
  BY <1>3, <1>4, <1>5, <1>6, <1>7, <1>8

\* Who spends are goroutines.
LEMMA SpendersFinite ==
  ASSUME NEW r
  PROVE  /\ Spenders(r) \subseteq Goroutines /\ IsFiniteSet(Spenders(r))
         /\ Cardinality(Spenders(r)) \in Nat
         /\ Cardinality(Spenders(r)) <= Cardinality(Goroutines)
         /\ Spenders(r)' \subseteq Goroutines /\ IsFiniteSet(Spenders(r)')
         /\ Cardinality(Spenders(r)') \in Nat
         /\ Cardinality(Spenders(r)') <= Cardinality(Goroutines)
<1>1. Spenders(r) \subseteq Goroutines
  BY DEF Spenders, Goroutines
<1>2. Spenders(r)' \subseteq Goroutines
  BY DEF Spenders, Goroutines
<1> QED
  BY <1>1, <1>2, GoroutineCount, FS_Subset, FS_CardinalityType

\* Overdraft and spenders stay covered by the number of goroutines.
LEMMA StaysCovered ==
  ASSUME GuardTypes, GuardTypes', NEW r \in Requesters, Covered(r), Steady(r)
  PROVE  Covered(r)'
<1>1. tokens[r] \in Int /\ tokens'[r] \in Int
  BY DEF GuardTypes
<1>2. Cardinality(Goroutines) \in Nat
  BY GoroutineCount, FS_CardinalityType
<1>3. CASE Fewer(r)
  <2>1. Cardinality(Spenders(r)') <= Cardinality(Spenders(r))
    BY <1>3, SpendersFinite, FS_Subset DEF Fewer
  <2> QED
    BY <1>1, <1>2, <1>3, <2>1, SpendersFinite DEF Fewer, Covered
<1>4. CASE Fresh(r)
  BY <1>1, <1>2, <1>4, SpendersFinite DEF Fresh, Covered
<1>5. CASE Spent(r)
  <2>1. PICK g \in Spenders(r) :
          Spenders(r)' \subseteq Spenders(r) \ {g} /\ tokens'[r] = tokens[r] - 1
    BY <1>5 DEF Spent
  <2>2. /\ Cardinality(Spenders(r) \ {g}) = Cardinality(Spenders(r)) - 1
        /\ IsFiniteSet(Spenders(r) \ {g})
    BY SpendersFinite, FS_RemoveElement
  <2>3. Cardinality(Spenders(r)') <= Cardinality(Spenders(r) \ {g})
    BY <2>1, <2>2, FS_Subset
  <2> QED
    BY <1>1, <1>2, <2>1, <2>2, <2>3, SpendersFinite DEF Covered
<1> QED
  BY <1>3, <1>4, <1>5 DEF Steady

\* Spenders, by kind.
SpendersAre(r) ==
  /\ \A s \in Tunnels, i \in {1, 2} : <<s, i>> \in Spenders(r) <=> TunnelSpends(s, i, r)
  /\ \A u \in Relays, t \in Targets : <<u, t>> \in Spenders(r) <=> ReaderSpends(u, t, r)
  /\ \A u \in Relays : <<u, Nobody>> \in Spenders(r) <=> LoopSpends(u, r)

LEMMA InSpenders ==
  ASSUME NEW r
  PROVE  SpendersAre(r) /\ SpendersAre(r)'
<1> USE KindsApart DEF Spenders, TunnelSpends, ReaderSpends, LoopSpends
<1>1. SpendersAre(r)
  BY DEF SpendersAre
<1>2. /\ \A s \in Tunnels, i \in {1, 2} : <<s, i>> \in Spenders(r)' <=> TunnelSpends(s, i, r)'
      /\ \A u \in Relays, t \in Targets : <<u, t>> \in Spenders(r)' <=> ReaderSpends(u, t, r)'
      /\ \A u \in Relays : <<u, Nobody>> \in Spenders(r)' <=> LoopSpends(u, r)'
  OBVIOUS
<1> QED
  BY <1>1, <1>2 DEF SpendersAre

\* A step of a tunnel makes a spender only of a direction of that tunnel.
LEMMA TunnelNewSpender ==
  ASSUME Shape, NEW s \in Tunnels, Frame(s), NEW r, NEW g, g \in Spenders(r)', g \notin Spenders(r)
  PROVE  \E i \in {1, 2} : g = <<s, i>> /\ TunnelSpends(s, i, r)' /\ ~TunnelSpends(s, i, r)
<1>1. g \in Goroutines
  BY SpendersFinite
<1>2. ASSUME NEW x \in Tunnels, NEW i \in {1, 2}, g = <<x, i>>
      PROVE  x = s /\ TunnelSpends(x, i, r)' /\ ~TunnelSpends(x, i, r)
  <2>1. TunnelSpends(x, i, r)' /\ ~TunnelSpends(x, i, r)
    BY <1>2, InSpenders DEF SpendersAre
  <2>2. x # s => (TunnelSpends(x, i, r)' <=> TunnelSpends(x, i, r))
    BY KindsApart DEF TunnelSpends, Frame
  <2> QED
    BY <2>1, <2>2
<1>3. ASSUME NEW u \in Relays, NEW t \in Targets, g = <<u, t>> PROVE FALSE
  BY <1>3, InSpenders, KindsApart DEF SpendersAre, ReaderSpends, Frame
<1>4. ASSUME NEW u \in Relays, g = <<u, Nobody>> PROVE FALSE
  BY <1>4, InSpenders, KindsApart DEF SpendersAre, LoopSpends, Frame
<1> QED
  BY <1>1, <1>2, <1>3, <1>4 DEF Goroutines

\* A step of a relay makes spenders only of its loop and its readers.
LEMMA RelayNewSpender ==
  ASSUME Shape, NEW u \in Relays, Frame(u), NEW r, NEW g, g \in Spenders(r)', g \notin Spenders(r)
  PROVE  \/ g = <<u, Nobody>> /\ LoopSpends(u, r)' /\ ~LoopSpends(u, r)
         \/ \E t \in Targets : g = <<u, t>> /\ ReaderSpends(u, t, r)' /\ ~ReaderSpends(u, t, r)
<1>1. g \in Goroutines
  BY SpendersFinite
<1>2. ASSUME NEW x \in Tunnels, NEW i \in {1, 2}, g = <<x, i>> PROVE FALSE
  <2>1. TunnelSpends(x, i, r)' /\ ~TunnelSpends(x, i, r)
    BY <1>2, InSpenders DEF SpendersAre
  <2>2. TunnelSpends(x, i, r)' <=> TunnelSpends(x, i, r)
    BY KindsApart DEF TunnelSpends, Frame
  <2> QED
    BY <2>1, <2>2
<1>3. ASSUME NEW v \in Relays, NEW t \in Targets, g = <<v, t>>
      PROVE  v = u /\ ReaderSpends(v, t, r)' /\ ~ReaderSpends(v, t, r)
  BY <1>3, InSpenders, KindsApart DEF SpendersAre, ReaderSpends, Frame
<1>4. ASSUME NEW v \in Relays, g = <<v, Nobody>>
      PROVE  v = u /\ LoopSpends(v, r)' /\ ~LoopSpends(v, r)
  BY <1>4, InSpenders, KindsApart DEF SpendersAre, LoopSpends, Frame
<1> QED
  BY <1>1, <1>2, <1>3, <1>4 DEF Goroutines

\* Nobody starts to spend.
LEMMA TunnelFewerIf ==
  ASSUME Shape, NEW s \in Tunnels, Frame(s), NEW r, tokens'[r] >= tokens[r],
         \A i \in {1, 2} : TunnelSpends(s, i, r)' => TunnelSpends(s, i, r)
  PROVE  Fewer(r)
BY TunnelNewSpender DEF Fewer

LEMMA RelayFewerIf ==
  ASSUME Shape, NEW u \in Relays, Frame(u), NEW r, tokens'[r] >= tokens[r],
         LoopSpends(u, r)' => LoopSpends(u, r),
         \A t \in Targets : ReaderSpends(u, t, r)' => ReaderSpends(u, t, r)
  PROVE  Fewer(r)
BY RelayNewSpender DEF Fewer

LEMMA TunnelFrame ==
  ASSUME Shape, NEW s \in Tunnels, TunnelStep(s)
  PROVE  Frame(s)
<1> USE KindsApart DEF Shape, TypeOK, StreamTypes, Frame, Goto, Move, tunnelVars, relayVars,
                       streamVars
<1>1. ASSUME NEW r \in Requesters, Accept(s, r) PROVE Frame(s)
  BY <1>1 DEF Accept, Begin
<1>2. CASE Leave(s) \/ LeaveSlot(s)
  BY <1>2 DEF Leave, LeaveSlot, End
<1>3. CASE WithinBudget(s) \/ TakeSlot(s) \/ ReadTarget(s) \/ Dialed(s) \/ Cut(s)
  BY <1>3 DEF WithinBudget, TakeSlot, ReadTarget, Dialed, Cut
<1>4. CASE Chunk(s) \/ DirectionEnds(s)
  BY <1>4 DEF Chunk, DirectionEnds
<1> QED
  BY TunnelCases, <1>1, <1>2, <1>3, <1>4

LEMMA RelayFrame ==
  ASSUME Shape, NEW u \in Relays, RelayStep(u)
  PROVE  Frame(u)
<1> USE KindsApart DEF Shape, TypeOK, StreamTypes, Frame, Goto, Move, tunnelVars, relayVars,
                       streamVars
<1>1. ASSUME NEW r \in Requesters, Open(u, r) PROVE Frame(u)
  BY <1>1 DEF Open, Begin
<1>2. CASE HangUp(u) \/ WithinBudget(u) \/ ReadFails(u) \/ TakeTargetSlot(u) \/ Drained(u)
  BY <1>2 DEF HangUp, WithinBudget, ReadFails, TakeTargetSlot, Drained, End
<1>3. CASE Drop(u) \/ ResolveFails(u) \/ Send(u)
  BY <1>3 DEF Drop, ResolveFails, Send, NextDatagram
<1>4. CASE Resolved(u) \/ SendTrips(u)
  BY <1>4 DEF Resolved, SendTrips
<1>5. ASSUME NEW t \in Targets,
             ReadDatagram(u, t) \/ Reply(u, t) \/ ReaderIdles(u, t) \/ CloseTarget(u, t)
      PROVE  Frame(u)
  BY <1>5 DEF ReadDatagram, Reply, ReaderIdles, CloseTarget
<1> QED
  BY RelayCases, <1>1, <1>2, <1>3, <1>4, <1>5

\* A tunnel's step keeps every requester's overdraft covered.
LEMMA TunnelSteady ==
  ASSUME Shape, NEW s \in Tunnels, TunnelStep(s), NEW r \in Requesters
  PROVE  Steady(r)
<1>1. Frame(s) /\ s \in Streams
  BY TunnelFrame, KindsApart
<1>2. /\ phase \in [Streams -> TunnelPhases \cup RelayPhases]
      /\ owner \in [Streams -> Requesters \cup {Nobody}] /\ Nobody # r
      /\ tokens \in [Requesters -> Int] /\ dirs \in [Tunnels -> 0..2]
      /\ phase[s] = "closed" <=> owner[s] = Nobody
  BY KindsApart DEF Shape, TypeOK, GuardTypes, StreamTypes, Owned
<1>3. ASSUME NEW q \in Requesters, Accept(s, q) PROVE Fewer(r)
  <2>1. phase'[s] = "target" /\ tokens' = tokens
    BY <1>1, <1>2, <1>3 DEF Accept, Begin, Move, Goto, guardVars
  <2> QED
    BY <1>1, <1>2, <2>1, TunnelFewerIf DEF TunnelSpends
<1>4. ASSUME Leave(s) \/ LeaveSlot(s) PROVE Fewer(r)
  <2>1. phase'[s] = "closed" /\ tokens' = tokens
    BY <1>1, <1>2, <1>4 DEF Leave, LeaveSlot, Release, End, Goto, guardVars
  <2> QED
    BY <1>1, <1>2, <2>1, TunnelFewerIf DEF TunnelSpends
<1>5. ASSUME WithinBudget(s), owner[s] = r PROVE Fresh(r)
  BY <1>2, <1>5 DEF WithinBudget, Over, guardVars, Fresh
<1>6. ASSUME WithinBudget(s), owner[s] # r PROVE Fewer(r)
  <2>1. UNCHANGED <<owner, tokens>>
    BY <1>6 DEF WithinBudget, guardVars, streamVars
  <2> QED
    BY <1>1, <1>2, <1>6, <2>1, TunnelFewerIf DEF TunnelSpends
<1>7. ASSUME TakeSlot(s) \/ ReadTarget(s) \/ Cut(s) PROVE Fewer(r)
  <2>1. /\ UNCHANGED <<owner, tokens, dirs>>
        /\ \/ phase[s] = "slot" /\ phase'[s] = "dial"
           \/ phase'[s] = "check"
           \/ phase[s] = "relay" /\ phase'[s] = "cut"
    BY <1>1, <1>2, <1>7
       DEF TakeSlot, ReadTarget, Cut, Acquire, Move, Goto, guardVars, tunnelVars, streamVars
  <2> QED
    BY <1>1, <1>2, <2>1, TunnelFewerIf DEF TunnelSpends
<1>8. ASSUME Dialed(s) PROVE Fewer(r)
  <2>1. UNCHANGED <<owner, tokens>> /\ phase[s] = "dial"
    BY <1>8 DEF Dialed, Move, guardVars, streamVars
  <2> QED
    BY <1>1, <1>2, <2>1, TunnelFewerIf DEF TunnelSpends
<1>9. ASSUME DirectionEnds(s) PROVE Fewer(r)
  <2>1. UNCHANGED <<owner, tokens, phase>> /\ dirs'[s] = dirs[s] - 1
    BY <1>2, <1>9 DEF DirectionEnds, guardVars, streamVars
  <2> QED
    BY <1>1, <1>2, <2>1, TunnelFewerIf DEF TunnelSpends
<1>10. ASSUME Chunk(s) PROVE Steady(r)
  <2>1. /\ UNCHANGED <<owner, phase>> /\ dirs'[s] \in {dirs[s], dirs[s] - 1} /\ dirs[s] > 0
        /\ tokens' = [tokens EXCEPT ![owner[s]] = @ - 1] /\ phase[s] \in {"relay", "cut"}
        /\ Trips(owner[s]) => dirs'[s] = dirs[s] - 1
    BY <1>2, <1>10 DEF Chunk, Meter, Charge
  <2>2. CASE owner[s] # r
    <3>1. tokens'[r] = tokens[r]
      BY <1>2, <2>1, <2>2
    <3> QED
      BY <1>1, <1>2, <2>1, <2>2, <3>1, TunnelFewerIf DEF TunnelSpends, Steady
  <2>3. CASE owner[s] = r /\ ~Trips(r)
    BY <1>2, <2>1, <2>3 DEF Trips, Fresh, Steady
  <2>4. CASE owner[s] = r /\ Trips(r)
    <3> PICK i \in {1, 2} : i = dirs[s]
      BY <1>2, <2>1
    <3>1. <<s, i>> \in Spenders(r) /\ <<s, i>> \notin Spenders(r)'
      <4>1. TunnelSpends(s, i, r) /\ ~TunnelSpends(s, i, r)'
        BY <1>2, <2>1, <2>4 DEF TunnelSpends
      <4>2. SpendersAre(r) /\ SpendersAre(r)'
        BY InSpenders
      <4> QED
        BY <4>1, <4>2 DEF SpendersAre
    <3>2. ASSUME NEW x \in Spenders(r)' PROVE x \in Spenders(r)
      BY <1>1, <1>2, <2>1, <3>2, TunnelNewSpender DEF TunnelSpends
    <3>3. tokens'[r] = tokens[r] - 1
      BY <1>2, <2>1, <2>4
    <3> QED
      BY <3>1, <3>2, <3>3 DEF Spent, Steady
  <2> QED
    BY <2>2, <2>3, <2>4
<1> QED
  BY TunnelCases, <1>3, <1>4, <1>5, <1>6, <1>7, <1>8, <1>9, <1>10 DEF Steady

\* So does a relay's.
LEMMA RelaySteady ==
  ASSUME Shape, NEW u \in Relays, RelayStep(u), NEW r \in Requesters
  PROVE  Steady(r)
<1>1. Frame(u) /\ u \in Streams
  BY RelayFrame, KindsApart
<1>2. /\ phase \in [Streams -> TunnelPhases \cup RelayPhases]
      /\ owner \in [Streams -> Requesters \cup {Nobody}] /\ Nobody # r
      /\ tokens \in [Requesters -> Int]
      /\ cur \in [Relays -> Targets \cup {Nobody}]
      /\ entry \in [Relays -> [Targets -> {"absent", "live", "deaf"}]]
  BY KindsApart DEF Shape, TypeOK, GuardTypes, StreamTypes
<1>3. /\ phase[u] \in {"slot", "resolve"} => entry[u][cur[u]] = "absent"
      /\ phase[u] = "closed" => entry[u] = NoEntries
      /\ phase[u] = "closed" <=> owner[u] = Nobody
  BY KindsApart DEF Shape, Relaying, Owned
<1>4. ASSUME NEW q \in Requesters, Open(u, q) PROVE Fewer(r)
  <2>1. phase'[u] = "read" /\ UNCHANGED <<tokens, entry>> /\ entry[u] = NoEntries
    BY <1>1, <1>2, <1>3, <1>4 DEF Open, Begin, Move, Goto, guardVars
  <2> QED
    BY <1>1, <1>2, <2>1, RelayFewerIf DEF LoopSpends, ReaderSpends, NoEntries
<1>5. ASSUME HangUp(u) \/ ReadFails(u) PROVE Fewer(r)
  <2>1. /\ UNCHANGED <<tokens, owner, entry, cur>>
        /\ phase' = phase \/ phase'[u] = "drain"
    BY <1>1, <1>2, <1>5
       DEF HangUp, ReadFails, Move, Goto, guardVars, relayVars, streamVars
  <2> QED
    BY <1>1, <1>2, <2>1, RelayFewerIf DEF LoopSpends, ReaderSpends
<1>6. ASSUME WithinBudget(u), owner[u] = r PROVE Fresh(r)
  BY <1>2, <1>6 DEF WithinBudget, Over, guardVars, Fresh
<1>7. ASSUME WithinBudget(u), owner[u] # r PROVE Fewer(r)
  <2>1. UNCHANGED <<owner, tokens>>
    BY <1>7 DEF WithinBudget, guardVars, streamVars
  <2> QED
    BY <1>1, <1>2, <1>7, <2>1, RelayFewerIf DEF LoopSpends, ReaderSpends
<1>8. ASSUME ResolveFails(u) \/ (Drop(u) /\ phase[u] \in {"check", "slot"}) PROVE Fewer(r)
  <2>1. /\ phase[u] \in {"check", "slot", "resolve"} /\ phase'[u] = "read"
        /\ UNCHANGED <<tokens, owner, entry>>
    BY <1>1, <1>2, <1>8
       DEF Drop, ResolveFails, Release, NextDatagram, Goto, guardVars, streamVars
  <2> QED
    BY <1>1, <1>2, <2>1, RelayFewerIf DEF LoopSpends, ReaderSpends
<1>9. ASSUME TakeTargetSlot(u) PROVE Fewer(r)
  <2>1. /\ phase[u] = "slot" /\ phase'[u] = "resolve"
        /\ UNCHANGED <<tokens, owner, entry, cur>>
    BY <1>1, <1>2, <1>9 DEF TakeTargetSlot, Acquire, Move, Goto, relayVars, streamVars
  <2> QED
    BY <1>1, <1>2, <2>1, RelayFewerIf DEF LoopSpends, ReaderSpends
<1>10. ASSUME Resolved(u) PROVE Fewer(r)
  <2>1. /\ phase[u] = "resolve" /\ phase'[u] = "send" /\ UNCHANGED <<tokens, owner, cur>>
        /\ entry' = [entry EXCEPT ![u][cur[u]] = "live"]
    BY <1>1, <1>2, <1>10 DEF Resolved, Move, Goto, guardVars, streamVars
  <2>2. \A t \in Targets : entry'[u][t] = "live" => entry[u][t] = "live" \/ t = cur[u]
    BY <1>2, <2>1
  <2> QED
    BY <1>1, <1>2, <2>1, <2>2, RelayFewerIf DEF LoopSpends, ReaderSpends
<1>11. ASSUME Send(u) \/ SendTrips(u), owner[u] # r PROVE Fewer(r)
  <2>1. /\ UNCHANGED <<owner, entry>> /\ tokens'[r] = tokens[r]
    BY <1>2, <1>11 DEF Send, SendTrips, Meter, Charge
  <2> QED
    BY <1>1, <1>2, <1>11, <2>1, RelayFewerIf DEF LoopSpends, ReaderSpends
<1>12. ASSUME Send(u), owner[u] = r PROVE Fresh(r)
  BY <1>2, <1>12 DEF Send, Meter, Charge, Trips, Fresh
<1>13. ASSUME SendTrips(u), owner[u] = r PROVE Spent(r)
  <2>1. /\ phase[u] = "send" /\ phase'[u] = "drain" /\ UNCHANGED <<owner, entry>>
        /\ tokens'[r] = tokens[r] - 1
    BY <1>1, <1>2, <1>13 DEF SendTrips, Meter, Charge, Move, Goto
  <2>2. <<u, Nobody>> \in Spenders(r) /\ <<u, Nobody>> \notin Spenders(r)'
    BY <1>13, <2>1, InSpenders DEF SpendersAre, LoopSpends
  <2>3. ASSUME NEW x \in Spenders(r)' PROVE x \in Spenders(r)
    BY <1>1, <2>1, <2>3, RelayNewSpender DEF LoopSpends, ReaderSpends
  <2> QED
    BY <2>1, <2>2, <2>3 DEF Spent
<1>14. ASSUME NEW t \in Targets, ReadDatagram(u, t) PROVE Fewer(r)
  <2>1. /\ phase[u] = "read" /\ UNCHANGED <<tokens, owner, entry>>
        /\ phase'[u] = "check" \/ (phase'[u] = "send" /\ entry[u][t] # "absent")
    BY <1>1, <1>2, <1>14 DEF ReadDatagram, Move, Goto, guardVars, streamVars
  <2> QED
    BY <1>1, <1>2, <2>1, RelayFewerIf DEF LoopSpends, ReaderSpends, NoEntries
<1>15. ASSUME NEW t \in Targets, ReaderIdles(u, t) PROVE Fewer(r)
  <2>1. /\ UNCHANGED <<tokens, owner, phase, cur>> /\ entry[u][t] = "live"
        /\ entry' = [entry EXCEPT ![u][t] = "deaf"]
    BY <1>15 DEF ReaderIdles, guardVars, streamVars
  <2> QED
    BY <1>1, <1>2, <2>1, RelayFewerIf DEF LoopSpends, ReaderSpends, NoEntries
<1>16. ASSUME NEW t \in Targets, CloseTarget(u, t) PROVE Fewer(r)
  <2>1. /\ UNCHANGED <<tokens, owner, phase, cur>> /\ phase[u] = "drain"
        /\ entry' = [entry EXCEPT ![u][t] = "absent"]
    BY <1>16 DEF CloseTarget, Release, streamVars
  <2> QED
    BY <1>1, <1>2, <2>1, RelayFewerIf DEF LoopSpends, ReaderSpends
<1>17. ASSUME Drained(u) PROVE Fewer(r)
  <2>1. phase'[u] = "closed" /\ UNCHANGED <<tokens, entry>> /\ entry[u] = NoEntries
    BY <1>1, <1>2, <1>17 DEF Drained, End, Goto, guardVars, relayVars
  <2> QED
    BY <1>1, <1>2, <2>1, RelayFewerIf DEF LoopSpends, ReaderSpends, NoEntries
<1>18. ASSUME NEW t \in Targets, Reply(u, t) PROVE Steady(r)
  <2>1. /\ UNCHANGED <<owner, phase, cur>> /\ entry[u][t] = "live"
        /\ tokens' = [tokens EXCEPT ![owner[u]] = @ - 1]
        /\ entry' = [entry EXCEPT ![u][t] = IF Trips(owner[u]) THEN "deaf" ELSE @]
    BY <1>18 DEF Reply, Meter, Charge
  <2>2. /\ \A d \in Targets : entry'[u][d] = "live" => entry[u][d] = "live"
        /\ entry[u] # NoEntries
    BY <1>2, <2>1 DEF NoEntries
  <2>3. CASE owner[u] # r
    <3>1. tokens'[r] = tokens[r]
      BY <1>2, <2>1, <2>3
    <3> QED
      BY <1>1, <1>2, <2>1, <2>3, <3>1, RelayFewerIf DEF LoopSpends, ReaderSpends, Steady
  <2>4. CASE owner[u] = r /\ ~Trips(r)
    BY <1>2, <2>1, <2>4 DEF Trips, Fresh, Steady
  <2>5. CASE owner[u] = r /\ Trips(r)
    <3>1. entry'[u][t] = "deaf" /\ tokens'[r] = tokens[r] - 1
      BY <1>2, <2>1, <2>5
    <3>2. <<u, t>> \in Spenders(r) /\ <<u, t>> \notin Spenders(r)'
      BY <1>3, <2>1, <2>5, <3>1, InSpenders DEF SpendersAre, ReaderSpends
    <3>3. ASSUME NEW x \in Spenders(r)' PROVE x \in Spenders(r)
      BY <1>1, <2>1, <2>2, <3>3, RelayNewSpender DEF LoopSpends, ReaderSpends
    <3> QED
      BY <3>1, <3>2, <3>3 DEF Spent, Steady
  <2> QED
    BY <2>3, <2>4, <2>5
<1> QED
  BY RelayCases, <1>4, <1>5, <1>6, <1>7, <1>8, <1>9, <1>10, <1>11, <1>12, <1>13, <1>14, <1>15,
     <1>16, <1>17, <1>18
     DEF Steady

-----------------------------------------------------------------------------
(* The theorems.                                                           *)

\* Every step keeps the slots as they are, or takes or gives back one.
LEMMA OneSlotAtATime ==
  ASSUME Shape, [Next]_vars
  PROVE  Kept \/ \E r \in Requesters, k \in Tickets : Took(r, k) \/ Gave(r, k)
<1>1. ASSUME NEW s \in Tunnels, TunnelStep(s)
      PROVE  Kept \/ \E r \in Requesters, k \in Tickets : Took(r, k) \/ Gave(r, k)
  BY <1>1, TunnelSlots DEF Tickets
<1>2. ASSUME NEW u \in Relays, RelayStep(u)
      PROVE  Kept \/ \E r \in Requesters, k \in Tickets : Took(r, k) \/ Gave(r, k)
  BY <1>2, RelaySlots DEF Tickets
<1>3. ASSUME UNCHANGED <<active, perReq, relayVars, owner, phase>> PROVE Kept
  BY <1>3 DEF Kept, HeldBy, relayVars
<1>4. CASE Toggle
  BY <1>3, <1>4 DEF Toggle, guardVars
<1>5. ASSUME NEW r \in Requesters, TimePasses(r) PROVE Kept
  BY <1>3, <1>5 DEF TimePasses, Refill, streamVars
<1>6. CASE UNCHANGED vars
  BY <1>3, <1>6 DEF vars, guardVars, streamVars
<1> QED
  BY <1>1, <1>2, <1>4, <1>5, <1>6 DEF Next

\* The invariant holds at first, and every step preserves it: of the exit as a
\* whole, of the clock, of a tunnel and of a relay.
THEOREM InductiveInvariant == Spec => []IInv
<1>1. ASSUME Init PROVE IInv
  <2>1. Shape
    BY <1>1, GuardAssumption, KindsApart
       DEF Init, GuardInit, Shape, TypeOK, GuardTypes, StreamTypes, Owned, Relaying,
           TunnelPhases, RelayPhases, NoEntries
  <2>2. \A r \in Requesters : HeldBy(r) = {}
    BY <1>1, KindsApart DEF Init, HeldBy, NoEntries, Streams
  <2>3. Held = {} /\ {s \in Tunnels : phase[s] # "closed"} = {}
    BY <1>1, <2>2, KindsApart DEF Held, Init
  <2>4. CountersExact
    BY <1>1, <2>2, <2>3, FS_EmptySet
       DEF Init, GuardInit, CountersExact, SlotsExact, LoadExact
  <2>5. ASSUME NEW r \in Requesters PROVE Covered(r)
    <3>1. tokens[r] \in Nat
      BY <1>1, GuardAssumption DEF Init, GuardInit
    <3> QED
      BY <3>1, SpendersFinite, GoroutineCount, FS_CardinalityType DEF Covered
  <2> QED
    BY <2>1, <2>4, <2>5 DEF IInv
<1>2. ASSUME IInv, [Next]_vars PROVE IInv'
  <2> USE <1>2 DEF IInv
  <2>1. ASSUME Shape', LoadExact', \A r \in Requesters : Steady(r) PROVE IInv'
    BY <2>1, OneSlotAtATime, SlotsFollow, StaysCovered DEF Shape, TypeOK, CountersExact
  <2>2. ASSUME NEW s \in Tunnels, TunnelStep(s) PROVE IInv'
    <3>1. Shape' /\ LoadExact' /\ \A r \in Requesters : Steady(r)
      BY <2>2, TunnelShape, LoadFollows, TunnelSteady DEF CountersExact
    <3> QED
      BY <2>1, <3>1
  <2>3. ASSUME NEW u \in Relays, RelayStep(u) PROVE IInv'
    <3>1. Shape' /\ LoadExact' /\ \A r \in Requesters : Steady(r)
      BY <2>3, RelayShape, LoadStays, RelaySteady DEF CountersExact
    <3> QED
      BY <2>1, <3>1
  <2>4. ASSUME UNCHANGED <<active, perReq, tunnelVars, relayVars, owner, phase>>,
               \A r \in Requesters : tokens'[r] >= tokens[r], GuardTypes'
        PROVE  IInv'
    <3>1. Shape'
      BY <2>4
         DEF Shape, TypeOK, StreamTypes, Owned, Relaying, tunnelVars, relayVars
    <3>2. \A r \in Requesters : Spenders(r)' = Spenders(r)
      BY <2>4 DEF Spenders, tunnelVars, relayVars
    <3>3. LoadExact'
      BY <2>4 DEF CountersExact, LoadExact, tunnelVars
    <3> QED
      BY <2>1, <2>4, <3>1, <3>2, <3>3 DEF Steady, Fewer
  <2>5. CASE Toggle
    BY <2>4, <2>5 DEF Toggle, guardVars, Shape, TypeOK, GuardTypes
  <2>6. ASSUME NEW r \in Requesters, TimePasses(r) PROVE IInv'
    BY <2>4, <2>6 DEF TimePasses, Refill, streamVars, Shape, TypeOK, GuardTypes
  <2>7. CASE UNCHANGED vars
    BY <2>4, <2>7 DEF vars, guardVars, streamVars, Shape, TypeOK, GuardTypes
  <2> QED
    BY <2>2, <2>3, <2>5, <2>6, <2>7 DEF Next
<1> QED
  BY <1>1, <1>2, PTL DEF Spec

\* However connections end, and however the steps of their goroutines
\* interleave, each counter of the guard and the advertised load are what they
\* count.
THEOREM CountersHold == Spec => []CountersExact
BY InductiveInvariant, PTL DEF IInv

\* The breaker bounds a requester's overdraft by the number of goroutines that
\* can copy for it.
THEOREM OverdraftHolds == Spec => []OverdraftBounded
<1>1. ASSUME IInv PROVE OverdraftBounded
  <2> SUFFICES ASSUME NEW r \in Requesters
               PROVE  tokens[r] >= -(2 * Cardinality(Tunnels)
                                     + Cardinality(Relays) * (1 + Cardinality(Targets)))
    BY DEF OverdraftBounded
  <2>1. tokens[r] \in Int /\ Covered(r)
    BY <1>1 DEF IInv, Shape, TypeOK, GuardTypes
  <2>2. Cardinality(Goroutines) \in Nat /\ Cardinality(Spenders(r)) \in Nat
    BY GoroutineCount, SpendersFinite, FS_CardinalityType
  <2> DEFINE N == 2 * Cardinality(Tunnels) + Cardinality(Relays) * (1 + Cardinality(Targets))
  <2>3. N = Cardinality(Goroutines)
    BY GoroutineCount
  <2> HIDE DEF N
  <2>4. tokens[r] >= -N
    BY <2>1, <2>2, <2>3 DEF Covered
  <2> QED
    BY <2>4 DEF N
<1> QED
  BY <1>1, InductiveInvariant, PTL

-----------------------------------------------------------------------------
(* Tunnels and relays together are a slot pool.                            *)

holding == [r \in Requesters |-> HeldBy(r)]

LEMMA SameCount == ASSUME NEW S PROVE Pool!Cardinality(S) = Cardinality(S)
BY DEF Pool!Cardinality, Cardinality

LEMMA TookIsTake ==
  ASSUME IInv, NEW r \in Requesters, NEW k \in Tickets, Took(r, k)
  PROVE  Pool!Take(r, k)
<1>1. UNION {holding[q] : q \in Requesters} = Held
  BY DEF Held, holding
<1>2. Cardinality(Held) = active /\ Cardinality(HeldBy(r)) = perReq[r]
  BY DEF IInv, CountersExact, SlotsExact
<1>3. Pool!Room(active, MaxConns) /\ Pool!Room(perReq[r], MaxPerRequester)
  BY DEF Took, HasRoom, Room, Pool!Room
<1>4. holding' = [holding EXCEPT ![r] = @ \cup {k}]
  BY DEF holding, Took
<1>5. \A q \in Requesters : k \notin holding[q]
  BY DEF holding, Took
<1> QED
  BY <1>1, <1>2, <1>3, <1>4, <1>5, SameCount DEF Pool!Take, holding

LEMMA GaveIsGiveBack ==
  ASSUME NEW r \in Requesters, NEW k \in Tickets, Gave(r, k)
  PROVE  Pool!GiveBack(r, k)
<1>1. holding' = [holding EXCEPT ![r] = @ \ {k}]
  BY DEF holding, Gave
<1>2. k \in holding[r]
  BY DEF holding, Gave
<1> QED
  BY <1>1, <1>2 DEF Pool!GiveBack, holding

\* The exit's tunnels and relays together implement the slot pool.
THEOREM PoolImplemented == Spec => ImplementsPool
<1>1. Init => Pool!Init
  BY KindsApart DEF Init, Pool!Init, HeldBy, NoEntries, Streams
<1>2. ASSUME IInv, [Next]_vars PROVE [Pool!Next]_holding
  <2>1. CASE Kept
    BY <2>1 DEF Kept, holding
  <2>2. ASSUME NEW r \in Requesters, NEW k \in Tickets, Took(r, k) \/ Gave(r, k)
        PROVE  Pool!Next
    BY <1>2, <2>2, TookIsTake, GaveIsGiveBack DEF Pool!Next
  <2> QED
    BY <1>2, <2>1, <2>2, OneSlotAtATime DEF IInv
<1> QED
  BY <1>1, <1>2, InductiveInvariant, PTL DEF Spec, ImplementsPool, Pool!Spec, holding

=============================================================================
