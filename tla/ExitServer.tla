----------------------------- MODULE ExitServer -----------------------------
(***************************************************************************)
(* An exit at work: the TCP tunnels it serves (tunnel.ServeExit under      *)
(* node.setExitHandler) and its UDP relays (node.relayUDP), which share    *)
(* one guard.                                                              *)
(*                                                                         *)
(* A TCP tunnel is one goroutine up to the relay, then one per direction:  *)
(*    target -> check -> slot -> dial -> relay -> cut -> closed            *)
(* A UDP relay is a loop that looks up or opens the datagram's target,     *)
(*    read -> [check -> slot -> resolve] -> send -> read ... -> drain      *)
(* and one reader goroutine per target.                                    *)
(***************************************************************************)
EXTENDS ExitGuard

CONSTANTS Tunnels,  \* TCP streams that can be open at once
          Relays,   \* UDP streams that can be open at once
          Targets,  \* destinations of datagrams
          Nobody    \* no requester, no target

Streams == Tunnels \cup Relays

ASSUME ServerAssumption ==
  /\ IsFiniteSet(Tunnels) /\ IsFiniteSet(Relays) /\ IsFiniteSet(Targets)
  /\ Tunnels \cap (Relays \cup Relays \X Targets) = {}
  /\ Nobody \notin Requesters \cup Targets

VARIABLES serving,  \* whether the stream handlers are registered
          load,     \* Node.exitLoad
          owner,    \* stream -> its requester
          phase,    \* stream -> where its goroutine is
          dirs,     \* tunnel -> directions of the pipe still copying
          blamed,   \* stream -> whether its meter reported it
          hung,     \* relay -> its stream was closed under it
          cur,      \* relay -> the target of the datagram it handles
          entry     \* relay -> target -> "absent", "live", or "deaf": in the
                    \*   map, but the reader goroutine has gone

tunnelVars == <<load, dirs>>
relayVars == <<hung, cur, entry>>
streamVars == <<serving, owner, blamed>>
vars == <<guardVars, tunnelVars, relayVars, streamVars, phase>>

NoEntries == [t \in Targets |-> "absent"]

Init ==
  /\ GuardInit
  /\ serving = FALSE
  /\ load = 0
  /\ owner = [s \in Streams |-> Nobody]
  /\ phase = [s \in Streams |-> "closed"]
  /\ dirs = [s \in Tunnels |-> 0]
  /\ blamed = [s \in Streams |-> FALSE]
  /\ hung = [u \in Relays |-> FALSE]
  /\ cur = [u \in Relays |-> Nobody]
  /\ entry = [u \in Relays |-> NoEntries]

Goto(s, label) == phase' = [phase EXCEPT ![s] = label]
Move(s, from, to) == phase[s] = from /\ Goto(s, to)

\* EnableGuardedExit and DisableExit: streams already open stay open.
Toggle ==
  /\ serving' = ~serving
  /\ UNCHANGED <<guardVars, tunnelVars, relayVars, owner, blamed, phase>>

TimePasses(r) ==
  /\ Refill(r)
  /\ UNCHANGED <<tunnelVars, relayVars, streamVars, phase>>

-----------------------------------------------------------------------------
(* What the two kinds of streams do alike.                                 *)

Begin(s, r, label) ==
  /\ serving
  /\ Move(s, "closed", label)
  /\ owner' = [owner EXCEPT ![s] = r]
  /\ blamed' = [blamed EXCEPT ![s] = FALSE]
  /\ UNCHANGED serving

End(s) ==
  /\ Goto(s, "closed")
  /\ owner' = [owner EXCEPT ![s] = Nobody]
  /\ UNCHANGED <<serving, blamed>>

\* Authorize, past the checks of the request itself: the budget.
WithinBudget(s) ==
  /\ Move(s, "check", "slot")
  /\ ~Over(owner[s])
  /\ UNCHANGED <<guardVars, tunnelVars, relayVars, streamVars>>

\* The meter: it charges and, the first time it trips, reports the requester.
Meter(s) ==
  /\ Charge(owner[s])
  /\ blamed' = [blamed EXCEPT ![s] = @ \/ Trips(owner[s])]

-----------------------------------------------------------------------------
(* TCP tunnels.                                                            *)

Accept(s, r) ==
  /\ Begin(s, r, "target")
  /\ load' = load + 1
  /\ UNCHANGED <<guardVars, relayVars, dirs>>

ReadTarget(s) ==
  /\ Move(s, "target", "check")
  /\ UNCHANGED <<guardVars, tunnelVars, relayVars, streamVars>>

\* ServeExit returns without a slot to give back.
Leave(s) ==
  /\ End(s)
  /\ load' = load - 1
  /\ UNCHANGED <<guardVars, relayVars, dirs>>

\* ServeExit returns and its deferred release runs.
LeaveSlot(s) ==
  /\ Release(owner[s])
  /\ End(s)
  /\ load' = load - 1
  /\ UNCHANGED <<relayVars, dirs>>

\* Mutant: the wait for the target has no deadline.
NoDeadline(s) == FALSE

\* The read deadline of 10 seconds, or an unreadable header.
NoTarget(s) == phase[s] = "target" /\ Leave(s)

\* Outside the trust scope, low reputation, blocked destination, private
\* address, or too many new connections: Authorize has taken no slot yet.
PolicyDenies(s) == phase[s] = "check" /\ Leave(s)

OverBudget(s) == phase[s] = "check" /\ Over(owner[s]) /\ Leave(s)

TakeSlot(s) ==
  /\ Move(s, "slot", "dial")
  /\ Acquire(owner[s])
  /\ UNCHANGED <<tunnelVars, relayVars, streamVars>>

NoSlot(s) == phase[s] = "slot" /\ ~HasRoom(owner[s]) /\ Leave(s)

Dialed(s) ==
  /\ Move(s, "dial", "relay")
  /\ dirs' = [dirs EXCEPT ![s] = 2]
  /\ UNCHANGED <<guardVars, load, relayVars, streamVars>>

\* Refused, timed out after 15 seconds, or resolved to a private address.
DialFails(s) == phase[s] = "dial" /\ LeaveSlot(s)

\* Mutant: copyIdle goes on after a trip.
ChunkRegardless(s) ==
  /\ phase[s] \in {"relay", "cut"}
  /\ dirs[s] > 0
  /\ Meter(s)
  /\ UNCHANGED <<tunnelVars, relayVars, serving, owner, phase>>

\* copyIdle relays a chunk and charges it; a trip, or a connection that was
\* closed meanwhile, ends this direction.
Chunk(s) ==
  /\ phase[s] \in {"relay", "cut"}
  /\ dirs[s] > 0
  /\ Meter(s)
  /\ dirs' = [dirs EXCEPT ![s] =
                IF Trips(owner[s]) \/ phase[s] = "cut" THEN @ - 1 ELSE @]
  /\ UNCHANGED <<load, relayVars, serving, owner, phase>>

\* End of file or an error on the connection this direction reads or writes.
DirectionEnds(s) ==
  /\ phase[s] \in {"relay", "cut"}
  /\ dirs[s] > 0
  /\ dirs' = [dirs EXCEPT ![s] = @ - 1]
  /\ UNCHANGED <<guardVars, load, relayVars, streamVars, phase>>

\* pipe hears of the first direction to end and closes both connections.
Cut(s) ==
  /\ dirs[s] < 2
  /\ Move(s, "relay", "cut")
  /\ UNCHANGED <<guardVars, tunnelVars, relayVars, streamVars>>

Finish(s) ==
  /\ phase[s] = "cut"
  /\ dirs[s] = 0
  /\ LeaveSlot(s)

\* The steps a tunnel takes by itself, its deadlines included.  The target, the
\* answer of a dialed server and the end of a connection come from outside.
TunnelProgress(s) ==
  \/ NoTarget(s)
  \/ TakeSlot(s) \/ NoSlot(s)
  \/ DialFails(s)
  \/ Cut(s) \/ Finish(s)
  \/ phase[s] = "cut" /\ DirectionEnds(s)

\* Authorize begins once the coordinator was asked for the requester's tier and
\* reputation.
TunnelChecked(s) ==
  PolicyDenies(s) \/ WithinBudget(s) \/ OverBudget(s)

TunnelStep(s) ==
  \/ \E r \in Requesters : Accept(s, r)
  \/ TunnelProgress(s) \/ TunnelChecked(s)
  \/ ReadTarget(s) \/ Dialed(s)
  \/ Chunk(s) \/ DirectionEnds(s)

-----------------------------------------------------------------------------
(* UDP relays.                                                             *)

Open(u, r) ==
  /\ Begin(u, r, "read")
  /\ hung' = [hung EXCEPT ![u] = FALSE]
  /\ UNCHANGED <<guardVars, tunnelVars, cur, entry>>

\* The client closes the stream, or it breaks.
HangUp(u) ==
  /\ phase[u] # "closed"
  /\ hung' = [hung EXCEPT ![u] = TRUE]
  /\ UNCHANGED <<guardVars, tunnelVars, cur, entry, streamVars, phase>>

ReadDatagram(u, t) ==
  /\ Move(u, "read", IF entry[u][t] = "absent" THEN "check" ELSE "send")
  /\ ~hung[u]
  /\ cur' = [cur EXCEPT ![u] = t]
  /\ UNCHANGED <<guardVars, tunnelVars, hung, entry, streamVars>>

\* Back to reading: the datagram is dropped, or done with.
NextDatagram(u) ==
  /\ Goto(u, "read")
  /\ cur' = [cur EXCEPT ![u] = Nobody]
  /\ UNCHANGED <<tunnelVars, hung>>

Drop(u) ==
  /\ NextDatagram(u)
  /\ UNCHANGED <<guardVars, streamVars, entry>>

TargetDenied(u) == phase[u] = "check" /\ Drop(u)

NoTargetSlot(u) == phase[u] = "slot" /\ ~HasRoom(owner[u]) /\ Drop(u)

TakeTargetSlot(u) ==
  /\ Move(u, "slot", "resolve")
  /\ Acquire(owner[u])
  /\ UNCHANGED <<tunnelVars, relayVars, streamVars>>

\* The name does not resolve, resolves to a private address, or DialUDP fails.
ResolveFails(u) ==
  /\ phase[u] = "resolve"
  /\ Release(owner[u])
  /\ NextDatagram(u)
  /\ UNCHANGED <<streamVars, entry>>

Resolved(u) ==
  /\ Move(u, "resolve", "send")
  /\ entry' = [entry EXCEPT ![u][cur[u]] = "live"]
  /\ UNCHANGED <<guardVars, tunnelVars, hung, cur, streamVars>>

Send(u) ==
  /\ phase[u] = "send"
  /\ ~Trips(owner[u])
  /\ Meter(u)
  /\ NextDatagram(u)
  /\ UNCHANGED <<serving, owner, entry>>

\* A tripped budget ends the loop.
SendTrips(u) ==
  /\ Move(u, "send", "drain")
  /\ Trips(owner[u])
  /\ Meter(u)
  /\ cur' = [cur EXCEPT ![u] = Nobody]
  /\ UNCHANGED <<tunnelVars, hung, entry, serving, owner>>

\* Mutant: a relay whose stream was closed under it keeps waiting.
ReadBlocks(u) == FALSE

ReadFails(u) ==
  /\ Move(u, "read", "drain")
  /\ hung[u]
  /\ UNCHANGED <<guardVars, tunnelVars, relayVars, streamVars>>

\* Mutant: only sockets that are still read from are torn down.
CloseLiveTarget(u, t) ==
  /\ phase[u] = "drain"
  /\ entry[u][t] # "absent"
  /\ IF entry[u][t] = "live" THEN Release(owner[u]) ELSE UNCHANGED guardVars
  /\ entry' = [entry EXCEPT ![u][t] = "absent"]
  /\ UNCHANGED <<tunnelVars, hung, cur, streamVars, phase>>

\* The deferred teardown closes each target's socket and releases its slot.
CloseTarget(u, t) ==
  /\ phase[u] = "drain"
  /\ entry[u][t] # "absent"
  /\ Release(owner[u])
  /\ entry' = [entry EXCEPT ![u][t] = "absent"]
  /\ UNCHANGED <<tunnelVars, hung, cur, streamVars, phase>>

Drained(u) ==
  /\ phase[u] = "drain"
  /\ entry[u] = NoEntries
  /\ End(u)
  /\ UNCHANGED <<guardVars, tunnelVars, relayVars>>

\* Mutant: the reader trips the breaker but leaves the stream open.
ReplyRegardless(u, t) ==
  /\ entry[u][t] = "live"
  /\ Meter(u)
  /\ entry' = [entry EXCEPT ![u][t] = IF Trips(owner[u]) THEN "deaf" ELSE @]
  /\ UNCHANGED <<tunnelVars, hung, cur, serving, owner, phase>>

\* A target's reader sends a reply back and charges it; on a trip it closes
\* the stream and ends.
Reply(u, t) ==
  /\ entry[u][t] = "live"
  /\ Meter(u)
  /\ hung' = [hung EXCEPT ![u] = @ \/ Trips(owner[u])]
  /\ entry' = [entry EXCEPT ![u][t] = IF Trips(owner[u]) THEN "deaf" ELSE @]
  /\ UNCHANGED <<tunnelVars, cur, serving, owner, phase>>

\* The read deadline of udpIdleTimeout: the reader returns, and that is all.
ReaderIdles(u, t) ==
  /\ entry[u][t] = "live"
  /\ entry' = [entry EXCEPT ![u][t] = "deaf"]
  /\ UNCHANGED <<guardVars, tunnelVars, hung, cur, streamVars, phase>>

\* The steps of the relay's loop that wait for nobody.
RelayProgress(u) ==
  \/ NoTargetSlot(u) \/ TakeTargetSlot(u)
  \/ ResolveFails(u) \/ Resolved(u)
  \/ Send(u) \/ SendTrips(u) \/ ReadFails(u)
  \/ \E t \in Targets : CloseTarget(u, t)
  \/ Drained(u)

RelayChecked(u) == WithinBudget(u) \/ TargetDenied(u)

RelayStep(u) ==
  \/ \E r \in Requesters : Open(u, r)
  \/ HangUp(u)
  \/ RelayProgress(u) \/ RelayChecked(u)
  \/ \E t \in Targets : ReadDatagram(u, t) \/ Reply(u, t) \/ ReaderIdles(u, t)

-----------------------------------------------------------------------------
Next ==
  \/ Toggle
  \/ \E r \in Requesters : TimePasses(r)
  \/ \E s \in Tunnels : TunnelStep(s)
  \/ \E u \in Relays : RelayStep(u)

Spec == Init /\ [][Next]_vars

\* Goroutines that can run, run; deadlines expire.  Clients, remote servers
\* and the clock's refills owe nothing.
GoroutinesRun ==
  /\ \A s \in Tunnels : WF_vars(TunnelProgress(s))
  /\ \A u \in Relays : WF_vars(RelayProgress(u))

\* An assumption on the coordinator: the two lookups before a check end, with
\* an answer or an error (http.DefaultClient sets no limit of its own).
LookupsEnd ==
  /\ \A s \in Tunnels : WF_vars(TunnelChecked(s))
  /\ \A u \in Relays : WF_vars(RelayChecked(u))

FairSpec == Spec /\ GoroutinesRun /\ LookupsEnd

-----------------------------------------------------------------------------
(* Properties                                                              *)

\* What holds a slot: a tunnel from its dial to its end, and every target of
\* a relay from its authorization to the relay's teardown.
Tickets == Tunnels \cup Relays \X Targets

HeldBy(r) ==
  {s \in Tunnels : owner[s] = r /\ phase[s] \in {"dial", "relay", "cut"}}
  \cup {k \in Relays \X Targets :
          /\ owner[k[1]] = r
          /\ \/ entry[k[1]][k[2]] # "absent"
             \/ phase[k[1]] = "resolve" /\ cur[k[1]] = k[2]}

Held == UNION {HeldBy(r) : r \in Requesters}

\* Whatever way connections end, denied, failed, idle, cut or drained, the
\* guard's counters are the connections there are: no slot leaks and none is
\* given back twice.
SlotsExact ==
  /\ active = Cardinality(Held)
  /\ \A r \in Requesters : perReq[r] = Cardinality(HeldBy(r))

\* The load a node advertises is the number of tunnel streams it handles.
LoadExact == load = Cardinality({s \in Tunnels : phase[s] # "closed"})

\* None of the three counters, each changed at a dozen places, drifts.
CountersExact == SlotsExact /\ LoadExact

\* The breaker bounds what a requester can take beyond its budget, however
\* many streams it has, by one chunk for each goroutine that relays for it.
OverdraftBounded ==
  \A r \in Requesters :
    tokens[r] >= -(2 * Cardinality(Tunnels)
                   + Cardinality(Relays) * (1 + Cardinality(Targets)))

Pool == INSTANCE SlotPool WITH
  Limit <- MaxConns, Share <- MaxPerRequester,
  holds <- [r \in Requesters |-> HeldBy(r)]

\* The exit's tunnels and relays together keep the promise of a slot pool.
ImplementsPool == Pool!Spec

\* "so a peer can't open a stream and hold an exit slot indefinitely by
\* sending nothing": what comes before the relay comes to an end.
SetupEnds ==
  \A s \in Tunnels :
    phase[s] \in {"target", "check", "slot", "dial"} ~>
      phase[s] \in {"closed", "relay"}

\* A connection that tripped the breaker is torn down, with both directions
\* and every slot it holds, although the trip is noticed by a goroutine other
\* than the one that gives the slots back.
BlamedIsCut ==
  \A s \in Streams :
    blamed[s] /\ phase[s] # "closed" ~> phase[s] = "closed"

\* A relay whose client went away gives every slot back.
HungIsDrained ==
  \A u \in Relays : hung[u] /\ phase[u] # "closed" ~> phase[u] = "closed"
=============================================================================
