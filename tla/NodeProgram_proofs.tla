------------------------- MODULE NodeProgram_proofs -------------------------
(***************************************************************************)
(* Proofs about the node program, for any number of nodes, handlers and    *)
(* requests: what calls of connectIn leave behind, and that no exit        *)
(* outside the chosen scope is used.                                       *)
(***************************************************************************)
EXTENDS NodeProgram, SequenceTheorems, TLAPS

\* A leader is first for some probe.
LEMMA LeaderIsFirst ==
  ASSUME NEW nodes, NEW range, NEW n \in Leaders(nodes, range)
  PROVE  \E latency \in Probes, weighted \in BOOLEAN :
           n \in First(nodes, latency, weighted, range)
<1> DEFINE S == {First(nodes, latency, weighted, range) :
                   latency \in Probes, weighted \in BOOLEAN}
<1>1. n \in UNION S
  BY DEF Leaders
<1> HIDE DEF S
<1>2. PICK T \in S : n \in T
  BY <1>1
<1> QED
  BY <1>2 DEF S

\* Whatever the directory lists, the discovery plane finds and the probes say,
\* the exit picked is another node, and one the coordinator vouches for when
\* the scope asks for that.
LEMMA FoundInScope ==
  ASSUME NEW f \in Found
  PROVE  /\ f.exit \in Nodes /\ f.exit # Self /\ f.tier \in Tiers
         /\ f.scope = "conservative" => f.tier >= Endorsed
<1>1. PICK range \in Scopes, plane \in BOOLEAN, dir \in Directories,
           found \in SUBSET Nodes : f \in Picks(range, plane, dir, found)
  <2> DEFINE S == {Picks(range, plane, dir, IF plane THEN found ELSE {}) :
                     range \in Scopes, plane \in BOOLEAN, dir \in Directories,
                     found \in SUBSET Nodes}
  <2>1. f \in UNION S
    BY DEF Found
  <2> HIDE DEF S
  <2>2. PICK T \in S : f \in T
    BY <2>1
  <2> QED
    BY <2>2 DEF S
<1>2. PICK n \in Leaders(Merge(dir, found), range) :
        f = [scope |-> range, dht |-> plane, exit |-> n, tier |-> TierIn(dir, n)]
  BY <1>1 DEF Picks
<1>3. f.scope = range /\ f.exit = n /\ f.tier = TierIn(dir, n)
  BY <1>2
<1>4. PICK latency \in Probes, weighted \in BOOLEAN :
        n \in First(Merge(dir, found), latency, weighted, range)
  BY <1>2, LeaderIsFirst
<1>5. /\ n \in DOMAIN Merge(dir, found) /\ n # Self
      /\ Allows(range, Merge(dir, found)[n].tier)
  BY <1>4 DEF First, Eligible
<1>6. Merge(dir, found)[n].tier = TierIn(dir, n)
  BY <1>5 DEF Merge, TierIn
<1>7. TierIn(dir, n) \in Tiers
  <2>1. PICK S \in SUBSET Nodes : dir \in [S -> Entries]
    BY DEF Directories
  <2> QED
    BY <2>1 DEF TierIn, Entries, Tiers, Stranger
<1>8. n \in Nodes
  <2>1. PICK S \in SUBSET Nodes : dir \in [S -> Entries]
    BY DEF Directories
  <2> QED
    BY <1>5, <2>1 DEF Merge
<1> QED
  BY <1>3, <1>5, <1>6, <1>7, <1>8 DEF Allows

-----------------------------------------------------------------------------
(* The inductive invariant.                                                *)

Jobs == [at : {"idle", "start", "look", "connect", "dial", "show", "record", "register"},
         scope : Scopes \cup {None}, exit : Nodes \cup {None}]

\* The types of what the calls of connectIn work on.
SelectionTypes ==
  /\ job \in [Callers -> Jobs]
  /\ {scope, asked} \subseteq Scopes \cup {None}
  /\ {exit, dialer, shown} \subseteq Nodes \cup {None}
  /\ overlap \in BOOLEAN

\* Main does not choose an exit before it has registered.
MainWaits == phase \in {"join", "register"} => job[Main] = Idle

\* A call has an exit once it looked for one, and has put it where TCP and the
\* console look for it before it gets to the last section.
Prepared(c) ==
  /\ job[c].at \in {"connect", "dial", "show", "record"} => job[c].exit # None
  /\ job[c].at \in {"show", "record"} => dialer # None
  /\ job[c].at = "record" => shown # None

\* Without overlap one call at a time is connecting, for the scope asked for,
\* and what it has switched so far is known.
OneAtATime == \A c, d \in Callers : Connecting(c) /\ Connecting(d) => c = d

ForScope ==
  /\ scope = asked
  /\ \A c \in Callers : job[c].at = "start" \/ Connecting(c) => job[c].scope = scope

HalfWay(c) ==
  /\ job[c].at \in {"look", "connect", "dial"} => exit = dialer /\ dialer = shown
  /\ job[c].at = "show" => exit = shown /\ dialer = job[c].exit
  /\ job[c].at = "record" => dialer = shown /\ dialer = job[c].exit

AtRest == (\A c \in Callers : ~Connecting(c)) => exit = dialer /\ dialer = shown

Serial == OneAtATime /\ ForScope /\ AtRest /\ \A c \in Callers : HalfWay(c)

\* UdpNeedsTcp and AgreeAtRest are about calls that end; the rest says what is
\* true while they are under way.
IInv ==
  /\ SelectionTypes /\ MainWaits /\ ScopeRespected /\ UdpNeedsTcp
  /\ \A c \in Callers : Prepared(c)
  /\ ~overlap => Serial

LEMMA InitOK == Init => IInv
<1> SUFFICES ASSUME Init PROVE IInv
  OBVIOUS
<1>1. /\ Idle \in Jobs /\ Idle.at = "idle"
      /\ job \in [Callers -> Jobs] /\ \A c \in Callers : job[c] = Idle
  BY DEF Init, Idle, Jobs
<1>2. SelectionTypes /\ MainWaits
  BY <1>1 DEF Init, SelectionTypes, MainWaits, Callers
<1>3. \A c \in Callers : ~Connecting(c) /\ Prepared(c) /\ HalfWay(c)
  BY <1>1 DEF Connecting, Prepared, HalfWay
<1>4. ScopeRespected /\ UdpNeedsTcp /\ Serial
  BY <1>1, <1>3 DEF Init, ScopeRespected, UdpNeedsTcp, Serial, OneAtATime, ForScope, AtRest
<1> QED
  BY <1>2, <1>3, <1>4 DEF IInv

\* Steps that leave the selection alone.
LEMMA SelectionUnchanged ==
  ASSUME IInv, UNCHANGED selection, MainWaits'
  PROVE  IInv'
BY DEF selection, IInv, SelectionTypes, ScopeRespected, UdpNeedsTcp, Prepared, Serial,
       OneAtATime, ForScope, HalfWay, AtRest, Connecting

\* The end of the program forgets it.
LEMMA GoneOK ==
  ASSUME IInv, Gone
  PROVE  IInv'
BY DEF Gone, IInv, SelectionTypes, MainWaits, ScopeRespected, UdpNeedsTcp, Prepared, Serial,
       OneAtATime, ForScope, HalfWay, AtRest, Connecting, Idle, Jobs, Callers

-----------------------------------------------------------------------------
(* The steps of connectIn.                                                 *)

\* The first section of a call, with the scope it was asked for or read.
LEMMA BeginOK ==
  ASSUME IInv, NEW c \in Callers, NEW sc \in Scopes \cup {None}, Begin(c, sc), MainWaits',
         job[c].at \in {"idle", "start"},
         \/ asked' = sc
         \/ asked' = asked /\ job[c].at = "start" /\ sc = job[c].scope
  PROVE  IInv'
<1>1. /\ job'[c].at = "look" /\ job'[c].scope = sc /\ job'[c].exit = None
      /\ job' \in [Callers -> Jobs]
      /\ \A d \in Callers : d # c => job'[d] = job[d]
  BY DEF Begin, Idle, IInv, SelectionTypes, Jobs
<1>2. /\ scope' = sc /\ UNCHANGED <<exit, dialer, shown, astray>>
      /\ ~overlap' => ~overlap /\ \A d \in Callers : d # c => job[d].at = "idle"
      /\ overlap' \in BOOLEAN
  BY DEF Begin
<1>3. SelectionTypes' /\ ScopeRespected' /\ UdpNeedsTcp'
  BY <1>1, <1>2 DEF IInv, SelectionTypes, ScopeRespected, UdpNeedsTcp
<1>4. ASSUME NEW d \in Callers PROVE Prepared(d)'
  BY <1>1, <1>2 DEF IInv, Prepared
<1>5. ASSUME ~overlap' PROVE Serial'
  <2>1. /\ Serial /\ \A d \in Callers : ~Connecting(d)
        /\ \A d \in Callers : d # c => ~Connecting(d)' /\ job'[d].at # "start"
    BY <1>1, <1>2, <1>5 DEF IInv, Connecting
  <2>2. exit = dialer /\ dialer = shown
    BY <2>1 DEF Serial, AtRest
  <2>3. scope' = asked'
    BY <1>2, <2>1 DEF Serial, ForScope
  <2> QED
    BY <1>1, <1>2, <2>1, <2>2, <2>3
       DEF Serial, OneAtATime, ForScope, HalfWay, AtRest, Connecting
<1> QED
  BY <1>3, <1>4, <1>5 DEF IInv

\* What a section has to see to when no calls overlap: itself alone.
LEMMA SerialAfter ==
  ASSUME Serial, NEW c \in Callers, Connecting(c),
         \A d \in Callers : d # c => job'[d] = job[d],
         UNCHANGED <<asked, scope>>,
         job'[c].at = "idle" \/ (job'[c].at # "start" /\ job'[c].scope = job[c].scope),
         HalfWay(c)', Connecting(c)' \/ (exit' = dialer' /\ dialer' = shown')
  PROVE  Serial'
<1>1. \A d \in Callers : d # c => ~Connecting(d) /\ ~(Connecting(d)')
  BY DEF Serial, OneAtATime, Connecting
<1>2. OneAtATime'
  BY <1>1 DEF OneAtATime
<1>3. ForScope'
  BY <1>1 DEF Serial, ForScope, Connecting
<1>4. \A d \in Callers : HalfWay(d)'
  BY <1>1 DEF HalfWay, Connecting
<1>5. AtRest'
  BY DEF AtRest
<1> QED
  BY <1>2, <1>3, <1>4, <1>5 DEF Serial

\* Every further section of a call.
LEMMA SectionOK ==
  ASSUME IInv, NEW c \in Callers, ConnectIn(c)
  PROVE  IInv'
<1>1. /\ job \in [Callers -> Jobs] /\ job' \in [Callers -> Jobs]
      /\ \A d \in Callers : d # c => job'[d] = job[d]
      /\ Connecting(c)
      /\ UNCHANGED <<asked, overlap, phase>>
  BY FoundInScope
     DEF ConnectIn, Look, ConnectFails, Connect, SetDialer, SetState, Record, StepTo,
         IInv, SelectionTypes, Jobs, Idle, mainVars, Connecting
<1>2. MainWaits'
  BY <1>1 DEF IInv, MainWaits, Connecting, Idle, Callers
<1>3. /\ SelectionTypes /\ UdpNeedsTcp /\ Prepared(c) /\ ~astray
      /\ \A d \in Callers : Prepared(d)
      /\ ~overlap => Serial /\ HalfWay(c) /\ job[c].scope = scope
      /\ job[c] \in Jobs
  BY <1>1 DEF IInv, Serial, ForScope, SelectionTypes, ScopeRespected
<1>4. CASE Look(c)
  <2>1. PICK f \in Found :
          /\ f.scope = job[c].scope /\ f.dht = dht
          /\ job' = [job EXCEPT ![c].at = "connect", ![c].exit = f.exit]
          /\ astray' = (astray \/ f.exit = Self
                          \/ (f.scope = "conservative" /\ f.tier < Endorsed))
    BY <1>4, Zenon DEF Look
  <2>7. /\ f.exit \in Nodes /\ f.exit # Self /\ f.tier \in 0..2
        /\ f.scope = "conservative" => f.tier >= 1
    BY FoundInScope DEF Tiers, Endorsed
  <2>2. f.exit \in Nodes /\ f.exit # None /\ ~astray'
    <3>1. ~(f.scope = "conservative" /\ f.tier < Endorsed)
      BY <2>7 DEF Endorsed
    <3> QED
      BY <1>3, <2>1, <2>7, <3>1, ProgramAssumption, Zenon
  <2>0. job'[c] = [job[c] EXCEPT !.at = "connect", !.exit = f.exit]
    BY <1>1, <2>1
  <2>3. /\ job[c].at = "look" /\ job'[c].at = "connect" /\ job'[c].exit = f.exit
        /\ job'[c].scope = job[c].scope
        /\ UNCHANGED <<scope, exit, dialer, shown>>
    <3>1. job[c].at = "look" /\ UNCHANGED <<scope, exit, dialer, shown>>
      BY <1>4 DEF Look
    <3> QED
      BY <1>3, <2>0, <3>1 DEF Jobs
  <2>4. SelectionTypes' /\ ScopeRespected' /\ UdpNeedsTcp'
    BY <1>1, <1>3, <2>2, <2>3 DEF SelectionTypes, ScopeRespected, UdpNeedsTcp
  <2>5. \A d \in Callers : Prepared(d)'
    BY <1>1, <1>3, <2>2, <2>3 DEF Prepared
  <2>6. ~overlap => Serial'
    BY <1>1, <1>3, <2>3, SerialAfter DEF HalfWay, Connecting
  <2> QED
    BY <1>1, <1>2, <2>4, <2>5, <2>6 DEF IInv
<1>5. CASE ConnectFails(c)
  <2>1. /\ job[c].at \in {"look", "connect"} /\ job'[c].at = "idle"
        /\ UNCHANGED <<scope, exit, dialer, shown, astray>>
    BY <1>1, <1>3, <1>5 DEF ConnectFails, StepTo, Jobs, Idle, Prepared, HalfWay
  <2>2. SelectionTypes' /\ ScopeRespected' /\ UdpNeedsTcp'
    BY <1>1, <1>3, <2>1 DEF SelectionTypes, ScopeRespected, UdpNeedsTcp, Prepared, Jobs
  <2>3. \A d \in Callers : Prepared(d)'
    BY <1>1, <1>3, <2>1 DEF Prepared
  <2>4. ~overlap => Serial'
    BY <1>1, <1>3, <2>1, SerialAfter DEF HalfWay, Connecting
  <2> QED
    BY <1>1, <1>2, <2>2, <2>3, <2>4 DEF IInv
<1>6. CASE Connect(c)
  <2>1. /\ job[c].at = "connect" /\ job'[c].at = "dial"
        /\ job'[c].scope = job[c].scope /\ job'[c].exit = job[c].exit
        /\ UNCHANGED <<scope, exit, dialer, shown, astray>>
    BY <1>1, <1>3, <1>6 DEF Connect, StepTo, Jobs, Idle, Prepared, HalfWay
  <2>2. SelectionTypes' /\ ScopeRespected' /\ UdpNeedsTcp'
    BY <1>1, <1>3, <2>1 DEF SelectionTypes, ScopeRespected, UdpNeedsTcp, Prepared, Jobs
  <2>3. \A d \in Callers : Prepared(d)'
    BY <1>1, <1>3, <2>1 DEF Prepared
  <2>4. ~overlap => Serial'
    BY <1>1, <1>3, <2>1, SerialAfter DEF HalfWay, Connecting
  <2> QED
    BY <1>1, <1>2, <2>2, <2>3, <2>4 DEF IInv
<1>7. CASE SetDialer(c)
  <2>1. /\ job[c].at = "dial" /\ job'[c].at = "show"
        /\ job'[c].scope = job[c].scope /\ job'[c].exit = job[c].exit
        /\ dialer' = job[c].exit /\ job[c].exit # None
        /\ UNCHANGED <<scope, exit, shown, astray>>
    BY <1>1, <1>3, <1>7 DEF SetDialer, StepTo, Jobs, Idle, Prepared, HalfWay
  <2>2. SelectionTypes' /\ ScopeRespected' /\ UdpNeedsTcp'
    BY <1>1, <1>3, <2>1 DEF SelectionTypes, ScopeRespected, UdpNeedsTcp, Prepared, Jobs
  <2>3. \A d \in Callers : Prepared(d)'
    BY <1>1, <1>3, <2>1 DEF Prepared
  <2>4. ~overlap => Serial'
    BY <1>1, <1>3, <2>1, SerialAfter DEF HalfWay, Connecting
  <2> QED
    BY <1>1, <1>2, <2>2, <2>3, <2>4 DEF IInv
<1>8. CASE SetState(c)
  <2>1. /\ job[c].at = "show" /\ job'[c].at = "record"
        /\ job'[c].scope = job[c].scope /\ job'[c].exit = job[c].exit
        /\ shown' = job[c].exit /\ job[c].exit # None /\ dialer # None
        /\ UNCHANGED <<scope, exit, dialer, astray>>
    BY <1>1, <1>3, <1>8 DEF SetState, StepTo, Jobs, Idle, Prepared, HalfWay
  <2>2. SelectionTypes' /\ ScopeRespected' /\ UdpNeedsTcp'
    BY <1>1, <1>3, <2>1 DEF SelectionTypes, ScopeRespected, UdpNeedsTcp, Prepared, Jobs
  <2>3. \A d \in Callers : Prepared(d)'
    BY <1>1, <1>3, <2>1 DEF Prepared
  <2>4. ~overlap => Serial'
    BY <1>1, <1>3, <2>1, SerialAfter DEF HalfWay, Connecting
  <2> QED
    BY <1>1, <1>2, <2>2, <2>3, <2>4 DEF IInv
<1>9. CASE Record(c)
  <2>1. /\ job[c].at = "record" /\ job'[c].at = "idle"
        /\ scope' = job[c].scope /\ exit' = job[c].exit
        /\ dialer # None /\ shown # None /\ (~overlap => dialer = shown /\ shown = exit')
        /\ UNCHANGED <<dialer, shown, astray>>
    BY <1>1, <1>3, <1>9 DEF Record, StepTo, Jobs, Idle, Prepared, HalfWay
  <2>2. SelectionTypes' /\ ScopeRespected' /\ UdpNeedsTcp'
    BY <1>1, <1>3, <2>1 DEF SelectionTypes, ScopeRespected, UdpNeedsTcp, Prepared, Jobs
  <2>3. \A d \in Callers : Prepared(d)'
    BY <1>1, <1>3, <2>1 DEF Prepared
  <2>4. ~overlap => Serial'
    BY <1>1, <1>3, <2>1, SerialAfter DEF HalfWay, Connecting
  <2> QED
    BY <1>1, <1>2, <2>2, <2>3, <2>4 DEF IInv
<1> QED
  BY <1>4, <1>5, <1>6, <1>7, <1>8, <1>9 DEF ConnectIn

-----------------------------------------------------------------------------
(* The other steps.                                                        *)

\* A caller that is not connecting before and after touches nothing of it.
LEMMA AsideOK ==
  ASSUME IInv, NEW c \in Callers, MainWaits', job' \in [Callers -> Jobs],
         \A d \in Callers : d # c => job'[d] = job[d],
         ~Connecting(c), job'[c].at \in {"idle", "register", "start"},
         job'[c].at = "start" => job'[c].scope = scope,
         UNCHANGED <<scope, exit, dialer, shown, asked, astray, overlap>>
  PROVE  IInv'
<1>1. \A d \in Callers : Connecting(d)' <=> Connecting(d)
  BY DEF Connecting
<1>2. \A d \in Callers : Prepared(d)'
  BY DEF IInv, Prepared
<1>3. ASSUME ~overlap' PROVE Serial'
  <2>1. Serial
    BY <1>3 DEF IInv
  <2>2. OneAtATime' /\ AtRest'
    BY <1>1, <2>1 DEF Serial, OneAtATime, AtRest
  <2>3. ForScope'
    BY <1>1, <2>1 DEF Serial, ForScope
  <2>4. \A d \in Callers : HalfWay(d)'
    BY <2>1 DEF Serial, HalfWay
  <2> QED
    BY <2>2, <2>3, <2>4 DEF Serial
<1> QED
  BY <1>2, <1>3 DEF IInv, SelectionTypes, ScopeRespected, UdpNeedsTcp

\* A registration that is answered or given up ends the call that sent it.
LEMMA SettleOK ==
  ASSUME IInv, NEW s \in Senders, Settle(s)
  PROVE  IInv'
<1>1. UNCHANGED <<scope, exit, dialer, shown, asked, astray, overlap, phase>>
  BY DEF Settle, mainVars
<1>2. CASE s \in Callers
  <2>1. job' = [job EXCEPT ![s] = IF @.at = "register" THEN Idle ELSE @]
    BY <1>2 DEF Settle, Finish
  <2>2. job \in [Callers -> Jobs] /\ Idle \in Jobs /\ Idle.at = "idle"
    BY DEF IInv, SelectionTypes, Jobs, Idle
  <2>3. CASE job[s].at = "register"
    <3>1. /\ job'[s] = Idle /\ job' \in [Callers -> Jobs]
          /\ \A d \in Callers : d # s => job'[d] = job[d]
      BY <1>2, <2>1, <2>2, <2>3
    <3>2. MainWaits'
      BY <1>1, <3>1 DEF IInv, MainWaits, Callers
    <3> QED
      BY <1>1, <1>2, <2>2, <2>3, <3>1, <3>2, AsideOK DEF Connecting
  <2>4. CASE job[s].at # "register"
    <3>1. job' = job
      BY <1>2, <2>1, <2>2, <2>4
    <3> QED
      BY <1>1, <3>1, SelectionUnchanged DEF selection, IInv, MainWaits
  <2> QED
    BY <2>3, <2>4
<1>3. CASE s \notin Callers
  BY <1>1, <1>3, SelectionUnchanged DEF Settle, Finish, selection, IInv, MainWaits
<1> QED
  BY <1>2, <1>3

\* The console's requests.
LEMMA RequestOK ==
  ASSUME IInv, NEW h \in Handlers, NEW sc \in Scopes, NEW on \in BOOLEAN,
         Setup(h, sc) \/ Switch(h) \/ SwitchBegins(h) \/ ToggleExit(h, on)
  PROVE  IInv'
<1>1. h \in Callers /\ job \in [Callers -> Jobs] /\ Idle \in Jobs
  BY DEF Callers, IInv, SelectionTypes, Jobs, Idle
<1>2. CASE Setup(h, sc)
  <2>1. MainWaits' /\ job[h].at = "idle"
    BY <1>2 DEF Setup, Request, mainVars, MainWaits, Idle
  <2> QED
    BY <1>1, <1>2, <2>1, BeginOK DEF Setup
<1>3. CASE Switch(h)
  <2>1. /\ phase = "run" /\ phase' = phase /\ job[h].at = "idle"
        /\ job' = [job EXCEPT ![h] = [Idle EXCEPT !.at = "start", !.scope = scope]]
        /\ UNCHANGED <<scope, exit, dialer, shown, asked, astray, overlap>>
    BY <1>3 DEF Switch, Request, mainVars, Idle
  <2> DEFINE j == [Idle EXCEPT !.at = "start", !.scope = scope]
  <2>2. j \in Jobs /\ j.at = "start" /\ j.scope = scope
    BY DEF Idle, Jobs, IInv, SelectionTypes
  <2> HIDE DEF j
  <2>3. /\ job' \in [Callers -> Jobs] /\ job'[h] = j
        /\ \A d \in Callers : d # h => job'[d] = job[d]
    BY <1>1, <2>1, <2>2 DEF j
  <2>4. MainWaits'
    BY <2>1 DEF MainWaits
  <2> QED
    BY <1>1, <2>1, <2>2, <2>3, <2>4, AsideOK DEF Connecting
<1>4. CASE SwitchBegins(h)
  <2>1. job[h].at = "start" /\ Begin(h, job[h].scope) /\ UNCHANGED <<asked, phase>>
    BY <1>4 DEF SwitchBegins, mainVars
  <2>2. MainWaits'
    BY <1>1, <2>1 DEF IInv, MainWaits, Begin, Callers, Idle
  <2>3. job[h].scope \in Scopes \cup {None}
    BY <1>1 DEF Jobs
  <2> QED
    BY <1>1, <2>1, <2>2, <2>3, BeginOK
<1>5. CASE ToggleExit(h, on)
  <2>1. /\ phase = "run" /\ phase' = phase /\ job[h].at = "idle"
        /\ job' = [job EXCEPT ![h] = [Idle EXCEPT !.at = "register"]]
        /\ UNCHANGED <<scope, exit, dialer, shown, asked, astray, overlap>>
    BY <1>5 DEF ToggleExit, Request, mainVars, Idle
  <2> DEFINE j == [Idle EXCEPT !.at = "register"]
  <2>2. j \in Jobs /\ j.at = "register"
    BY DEF Idle, Jobs
  <2> HIDE DEF j
  <2>3. /\ job' \in [Callers -> Jobs] /\ job'[h] = j
        /\ \A d \in Callers : d # h => job'[d] = job[d]
    BY <1>1, <2>1, <2>2 DEF j
  <2>4. MainWaits'
    BY <2>1 DEF MainWaits
  <2> QED
    BY <1>1, <2>1, <2>2, <2>3, <2>4, AsideOK DEF Connecting
<1> QED
  BY <1>2, <1>3, <1>4, <1>5

\* Main's own steps.
LEMMA MainOK ==
  ASSUME IInv, MainStep \/ Interrupt \/ Kill
  PROVE  IInv'
<1>1. Main \in Callers /\ job \in [Callers -> Jobs]
  BY DEF Callers, IInv, SelectionTypes
<1>2. CASE Gone
  BY <1>2, GoneOK
<1>3. CASE \/ Join \/ StartPlanes \/ Selected \/ ApplyUp \/ ApplyDown \/ Listen \/ Interrupt
  <2>1. UNCHANGED selection
    BY <1>3 DEF Join, StartPlanes, Selected, ApplyUp, ApplyDown, Listen, Interrupt
  <2>2. phase' \in {"join", "register"} => phase \in {"join", "register"}
    BY <1>3 DEF Join, StartPlanes, Selected, ApplyUp, ApplyDown, Listen, Interrupt, Go
  <2> QED
    BY <2>1, <2>2, SelectionUnchanged DEF IInv, MainWaits, selection
<1>4. CASE RegisterFirst
  <2>1. /\ phase' = "registering" /\ job[Main] = Idle
        /\ job' = [job EXCEPT ![Main] = [Idle EXCEPT !.at = "register"]]
        /\ UNCHANGED <<scope, exit, dialer, shown, asked, astray, overlap>>
    BY <1>4 DEF RegisterFirst, Go, IInv, MainWaits
  <2> DEFINE j == [Idle EXCEPT !.at = "register"]
  <2>2. j \in Jobs /\ j.at = "register" /\ Idle.at = "idle"
    BY DEF Idle, Jobs
  <2> HIDE DEF j
  <2>3. /\ job' \in [Callers -> Jobs] /\ job'[Main] = j
        /\ \A d \in Callers : d # Main => job'[d] = job[d]
    BY <1>1, <2>1, <2>2 DEF j
  <2>4. MainWaits'
    BY <2>1 DEF MainWaits
  <2> QED
    BY <1>1, <2>1, <2>2, <2>3, <2>4, AsideOK DEF Connecting
<1>5. ASSUME NEW sc \in Scopes, SelectFirst(sc)
      PROVE  IInv'
  <2>1. MainWaits' /\ job[Main].at = "idle" /\ Begin(Main, sc) /\ asked' = sc
    BY <1>5 DEF SelectFirst, Go, MainWaits, Idle
  <2> QED
    BY <1>1, <2>1, BeginOK
<1> QED
  BY <1>2, <1>3, <1>4, <1>5
     DEF MainStep, JoinFails, NoneSelected, Restored, ListenFails, Return, Kill

\* The invariant holds however requests, registrations, failures and the end of
\* the program fall together.
THEOREM InductiveInvariant == Spec => []IInv
<1>1. IInv /\ [Next]_vars => IInv'
  <2> SUFFICES ASSUME IInv, [Next]_vars PROVE IInv'
    OBVIOUS
  <2>1. CASE UNCHANGED vars
    BY <2>1, SelectionUnchanged DEF vars, mainVars, selection, IInv, MainWaits
  <2>2. CASE Tick \/ Expire
    BY <2>2, SelectionUnchanged DEF Tick, Expire, mainVars, selection, IInv, MainWaits
  <2>3. ASSUME NEW h \in Handlers,
               \/ \E sc \in Scopes : Setup(h, sc)
               \/ Switch(h) \/ SwitchBegins(h)
               \/ \E on \in BOOLEAN : ToggleExit(h, on)
        PROVE  IInv'
    BY <2>3, RequestOK DEF Scopes
  <2>4. ASSUME NEW s \in Senders, Delivered(s) \/ Lost(s) PROVE IInv'
    BY <2>4, SettleOK DEF Delivered, Lost
  <2> QED
    BY <2>1, <2>2, <2>3, <2>4, MainOK, SectionOK DEF Next
<1> QED
  BY <1>1, InitOK, PTL DEF Spec

\* For any number of nodes, handlers and requests, no call of connectIn uses an
\* exit outside its scope.
THEOREM ScopeHolds == Spec => []ScopeRespected
BY InductiveInvariant, PTL DEF IInv

\* TCP, UDP and the console agree at rest as long as calls did not overlap, and
\* UDP has no exit before TCP has one in any case, however many calls failed.
THEOREM SelectionHolds == Spec => []SelectionAgrees
<1>1. IInv => SelectionAgrees
  BY DEF IInv, SelectionAgrees, AgreeAtRest, Serial, ForScope, AtRest
<1> QED
  BY <1>1, InductiveInvariant, PTL

-----------------------------------------------------------------------------
(* The routes.                                                             *)

\* Every destination is in the plan.
LEMMA PlanCovers ==
  /\ Len(Plan) \in Nat
  /\ \A i \in 1..Len(Plan) : Plan[i] \in Dests
  /\ \A d \in Dests : \E i \in 1..Len(Plan) : Plan[i] = d
<1> DEFINE m == Len(Halves)
           n == Len(Excludes)
<1>1. /\ m \in Nat /\ n \in Nat /\ DOMAIN Halves = 1..m /\ DOMAIN Excludes = 1..n
      /\ Plan \in Seq(Dests) /\ Len(Plan) = m + n
      /\ \A i \in 1..(m + n) : Plan[i] = IF i <= m THEN Halves[i] ELSE Excludes[i - m]
  BY RoutesAssumption, ConcatProperties DEF Plan
<1> HIDE DEF m, n
<1>2. \A i \in 1..Len(Plan) : Plan[i] \in Dests
  BY <1>1
<1>3. ASSUME NEW d \in Dests PROVE \E i \in 1..Len(Plan) : Plan[i] = d
  <2>1. ASSUME NEW i \in DOMAIN Halves, d = Halves[i] PROVE \E k \in 1..Len(Plan) : Plan[k] = d
    <3>1. i \in 1..(m + n) /\ i <= m
      BY <1>1, <2>1
    <3> QED
      BY <1>1, <2>1, <3>1
  <2>2. ASSUME NEW i \in DOMAIN Excludes, d = Excludes[i]
        PROVE  \E k \in 1..Len(Plan) : Plan[k] = d
    <3>1. i + m \in 1..(m + n) /\ ~(i + m <= m) /\ (i + m) - m = i
      BY <1>1, <2>2
    <3> QED
      BY <1>1, <2>2, <3>1
  <2> QED
    BY <2>1, <2>2 DEF Dests
<1> QED
  BY <1>1, <1>2, <1>3

RouteKinds == {"none", "host", "ours"}

\* While main undoes its routes, those of the commands done are gone, if none of
\* them failed on a route that was there.
Undone ==
  /\ phase \in {"undo", "down"} /\ ~stuck => \A i \in 1..at : routes[Plan[i]] = "none"
  /\ phase \in {"ended", "refused"} /\ ~stuck => \A d \in Dests : routes[d] = "none"

\* What main has done of the plan in each phase.
RInv ==
  /\ routes \in [Dests -> RouteKinds] /\ before \in [Dests -> RouteKinds]
  /\ at \in 0..Len(Plan)
  /\ phase \in {"listen", "run"} => at = 0
  /\ Undone

LEMMA RoutesInitOK == Init => RInv
BY PlanCovers DEF Init, RoutesInit, RInv, Undone, RouteKinds

\* Steps that leave the table alone, into a phase that asks for nothing.
LEMMA RoutesUnchanged ==
  ASSUME RInv, UNCHANGED routeVars,
         phase' = phase \/ phase' \notin {"undo", "down", "ended", "refused", "listen", "run"}
                       \/ (phase = "listen" /\ phase' = "run")
                       \/ (phase = "run" /\ phase' = "down")
  PROVE  RInv'
BY DEF RInv, Undone, routeVars

LEMMA RoutesStep ==
  ASSUME RInv, ApplyUp \/ ApplyDown \/ Restored
  PROVE  RInv'
<1>1. CASE ApplyUp
  <2>1. CASE phase' = "route" /\ AddRoute
    BY <2>1, PlanCovers DEF AddRoute, More, RInv, Undone, RouteKinds
  <2>2. CASE (phase' = "undo" /\ AddFails) \/ (phase' = "listen" /\ AllDone)
    BY <2>2, PlanCovers DEF AddFails, AllDone, RInv, Undone
  <2> QED
    BY <1>1, <2>1, <2>2 DEF ApplyUp, Go
<1>2. CASE ApplyDown
  <2>1. /\ phase' = phase /\ phase \in {"undo", "down"} /\ at' = at + 1
        /\ at \in Nat /\ at + 1 \in 1..Len(Plan) /\ Plan[at + 1] \in Dests
        /\ before' = before
    BY <1>2, PlanCovers DEF ApplyDown, Go, DeleteRoute, DeleteFails, More, RInv
  <2>2. CASE DeleteRoute
    <3>1. routes' = [routes EXCEPT ![Plan[at + 1]] = "none"] /\ stuck' = stuck
      BY <2>2 DEF DeleteRoute
    <3>2. \A d \in Dests : routes'[d] = IF d = Plan[at + 1] THEN "none" ELSE routes[d]
      BY <3>1 DEF RInv
    <3>3. ASSUME ~stuck, NEW i \in 1..at' PROVE routes'[Plan[i]] = "none"
      BY <2>1, <3>2, <3>3, PlanCovers DEF RInv, Undone
    <3>4. routes' \in [Dests -> RouteKinds]
      BY <3>1, <2>1 DEF RInv, RouteKinds
    <3> QED
      BY <2>1, <3>1, <3>3, <3>4, PlanCovers DEF RInv, Undone
  <2>3. CASE DeleteFails
    <3>1. routes' = routes /\ stuck' = (stuck \/ routes[Plan[at + 1]] # "none")
      BY <2>3 DEF DeleteFails
    <3>2. ASSUME ~stuck', NEW i \in 1..at' PROVE routes'[Plan[i]] = "none"
      <4>1. ~stuck /\ routes[Plan[at + 1]] = "none"
        BY <3>1, <3>2
      <4> QED
        BY <2>1, <3>1, <4>1 DEF RInv, Undone
    <3> QED
      BY <2>1, <3>1, <3>2 DEF RInv, Undone
  <2> QED
    BY <1>2, <2>2, <2>3 DEF ApplyDown
<1>3. CASE Restored
  <2>1. /\ phase \in {"undo", "down"} /\ phase' \in {"refused", "ended"}
        /\ ~More /\ at' = 0 /\ UNCHANGED <<routes, before, stuck>>
    BY <1>3 DEF Restored, Go, AllDone
  <2>2. at = Len(Plan)
    BY <2>1, PlanCovers DEF RInv, More
  <2>3. ASSUME ~stuck, NEW d \in Dests PROVE routes[d] = "none"
    BY <2>1, <2>2, <2>3, PlanCovers DEF RInv, Undone
  <2> QED
    BY <2>1, <2>3, PlanCovers DEF RInv, Undone
<1> QED
  BY <1>1, <1>2, <1>3

\* For any plan, however far its setup came: a program that ended or refused to
\* start, without a failing delete, left the table as it found it.
THEOREM RoutesHold == Spec => []RoutesRestored
<1>1. RInv /\ [Next]_vars => RInv'
  <2> SUFFICES ASSUME RInv, [Next]_vars PROVE RInv'
    OBVIOUS
  <2>1. CASE ApplyUp \/ ApplyDown \/ Restored
    BY <2>1, RoutesStep
  <2>2. CASE UNCHANGED vars
    BY <2>2, RoutesUnchanged DEF vars, mainVars
  <2>3. CASE \/ Join \/ JoinFails \/ RegisterFirst \/ StartPlanes \/ Selected \/ NoneSelected
             \/ Listen \/ ListenFails \/ Return \/ Interrupt \/ Kill
             \/ \E sc \in Scopes : SelectFirst(sc)
    BY <2>3, RoutesUnchanged
       DEF Join, JoinFails, RegisterFirst, StartPlanes, Selected, NoneSelected, Listen,
           ListenFails, Return, Interrupt, Kill, SelectFirst, Go
  <2>4. CASE \/ \E c \in Callers : ConnectIn(c)
             \/ \E h \in Handlers :
                  \/ \E sc \in Scopes : Setup(h, sc)
                  \/ Switch(h) \/ SwitchBegins(h)
                  \/ \E on \in BOOLEAN : ToggleExit(h, on)
             \/ Tick \/ Expire
             \/ \E s \in Senders : Delivered(s) \/ Lost(s)
    <3>1. phase' = phase /\ UNCHANGED routeVars
      BY <2>4 DEF ConnectIn, Setup, Switch, SwitchBegins, ToggleExit, Request, Tick, Expire,
         Delivered, Lost, Settle, mainVars
    <3> QED
      BY <3>1, RoutesUnchanged
  <2> QED
    BY <2>1, <2>2, <2>3, <2>4 DEF Next, MainStep
<1>2. RInv => RoutesRestored
  BY DEF RInv, Undone, RoutesRestored
<1> QED
  BY <1>1, <1>2, RoutesInitOK, PTL DEF Spec
=============================================================================
