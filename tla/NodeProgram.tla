---------------------------- MODULE NodeProgram ----------------------------
(***************************************************************************)
(* The node's program (cmd/whatgate/main.go) from the join to its exit,    *)
(* with the controls its web console offers (internal/webui): choosing a   *)
(* trust scope, switching to another exit, serving as an exit.             *)
(*                                                                         *)
(* Main starts the parts one after the other.  From the moment the console *)
(* listens, its handlers run concurrently with main and with each other;   *)
(* each lock section of connectIn is a step.  Registrations are sent by    *)
(* main, by a ticker and by handlers, and arrive in any order.             *)
(***************************************************************************)
EXTENDS ExitRanking, TunRoutes

CONSTANTS Handlers,  \* goroutines of the web console
          Main, Ticker, \* main's own goroutine and keepRegistered
          None,
          MaxRequests

ASSUME ProgramAssumption == None \notin Nodes

VARIABLES phase,    \* where main is
          stopped,  \* ctx is cancelled: the program was interrupted
          web,      \* -web is given
          dht,      \* discovery plane up (dd # nil)
          scope,    \* curScope, or None while scopeSet is false
          exit,     \* curExitID, or None while configured is false
          dialer,   \* the exit the SwitchableDialer dials
          shown,    \* stExit: what the console shows
          job,      \* main or handler -> the call it is in
          asked,    \* history: the scope chosen last
          astray,   \* history: a call found an exit out of its scope
          overlap,  \* history: two calls of connectIn were in progress at once
          exitOn,   \* serving as an exit
          pending,  \* sender -> the registration it waits for
          entry,    \* this node in the coordinator's directory
          requests  \* how many the console served so far

mainVars == <<phase, stopped, web, dht>>
selection == <<scope, exit, dialer, shown, job, asked, astray, overlap>>
presence == <<exitOn, pending, entry>>
vars == <<mainVars, selection, presence, requests, routeVars>>

Callers == Handlers \cup {Main}
Senders == Callers \cup {Ticker}

Idle == [at |-> "idle", scope |-> None, exit |-> None]

\* The phases a program does not leave.
Over == {"ended", "refused", "died"}
Starting == {"join", "register", "registering"}

Init ==
  /\ phase = "join" /\ stopped = FALSE /\ web \in BOOLEAN /\ dht = FALSE
  /\ scope = None /\ exit = None /\ dialer = None /\ shown = None
  /\ job = [c \in Callers |-> Idle] /\ asked = None /\ overlap = FALSE
  /\ exitOn \in BOOLEAN /\ pending = [s \in Senders |-> None]
  /\ astray = FALSE /\ entry = None /\ requests = 0
  /\ RoutesInit

Go(from, to) == phase = from /\ phase' = to /\ UNCHANGED <<stopped, web>>

-----------------------------------------------------------------------------
(* Registration.                                                           *)

\* registerOnce, up to the request.
Send(s, on) == pending[s] = None /\ pending' = [pending EXCEPT ![s] = on]

\* A handler's call ends with its registration.
Finish(s) ==
  IF s \in Callers THEN job' = [job EXCEPT ![s] = IF @.at = "register" THEN Idle ELSE @]
                   ELSE UNCHANGED job

Settle(s) ==
  /\ pending[s] # None
  /\ pending' = [pending EXCEPT ![s] = None]
  /\ Finish(s)
  /\ UNCHANGED <<mainVars, scope, exit, dialer, shown, asked, astray, overlap, exitOn,
                 requests, routeVars>>

Delivered(s) == Settle(s) /\ entry' = pending[s]

\* The failure is logged and left to the next round; the entry may be too old
\* by then.
Lost(s) == Settle(s) /\ entry' \in {entry, None}

Alive == phase \notin Over

\* Mutant: a refresh repeats what the directory says.
TickAsListed ==
  /\ Alive /\ ~stopped /\ phase \notin Starting
  /\ entry # None /\ Send(Ticker, entry)
  /\ UNCHANGED <<mainVars, selection, exitOn, entry, requests, routeVars>>

\* keepRegistered sends what isExitOn says at the tick.
Tick ==
  /\ Alive /\ ~stopped /\ phase \notin Starting
  /\ Send(Ticker, exitOn)
  /\ UNCHANGED <<mainVars, selection, exitOn, entry, requests, routeVars>>

\* Mutant: who stopped serving is forgotten, who did not is kept.
ExpireIdle ==
  /\ entry = FALSE /\ (~Alive \/ stopped)
  /\ entry' = None
  /\ UNCHANGED <<mainVars, selection, exitOn, pending, requests, routeVars>>

\* The directory forgets a node that sends nothing any more.
Expire ==
  /\ entry # None /\ (~Alive \/ stopped)
  /\ entry' = None
  /\ UNCHANGED <<mainVars, selection, exitOn, pending, requests, routeVars>>

-----------------------------------------------------------------------------
(* connectIn.                                                              *)

Connecting(c) == job[c].at \in {"look", "connect", "dial", "show", "record"}

\* The first section: the scope is set before anything is looked for.
Begin(c, sc) ==
  /\ scope' = sc
  /\ job' = [job EXCEPT ![c] = [Idle EXCEPT !.at = "look", !.scope = sc]]
  /\ overlap' = (overlap \/ \E d \in Callers \ {c} : job[d].at # "idle")
  /\ UNCHANGED <<exit, dialer, shown, astray>>

StepTo(c, from, to) == job[c].at = from /\ job' = [job EXCEPT ![c].at = to]

\* discoverExit, with or without a directory.
Look(c) ==
  /\ job[c].at = "look"
  /\ \E f \in Found :
       /\ f.scope = job[c].scope /\ f.dht = dht
       /\ job' = [job EXCEPT ![c].at = "connect", ![c].exit = f.exit]
       /\ astray' = (astray \/ f.exit = Self
                       \/ (f.scope = "conservative" /\ f.tier < Endorsed))
  /\ UNCHANGED <<scope, exit, dialer, shown, asked, overlap>>

\* No exit in scope, or it cannot be connected to: nothing is rolled back.
ConnectFails(c) ==
  /\ job[c].at \in {"look", "connect"}
  /\ job' = [job EXCEPT ![c] = Idle]
  /\ UNCHANGED <<scope, exit, dialer, shown, asked, astray, overlap>>

Connect(c) ==
  /\ StepTo(c, "connect", "dial")
  /\ UNCHANGED <<scope, exit, dialer, shown, asked, astray, overlap>>

SetDialer(c) ==
  /\ StepTo(c, "dial", "show")
  /\ dialer' = job[c].exit
  /\ UNCHANGED <<scope, exit, shown, asked, astray, overlap>>

SetState(c) ==
  /\ StepTo(c, "show", "record")
  /\ shown' = job[c].exit
  /\ UNCHANGED <<scope, exit, dialer, asked, astray, overlap>>

\* The last section, which UDP associations read.
Record(c) ==
  /\ job[c].at = "record"
  /\ scope' = job[c].scope /\ exit' = job[c].exit
  /\ job' = [job EXCEPT ![c] = Idle]
  /\ UNCHANGED <<dialer, shown, asked, astray, overlap>>

ConnectIn(c) ==
  /\ Alive
  /\ Look(c) \/ ConnectFails(c) \/ Connect(c) \/ SetDialer(c) \/ SetState(c) \/ Record(c)
  /\ UNCHANGED <<mainVars, presence, requests, routeVars>>

-----------------------------------------------------------------------------
(* The console.                                                            *)

Request(h) ==
  /\ phase = "run" /\ web /\ job[h] = Idle
  /\ requests < MaxRequests /\ requests' = requests + 1
  /\ UNCHANGED <<mainVars, routeVars>>

\* The first-run wizard, which may be used again.
Setup(h, sc) ==
  /\ Request(h)
  /\ Begin(h, sc) /\ asked' = sc
  /\ UNCHANGED presence

\* Mutant: before a scope is chosen, the zero value of curScope is taken.
SwitchUnset(h) ==
  /\ Request(h)
  /\ job' = [job EXCEPT ![h] = [Idle EXCEPT !.at = "start",
       !.scope = IF scope = None THEN "conservative" ELSE scope]]
  /\ UNCHANGED <<scope, exit, dialer, shown, asked, astray, overlap, presence>>

\* switchTo reads the scope in a section of its own.
Switch(h) ==
  /\ Request(h)
  /\ scope # None
  /\ job' = [job EXCEPT ![h] = [Idle EXCEPT !.at = "start", !.scope = scope]]
  /\ UNCHANGED <<scope, exit, dialer, shown, asked, astray, overlap, presence>>

SwitchBegins(h) ==
  /\ Alive /\ job[h].at = "start" /\ Begin(h, job[h].scope)
  /\ UNCHANGED <<asked, mainVars, presence, requests, routeVars>>

\* ToggleExit: the handlers are set or removed, then the node registers with
\* the value the request had.
ToggleExit(h, on) ==
  /\ Request(h)
  /\ exitOn' = on /\ Send(h, on)
  /\ job' = [job EXCEPT ![h] = [Idle EXCEPT !.at = "register"]]
  /\ UNCHANGED <<scope, exit, dialer, shown, asked, astray, overlap, entry>>

-----------------------------------------------------------------------------
(* Main.                                                                   *)

\* The program is over, and with it everything it had in memory.
Gone ==
  /\ dht' = FALSE /\ scope' = None /\ exit' = None /\ dialer' = None /\ shown' = None
  /\ job' = [c \in Callers |-> Idle] /\ asked' = None /\ overlap' = FALSE
  /\ exitOn' = FALSE
  /\ UNCHANGED <<astray, pending, entry, requests>>

\* The join is tried again after a bootstrap list was fetched; a node that
\* has joined before does without.
Join == Go("join", "register") /\ UNCHANGED <<dht, selection, presence, requests, routeVars>>
JoinFails == Go("join", "died") /\ Gone /\ UNCHANGED routeVars

RegisterFirst ==
  /\ Go("register", "registering")
  /\ Send(Main, exitOn)
  /\ job' = [job EXCEPT ![Main] = [Idle EXCEPT !.at = "register"]]
  /\ UNCHANGED <<dht, scope, exit, dialer, shown, asked, astray, overlap,
                 exitOn, entry, requests, routeVars>>

\* Registered or not, the ticker is started, then the discovery plane if there
\* is a credential, then the SOCKS ingress.
StartPlanes ==
  /\ Go("registering", "select") /\ job[Main] = Idle
  /\ dht' \in BOOLEAN
  /\ UNCHANGED <<selection, presence, requests, routeVars>>

\* With -trust-scope main selects itself.
SelectFirst(sc) ==
  /\ Go("select", "select") /\ job[Main] = Idle /\ scope = None
  /\ Begin(Main, sc) /\ asked' = sc
  /\ UNCHANGED <<dht, presence, requests, routeVars>>

\* Without an exit, or a scope to look for one, only the console can go on.
Selected ==
  /\ web \/ exit # None
  /\ Go("select", "route") /\ job[Main] = Idle
  /\ UNCHANGED <<dht, selection, presence, requests, routeVars>>

NoneSelected ==
  /\ ~web /\ exit = None /\ scope # None
  /\ Go("select", "died") /\ job[Main] = Idle
  /\ Gone /\ UNCHANGED routeVars

ApplyUp ==
  /\ \/ Go("route", "route") /\ AddRoute
     \/ Go("route", "undo") /\ AddFails
     \/ Go("route", "listen") /\ AllDone
  /\ UNCHANGED <<dht, selection, presence, requests>>

\* ApplyDown, on a failed setup and when main returns.
ApplyDown ==
  /\ Go("undo", "undo") \/ Go("down", "down")
  /\ DeleteRoute \/ DeleteFails
  /\ UNCHANGED <<dht, selection, presence, requests>>

Restored == (Go("undo", "refused") \/ Go("down", "ended")) /\ AllDone /\ Gone

Listen == Go("listen", "run") /\ UNCHANGED <<dht, selection, presence, requests, routeVars>>

\* log.Fatalf runs no deferred call.
ListenFails ==
  /\ web /\ Go("listen", "died")
  /\ Gone /\ UNCHANGED routeVars

Interrupt ==
  /\ Alive /\ ~stopped /\ stopped' = TRUE
  /\ UNCHANGED <<phase, web, dht, selection, presence, requests, routeVars>>

\* What handlers still do while main returns has no consequence that lasts,
\* but for the registrations under way.
Return == stopped /\ Go("run", "down") /\ Gone /\ UNCHANGED routeVars

Kill ==
  /\ Alive /\ phase' = "died"
  /\ Gone /\ UNCHANGED <<stopped, web, routeVars>>

MainStep ==
  \/ Join \/ JoinFails \/ RegisterFirst \/ StartPlanes
  \/ \E sc \in Scopes : SelectFirst(sc)
  \/ Selected \/ NoneSelected \/ ApplyUp \/ ApplyDown \/ Restored
  \/ Listen \/ ListenFails \/ Return

Next ==
  \/ MainStep \/ Interrupt \/ Kill
  \/ \E c \in Callers : ConnectIn(c)
  \/ \E h \in Handlers :
       \/ \E sc \in Scopes : Setup(h, sc)
       \/ Switch(h) \/ SwitchBegins(h)
       \/ \E on \in BOOLEAN : ToggleExit(h, on)
  \/ Tick \/ Expire
  \/ \E s \in Senders : Delivered(s) \/ Lost(s)

Fairness ==
  /\ WF_vars(MainStep) /\ WF_vars(ConnectIn(Main))
  /\ WF_vars(Tick) /\ SF_vars(Delivered(Ticker)) /\ WF_vars(Expire)
  /\ \A s \in Senders : WF_vars(Delivered(s) \/ Lost(s))

Spec == Init /\ [][Next]_vars /\ Fairness

-----------------------------------------------------------------------------
\* No call connects to an exit outside the scope it was made for, by the tier
\* the coordinator gives: a record on the discovery plane makes nobody less of
\* a stranger (merge.go:18-27, scope.go:40-47).
ScopeRespected == ~astray

\* As long as calls did not overlap, TCP, UDP and the console name one exit
\* whenever no call is in progress, however earlier calls failed half-way, and
\* the scope in force is the one chosen last (main.go:503-520).
AgreeAtRest ==
  ~overlap /\ (\A c \in Callers : ~Connecting(c)) =>
    exit = dialer /\ dialer = shown /\ scope = asked

\* UDP associations are opened to an exit only when TCP has one too, also
\* while calls overlap (main.go:488-496).
UdpNeedsTcp == exit # None => dialer # None /\ shown # None

\* TCP and UDP never leave through different exits because an earlier call of
\* connectIn failed half-way, nor UDP before TCP can (main.go:488-520).
SelectionAgrees == AgreeAtRest /\ UdpNeedsTcp

\* However far the setup of the routes came, when the program undid it without
\* a failing delete the table is as it was, if nobody else had routed one of
\* the destinations (route.go:110-113).
RoutesRestored ==
  phase \in {"ended", "refused"} /\ ~stuck /\ (\A d \in Dests : before[d] = "none") =>
    routes = before

\* When the program is left running, the directory agrees with the exit again
\* and again and in the end says nothing else, whatever registrations of
\* handlers and the ticker were lost or overtaken on the way (main.go:703-707).
Converges ==
  <>[](phase = "run" /\ ~stopped) =>
    <>[](entry \in {None, exitOn}) /\ []<>(entry = exitOn)

\* A program that is gone leaves the directory for good, late registrations
\* included.
Unlisted == <>(~Alive) => <>[](entry = None)
=============================================================================
