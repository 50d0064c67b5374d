---------------------------- MODULE SocksIngress ----------------------------
(***************************************************************************)
(* The local SOCKS5 ingress (internal/proxy): TCP CONNECT through the      *)
(* SwitchableDialer and the tunnel's ClientDialer (internal/tunnel), UDP   *)
(* ASSOCIATE through a UDPSession (node/udp.go).                           *)
(*                                                                         *)
(* An application opens a connection c.  Its handler is one goroutine; it  *)
(* starts two more, the copies of a TCP connection, or for UDP the reader  *)
(* of the tunnel and the watch on the control connection.  At the other    *)
(* end of a stream is an exit, which may end it or stop reading at any     *)
(* time.  Which exit is dialed is decided by NodeProgram, which changes    *)
(* the TCP dialer first and the exit of UDP associations later.            *)
(***************************************************************************)
EXTENDS Naturals, FiniteSets

CONSTANTS Conns,    \* connections of applications
          Senders,  \* local addresses that send UDP datagrams
          Exits,
          None,
          MaxSwitches

VARIABLES at,      \* connection -> where its handler is
          kind,    \* connection -> "tcp" or "udp", None before the request
          app,     \* connection -> whether the application's end is open
          via,     \* connection -> the exit the handler is about to use
          stream,  \* connection -> exit its stream goes to, None if closed
          broken,  \* connection -> whether the exit ended the stream
          helpers, \* connection -> goroutines running besides the handler
          relay,   \* connection -> whether its UDP socket is open
          client,  \* connection -> address of the first datagram
          offer,   \* connection -> content of clientCh, buffered for one
          peer,    \* connection -> the reader's ca
          dialer,  \* SwitchableDialer.cur
          udpExit, \* curExitID
          switches,
          since    \* history: connection -> exits in force since its request

handlerVars == <<at, kind, via>>
udpVars == <<relay, client, offer, peer>>
exitVars == <<dialer, udpExit, switches>>
vars == <<handlerVars, app, stream, broken, helpers, udpVars, exitVars, since>>

Copies == {"up", "down"}

Init ==
  /\ at = [c \in Conns |-> "free"] /\ kind = [c \in Conns |-> None]
  /\ app = [c \in Conns |-> FALSE] /\ via = [c \in Conns |-> None]
  /\ stream = [c \in Conns |-> None] /\ broken = [c \in Conns |-> FALSE]
  /\ helpers = [c \in Conns |-> {}] /\ relay = [c \in Conns |-> FALSE]
  /\ client = [c \in Conns |-> None] /\ offer = [c \in Conns |-> None]
  /\ peer = [c \in Conns |-> None]
  /\ dialer = None /\ udpExit = None /\ switches = 0
  /\ since = [c \in Conns |-> {}]

Step(c, from, to) == at[c] = from /\ at' = [at EXCEPT ![c] = to]

\* A closed stream is neither read nor written any more, from either side.
Dead(c) == stream[c] = None \/ broken[c]

-----------------------------------------------------------------------------
(* The outside: applications, exits, the program's exit selection.         *)

Accept(c) ==
  /\ Step(c, "free", "greet")
  /\ app' = [app EXCEPT ![c] = TRUE]
  /\ UNCHANGED <<kind, via, stream, broken, helpers, udpVars, exitVars, since>>

AppCloses(c) ==
  /\ app[c] /\ app' = [app EXCEPT ![c] = FALSE]
  /\ UNCHANGED <<handlerVars, stream, broken, helpers, udpVars, exitVars, since>>

ExitEnds(c) ==
  /\ ~Dead(c) /\ broken' = [broken EXCEPT ![c] = TRUE]
  /\ UNCHANGED <<handlerVars, app, stream, helpers, udpVars, exitVars, since>>

\* SwitchableDialer.Set; those who wait for a dial may get either exit.
Switch(e) ==
  /\ switches < MaxSwitches /\ switches' = switches + 1
  /\ dialer' = e
  /\ since' = [c \in Conns |-> IF kind[c] = "tcp" THEN since[c] \cup {e} ELSE since[c]]
  /\ UNCHANGED <<handlerVars, app, stream, broken, helpers, udpVars, udpExit>>

SwitchUDP ==
  /\ udpExit' = dialer
  /\ since' = [c \in Conns |-> IF kind[c] = "udp" THEN since[c] \cup {dialer} ELSE since[c]]
  /\ UNCHANGED <<handlerVars, app, stream, broken, helpers, udpVars, dialer, switches>>

-----------------------------------------------------------------------------
(* The handler.                                                            *)

\* negotiate and readRequest, when the application sends what they accept.  It
\* may have closed its end since.
Greet(c) ==
  /\ Step(c, "greet", "request")
  /\ UNCHANGED <<kind, app, via, stream, broken, helpers, udpVars, exitVars, since>>

RequestConnect(c) ==
  /\ Step(c, "request", "dial")
  /\ kind' = [kind EXCEPT ![c] = "tcp"]
  /\ since' = [since EXCEPT ![c] = {dialer}]
  /\ UNCHANGED <<app, via, stream, broken, helpers, udpVars, exitVars>>

\* handleUDPAssociate up to its reply: the relay is bound first.
RequestAssociate(c) ==
  /\ Step(c, "request", "bound")
  /\ kind' = [kind EXCEPT ![c] = "udp"]
  /\ relay' = [relay EXCEPT ![c] = TRUE]
  /\ since' = [since EXCEPT ![c] = {udpExit}]
  /\ UNCHANGED <<app, via, stream, broken, helpers, client, offer, peer, exitVars>>

\* What only the handler knew is gone with it.
Forget(c) ==
  /\ at' = [at EXCEPT ![c] = "done"] /\ via' = [via EXCEPT ![c] = None]
  /\ broken' = [broken EXCEPT ![c] = FALSE] /\ client' = [client EXCEPT ![c] = None]
  /\ offer' = [offer EXCEPT ![c] = None] /\ peer' = [peer EXCEPT ![c] = None]
  /\ since' = [since EXCEPT ![c] = {}]
  /\ UNCHANGED <<kind, app, helpers, exitVars>>

\* Mutant: the stream is closed by the copies only.
CloseRelay(c) ==
  /\ Forget(c)
  /\ stream' = [stream EXCEPT ![c] = IF kind[c] = "tcp" /\ at[c] = "reply" THEN @ ELSE None]
  /\ relay' = [relay EXCEPT ![c] = FALSE]

\* The handler returns: its deferred calls close what it holds.
Close(c) ==
  /\ Forget(c)
  /\ stream' = [stream EXCEPT ![c] = None]
  /\ relay' = [relay EXCEPT ![c] = FALSE]

\* A request that is malformed, of another kind, or cannot be bound.
Refuse(c) == at[c] \in {"greet", "request"} /\ Close(c)

\* The application is gone and sends no more.
Abandoned(c) == ~app[c] /\ at[c] \in {"greet", "request"} /\ Close(c)

\* An association is told its address before there is a tunnel.
Associated(c) ==
  /\ Step(c, "bound", "dial")
  /\ UNCHANGED <<kind, app, via, stream, broken, helpers, udpVars, exitVars, since>>

\* Mutant: associations use the exit of the dialer.
DialOne(c) ==
  /\ Step(c, "dial", "open")
  /\ dialer # None /\ via' = [via EXCEPT ![c] = dialer]
  /\ UNCHANGED <<kind, app, stream, broken, helpers, udpVars, exitVars, since>>

\* SwitchableDialer.Dial and openUDP read the exit under a lock and use it
\* after.
Dial(c) ==
  LET e == IF kind[c] = "tcp" THEN dialer ELSE udpExit
  IN  /\ Step(c, "dial", "open")
      /\ e # None /\ via' = [via EXCEPT ![c] = e]
      /\ UNCHANGED <<kind, app, stream, broken, helpers, udpVars, exitVars, since>>

NoExit(c) ==
  /\ at[c] = "dial"
  /\ IF kind[c] = "tcp" THEN dialer = None ELSE udpExit = None
  /\ Close(c)

\* A new stream to the exit.  An association is ready then.
Open(c) ==
  /\ Step(c, "open", IF kind[c] = "tcp" THEN "write" ELSE "read")
  /\ stream' = [stream EXCEPT ![c] = via[c]]
  /\ helpers' = [helpers EXCEPT ![c] = IF kind[c] = "tcp" THEN {} ELSE {"reader", "watch"}]
  /\ UNCHANGED <<kind, app, via, broken, udpVars, exitVars, since>>

\* ClientDialer.Dial sends the target.
WriteTarget(c) ==
  /\ Step(c, "write", "reply") /\ ~broken[c]
  /\ UNCHANGED <<kind, app, via, stream, broken, helpers, udpVars, exitVars, since>>

\* The exit cannot be reached, or the stream fails, or the reply does.
Fails(c) == at[c] \in {"bound", "open", "write", "reply"} /\ Close(c)

ReplyAndPipe(c) ==
  /\ Step(c, "reply", "pipe")
  /\ helpers' = [helpers EXCEPT ![c] = Copies]
  /\ UNCHANGED <<kind, app, via, stream, broken, udpVars, exitVars, since>>

\* pipe returns when the first direction ends.
PipeReturns(c) == at[c] = "pipe" /\ helpers[c] # Copies /\ Close(c)

-----------------------------------------------------------------------------
(* UDP ASSOCIATE, once the tunnel is open.                                 *)

\* Mutant: the address is passed on with every datagram.
DatagramTells(c, s) ==
  /\ relay[c] /\ Step(c, "read", "tell")
  /\ client' = [client EXCEPT ![c] = s]
  /\ UNCHANGED <<kind, app, via, stream, broken, helpers, relay, offer, peer, exitVars, since>>

\* A datagram reaches the relay; the first one tells who the client is.
Datagram(c, s) ==
  /\ relay[c]
  /\ Step(c, "read", IF client[c] = None THEN "tell" ELSE "send")
  /\ client' = [client EXCEPT ![c] = IF @ = None THEN s ELSE @]
  /\ UNCHANGED <<kind, app, via, stream, broken, helpers, relay, offer, peer, exitVars, since>>

\* clientCh <- addr blocks while the channel is full.
Tell(c) ==
  /\ Step(c, "tell", "send") /\ offer[c] = None
  /\ offer' = [offer EXCEPT ![c] = client[c]]
  /\ UNCHANGED <<kind, app, via, stream, broken, helpers, relay, client, peer, exitVars, since>>

\* The exit takes the datagram, or it is no valid request and is skipped.
Sent(c) ==
  /\ Step(c, "send", "read")
  /\ UNCHANGED <<kind, app, via, stream, broken, helpers, udpVars, exitVars, since>>

\* The write returns an error, which is ignored.
SendFails(c) == Dead(c) /\ Sent(c)

\* The read of the closed relay fails.
ReadFails(c) == at[c] = "read" /\ ~relay[c] /\ Close(c)

\* The reader gets a reply from the exit; without a client it is dropped.
Reply(c) ==
  /\ "reader" \in helpers[c] /\ ~Dead(c)
  /\ peer[c] = None /\ offer[c] # None
  /\ peer' = [peer EXCEPT ![c] = offer[c]]
  /\ offer' = [offer EXCEPT ![c] = None]
  /\ UNCHANGED <<handlerVars, app, stream, broken, helpers, relay, client, exitVars, since>>

-----------------------------------------------------------------------------
(* The end of the other goroutines.                                        *)

Ends(c, g) == g \in helpers[c] /\ helpers' = [helpers EXCEPT ![c] = @ \ {g}]

CopyOver(c, g) ==
  /\ g \in Copies /\ Ends(c, g)
  /\ UNCHANGED <<handlerVars, app, stream, broken, udpVars, exitVars, since>>

\* The read of a copy returns: up reads the application, down the stream.
CopyEnds(c, g) ==
  /\ CASE g = "up" -> ~app[c] \/ at[c] = "done" [] g = "down" -> Dead(c)
  /\ CopyOver(c, g)

\* Its write fails, which takes that there is something to write.
CopyFails(c, g) ==
  /\ CASE g = "up" -> Dead(c) [] g = "down" -> ~app[c]
  /\ CopyOver(c, g)

ReaderEnds(c) ==
  /\ Ends(c, "reader") /\ Dead(c)
  /\ UNCHANGED <<handlerVars, app, stream, broken, udpVars, exitVars, since>>

\* The control connection ends: the watch closes relay and tunnel.
WatchEnds(c) ==
  /\ Ends(c, "watch")
  /\ ~app[c] \/ at[c] = "done"
  /\ relay' = [relay EXCEPT ![c] = FALSE]
  /\ stream' = [stream EXCEPT ![c] = None]
  /\ UNCHANGED <<handlerVars, app, broken, client, offer, peer, exitVars, since>>

-----------------------------------------------------------------------------
\* What the handler does without the application or the exit having to act.
\* Opening a stream and writing to it end, if only by a time limit.
HandlerStep(c) ==
  \/ Abandoned(c) \/ Associated(c) \/ Dial(c) \/ NoExit(c) \/ Open(c) \/ WriteTarget(c)
  \/ Fails(c) \/ ReplyAndPipe(c) \/ PipeReturns(c)
  \/ Tell(c) \/ SendFails(c) \/ ReadFails(c)

HelperStep(c) == (\E g \in Copies : CopyEnds(c, g)) \/ ReaderEnds(c) \/ WatchEnds(c)

Next ==
  \/ \E c \in Conns :
       \/ Accept(c) \/ AppCloses(c) \/ ExitEnds(c)
       \/ Greet(c) \/ RequestConnect(c) \/ RequestAssociate(c) \/ Refuse(c)
       \/ \E s \in Senders : Datagram(c, s)
       \/ Sent(c) \/ Reply(c) \/ \E g \in Copies : CopyFails(c, g)
       \/ HandlerStep(c) \/ HelperStep(c)
  \/ \E e \in Exits : Switch(e)
  \/ SwitchUDP

Fairness == \A c \in Conns : WF_vars(HandlerStep(c)) /\ WF_vars(HelperStep(c))

Spec == Init /\ [][Next]_vars /\ Fairness

-----------------------------------------------------------------------------
\* Whatever fails or closes first, a handler that has returned leaves neither a
\* stream nor a relay, and one that serves has what it needs for it
\* (socks5.go:89-102, udp.go:26-90).
NothingLeftBehind ==
  \A c \in Conns :
    /\ at[c] \in {"free", "greet", "request", "done"} => stream[c] = None /\ ~relay[c]
    /\ kind[c] = "tcp" => ~relay[c]

\* A stream goes to an exit that was in force at some time since the request
\* was read, however often the exit was switched before (switchable.go:10-13).
FreshExit == \A c \in Conns : stream[c] # None => stream[c] \in since[c]

\* When the application closes its connection the handler returns and every
\* goroutine of the connection ends, also if the exit does not read any more
\* and whatever datagrams arrived (udp.go:71-90).
EndsWithApp ==
  \A c \in Conns : (at[c] # "free" /\ ~app[c]) ~> (at[c] = "done" /\ helpers[c] = {})

\* When the exit ends the stream of a TCP connection the application's end is
\* closed too (socks5.go:193-199).
EndsWithExit ==
  \A c \in Conns : (kind[c] = "tcp" /\ broken[c]) ~> (at[c] = "done" /\ helpers[c] = {})

\* Whichever end goes first, the connection and its goroutines end.
ConnectionsEnd == EndsWithApp /\ EndsWithExit
=============================================================================
