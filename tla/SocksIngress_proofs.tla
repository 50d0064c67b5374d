------------------------ MODULE SocksIngress_proofs ------------------------
(***************************************************************************)
(* Proofs about the SOCKS5 ingress, for any number of connections, senders *)
(* and exits and any number of switches: a handler that returned leaves    *)
(* nothing open, and a stream goes to an exit in force since its request.  *)
(***************************************************************************)
EXTENDS SocksIngress, TLAPS

Stages == {"free", "greet", "request", "dial", "open", "write", "reply", "pipe",
           "bound", "read", "tell", "send", "done"}
Targets == Exits \cup {None}
Addresses == Senders \cup {None}

\* The variables that belong to a connection.
ConnTypes ==
  /\ at \in [Conns -> Stages] /\ kind \in [Conns -> {"tcp", "udp", None}]
  /\ via \in [Conns -> Targets] /\ stream \in [Conns -> Targets]
  /\ app \in [Conns -> BOOLEAN] /\ broken \in [Conns -> BOOLEAN]
  /\ helpers \in [Conns -> SUBSET (Copies \cup {"reader", "watch"})]
  /\ since \in [Conns -> SUBSET Targets]

UdpTypes ==
  /\ relay \in [Conns -> BOOLEAN] /\ client \in [Conns -> Addresses]
  /\ offer \in [Conns -> Addresses] /\ peer \in [Conns -> Addresses]

ExitTypes == dialer \in Targets /\ udpExit \in Targets /\ switches \in Nat

\* Every variable has its type.
TypeOK == ConnTypes /\ UdpTypes /\ ExitTypes

\* What a handler that has not dialed yet may rely on: the request said what it
\* is for, and the exit in force at this moment was recorded for it.
Undialed(c) ==
  /\ at[c] = "bound" => kind[c] = "udp"
  /\ at[c] = "dial" => kind[c] \in {"tcp", "udp"}
  /\ at[c] = "dial" /\ kind[c] = "tcp" => dialer \in since[c]
  /\ at[c] \in {"bound", "dial"} /\ kind[c] = "udp" => udpExit \in since[c]

\* The exit read under the lock is one of those recorded.
Chosen(c) == at[c] = "open" => via[c] \in since[c]

\* The inductive invariant.  FreshExit alone is not inductive: that Open makes
\* a stream to an exit in force is Chosen, and that Dial reads one is Undialed.
IInv ==
  /\ TypeOK
  /\ \A c \in Conns : Undialed(c) /\ Chosen(c)
  /\ FreshExit /\ NothingLeftBehind

LEMMA InitOK == Init => IInv
BY DEF Init, IInv, TypeOK, ConnTypes, UdpTypes, ExitTypes, Stages, Targets, Addresses,
       Undialed, Chosen, FreshExit, NothingLeftBehind

-----------------------------------------------------------------------------
(* What a return of the handler, a step of its own and a step of one of    *)
(* its goroutines change.                                                  *)

\* Every return of a handler, for whatever reason.
LEMMA CloseOK ==
  ASSUME IInv, NEW c \in Conns, Close(c)
  PROVE  IInv'
<1> USE DEF IInv, TypeOK, ConnTypes, UdpTypes, ExitTypes
<1>1. TypeOK'
  BY DEF Close, Forget, exitVars, Stages, Targets, Addresses
<1>2. ASSUME NEW k \in Conns
      PROVE  (Undialed(k) /\ Chosen(k))'
  BY DEF Close, Forget, exitVars, Undialed, Chosen
<1>3. FreshExit' /\ NothingLeftBehind'
  BY DEF Close, Forget, FreshExit, NothingLeftBehind
<1> QED
  BY <1>1, <1>2, <1>3

\* The application, the exit and what a request asks for.
LEMMA OutsideOK ==
  ASSUME IInv, NEW c \in Conns,
         \/ Accept(c)
         \/ AppCloses(c)
         \/ ExitEnds(c)
         \/ Greet(c)
         \/ RequestConnect(c)
         \/ RequestAssociate(c)
         \/ \E s \in Senders : Datagram(c, s)
         \/ Sent(c)
         \/ Reply(c)
  PROVE  IInv'
<1> USE DEF IInv, TypeOK, ConnTypes, UdpTypes, ExitTypes, Stages, Targets, Addresses,
            handlerVars, udpVars, exitVars, Step, Undialed, Chosen, FreshExit,
            NothingLeftBehind
<1>1. CASE Accept(c)
  BY <1>1 DEF Accept
<1>2. CASE AppCloses(c)
  BY <1>2 DEF AppCloses
<1>3. CASE ExitEnds(c)
  BY <1>3 DEF ExitEnds, Dead
<1>4. CASE Greet(c)
  BY <1>4 DEF Greet
<1>5. CASE RequestConnect(c)
  BY <1>5 DEF RequestConnect
<1>6. CASE RequestAssociate(c)
  BY <1>6 DEF RequestAssociate
<1>7. CASE \E s \in Senders : Datagram(c, s)
  BY <1>7 DEF Datagram
<1>8. CASE Sent(c)
  BY <1>8 DEF Sent
<1>9. CASE Reply(c)
  BY <1>9 DEF Reply
<1> QED
  BY <1>1, <1>2, <1>3, <1>4, <1>5, <1>6, <1>7, <1>8, <1>9

\* The handler's own steps: Dial reads an exit that is recorded, Open makes the
\* stream to it.
LEMMA HandlerOK ==
  ASSUME IInv, NEW c \in Conns,
         \/ Associated(c)
         \/ Dial(c)
         \/ Open(c)
         \/ WriteTarget(c)
         \/ ReplyAndPipe(c)
         \/ Tell(c)
  PROVE  IInv'
<1> USE DEF IInv, TypeOK, ConnTypes, UdpTypes, ExitTypes, Stages, Targets, Addresses,
            handlerVars, udpVars, exitVars, Step, Undialed, Chosen, FreshExit,
            NothingLeftBehind
<1>1. CASE Associated(c)
  BY <1>1 DEF Associated
<1>2. CASE Dial(c)
  BY <1>2 DEF Dial
<1>3. CASE Open(c)
  BY <1>3 DEF Open, Copies
<1>4. CASE WriteTarget(c)
  BY <1>4 DEF WriteTarget
<1>5. CASE ReplyAndPipe(c)
  BY <1>5 DEF ReplyAndPipe, Copies
<1>6. CASE Tell(c)
  BY <1>6 DEF Tell
<1> QED
  BY <1>1, <1>2, <1>3, <1>4, <1>5, <1>6

\* The goroutines beside the handler.
LEMMA HelperOK ==
  ASSUME IInv, NEW c \in Conns, NEW g,
         \/ CopyOver(c, g)
         \/ ReaderEnds(c)
         \/ WatchEnds(c)
  PROVE  IInv'
<1> USE DEF IInv, TypeOK, ConnTypes, UdpTypes, ExitTypes, Stages, Targets, Addresses,
            handlerVars, udpVars, exitVars, Step, Undialed, Chosen, FreshExit,
            NothingLeftBehind
<1>1. CASE CopyOver(c, g)
  BY <1>1 DEF CopyOver, Ends, Copies
<1>2. CASE ReaderEnds(c)
  BY <1>2 DEF ReaderEnds, Ends
<1>3. CASE WatchEnds(c)
  BY <1>3 DEF WatchEnds, Ends
<1> QED
  BY <1>1, <1>2, <1>3

\* A switch changes what is in force and records it for those who wait.
LEMMA SwitchOK ==
  ASSUME IInv, (\E e \in Exits : Switch(e)) \/ SwitchUDP
  PROVE  IInv'
<1> USE DEF IInv, TypeOK, ConnTypes, UdpTypes, ExitTypes, Stages, Targets, Addresses,
            handlerVars, udpVars, exitVars, Step, Undialed, Chosen, FreshExit,
            NothingLeftBehind
<1>1. ASSUME NEW e \in Exits, Switch(e)
      PROVE  IInv'
  BY <1>1 DEF Switch
<1>2. CASE SwitchUDP
  BY <1>2 DEF SwitchUDP
<1> QED
  BY <1>1, <1>2

\* The invariant holds whatever applications, exits and the program do.
THEOREM InductiveInvariant == Spec => []IInv
<1>1. IInv /\ [Next]_vars => IInv'
  <2> SUFFICES ASSUME IInv, [Next]_vars PROVE IInv'
    OBVIOUS
  <2>1. CASE UNCHANGED vars
    BY <2>1 DEF vars, handlerVars, udpVars, exitVars, IInv, TypeOK, ConnTypes, UdpTypes,
                ExitTypes, Undialed, Chosen, FreshExit, NothingLeftBehind
  <2>2. ASSUME NEW c \in Conns,
               \/ Accept(c) \/ AppCloses(c) \/ ExitEnds(c)
               \/ Greet(c) \/ RequestConnect(c) \/ RequestAssociate(c) \/ Sent(c) \/ Reply(c)
        PROVE  IInv'
    BY <2>2, OutsideOK
  <2>3. ASSUME NEW c \in Conns, NEW s \in Senders, Datagram(c, s) PROVE IInv'
    BY <2>3, OutsideOK
  <2>4. ASSUME NEW c \in Conns, NEW g, CopyFails(c, g) PROVE IInv'
    BY <2>4, HelperOK DEF CopyFails
  <2>5. ASSUME NEW c \in Conns, HandlerStep(c) PROVE IInv'
    BY <2>5, HandlerOK, OutsideOK, CloseOK
       DEF HandlerStep, Abandoned, NoExit, Fails, PipeReturns, SendFails, ReadFails
  <2>6. ASSUME NEW c \in Conns, HelperStep(c) PROVE IInv'
    BY <2>6, HelperOK DEF HelperStep, CopyEnds
  <2> QED
    BY <2>1, <2>2, <2>3, <2>4, <2>5, <2>6, SwitchOK, CloseOK DEF Next, Refuse
<1> QED
  BY <1>1, InitOK, PTL DEF Spec

\* For any number of connections, exits and switches, a stream goes to an exit
\* that was in force at some time since its request.
THEOREM FreshExitHolds == Spec => []FreshExit
BY InductiveInvariant, PTL DEF IInv

\* Whatever fails or closes first, a handler that returned left no stream and
\* no relay open.
THEOREM NothingLeftHolds == Spec => []NothingLeftBehind
BY InductiveInvariant, PTL DEF IInv
=============================================================================
