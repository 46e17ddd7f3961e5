--------------------------- MODULE ProxyPairProofs ---------------------------
(***************************************************************************)
(* Proof of EndToEnd of ProxyPair by composition: what TcpProxyProofs      *)
(* shows of one proxy under its assumptions on "the other proxy" holds of  *)
(* each of the two programs here, because each meets the assumptions that  *)
(* the other one makes.                                                    *)
(*                                                                         *)
(* Client and Server are the two programs as TcpProxy sees them.  The one  *)
(* variable of TcpProxy that has no counterpart is `todo', what the other  *)
(* proxy has yet to send of a datagram: it is the beginning of the octets  *)
(* on their way that completes the datagrams that have arrived.            *)
(***************************************************************************)
EXTENDS ProxyPair, FrameFacts

\* What each program has sent and the other one has not received.
cWire == Cat(cOut["r"], cPend)
sWire == Cat(sOut["l"], sPend)

\* What each program has yet to get of a datagram, when nothing is added to that.
cRest == RestOf(sGot["l"], sWire)
sRest == RestOf(cGot["r"], cWire)

Client == INSTANCE TcpProxyProofs WITH
       conn <- cConn, in <- cIn, eof <- cEof, out <- cOut, shut <- cShut,
       sent <- cSent, got <- cGot, todo <- cRest, dgm <- cDgm, tcp <- cTcp,
       rx <- cRx, pend <- cPend, wantFin <- cWantFin, mask <- cMask,
       flags <- cFlags, pending <- cPending, cb <- cCb, reports <- cReports,
       have <- cHave, proc <- cProc

Server == INSTANCE TcpProxyProofs WITH
       conn <- sConn, in <- sIn, eof <- sEof, out <- sOut, shut <- sShut,
       sent <- sSent, got <- sGot, todo <- sRest, dgm <- sDgm, tcp <- sTcp,
       rx <- sRx, pend <- sPend, wantFin <- sWantFin, mask <- sMask,
       flags <- sFlags, pending <- sPending, cb <- sCb, reports <- sReports,
       have <- sHave, proc <- sProc

Octets == Client!Octets

\* A stream of host o: its octets in the order of their names.
Named(q, o) == Len(q) <= MaxOctets[o] /\ \A i \in DOMAIN q : q[i] = <<o, i>>

\* The connection in the middle.  What a program has received are the octets
\* that the other one has got rid of, and it has received FIN after all of them.
MidInv ==
  /\ cDgm = "r" /\ sDgm = "l"
  /\ sSent["l"] = Payload(cGot["r"]) /\ cSent["r"] = Payload(sGot["l"])
  /\ Named(cSent["l"], "l") /\ Named(sSent["r"], "r")
  /\ "l" \in sEof => cOut["r"] = <<>> /\ ("r" \in cShut \/ cProc # "running")
  /\ "r" \in cEof => sOut["l"] = <<>> /\ ("l" \in sShut \/ sProc # "running")

\* The inductive invariant.  TLC has checked it on small instances.
PairInv ==
  /\ Client!IndInv /\ Client!WireInv
  /\ Server!IndInv /\ Server!WireInv
  /\ MidInv

-----------------------------------------------------------------------------
(* The two programs under their two names.                                 *)

LEMMA ClientAssumptions ==
  Client!SocketAssumption /\ Client!ProxyAssumption /\ Client!DgmAssumption
<1>1. Client!SocketAssumption
  BY PairAssumption DEF Client!SocketAssumption, Client!Sides, Sides
<1>2. Client!ProxyAssumption
  BY PairAssumption, DgmAssumption DEF Client!ProxyAssumption
<1>3. Client!DgmAssumption
  BY DgmAssumption DEF Client!DgmAssumption
<1> QED
  BY <1>1, <1>2, <1>3

LEMMA ServerAssumptions ==
  Server!SocketAssumption /\ Server!ProxyAssumption /\ Server!DgmAssumption
<1>1. Server!SocketAssumption
  BY PairAssumption DEF Server!SocketAssumption, Server!Sides, Sides
<1>2. Server!ProxyAssumption
  BY PairAssumption, DgmAssumption DEF Server!ProxyAssumption
<1>3. Server!DgmAssumption
  BY DgmAssumption DEF Server!DgmAssumption
<1> QED
  BY <1>1, <1>2, <1>3

LEMMA OneFraming ==
  /\ Server!Octets = Octets
  /\ \A q : Client!Payload(q) = Payload(q) /\ Server!Payload(q) = Payload(q)
  /\ \A q : (Client!InStep(q) <=> InStep(q)) /\ (Server!InStep(q) <=> InStep(q))
  /\ \A q : Client!Frame(q) = Frame(q) /\ Server!Frame(q) = Frame(q)
<1>1. Server!Octets = Octets
  BY DEF Octets, Server!Octets, Server!Item, Server!HeaderOctet, Server!Sides,
         Client!Octets, Client!Item, Client!HeaderOctet, Client!Sides
<1>2. \A q : Client!Payload(q) = Payload(q) /\ Server!Payload(q) = Payload(q)
  BY DEF Payload, Client!Payload, Server!Payload, IsHeader, Client!IsHeader, Server!IsHeader
<1>3. \A q : (Client!InStep(q) <=> InStep(q)) /\ (Server!InStep(q) <=> InStep(q))
  BY DEF InStep, Client!InStep, Server!InStep, WellFramed, Client!WellFramed, Server!WellFramed,
         IsHeader, Client!IsHeader, Server!IsHeader, HdrLen, Client!HdrLen, Server!HdrLen
<1>4. \A q : Client!Frame(q) = Frame(q) /\ Server!Frame(q) = Frame(q)
  BY DEF Frame, Client!Frame, Server!Frame, Header, Client!Header, Server!Header,
         HdrLen, Client!HdrLen, Server!HdrLen
<1> QED
  BY <1>1, <1>2, <1>3, <1>4

LEMMA HeadersAreOctets == TypedHeaders(Octets)
<1>1. HeaderOctet \subseteq Octets
  BY DEF Octets, HeaderOctet, Client!Octets, Client!HeaderOctet
<1>2. \A e \in Octets : IsHeader(e) => e \in HeaderOctet
  BY DEF Octets, HeaderOctet, IsHeader, Client!Octets, Client!Item, Client!HeaderOctet, Client!Sides
<1> QED
  BY <1>1, <1>2 DEF TypedHeaders

\* What of the model of one proxy does not depend on `todo'.
LEMMA ClientNames ==
  /\ \A d : C!Passed(d) = Client!Passed(d) /\ C!Received(d) = Client!Received(d)
  /\ \A s : C!Failed(s) <=> Client!Failed(s)
  /\ \A p, q : Client!IsPrefix(p, q) <=> IsPrefix(p, q)
  /\ Client!Sides = Sides /\ \A s : Client!Peer(s) = Peer(s)
<1>1. \A q : C!Payload(q) = Client!Payload(q)
  BY DEF C!Payload, Client!Payload, C!IsHeader, Client!IsHeader
<1>2. \A d : C!Passed(d) = Client!Passed(d) /\ C!Received(d) = Client!Received(d)
  BY <1>1 DEF C!Passed, Client!Passed, C!Received, Client!Received
<1>3. \A s : C!Failed(s) <=> Client!Failed(s)
  BY DEF C!Failed, Client!Failed
<1>4. \A p, q : Client!IsPrefix(p, q) <=> IsPrefix(p, q)
  BY DEF IsPrefix, Client!IsPrefix, Taken, Client!Taken
<1>5. Client!Sides = Sides /\ \A s : Client!Peer(s) = Peer(s)
  BY DEF Sides, Client!Sides, Peer, Client!Peer
<1> QED
  BY <1>2, <1>3, <1>4, <1>5

\* What of the model of one proxy does not depend on `todo'.
LEMMA ServerNames ==
  /\ \A d : S!Passed(d) = Server!Passed(d) /\ S!Received(d) = Server!Received(d)
  /\ \A s : S!Failed(s) <=> Server!Failed(s)
  /\ \A p, q : Server!IsPrefix(p, q) <=> IsPrefix(p, q)
  /\ Server!Sides = Sides /\ \A s : Server!Peer(s) = Peer(s)
<1>1. \A q : S!Payload(q) = Server!Payload(q)
  BY DEF S!Payload, Server!Payload, S!IsHeader, Server!IsHeader
<1>2. \A d : S!Passed(d) = Server!Passed(d) /\ S!Received(d) = Server!Received(d)
  BY <1>1 DEF S!Passed, Server!Passed, S!Received, Server!Received
<1>3. \A s : S!Failed(s) <=> Server!Failed(s)
  BY DEF S!Failed, Server!Failed
<1>4. \A p, q : Server!IsPrefix(p, q) <=> IsPrefix(p, q)
  BY DEF IsPrefix, Server!IsPrefix, Taken, Server!Taken
<1>5. Server!Sides = Sides /\ \A s : Server!Peer(s) = Peer(s)
  BY DEF Sides, Server!Sides, Peer, Server!Peer
<1> QED
  BY <1>2, <1>3, <1>4, <1>5

\* The calls of the pipes do not depend on `todo' either.
LEMMA ClientCalls ==
  /\ \A s : C!Recvs(s) = Client!Recvs(s)
  /\ \A s : C!Fin(s) = Client!Fin(s)
  /\ \A s, n : C!SendResults(s, n) = Client!SendResults(s, n)
  /\ \A s : C!TcpFlags(s) = Client!TcpFlags(s) /\ C!TcpEvents(s) = Client!TcpEvents(s)
<1>1. \A s : C!Recvs(s) = Client!Recvs(s)
  <2>1. \A rx : C!ProcessRx(rx) = Client!ProcessRx(rx)
    BY ZenonT(60)
    DEF C!Bad, C!HdrLen, C!IsHeader, C!ProcessRx, C!Rest, C!Short, Client!Bad,
        Client!HdrLen, Client!IsHeader, Client!ProcessRx, Client!Rest, Client!Short
  <2>2. \A f, up : C!DgmFailed(f, up) = Client!DgmFailed(f, up)
    BY ZenonT(60)
    DEF C!DgmFailed, C!TagBroken, Client!DgmFailed, Client!TagBroken
  <2>3. \A is, data, f, pend, rx :
          C!DgmPassed(is, data, f, pend, rx) = Client!DgmPassed(is, data, f, pend, rx)
    BY ZenonT(60)
    DEF C!AtxClone, C!DgmPassed, Client!AtxClone, Client!DgmPassed
  <2>4. \A f, is : C!FlagsAfterRecv(f, is) = Client!FlagsAfterRecv(f, is)
    BY ZenonT(60)
    DEF C!FlagsAfterRecv, C!TagBroken, Client!FlagsAfterRecv, Client!TagBroken
  <2>5. \A f, pend, up, rx : C!DgmTaken(f, pend, up, rx) = Client!DgmTaken(f, pend, up, rx)
    BY ZenonT(60), <2>1, <2>2, <2>3 DEF C!DgmTaken, Client!DgmTaken
  <2>6. \A f, pend, up, rx, is, data : C!DgmReceived(f, pend, up, rx, is, data)
                                       = Client!DgmReceived(f, pend, up, rx, is, data)
    BY SMTT(30), <2>2, <2>3, <2>4, <2>5 DEF C!DgmReceived, Client!DgmReceived
  <2> DEFINE taken(s) == C!WithRead(C!DgmTaken(cTcp[s], cPend, cFlags[s], cRx), 0)
             read(s, r) == C!WithRead(C!DgmReceived(cTcp[s], cPend, cFlags[s], cRx, r.is,
                                                 C!Taken(cIn[s], r.n)), r.n)
             results(s) == C!RecvResults(s, C!RxSpace(cRx, RecvSize))
             Taken2(s) == Client!WithRead(Client!DgmTaken(cTcp[s], cPend, cFlags[s], cRx), 0)
             Read2(s, r) == Client!WithRead(Client!DgmReceived(cTcp[s], cPend, cFlags[s], cRx,
                                                       r.is, Client!Taken(cIn[s], r.n)), r.n)
             Results2(s) == Client!RecvResults(s, Client!RxSpace(cRx, RecvSize))
  <2>7. \A s : taken(s) = Taken2(s)
    BY ZenonT(60), <2>5 DEF C!WithRead, Client!WithRead
  <2>8. \A s, r : read(s, r) = Read2(s, r)
    BY ZenonT(60), <2>6 DEF C!WithRead, Client!WithRead, C!Taken, Client!Taken
  <2>9. \A s : results(s) = Results2(s)
    BY ZenonT(60)
    DEF C!Failed, C!RecvOutcome, C!RecvResults, C!RxSpace, Client!Failed,
        Client!RecvOutcome, Client!RecvResults, Client!RxSpace
  <2>10. C!LeftOver(cRx) <=> Client!LeftOver(cRx)
    BY ZenonT(60), <2>1 DEF C!LeftOver, Client!LeftOver
  <2>11. \A s : C!PlainRecvs(s) = Client!PlainRecvs(s)
    BY ZenonT(60)
    DEF C!Failed, C!FlagsAfterRecv, C!PlainRecvs, C!RecvOutcome, C!RecvResults, C!TagBroken,
        C!Taken, Client!Failed, Client!FlagsAfterRecv, Client!PlainRecvs,
        Client!RecvOutcome, Client!RecvResults, Client!TagBroken, Client!Taken
  <2>12. \A s : C!DgmRecvs(s) = IF C!LeftOver(cRx) THEN {taken(s)}
                                ELSE {read(s, r) : r \in results(s)}
    BY DEF C!DgmRecvs
  <2>13. \A s : Client!DgmRecvs(s) = IF Client!LeftOver(cRx) THEN {Taken2(s)}
                                     ELSE {Read2(s, r) : r \in Results2(s)}
    BY DEF Client!DgmRecvs
  <2> HIDE DEF taken, read, results, Taken2, Read2, Results2
  <2>14. \A s : {read(s, r) : r \in results(s)} = {Read2(s, r) : r \in Results2(s)}
    BY <2>8, <2>9
  <2>15. \A s : C!DgmRecvs(s) = Client!DgmRecvs(s)
    BY <2>7, <2>10, <2>12, <2>13, <2>14
  <2> QED
    BY <2>11, <2>15 DEF C!Recvs, Client!Recvs
<1>2. \A s : C!Fin(s) = Client!Fin(s)
  BY ZenonT(60)
  DEF C!AtxClone, C!AtxFin, C!Failed, C!Fin, C!FlagsAfterFin, C!TagBroken, Client!AtxClone,
      Client!AtxFin, Client!Failed, Client!Fin, Client!FlagsAfterFin, Client!TagBroken
<1>3. \A s, n : C!SendResults(s, n) = Client!SendResults(s, n)
  BY ZenonT(60)
  DEF C!Failed, C!Free, C!SendOutcome, C!SendResults, Client!Failed, Client!Free,
      Client!SendOutcome, Client!SendResults
<1>4. \A s : C!TcpFlags(s) = Client!TcpFlags(s) /\ C!TcpEvents(s) = Client!TcpEvents(s)
  BY ZenonT(60)
  DEF C!ConnectFailed, C!EventsOnActivity, C!Failed, C!FlagsOnActivity, C!TagBroken,
      C!TcpEvents, C!TcpFlags, Client!ConnectFailed, Client!EventsOnActivity, Client!Failed,
      Client!FlagsOnActivity, Client!TagBroken, Client!TcpEvents, Client!TcpFlags
<1> QED
  BY <1>1, <1>2, <1>3, <1>4

\* A step of a program is one of TcpProxy.
LEMMA ClientActs ==
  ASSUME CStep
  PROVE  Client!Proxy
<1>0. UNCHANGED cRest
  BY DEF CStep, sVars, sProgram, cRest, sWire
<1>1. C!Select => Client!Select
  BY <1>0
  DEF C!Dead, C!Dispatched, C!Failed, C!Free, C!ReadyEvents, C!Select, C!Sides, C!SkEvent,
      C!bridgeVars, C!hostVars, C!pipeVars, C!sockVars, Client!Dead, Client!Dispatched,
      Client!Failed, Client!Free, Client!ReadyEvents, Client!Select, Client!Sides,
      Client!SkEvent, Client!bridgeVars, Client!hostVars, Client!pipeVars, Client!sockVars
<1>2. C!DispatchPlain => Client!DispatchPlain
  BY <1>0
  DEF C!BridgeCalled, C!BridgeCalledAsserts, C!ConnectFailed, C!Dead, C!DispatchPlain,
      C!Dispatching, C!EventMask, C!EventsOnActivity, C!Failed, C!FlagsOnActivity, C!Idle,
      C!OnActivityAsserts, C!Peer, C!Plain, C!SetPipe, C!SetPipes, C!Sides, C!Survives,
      C!TagBroken, C!TcpEvents, C!TcpFlags, C!hostVars, C!sockVars, Client!BridgeCalled,
      Client!BridgeCalledAsserts, Client!ConnectFailed, Client!Dead, Client!DispatchPlain,
      Client!Dispatching, Client!EventMask, Client!EventsOnActivity, Client!Failed,
      Client!FlagsOnActivity, Client!Idle, Client!OnActivityAsserts, Client!Peer,
      Client!Plain, Client!SetPipe, Client!SetPipes, Client!Sides, Client!Survives,
      Client!TagBroken, Client!TcpEvents, Client!TcpFlags, Client!hostVars, Client!sockVars
<1>3. C!DispatchDgm => Client!DispatchDgm
  BY <1>0
  DEF C!AtxCalls, C!AtxClone, C!AtxNothingToFlush, C!BridgeCalled, C!BridgeCalledAsserts,
      C!ConnectFailed, C!Dead, C!DispatchDgm, C!Dispatching, C!EventMask, C!EventsOnActivity,
      C!Failed, C!FlagsOnActivity, C!Idle, C!OnActivityAsserts, C!SetPipe, C!SetPipes,
      C!Sides, C!Survives, C!TagBroken, C!TcpEvents, C!TcpFlags, C!hostVars, C!sockVars,
      Client!AtxCalls, Client!AtxClone, Client!AtxNothingToFlush, Client!BridgeCalled,
      Client!BridgeCalledAsserts, Client!ConnectFailed, Client!Dead, Client!DispatchDgm,
      Client!Dispatching, Client!EventMask, Client!EventsOnActivity, Client!Failed,
      Client!FlagsOnActivity, Client!Idle, Client!OnActivityAsserts, Client!SetPipe,
      Client!SetPipes, Client!Sides, Client!Survives, Client!TagBroken, Client!TcpEvents,
      Client!TcpFlags, Client!hostVars, Client!sockVars
<1>4. C!DispatchDgmFlush => Client!DispatchDgmFlush
  <2> DEFINE Step(W, f, ev) ==
             /\ Client!Dispatching(cDgm)
             /\ "writable" \in ev /\ cPend # <<>>
             /\ \E w \in W :
                  /\ Client!AtxCalls(Client!AtxFlushed(f, ev, cPend, cWantFin, w,
                                         ~Client!Failed(cDgm)))
                  /\ cOut' = [cOut EXCEPT ![cDgm] = @ \o Client!Taken(cPend, w.n)]
                  /\ cShut' = IF cWantFin /\ w.is = "all" THEN cShut \cup {cDgm} ELSE cShut
             /\ UNCHANGED <<cConn, cIn, cEof, cSent, cGot, cRest, cDgm, cRx, cWantFin>>
  <2>1. C!DispatchDgmFlush =>
          Step(C!SendResults(cDgm, Len(cPend)), C!TcpFlags(cDgm), C!TcpEvents(cDgm))
    BY ZenonT(60), <1>0
    DEF C!AtxCalls, C!AtxClone, C!AtxFlushed, C!BridgeCalled, C!BridgeCalledAsserts,
        C!ConnectFailed, C!Dead, C!DispatchDgmFlush, C!Dispatching, C!EventMask, C!Failed,
        C!FlagsAfterFin, C!FlagsAfterSend, C!Idle, C!OnActivityAsserts, C!Rest, C!SetPipe,
        C!SetPipes, C!Sides, C!Survives, C!TagBroken, C!Taken, Client!AtxCalls,
        Client!AtxClone, Client!AtxFlushed, Client!BridgeCalled, Client!BridgeCalledAsserts,
        Client!ConnectFailed, Client!Dead, Client!DispatchDgmFlush, Client!Dispatching,
        Client!EventMask, Client!Failed, Client!FlagsAfterFin, Client!FlagsAfterSend,
        Client!Idle, Client!OnActivityAsserts, Client!Rest, Client!SetPipe, Client!SetPipes,
        Client!Sides, Client!Survives, Client!TagBroken, Client!Taken
  <2>2. /\ C!SendResults(cDgm, Len(cPend)) = Client!SendResults(cDgm, Len(cPend))
        /\ C!TcpFlags(cDgm) = Client!TcpFlags(cDgm)
        /\ C!TcpEvents(cDgm) = Client!TcpEvents(cDgm)
    BY ClientCalls
  <2>3. Step(Client!SendResults(cDgm, Len(cPend)), Client!TcpFlags(cDgm), Client!TcpEvents(cDgm))
          => Client!DispatchDgmFlush
    BY ZenonT(60) DEF Client!DispatchDgmFlush
  <2> HIDE DEF Step
  <2> QED
    BY <2>1, <2>2, <2>3
<1>5. C!Flush => Client!Flush
  BY <1>0
  DEF C!AtxClone, C!AtxSent, C!DgmRefused, C!DgmSends, C!DgmSent, C!EventMask, C!Failed,
      C!FlagsAfterSend, C!Flush, C!Flushed, C!FlushedAsserts, C!Frame, C!Free, C!GoTo,
      C!HdrLen, C!Header, C!Idle, C!MaySend, C!PlainSends, C!Proceed, C!Rest, C!SendAsserts,
      C!SendOutcome, C!SendResults, C!Sends, C!SetPipe, C!SetPipes, C!Shutdown,
      C!SideSendAsserts, C!Sides, C!Survives, C!TagBroken, C!Taken, Client!AtxClone,
      Client!AtxSent, Client!DgmRefused, Client!DgmSends, Client!DgmSent, Client!EventMask,
      Client!Failed, Client!FlagsAfterSend, Client!Flush, Client!Flushed,
      Client!FlushedAsserts, Client!Frame, Client!Free, Client!GoTo, Client!HdrLen,
      Client!Header, Client!Idle, Client!MaySend, Client!PlainSends, Client!Proceed,
      Client!Rest, Client!SendAsserts, Client!SendOutcome, Client!SendResults, Client!Sends,
      Client!SetPipe, Client!SetPipes, Client!Shutdown, Client!SideSendAsserts, Client!Sides,
      Client!Survives, Client!TagBroken, Client!Taken
<1>6. C!RelayNothing => Client!RelayNothing
  <2> DEFINE Step(R) ==
             /\ cProc = "running" /\ Client!InRelay /\ Client!Relaying
             /\ \E r \in R :
                  /\ r.is = "nothing"
                  /\ cIn' = [cIn EXCEPT ![Client!Src] = Client!Rest(@, r.read)]
                  /\ cRx' = r.rx
                  /\ Client!SetPipe(Client!Src, r.tcp, r.up)
                  /\ Client!RelayedNothing(r.up)
             /\ Client!Survives(Client!RelayAsserts /\ Client!SideRecvAsserts(Client!Src))
             /\ UNCHANGED <<cConn, cEof, cOut, cShut, cSent, cGot, cRest, cDgm, cPend, cWantFin, cHave>>
  <2>1. C!RelayNothing => Step(C!Recvs(C!Src))
    BY ZenonT(60), <1>0
    DEF C!Bad, C!Dst, C!EventMask, C!GoTo, C!HdrLen, C!Idle, C!InRelay, C!IsHeader,
        C!LeftOver, C!Peer, C!Proceed, C!ProcessRx, C!RecvAsserts, C!RelayAsserts,
        C!RelayNothing, C!RelayedNothing, C!Relaying, C!Rest, C!RxSpace, C!SetPipe,
        C!SetPipes, C!Short, C!Shutdown, C!SideRecvAsserts, C!Sides, C!Src, C!Survives,
        Client!Bad, Client!Dst, Client!EventMask, Client!GoTo, Client!HdrLen, Client!Idle,
        Client!InRelay, Client!IsHeader, Client!LeftOver, Client!Peer, Client!Proceed,
        Client!ProcessRx, Client!RecvAsserts, Client!RelayAsserts, Client!RelayNothing,
        Client!RelayedNothing, Client!Relaying, Client!Rest, Client!RxSpace, Client!SetPipe,
        Client!SetPipes, Client!Short, Client!Shutdown, Client!SideRecvAsserts,
        Client!Sides, Client!Src, Client!Survives
  <2>2. C!Recvs(C!Src) = Client!Recvs(Client!Src)
    BY ClientCalls DEF C!Src, C!Dst, C!Peer, Client!Src, Client!Dst, Client!Peer
  <2>3. Step(Client!Recvs(Client!Src)) => Client!RelayNothing
    BY ZenonT(60) DEF Client!RelayNothing
  <2> HIDE DEF Step
  <2> QED
    BY <2>1, <2>2, <2>3
<1>7. C!RelayFin => Client!RelayFin
  <2> DEFINE Step(R, F) ==
             /\ cProc = "running" /\ Client!InRelay /\ Client!Relaying
             /\ \E r \in R :
                  /\ r.is = "fin"
                  /\ Client!SetPipes([cTcp EXCEPT ![Client!Src] = r.tcp, ![Client!Dst] = F.tcp],
                              [cFlags EXCEPT ![Client!Src] = r.up, ![Client!Dst] = F.up])
                  /\ cWantFin' = F.wantFin
                  /\ Client!RelayedFin(F.up)
                  /\ Client!Survives(/\ Client!RelayAsserts /\ Client!SideRecvAsserts(Client!Src)
                              /\ Client!RelayedFinAsserts(r.up) /\ Client!FinAsserts(Client!Dst))
             /\ cShut' = IF "fin_sent" \in F.tcp THEN cShut \cup {Client!Dst} ELSE cShut
             /\ UNCHANGED <<cConn, cIn, cEof, cOut, cSent, cGot, cRest, cDgm, cRx, cPend, cHave>>
  <2>1. C!RelayFin => Step(C!Recvs(C!Src), C!Fin(C!Dst))
    BY ZenonT(60), <1>0
    DEF C!AtxClone, C!AtxFinAsserts, C!Bad, C!Dst, C!EventMask, C!FinAsserts, C!GoTo,
        C!HdrLen, C!Idle, C!InRelay, C!IsHeader, C!LeftOver, C!Peer, C!Proceed, C!ProcessRx,
        C!RecvAsserts, C!RelayAsserts, C!RelayFin, C!RelayedFin, C!RelayedFinAsserts,
        C!Relaying, C!Rest, C!RxSpace, C!SetPipes, C!Short, C!Shutdown, C!SideRecvAsserts,
        C!Sides, C!Src, C!Survives, Client!AtxClone, Client!AtxFinAsserts, Client!Bad,
        Client!Dst, Client!EventMask, Client!FinAsserts, Client!GoTo, Client!HdrLen,
        Client!Idle, Client!InRelay, Client!IsHeader, Client!LeftOver, Client!Peer,
        Client!Proceed, Client!ProcessRx, Client!RecvAsserts, Client!RelayAsserts,
        Client!RelayFin, Client!RelayedFin, Client!RelayedFinAsserts, Client!Relaying,
        Client!Rest, Client!RxSpace, Client!SetPipes, Client!Short, Client!Shutdown,
        Client!SideRecvAsserts, Client!Sides, Client!Src, Client!Survives
  <2>2. /\ C!Recvs(C!Src) = Client!Recvs(Client!Src)
        /\ C!Fin(C!Dst) = Client!Fin(Client!Dst)
    BY ClientCalls DEF C!Src, C!Dst, C!Peer, Client!Src, Client!Dst, Client!Peer
  <2>3. Step(Client!Recvs(Client!Src), Client!Fin(Client!Dst)) => Client!RelayFin
    BY ZenonT(60) DEF Client!RelayFin
  <2> HIDE DEF Step
  <2> QED
    BY <2>1, <2>2, <2>3
<1>8. C!RelayData => Client!RelayData
  <2> DEFINE Step(R) ==
             /\ cProc = "running" /\ Client!InRelay /\ Client!Relaying
             /\ \E r \in R :
                  /\ r.is = "data"
                  /\ \E w \in Client!Sends(Client!Dst, r.data) :
                       /\ cIn' = [cIn EXCEPT ![Client!Src] = Client!Rest(@, r.read)]
                       /\ cOut' = [cOut EXCEPT ![Client!Dst] = @ \o w.put]
                       /\ cRx' = r.rx /\ cPend' = w.pend
                       /\ Client!SetPipes([cTcp EXCEPT ![Client!Src] = r.tcp, ![Client!Dst] = w.tcp],
                                   [cFlags EXCEPT ![Client!Src] = r.up, ![Client!Dst] = w.up])
                       /\ Client!RelayedData(r.data, w.n, w.up)
                       /\ Client!Survives(/\ Client!RelayAsserts /\ Client!SideRecvAsserts(Client!Src)
                                   /\ Client!SideSendAsserts(Client!Dst, w)
                                   /\ Client!RelayedDataAsserts(r.data, w.n, w.up))
             /\ UNCHANGED <<cConn, cEof, cShut, cSent, cGot, cRest, cDgm, cWantFin, cHave>>
  <2>1. C!RelayData => Step(C!Recvs(C!Src))
    BY ZenonT(60), <1>0
    DEF C!AtxClone, C!AtxSent, C!Bad, C!DgmRefused, C!DgmSends, C!DgmSent, C!Dst,
        C!EventMask, C!Failed, C!FlagsAfterSend, C!Frame, C!Free, C!GoTo, C!HdrLen,
        C!Header, C!Idle, C!InRelay, C!IsHeader, C!LeftOver, C!MaySend, C!Peer,
        C!PlainSends, C!Proceed, C!ProcessRx, C!RecvAsserts, C!RelayAsserts, C!RelayData,
        C!RelayedData, C!RelayedDataAsserts, C!Relaying, C!Rest, C!RxSpace, C!SendAsserts,
        C!SendOutcome, C!SendResults, C!Sends, C!SetPipes, C!Short, C!Shutdown,
        C!SideRecvAsserts, C!SideSendAsserts, C!Sides, C!Src, C!Survives, C!TagBroken,
        C!Taken, Client!AtxClone, Client!AtxSent, Client!Bad, Client!DgmRefused,
        Client!DgmSends, Client!DgmSent, Client!Dst, Client!EventMask, Client!Failed,
        Client!FlagsAfterSend, Client!Frame, Client!Free, Client!GoTo, Client!HdrLen,
        Client!Header, Client!Idle, Client!InRelay, Client!IsHeader, Client!LeftOver,
        Client!MaySend, Client!Peer, Client!PlainSends, Client!Proceed, Client!ProcessRx,
        Client!RecvAsserts, Client!RelayAsserts, Client!RelayData, Client!RelayedData,
        Client!RelayedDataAsserts, Client!Relaying, Client!Rest, Client!RxSpace,
        Client!SendAsserts, Client!SendOutcome, Client!SendResults, Client!Sends,
        Client!SetPipes, Client!Short, Client!Shutdown, Client!SideRecvAsserts,
        Client!SideSendAsserts, Client!Sides, Client!Src, Client!Survives, Client!TagBroken,
        Client!Taken
  <2>2. C!Recvs(C!Src) = Client!Recvs(Client!Src)
    BY ClientCalls DEF C!Src, C!Dst, C!Peer, Client!Src, Client!Dst, Client!Peer
  <2>3. Step(Client!Recvs(Client!Src)) => Client!RelayData
    BY ZenonT(60) DEF Client!RelayData
  <2> HIDE DEF Step
  <2> QED
    BY <2>1, <2>2, <2>3
<1>9. C!RelayTurns => Client!RelayTurns
  BY <1>0
  DEF C!Dst, C!GoTo, C!Peer, C!RelayInEnds, C!RelayTurns, C!Relaying, C!Src, C!hostVars,
      C!pipeVars, C!sockVars, Client!Dst, Client!GoTo, Client!Peer, Client!RelayInEnds,
      Client!RelayTurns, Client!Relaying, Client!Src, Client!hostVars, Client!pipeVars,
      Client!sockVars
<1>10. C!Return => Client!Return
  BY <1>0
  DEF C!CallbackEnds, C!Dst, C!Idle, C!Peer, C!Relaying, C!Return, C!Shutdown, C!Src,
      C!hostVars, C!pipeVars, C!sockVars, Client!CallbackEnds, Client!Dst, Client!Idle,
      Client!Peer, Client!Relaying, Client!Return, Client!Shutdown, Client!Src,
      Client!hostVars, Client!pipeVars, Client!sockVars
<1>11. C!Exit => Client!Exit
  BY <1>0
  DEF C!Dead, C!Dispatched, C!Exit, C!Sides, C!bridgeVars, C!pipeVars, Client!Dead,
      Client!Dispatched, Client!Exit, Client!Sides, Client!bridgeVars, Client!pipeVars
<1> QED
  BY <1>1, <1>2, <1>3, <1>4, <1>5, <1>6, <1>7, <1>8, <1>9, <1>10, <1>11 DEF CStep, C!Proxy, Client!Proxy

\* The calls of the pipes do not depend on `todo' either.
LEMMA ServerCalls ==
  /\ \A s : S!Recvs(s) = Server!Recvs(s)
  /\ \A s : S!Fin(s) = Server!Fin(s)
  /\ \A s, n : S!SendResults(s, n) = Server!SendResults(s, n)
  /\ \A s : S!TcpFlags(s) = Server!TcpFlags(s) /\ S!TcpEvents(s) = Server!TcpEvents(s)
<1>1. \A s : S!Recvs(s) = Server!Recvs(s)
  <2>1. \A rx : S!ProcessRx(rx) = Server!ProcessRx(rx)
    BY ZenonT(60)
    DEF S!Bad, S!HdrLen, S!IsHeader, S!ProcessRx, S!Rest, S!Short, Server!Bad,
        Server!HdrLen, Server!IsHeader, Server!ProcessRx, Server!Rest, Server!Short
  <2>2. \A f, up : S!DgmFailed(f, up) = Server!DgmFailed(f, up)
    BY ZenonT(60)
    DEF S!DgmFailed, S!TagBroken, Server!DgmFailed, Server!TagBroken
  <2>3. \A is, data, f, pend, rx :
          S!DgmPassed(is, data, f, pend, rx) = Server!DgmPassed(is, data, f, pend, rx)
    BY ZenonT(60)
    DEF S!AtxClone, S!DgmPassed, Server!AtxClone, Server!DgmPassed
  <2>4. \A f, is : S!FlagsAfterRecv(f, is) = Server!FlagsAfterRecv(f, is)
    BY ZenonT(60)
    DEF S!FlagsAfterRecv, S!TagBroken, Server!FlagsAfterRecv, Server!TagBroken
  <2>5. \A f, pend, up, rx : S!DgmTaken(f, pend, up, rx) = Server!DgmTaken(f, pend, up, rx)
    BY ZenonT(60), <2>1, <2>2, <2>3 DEF S!DgmTaken, Server!DgmTaken
  <2>6. \A f, pend, up, rx, is, data : S!DgmReceived(f, pend, up, rx, is, data)
                                       = Server!DgmReceived(f, pend, up, rx, is, data)
    BY SMTT(30), <2>2, <2>3, <2>4, <2>5 DEF S!DgmReceived, Server!DgmReceived
  <2> DEFINE taken(s) == S!WithRead(S!DgmTaken(sTcp[s], sPend, sFlags[s], sRx), 0)
             read(s, r) == S!WithRead(S!DgmReceived(sTcp[s], sPend, sFlags[s], sRx, r.is,
                                                 S!Taken(sIn[s], r.n)), r.n)
             results(s) == S!RecvResults(s, S!RxSpace(sRx, RecvSize))
             Taken2(s) == Server!WithRead(Server!DgmTaken(sTcp[s], sPend, sFlags[s], sRx), 0)
             Read2(s, r) == Server!WithRead(Server!DgmReceived(sTcp[s], sPend, sFlags[s], sRx,
                                                       r.is, Server!Taken(sIn[s], r.n)), r.n)
             Results2(s) == Server!RecvResults(s, Server!RxSpace(sRx, RecvSize))
  <2>7. \A s : taken(s) = Taken2(s)
    BY ZenonT(60), <2>5 DEF S!WithRead, Server!WithRead
  <2>8. \A s, r : read(s, r) = Read2(s, r)
    BY ZenonT(60), <2>6 DEF S!WithRead, Server!WithRead, S!Taken, Server!Taken
  <2>9. \A s : results(s) = Results2(s)
    BY ZenonT(60)
    DEF S!Failed, S!RecvOutcome, S!RecvResults, S!RxSpace, Server!Failed,
        Server!RecvOutcome, Server!RecvResults, Server!RxSpace
  <2>10. S!LeftOver(sRx) <=> Server!LeftOver(sRx)
    BY ZenonT(60), <2>1 DEF S!LeftOver, Server!LeftOver
  <2>11. \A s : S!PlainRecvs(s) = Server!PlainRecvs(s)
    BY ZenonT(60)
    DEF S!Failed, S!FlagsAfterRecv, S!PlainRecvs, S!RecvOutcome, S!RecvResults, S!TagBroken,
        S!Taken, Server!Failed, Server!FlagsAfterRecv, Server!PlainRecvs,
        Server!RecvOutcome, Server!RecvResults, Server!TagBroken, Server!Taken
  <2>12. \A s : S!DgmRecvs(s) = IF S!LeftOver(sRx) THEN {taken(s)}
                                ELSE {read(s, r) : r \in results(s)}
    BY DEF S!DgmRecvs
  <2>13. \A s : Server!DgmRecvs(s) = IF Server!LeftOver(sRx) THEN {Taken2(s)}
                                     ELSE {Read2(s, r) : r \in Results2(s)}
    BY DEF Server!DgmRecvs
  <2> HIDE DEF taken, read, results, Taken2, Read2, Results2
  <2>14. \A s : {read(s, r) : r \in results(s)} = {Read2(s, r) : r \in Results2(s)}
    BY <2>8, <2>9
  <2>15. \A s : S!DgmRecvs(s) = Server!DgmRecvs(s)
    BY <2>7, <2>10, <2>12, <2>13, <2>14
  <2> QED
    BY <2>11, <2>15 DEF S!Recvs, Server!Recvs
<1>2. \A s : S!Fin(s) = Server!Fin(s)
  BY ZenonT(60)
  DEF S!AtxClone, S!AtxFin, S!Failed, S!Fin, S!FlagsAfterFin, S!TagBroken, Server!AtxClone,
      Server!AtxFin, Server!Failed, Server!Fin, Server!FlagsAfterFin, Server!TagBroken
<1>3. \A s, n : S!SendResults(s, n) = Server!SendResults(s, n)
  BY ZenonT(60)
  DEF S!Failed, S!Free, S!SendOutcome, S!SendResults, Server!Failed, Server!Free,
      Server!SendOutcome, Server!SendResults
<1>4. \A s : S!TcpFlags(s) = Server!TcpFlags(s) /\ S!TcpEvents(s) = Server!TcpEvents(s)
  BY ZenonT(60)
  DEF S!ConnectFailed, S!EventsOnActivity, S!Failed, S!FlagsOnActivity, S!TagBroken,
      S!TcpEvents, S!TcpFlags, Server!ConnectFailed, Server!EventsOnActivity, Server!Failed,
      Server!FlagsOnActivity, Server!TagBroken, Server!TcpEvents, Server!TcpFlags
<1> QED
  BY <1>1, <1>2, <1>3, <1>4

LEMMA ServerActs ==
  ASSUME SStep
  PROVE  Server!Proxy
<1>0. UNCHANGED sRest
  BY DEF SStep, cVars, cProgram, sRest, cWire
<1>1. S!Select => Server!Select
  BY <1>0
  DEF S!Dead, S!Dispatched, S!Failed, S!Free, S!ReadyEvents, S!Select, S!Sides, S!SkEvent,
      S!bridgeVars, S!hostVars, S!pipeVars, S!sockVars, Server!Dead, Server!Dispatched,
      Server!Failed, Server!Free, Server!ReadyEvents, Server!Select, Server!Sides,
      Server!SkEvent, Server!bridgeVars, Server!hostVars, Server!pipeVars, Server!sockVars
<1>2. S!DispatchPlain => Server!DispatchPlain
  BY <1>0
  DEF S!BridgeCalled, S!BridgeCalledAsserts, S!ConnectFailed, S!Dead, S!DispatchPlain,
      S!Dispatching, S!EventMask, S!EventsOnActivity, S!Failed, S!FlagsOnActivity, S!Idle,
      S!OnActivityAsserts, S!Peer, S!Plain, S!SetPipe, S!SetPipes, S!Sides, S!Survives,
      S!TagBroken, S!TcpEvents, S!TcpFlags, S!hostVars, S!sockVars, Server!BridgeCalled,
      Server!BridgeCalledAsserts, Server!ConnectFailed, Server!Dead, Server!DispatchPlain,
      Server!Dispatching, Server!EventMask, Server!EventsOnActivity, Server!Failed,
      Server!FlagsOnActivity, Server!Idle, Server!OnActivityAsserts, Server!Peer,
      Server!Plain, Server!SetPipe, Server!SetPipes, Server!Sides, Server!Survives,
      Server!TagBroken, Server!TcpEvents, Server!TcpFlags, Server!hostVars, Server!sockVars
<1>3. S!DispatchDgm => Server!DispatchDgm
  BY <1>0
  DEF S!AtxCalls, S!AtxClone, S!AtxNothingToFlush, S!BridgeCalled, S!BridgeCalledAsserts,
      S!ConnectFailed, S!Dead, S!DispatchDgm, S!Dispatching, S!EventMask, S!EventsOnActivity,
      S!Failed, S!FlagsOnActivity, S!Idle, S!OnActivityAsserts, S!SetPipe, S!SetPipes,
      S!Sides, S!Survives, S!TagBroken, S!TcpEvents, S!TcpFlags, S!hostVars, S!sockVars,
      Server!AtxCalls, Server!AtxClone, Server!AtxNothingToFlush, Server!BridgeCalled,
      Server!BridgeCalledAsserts, Server!ConnectFailed, Server!Dead, Server!DispatchDgm,
      Server!Dispatching, Server!EventMask, Server!EventsOnActivity, Server!Failed,
      Server!FlagsOnActivity, Server!Idle, Server!OnActivityAsserts, Server!SetPipe,
      Server!SetPipes, Server!Sides, Server!Survives, Server!TagBroken, Server!TcpEvents,
      Server!TcpFlags, Server!hostVars, Server!sockVars
<1>4. S!DispatchDgmFlush => Server!DispatchDgmFlush
  <2> DEFINE Step(W, f, ev) ==
             /\ Server!Dispatching(sDgm)
             /\ "writable" \in ev /\ sPend # <<>>
             /\ \E w \in W :
                  /\ Server!AtxCalls(Server!AtxFlushed(f, ev, sPend, sWantFin, w,
                                         ~Server!Failed(sDgm)))
                  /\ sOut' = [sOut EXCEPT ![sDgm] = @ \o Server!Taken(sPend, w.n)]
                  /\ sShut' = IF sWantFin /\ w.is = "all" THEN sShut \cup {sDgm} ELSE sShut
             /\ UNCHANGED <<sConn, sIn, sEof, sSent, sGot, sRest, sDgm, sRx, sWantFin>>
  <2>1. S!DispatchDgmFlush =>
          Step(S!SendResults(sDgm, Len(sPend)), S!TcpFlags(sDgm), S!TcpEvents(sDgm))
    BY ZenonT(60), <1>0
    DEF S!AtxCalls, S!AtxClone, S!AtxFlushed, S!BridgeCalled, S!BridgeCalledAsserts,
        S!ConnectFailed, S!Dead, S!DispatchDgmFlush, S!Dispatching, S!EventMask, S!Failed,
        S!FlagsAfterFin, S!FlagsAfterSend, S!Idle, S!OnActivityAsserts, S!Rest, S!SetPipe,
        S!SetPipes, S!Sides, S!Survives, S!TagBroken, S!Taken, Server!AtxCalls,
        Server!AtxClone, Server!AtxFlushed, Server!BridgeCalled, Server!BridgeCalledAsserts,
        Server!ConnectFailed, Server!Dead, Server!DispatchDgmFlush, Server!Dispatching,
        Server!EventMask, Server!Failed, Server!FlagsAfterFin, Server!FlagsAfterSend,
        Server!Idle, Server!OnActivityAsserts, Server!Rest, Server!SetPipe, Server!SetPipes,
        Server!Sides, Server!Survives, Server!TagBroken, Server!Taken
  <2>2. /\ S!SendResults(sDgm, Len(sPend)) = Server!SendResults(sDgm, Len(sPend))
        /\ S!TcpFlags(sDgm) = Server!TcpFlags(sDgm)
        /\ S!TcpEvents(sDgm) = Server!TcpEvents(sDgm)
    BY ServerCalls
  <2>3. Step(Server!SendResults(sDgm, Len(sPend)), Server!TcpFlags(sDgm), Server!TcpEvents(sDgm))
          => Server!DispatchDgmFlush
    BY ZenonT(60) DEF Server!DispatchDgmFlush
  <2> HIDE DEF Step
  <2> QED
    BY <2>1, <2>2, <2>3
<1>5. S!Flush => Server!Flush
  BY <1>0
  DEF S!AtxClone, S!AtxSent, S!DgmRefused, S!DgmSends, S!DgmSent, S!EventMask, S!Failed,
      S!FlagsAfterSend, S!Flush, S!Flushed, S!FlushedAsserts, S!Frame, S!Free, S!GoTo,
      S!HdrLen, S!Header, S!Idle, S!MaySend, S!PlainSends, S!Proceed, S!Rest, S!SendAsserts,
      S!SendOutcome, S!SendResults, S!Sends, S!SetPipe, S!SetPipes, S!Shutdown,
      S!SideSendAsserts, S!Sides, S!Survives, S!TagBroken, S!Taken, Server!AtxClone,
      Server!AtxSent, Server!DgmRefused, Server!DgmSends, Server!DgmSent, Server!EventMask,
      Server!Failed, Server!FlagsAfterSend, Server!Flush, Server!Flushed,
      Server!FlushedAsserts, Server!Frame, Server!Free, Server!GoTo, Server!HdrLen,
      Server!Header, Server!Idle, Server!MaySend, Server!PlainSends, Server!Proceed,
      Server!Rest, Server!SendAsserts, Server!SendOutcome, Server!SendResults, Server!Sends,
      Server!SetPipe, Server!SetPipes, Server!Shutdown, Server!SideSendAsserts, Server!Sides,
      Server!Survives, Server!TagBroken, Server!Taken
<1>6. S!RelayNothing => Server!RelayNothing
  <2> DEFINE Step(R) ==
             /\ sProc = "running" /\ Server!InRelay /\ Server!Relaying
             /\ \E r \in R :
                  /\ r.is = "nothing"
                  /\ sIn' = [sIn EXCEPT ![Server!Src] = Server!Rest(@, r.read)]
                  /\ sRx' = r.rx
                  /\ Server!SetPipe(Server!Src, r.tcp, r.up)
                  /\ Server!RelayedNothing(r.up)
             /\ Server!Survives(Server!RelayAsserts /\ Server!SideRecvAsserts(Server!Src))
             /\ UNCHANGED <<sConn, sEof, sOut, sShut, sSent, sGot, sRest, sDgm, sPend, sWantFin, sHave>>
  <2>1. S!RelayNothing => Step(S!Recvs(S!Src))
    BY ZenonT(60), <1>0
    DEF S!Bad, S!Dst, S!EventMask, S!GoTo, S!HdrLen, S!Idle, S!InRelay, S!IsHeader,
        S!LeftOver, S!Peer, S!Proceed, S!ProcessRx, S!RecvAsserts, S!RelayAsserts,
        S!RelayNothing, S!RelayedNothing, S!Relaying, S!Rest, S!RxSpace, S!SetPipe,
        S!SetPipes, S!Short, S!Shutdown, S!SideRecvAsserts, S!Sides, S!Src, S!Survives,
        Server!Bad, Server!Dst, Server!EventMask, Server!GoTo, Server!HdrLen, Server!Idle,
        Server!InRelay, Server!IsHeader, Server!LeftOver, Server!Peer, Server!Proceed,
        Server!ProcessRx, Server!RecvAsserts, Server!RelayAsserts, Server!RelayNothing,
        Server!RelayedNothing, Server!Relaying, Server!Rest, Server!RxSpace, Server!SetPipe,
        Server!SetPipes, Server!Short, Server!Shutdown, Server!SideRecvAsserts,
        Server!Sides, Server!Src, Server!Survives
  <2>2. S!Recvs(S!Src) = Server!Recvs(Server!Src)
    BY ServerCalls DEF S!Src, S!Dst, S!Peer, Server!Src, Server!Dst, Server!Peer
  <2>3. Step(Server!Recvs(Server!Src)) => Server!RelayNothing
    BY ZenonT(60) DEF Server!RelayNothing
  <2> HIDE DEF Step
  <2> QED
    BY <2>1, <2>2, <2>3
<1>7. S!RelayFin => Server!RelayFin
  <2> DEFINE Step(R, F) ==
             /\ sProc = "running" /\ Server!InRelay /\ Server!Relaying
             /\ \E r \in R :
                  /\ r.is = "fin"
                  /\ Server!SetPipes([sTcp EXCEPT ![Server!Src] = r.tcp, ![Server!Dst] = F.tcp],
                              [sFlags EXCEPT ![Server!Src] = r.up, ![Server!Dst] = F.up])
                  /\ sWantFin' = F.wantFin
                  /\ Server!RelayedFin(F.up)
                  /\ Server!Survives(/\ Server!RelayAsserts /\ Server!SideRecvAsserts(Server!Src)
                              /\ Server!RelayedFinAsserts(r.up) /\ Server!FinAsserts(Server!Dst))
             /\ sShut' = IF "fin_sent" \in F.tcp THEN sShut \cup {Server!Dst} ELSE sShut
             /\ UNCHANGED <<sConn, sIn, sEof, sOut, sSent, sGot, sRest, sDgm, sRx, sPend, sHave>>
  <2>1. S!RelayFin => Step(S!Recvs(S!Src), S!Fin(S!Dst))
    BY ZenonT(60), <1>0
    DEF S!AtxClone, S!AtxFinAsserts, S!Bad, S!Dst, S!EventMask, S!FinAsserts, S!GoTo,
        S!HdrLen, S!Idle, S!InRelay, S!IsHeader, S!LeftOver, S!Peer, S!Proceed, S!ProcessRx,
        S!RecvAsserts, S!RelayAsserts, S!RelayFin, S!RelayedFin, S!RelayedFinAsserts,
        S!Relaying, S!Rest, S!RxSpace, S!SetPipes, S!Short, S!Shutdown, S!SideRecvAsserts,
        S!Sides, S!Src, S!Survives, Server!AtxClone, Server!AtxFinAsserts, Server!Bad,
        Server!Dst, Server!EventMask, Server!FinAsserts, Server!GoTo, Server!HdrLen,
        Server!Idle, Server!InRelay, Server!IsHeader, Server!LeftOver, Server!Peer,
        Server!Proceed, Server!ProcessRx, Server!RecvAsserts, Server!RelayAsserts,
        Server!RelayFin, Server!RelayedFin, Server!RelayedFinAsserts, Server!Relaying,
        Server!Rest, Server!RxSpace, Server!SetPipes, Server!Short, Server!Shutdown,
        Server!SideRecvAsserts, Server!Sides, Server!Src, Server!Survives
  <2>2. /\ S!Recvs(S!Src) = Server!Recvs(Server!Src)
        /\ S!Fin(S!Dst) = Server!Fin(Server!Dst)
    BY ServerCalls DEF S!Src, S!Dst, S!Peer, Server!Src, Server!Dst, Server!Peer
  <2>3. Step(Server!Recvs(Server!Src), Server!Fin(Server!Dst)) => Server!RelayFin
    BY ZenonT(60) DEF Server!RelayFin
  <2> HIDE DEF Step
  <2> QED
    BY <2>1, <2>2, <2>3
<1>8. S!RelayData => Server!RelayData
  <2> DEFINE Step(R) ==
             /\ sProc = "running" /\ Server!InRelay /\ Server!Relaying
             /\ \E r \in R :
                  /\ r.is = "data"
                  /\ \E w \in Server!Sends(Server!Dst, r.data) :
                       /\ sIn' = [sIn EXCEPT ![Server!Src] = Server!Rest(@, r.read)]
                       /\ sOut' = [sOut EXCEPT ![Server!Dst] = @ \o w.put]
                       /\ sRx' = r.rx /\ sPend' = w.pend
                       /\ Server!SetPipes([sTcp EXCEPT ![Server!Src] = r.tcp, ![Server!Dst] = w.tcp],
                                   [sFlags EXCEPT ![Server!Src] = r.up, ![Server!Dst] = w.up])
                       /\ Server!RelayedData(r.data, w.n, w.up)
                       /\ Server!Survives(/\ Server!RelayAsserts /\ Server!SideRecvAsserts(Server!Src)
                                   /\ Server!SideSendAsserts(Server!Dst, w)
                                   /\ Server!RelayedDataAsserts(r.data, w.n, w.up))
             /\ UNCHANGED <<sConn, sEof, sShut, sSent, sGot, sRest, sDgm, sWantFin, sHave>>
  <2>1. S!RelayData => Step(S!Recvs(S!Src))
    BY ZenonT(60), <1>0
    DEF S!AtxClone, S!AtxSent, S!Bad, S!DgmRefused, S!DgmSends, S!DgmSent, S!Dst,
        S!EventMask, S!Failed, S!FlagsAfterSend, S!Frame, S!Free, S!GoTo, S!HdrLen,
        S!Header, S!Idle, S!InRelay, S!IsHeader, S!LeftOver, S!MaySend, S!Peer,
        S!PlainSends, S!Proceed, S!ProcessRx, S!RecvAsserts, S!RelayAsserts, S!RelayData,
        S!RelayedData, S!RelayedDataAsserts, S!Relaying, S!Rest, S!RxSpace, S!SendAsserts,
        S!SendOutcome, S!SendResults, S!Sends, S!SetPipes, S!Short, S!Shutdown,
        S!SideRecvAsserts, S!SideSendAsserts, S!Sides, S!Src, S!Survives, S!TagBroken,
        S!Taken, Server!AtxClone, Server!AtxSent, Server!Bad, Server!DgmRefused,
        Server!DgmSends, Server!DgmSent, Server!Dst, Server!EventMask, Server!Failed,
        Server!FlagsAfterSend, Server!Frame, Server!Free, Server!GoTo, Server!HdrLen,
        Server!Header, Server!Idle, Server!InRelay, Server!IsHeader, Server!LeftOver,
        Server!MaySend, Server!Peer, Server!PlainSends, Server!Proceed, Server!ProcessRx,
        Server!RecvAsserts, Server!RelayAsserts, Server!RelayData, Server!RelayedData,
        Server!RelayedDataAsserts, Server!Relaying, Server!Rest, Server!RxSpace,
        Server!SendAsserts, Server!SendOutcome, Server!SendResults, Server!Sends,
        Server!SetPipes, Server!Short, Server!Shutdown, Server!SideRecvAsserts,
        Server!SideSendAsserts, Server!Sides, Server!Src, Server!Survives, Server!TagBroken,
        Server!Taken
  <2>2. S!Recvs(S!Src) = Server!Recvs(Server!Src)
    BY ServerCalls DEF S!Src, S!Dst, S!Peer, Server!Src, Server!Dst, Server!Peer
  <2>3. Step(Server!Recvs(Server!Src)) => Server!RelayData
    BY ZenonT(60) DEF Server!RelayData
  <2> HIDE DEF Step
  <2> QED
    BY <2>1, <2>2, <2>3
<1>9. S!RelayTurns => Server!RelayTurns
  BY <1>0
  DEF S!Dst, S!GoTo, S!Peer, S!RelayInEnds, S!RelayTurns, S!Relaying, S!Src, S!hostVars,
      S!pipeVars, S!sockVars, Server!Dst, Server!GoTo, Server!Peer, Server!RelayInEnds,
      Server!RelayTurns, Server!Relaying, Server!Src, Server!hostVars, Server!pipeVars,
      Server!sockVars
<1>10. S!Return => Server!Return
  BY <1>0
  DEF S!CallbackEnds, S!Dst, S!Idle, S!Peer, S!Relaying, S!Return, S!Shutdown, S!Src,
      S!hostVars, S!pipeVars, S!sockVars, Server!CallbackEnds, Server!Dst, Server!Idle,
      Server!Peer, Server!Relaying, Server!Return, Server!Shutdown, Server!Src,
      Server!hostVars, Server!pipeVars, Server!sockVars
<1>11. S!Exit => Server!Exit
  BY <1>0
  DEF S!Dead, S!Dispatched, S!Exit, S!Sides, S!bridgeVars, S!pipeVars, Server!Dead,
      Server!Dispatched, Server!Exit, Server!Sides, Server!bridgeVars, Server!pipeVars
<1> QED
  BY <1>1, <1>2, <1>3, <1>4, <1>5, <1>6, <1>7, <1>8, <1>9, <1>10, <1>11 DEF SStep, S!Proxy, Server!Proxy

-----------------------------------------------------------------------------
(* What is on its way.                                                     *)

LEMMA ClientWire ==
  ASSUME PairInv
  PROVE  /\ cGot["r"] \in Seq(Octets) /\ cOut["r"] \in Seq(Octets) /\ cPend \in Seq(Octets)
         /\ cWire \in Seq(Octets) /\ cRest \in Seq(Octets)
         /\ cSent["l"] \in Seq(Octets) /\ cSent["r"] \in Seq(Octets)
         /\ cOut \in [Sides -> Seq(Octets)] /\ cGot \in [Sides -> Seq(Octets)]
         /\ cSent \in [Sides -> Seq(Octets)]
         /\ InStep(Cat(cGot["r"], cWire))
         /\ C!Passed("r") = Payload(Cat(cGot["r"], cWire))
         /\ IsPrefix(C!Passed("r"), cSent["l"])
<1>1. Client!TypeOK /\ Client!StreamIntact /\ Client!WireInv /\ cDgm = "r"
  BY DEF PairInv, MidInv, Client!IndInv, Client!StreamInv
<1>2. /\ cOut \in [Sides -> Seq(Octets)] /\ cGot \in [Sides -> Seq(Octets)]
      /\ cSent \in [Sides -> Seq(Octets)] /\ cPend \in Seq(Octets) /\ cRest \in Seq(Octets)
  BY <1>1, ClientNames, OneFraming DEF Client!TypeOK, Octets
<1>3. "l" \in Sides /\ "r" \in Sides /\ Peer("r") = "l"
  BY DEF Sides, Peer
<1>4. /\ cGot["r"] \in Seq(Octets) /\ cOut["r"] \in Seq(Octets)
      /\ cSent["l"] \in Seq(Octets) /\ cSent["r"] \in Seq(Octets)
  BY <1>2, <1>3
<1>5. /\ cWire \in Seq(Octets)
      /\ Cat(Cat(cGot["r"], cOut["r"]), cPend) = Cat(cGot["r"], cWire)
  <2>1. Cat(cOut["r"], cPend) \in Seq(Octets)
    BY <1>2, <1>4, CatType
  <2>2. Cat(Cat(cGot["r"], cOut["r"]), cPend) = Cat(cGot["r"], Cat(cOut["r"], cPend))
    BY <1>2, <1>4, CatAssoc
  <2> QED
    BY <2>1, <2>2 DEF cWire
<1>6. cGot["r"] \o cOut["r"] \o cPend = Cat(cGot["r"], cWire)
  BY <1>5 DEF Cat
<1>7. InStep(Cat(cGot["r"], cWire))
  <2>1. Client!InStep(cGot["r"] \o cOut["r"] \o cPend)
    BY <1>1, PairAssumption, DgmAssumption DEF Client!WireInv
  <2> QED
    BY <1>6, <2>1, OneFraming
<1>8. C!Passed("r") = Payload(Cat(cGot["r"], cWire))
  <2>1. Client!Passed("r") = Client!Payload(cGot["r"] \o cOut["r"] \o cPend)
    BY <1>1 DEF Client!Passed
  <2> QED
    BY <1>6, <2>1, ClientNames, OneFraming
<1>9. IsPrefix(C!Passed("r"), cSent["l"])
  <2>1. Client!IsPrefix(Client!Passed("r"), cSent[Client!Peer("r")])
    BY <1>1, <1>3, ClientNames DEF Client!StreamIntact
  <2> QED
    BY <1>3, <2>1, ClientNames
<1> QED
  BY <1>2, <1>4, <1>5, <1>7, <1>8, <1>9

LEMMA ServerWire ==
  ASSUME PairInv
  PROVE  /\ sGot["l"] \in Seq(Octets) /\ sOut["l"] \in Seq(Octets) /\ sPend \in Seq(Octets)
         /\ sWire \in Seq(Octets) /\ sRest \in Seq(Octets)
         /\ sSent["r"] \in Seq(Octets) /\ sSent["l"] \in Seq(Octets)
         /\ sOut \in [Sides -> Seq(Octets)] /\ sGot \in [Sides -> Seq(Octets)]
         /\ sSent \in [Sides -> Seq(Octets)]
         /\ InStep(Cat(sGot["l"], sWire))
         /\ S!Passed("l") = Payload(Cat(sGot["l"], sWire))
         /\ IsPrefix(S!Passed("l"), sSent["r"])
<1>1. Server!TypeOK /\ Server!StreamIntact /\ Server!WireInv /\ sDgm = "l"
  BY DEF PairInv, MidInv, Server!IndInv, Server!StreamInv
<1>2. /\ sOut \in [Sides -> Seq(Octets)] /\ sGot \in [Sides -> Seq(Octets)]
      /\ sSent \in [Sides -> Seq(Octets)] /\ sPend \in Seq(Octets) /\ sRest \in Seq(Octets)
  BY <1>1, ServerNames, OneFraming DEF Server!TypeOK, Octets
<1>3. "r" \in Sides /\ "l" \in Sides /\ Peer("l") = "r"
  BY DEF Sides, Peer
<1>4. /\ sGot["l"] \in Seq(Octets) /\ sOut["l"] \in Seq(Octets)
      /\ sSent["r"] \in Seq(Octets) /\ sSent["l"] \in Seq(Octets)
  BY <1>2, <1>3
<1>5. /\ sWire \in Seq(Octets)
      /\ Cat(Cat(sGot["l"], sOut["l"]), sPend) = Cat(sGot["l"], sWire)
  <2>1. Cat(sOut["l"], sPend) \in Seq(Octets)
    BY <1>2, <1>4, CatType
  <2>2. Cat(Cat(sGot["l"], sOut["l"]), sPend) = Cat(sGot["l"], Cat(sOut["l"], sPend))
    BY <1>2, <1>4, CatAssoc
  <2> QED
    BY <2>1, <2>2 DEF sWire
<1>6. sGot["l"] \o sOut["l"] \o sPend = Cat(sGot["l"], sWire)
  BY <1>5 DEF Cat
<1>7. InStep(Cat(sGot["l"], sWire))
  <2>1. Server!InStep(sGot["l"] \o sOut["l"] \o sPend)
    BY <1>1, PairAssumption, DgmAssumption DEF Server!WireInv
  <2> QED
    BY <1>6, <2>1, OneFraming
<1>8. S!Passed("l") = Payload(Cat(sGot["l"], sWire))
  <2>1. Server!Passed("l") = Server!Payload(sGot["l"] \o sOut["l"] \o sPend)
    BY <1>1 DEF Server!Passed
  <2> QED
    BY <1>6, <2>1, ServerNames, OneFraming
<1>9. IsPrefix(S!Passed("l"), sSent["r"])
  <2>1. Server!IsPrefix(Server!Passed("l"), sSent[Server!Peer("l")])
    BY <1>1, <1>3, ServerNames DEF Server!StreamIntact
  <2> QED
    BY <1>3, <2>1, ServerNames
<1> QED
  BY <1>2, <1>4, <1>5, <1>7, <1>8, <1>9

-----------------------------------------------------------------------------
(* What the one program does the other one does not notice, ...            *)

LEMMA ClientSleeps ==
  ASSUME UNCHANGED <<cVars, cRest>>
  PROVE  UNCHANGED Client!vars
BY DEF cVars, cProgram, Client!vars, Client!hostVars, Client!sockVars, Client!pipeVars, Client!bridgeVars

\* A step of the client adds to what is on its way, which changes nothing of
\* the datagram that is missing, and adds nothing after FIN.
LEMMA ClientWrites ==
  ASSUME PairInv, CStep
  PROVE  /\ sRest' = sRest
         /\ "r" \in cShut => cOut'["r"] = cOut["r"]
<1>1. Client!TypeOK /\ Client!ControlInv /\ Client!StreamInv /\ Client!WireInv /\ Client!Proxy
  BY ClientActs DEF PairInv, Client!IndInv
<1>2. Client!WireGrows
  BY <1>1, ClientAssumptions, Client!WireOfProxy
<1>3. cDgm = "r" /\ cDgm' = "r"
  BY <1>2 DEF PairInv, MidInv, Client!WireGrows
<1>4. cWire = Client!Wire /\ cWire' = Client!Wire'
  BY <1>3 DEF cWire, Client!Wire, Cat
<1>5. PICK more \in Seq(Octets) : cWire' = Cat(cWire, more)
  <2>1. PICK more \in Seq(Client!Octets) : Client!Wire' = Client!Cat(Client!Wire, more)
    BY <1>2 DEF Client!WireGrows
  <2>2. Client!Octets = Octets /\ Client!Cat(Client!Wire, more) = Cat(cWire, more)
    BY <1>4, OneFraming DEF Octets, Client!Cat, Cat
  <2> QED
    BY <1>4, <2>1, <2>2
<1>6. cGot' = cGot /\ ("r" \in cShut => cOut'["r"] = cOut["r"])
  BY <1>2, <1>3 DEF Client!WireGrows
<1>7. RestOf(cGot["r"], Cat(cWire, more)) = RestOf(cGot["r"], cWire)
  BY ClientWire, RestStays
<1> QED
  BY <1>5, <1>6, <1>7 DEF sRest

LEMMA ServerSleeps ==
  ASSUME UNCHANGED <<sVars, sRest>>
  PROVE  UNCHANGED Server!vars
BY DEF sVars, sProgram, Server!vars, Server!hostVars, Server!sockVars, Server!pipeVars, Server!bridgeVars

\* A step of the client adds to what is on its way, which changes nothing of
\* the datagram that is missing, and adds nothing after FIN.
LEMMA ServerWrites ==
  ASSUME PairInv, SStep
  PROVE  /\ cRest' = cRest
         /\ "l" \in sShut => sOut'["l"] = sOut["l"]
<1>1. Server!TypeOK /\ Server!ControlInv /\ Server!StreamInv /\ Server!WireInv /\ Server!Proxy
  BY ServerActs DEF PairInv, Server!IndInv
<1>2. Server!WireGrows
  BY <1>1, ServerAssumptions, Server!WireOfProxy
<1>3. sDgm = "l" /\ sDgm' = "l"
  BY <1>2 DEF PairInv, MidInv, Server!WireGrows
<1>4. sWire = Server!Wire /\ sWire' = Server!Wire'
  BY <1>3 DEF sWire, Server!Wire, Cat
<1>5. PICK more \in Seq(Octets) : sWire' = Cat(sWire, more)
  <2>1. PICK more \in Seq(Server!Octets) : Server!Wire' = Server!Cat(Server!Wire, more)
    BY <1>2 DEF Server!WireGrows
  <2>2. Server!Octets = Octets /\ Server!Cat(Server!Wire, more) = Cat(sWire, more)
    BY <1>4, OneFraming DEF Octets, Server!Cat, Cat
  <2> QED
    BY <1>4, <2>1, <2>2
<1>6. sGot' = sGot /\ ("l" \in sShut => sOut'["l"] = sOut["l"])
  BY <1>2, <1>3 DEF Server!WireGrows
<1>7. RestOf(sGot["l"], Cat(sWire, more)) = RestOf(sGot["l"], sWire)
  BY ServerWire, RestStays
<1> QED
  BY <1>5, <1>6, <1>7 DEF cRest

-----------------------------------------------------------------------------
(* The octet that arrives next belongs to a datagram of the named octets.  *)

LEMMA NextOctet ==
  ASSUME NEW T, TypedHeaders(T), NEW g \in Seq(T), NEW a \in Seq(T), InStep(Cat(g, a)), a # <<>>,
         NEW stream \in Seq(T), IsPrefix(Payload(Cat(g, a)), stream),
         NEW o \in Sides, Named(stream, o)
  PROVE  \E q : /\ \/ RestOf(g, a) # <<>> /\ q = RestOf(g, a)
                   \/ /\ RestOf(g, a) = <<>>
                      /\ \E n \in 1..MaxDgm :
                           /\ Len(Payload(g)) + n <= MaxOctets[o]
                           /\ q = Frame([i \in 1..n |-> <<o, Len(Payload(g)) + i>>])
                /\ Head(q) = Head(a) /\ Tail(q) = RestOf(Append(g, Head(a)), Tail(a))
<1>1. CASE RestOf(g, a) # <<>>
  BY <1>1, RestMoves
<1>2. CASE RestOf(g, a) = <<>>
  <2>1. PICK data \in Seq(T) :
          /\ Len(data) \in 1..MaxDgm
          /\ IsPrefix(Cat(Payload(g), data), Payload(Cat(g, a)))
          /\ Frame(data) # <<>> /\ Head(Frame(data)) = Head(a)
          /\ RestOf(Append(g, Head(a)), Tail(a)) = Tail(Frame(data))
    BY <1>2, RestBegins
  <2> DEFINE p == Payload(g)
             n == Len(data)
  <2>2. p \in Seq(T) /\ Len(p) \in Nat /\ n \in Nat /\ Payload(Cat(g, a)) \in Seq(T)
    <3>1. p \in Seq(T) /\ Cat(g, a) \in Seq(T)
      BY PayloadSeq, CatType
    <3> QED
      BY <3>1, PayloadSeq, LenProperties
  <2>3. IsPrefix(Cat(p, data), stream)
    <3>1. Cat(p, data) \in Seq(T)
      BY <2>2, CatType
    <3> QED
      BY <2>1, <2>2, <3>1, PrefixTrans
  <2> HIDE DEF p
  <2>4. Cat(p, data) \in Seq(T) /\ Len(Cat(p, data)) = Len(p) + n
    BY <2>2, CatAt
  <2>5. Len(p) + n <= Len(stream) /\ \A i \in 1..Len(p) + n : stream[i] = Cat(p, data)[i]
    BY <2>3, <2>4, PrefixAt
  <2>6. Len(p) + n <= MaxOctets[o]
    <3>1. Len(stream) <= MaxOctets[o] /\ Len(stream) \in Nat /\ MaxOctets[o] \in Nat
      BY PairAssumption, LenProperties DEF Named
    <3> QED
      BY <2>2, <2>5, <3>1
  <2>7. ASSUME NEW i \in 1..n
        PROVE  data[i] = <<o, Len(p) + i>>
    <3>1. Len(p) + i \in 1..Len(p) + n /\ Len(p) + i \in 1..Len(stream)
      <4>1. Len(stream) \in Nat
        BY LenProperties
      <4> QED
        BY <2>2, <2>5, <4>1
    <3>2. stream[Len(p) + i] = <<o, Len(p) + i>>
      BY <3>1, LenProperties DEF Named
    <3>3. stream[Len(p) + i] = Cat(p, data)[Len(p) + i]
      BY <2>5, <3>1
    <3>4. Cat(p, data)[Len(p) + i] = data[i]
      <4> DEFINE k == Len(p)
      <4>1. Len(p) = k /\ p \in Seq(T)
        BY <2>2
      <4> HIDE DEF k
      <4>2. Cat(p, data)[k + i] = data[i]
        BY <4>1, CatRight
      <4> QED
        BY <4>2 DEF k
    <3> QED
      BY <3>2, <3>3, <3>4
  <2>8. data = [i \in 1..n |-> <<o, Len(p) + i>>]
    BY <2>7, LenProperties
  <2>9. \E m \in 1..MaxDgm : /\ Len(p) + m <= MaxOctets[o]
                             /\ data = [i \in 1..m |-> <<o, Len(p) + i>>]
    BY <2>1, <2>6, <2>8
  <2>10. \E m \in 1..MaxDgm : /\ Len(p) + m <= MaxOctets[o]
                              /\ Frame(data) = Frame([i \in 1..m |-> <<o, Len(p) + i>>])
    BY <2>9
  <2> QED
    BY <1>2, <2>1, <2>10 DEF p
<1> QED
  BY <1>1, <1>2

-----------------------------------------------------------------------------
(* ... and what the network and the hosts do with one program is what      *)
(* TcpProxy allows them to do.                                             *)

LEMMA ClientHosts ==
  ASSUME UNCHANGED <<cProgram, cRest>>, cDgm = "r",
         \/ \E s \in Sides : C!Connected(s) \/ C!Refused(s) \/ C!HostReads(s) \/ C!ConnectionLost(s)
         \/ /\ cProc = "running"
            /\ C!HostSends("l") \/ \E s \in Sides : C!HostCloses(s)
  PROVE  Client!HostActs
<1>1. \A s : /\ C!Connected(s) => Client!Connected(s)
             /\ C!Refused(s) => Client!Refused(s)
             /\ C!HostReads(s) => Client!HostReads(s)
             /\ C!ConnectionLost(s) => Client!ConnectionLost(s)
             /\ C!HostSends(s) => Client!HostSends(s)
             /\ C!HostCloses(s) => Client!HostCloses(s)
  BY DEF C!Connected, C!Refused, C!HostReads, C!ConnectionLost, C!HostSends, C!HostCloses,
         Client!Connected, Client!Refused, Client!HostReads, Client!ConnectionLost,
         Client!HostSends, Client!HostCloses
<1>2. Client!Plain = "l" /\ Client!Sides = Sides
  BY ClientNames DEF Client!Plain, Client!Peer
<1>3. UNCHANGED <<cDgm, Client!pipeVars, Client!bridgeVars, cHave, cProc>> /\ UNCHANGED cRest
  BY DEF cProgram, Client!pipeVars, Client!bridgeVars
<1>4. CASE \E s \in Sides : C!Connected(s) \/ C!Refused(s) \/ C!HostReads(s) \/ C!ConnectionLost(s)
  BY <1>1, <1>2, <1>3, <1>4 DEF Client!HostActs
<1>5. CASE /\ cProc = "running"
           /\ C!HostSends("l") \/ \E s \in Sides : C!HostCloses(s)
  BY <1>1, <1>2, <1>3, <1>5 DEF Client!HostActs
<1> QED
  BY <1>4, <1>5

LEMMA ClientReceives ==
  ASSUME PairInv, SToC
  PROVE  Client!HostActs
<1> DEFINE h == Head(sOut["l"])
<1>1. /\ cConn["r"] = "open" /\ cProc = "running" /\ sOut["l"] # <<>> /\ Len(cIn["r"]) < RcvBuf
      /\ sOut' = [sOut EXCEPT !["l"] = Tail(@)] /\ sGot' = [sGot EXCEPT !["l"] = Append(@, h)]
      /\ cIn' = [cIn EXCEPT !["r"] = Append(@, h)]
      /\ cSent' = [cSent EXCEPT !["r"] = @ \o Payload(<<h>>)]
      /\ UNCHANGED <<cConn, cEof, cOut, cShut, cGot, cProgram, sPend>>
  BY DEF SToC, MidOpen, sProgram
<1>2. cDgm = "r" /\ cSent["r"] = Payload(sGot["l"]) /\ Named(sSent["r"], "r") /\ "r" \notin cEof
  BY <1>1 DEF PairInv, MidInv
<1>3. /\ sWire # <<>> /\ Head(sWire) = h /\ sWire' = Tail(sWire)
      /\ sGot'["l"] = Append(sGot["l"], h)
  <2>1. sOut["l"] \in Seq(Octets) /\ sPend \in Seq(Octets)
    BY ServerWire
  <2>2. Cat(sOut["l"], sPend) # <<>> /\ Head(Cat(sOut["l"], sPend)) = Head(sOut["l"])
        /\ Tail(Cat(sOut["l"], sPend)) = Cat(Tail(sOut["l"]), sPend)
    BY <1>1, <2>1, FrontOfCat
  <2>3. sOut'["l"] = Tail(sOut["l"]) /\ sGot'["l"] = Append(sGot["l"], h)
    BY <1>1, ServerWire DEF Sides
  <2> QED
    BY <1>1, <2>2, <2>3 DEF sWire
<1> HIDE DEF h
<1>4. cRest' = RestOf(Append(sGot["l"], h), Tail(sWire))
  BY <1>3 DEF cRest
<1>5. PICK q : /\ \/ cRest # <<>> /\ q = cRest
                  \/ /\ cRest = <<>>
                     /\ \E n \in 1..MaxDgm :
                          /\ Len(cSent["r"]) + n <= MaxOctets["r"]
                          /\ q = Frame([i \in 1..n |-> <<"r", Len(cSent["r"]) + i>>])
               /\ Head(q) = h /\ Tail(q) = cRest'
  <2>1. /\ sGot["l"] \in Seq(Octets) /\ sWire \in Seq(Octets) /\ sSent["r"] \in Seq(Octets)
        /\ InStep(Cat(sGot["l"], sWire)) /\ IsPrefix(Payload(Cat(sGot["l"], sWire)), sSent["r"])
    BY ServerWire
  <2>2. TypedHeaders(Octets) /\ "r" \in Sides
    BY HeadersAreOctets DEF Sides
  <2> DEFINE g == sGot["l"]
             a == sWire
             stream == sSent["r"]
  <2>3. /\ g \in Seq(Octets) /\ a \in Seq(Octets) /\ stream \in Seq(Octets) /\ InStep(Cat(g, a))
        /\ a # <<>> /\ IsPrefix(Payload(Cat(g, a)), stream) /\ Named(stream, "r")
    BY <1>2, <1>3, <2>1
  <2> HIDE DEF g, a, stream
  <2>4. PICK q : /\ \/ RestOf(g, a) # <<>> /\ q = RestOf(g, a)
                    \/ /\ RestOf(g, a) = <<>>
                       /\ \E n \in 1..MaxDgm :
                            /\ Len(Payload(g)) + n <= MaxOctets["r"]
                            /\ q = Frame([i \in 1..n |-> <<"r", Len(Payload(g)) + i>>])
                 /\ Head(q) = Head(a) /\ Tail(q) = RestOf(Append(g, Head(a)), Tail(a))
    BY ZenonT(60), <2>2, <2>3, NextOctet
  <2>5. RestOf(g, a) = cRest /\ Payload(g) = cSent["r"] /\ Head(a) = h /\ g = sGot["l"] /\ a = sWire
    BY <1>2, <1>3 DEF cRest, g, a
  <2> QED
    BY <1>4, <2>4, <2>5
<1>6. q \in IF cRest = <<>> THEN Client!NextFrames ELSE {cRest}
  <2>1. \A n \in 1..MaxDgm : Len(cSent["r"]) + n <= MaxOctets["r"] =>
          Client!Frame([i \in 1..n |-> <<cDgm, Len(cSent[cDgm]) + i>>]) \in Client!NextFrames
    BY <1>2 DEF Client!NextFrames
  <2> QED
    BY <1>2, <1>5, <2>1, OneFraming
<1>7. Client!PeerSends
  <2>1. /\ cIn' = [cIn EXCEPT !["r"] = Append(@, Head(q))]
        /\ cSent' = [cSent EXCEPT !["r"] = @ \o Client!Payload(<<Head(q)>>)]
        /\ cRest' = Tail(q)
    BY <1>1, <1>5, OneFraming
  <2> QED
    BY <1>1, <1>2, <1>6, <2>1 DEF Client!PeerSends
<1>8. UNCHANGED <<cDgm, Client!pipeVars, Client!bridgeVars, cHave, cProc>>
  BY <1>1 DEF cProgram, Client!pipeVars, Client!bridgeVars
<1> QED
  BY <1>1, <1>7, <1>8 DEF Client!HostActs

LEMMA ServerHosts ==
  ASSUME UNCHANGED <<sProgram, sRest>>, sDgm = "l",
         \/ \E s \in Sides : S!Connected(s) \/ S!Refused(s) \/ S!HostReads(s) \/ S!ConnectionLost(s)
         \/ /\ sProc = "running"
            /\ S!HostSends("r") \/ \E s \in Sides : S!HostCloses(s)
  PROVE  Server!HostActs
<1>1. \A s : /\ S!Connected(s) => Server!Connected(s)
             /\ S!Refused(s) => Server!Refused(s)
             /\ S!HostReads(s) => Server!HostReads(s)
             /\ S!ConnectionLost(s) => Server!ConnectionLost(s)
             /\ S!HostSends(s) => Server!HostSends(s)
             /\ S!HostCloses(s) => Server!HostCloses(s)
  BY DEF S!Connected, S!Refused, S!HostReads, S!ConnectionLost, S!HostSends, S!HostCloses,
         Server!Connected, Server!Refused, Server!HostReads, Server!ConnectionLost,
         Server!HostSends, Server!HostCloses
<1>2. Server!Plain = "r" /\ Server!Sides = Sides
  BY ServerNames DEF Server!Plain, Server!Peer
<1>3. UNCHANGED <<sDgm, Server!pipeVars, Server!bridgeVars, sHave, sProc>> /\ UNCHANGED sRest
  BY DEF sProgram, Server!pipeVars, Server!bridgeVars
<1>4. CASE \E s \in Sides : S!Connected(s) \/ S!Refused(s) \/ S!HostReads(s) \/ S!ConnectionLost(s)
  BY <1>1, <1>2, <1>3, <1>4 DEF Server!HostActs
<1>5. CASE /\ sProc = "running"
           /\ S!HostSends("r") \/ \E s \in Sides : S!HostCloses(s)
  BY <1>1, <1>2, <1>3, <1>5 DEF Server!HostActs
<1> QED
  BY <1>4, <1>5

LEMMA ServerReceives ==
  ASSUME PairInv, CToS
  PROVE  Server!HostActs
<1> DEFINE h == Head(cOut["r"])
<1>1. /\ sConn["l"] = "open" /\ sProc = "running" /\ cOut["r"] # <<>> /\ Len(sIn["l"]) < RcvBuf
      /\ cOut' = [cOut EXCEPT !["r"] = Tail(@)] /\ cGot' = [cGot EXCEPT !["r"] = Append(@, h)]
      /\ sIn' = [sIn EXCEPT !["l"] = Append(@, h)]
      /\ sSent' = [sSent EXCEPT !["l"] = @ \o Payload(<<h>>)]
      /\ UNCHANGED <<sConn, sEof, sOut, sShut, sGot, sProgram, cPend>>
  BY DEF CToS, MidOpen, cProgram
<1>2. sDgm = "l" /\ sSent["l"] = Payload(cGot["r"]) /\ Named(cSent["l"], "l") /\ "l" \notin sEof
  BY <1>1 DEF PairInv, MidInv
<1>3. /\ cWire # <<>> /\ Head(cWire) = h /\ cWire' = Tail(cWire)
      /\ cGot'["r"] = Append(cGot["r"], h)
  <2>1. cOut["r"] \in Seq(Octets) /\ cPend \in Seq(Octets)
    BY ClientWire
  <2>2. Cat(cOut["r"], cPend) # <<>> /\ Head(Cat(cOut["r"], cPend)) = Head(cOut["r"])
        /\ Tail(Cat(cOut["r"], cPend)) = Cat(Tail(cOut["r"]), cPend)
    BY <1>1, <2>1, FrontOfCat
  <2>3. cOut'["r"] = Tail(cOut["r"]) /\ cGot'["r"] = Append(cGot["r"], h)
    BY <1>1, ClientWire DEF Sides
  <2> QED
    BY <1>1, <2>2, <2>3 DEF cWire
<1> HIDE DEF h
<1>4. sRest' = RestOf(Append(cGot["r"], h), Tail(cWire))
  BY <1>3 DEF sRest
<1>5. PICK q : /\ \/ sRest # <<>> /\ q = sRest
                  \/ /\ sRest = <<>>
                     /\ \E n \in 1..MaxDgm :
                          /\ Len(sSent["l"]) + n <= MaxOctets["l"]
                          /\ q = Frame([i \in 1..n |-> <<"l", Len(sSent["l"]) + i>>])
               /\ Head(q) = h /\ Tail(q) = sRest'
  <2>1. /\ cGot["r"] \in Seq(Octets) /\ cWire \in Seq(Octets) /\ cSent["l"] \in Seq(Octets)
        /\ InStep(Cat(cGot["r"], cWire)) /\ IsPrefix(Payload(Cat(cGot["r"], cWire)), cSent["l"])
    BY ClientWire
  <2>2. TypedHeaders(Octets) /\ "l" \in Sides
    BY HeadersAreOctets DEF Sides
  <2> DEFINE g == cGot["r"]
             a == cWire
             stream == cSent["l"]
  <2>3. /\ g \in Seq(Octets) /\ a \in Seq(Octets) /\ stream \in Seq(Octets) /\ InStep(Cat(g, a))
        /\ a # <<>> /\ IsPrefix(Payload(Cat(g, a)), stream) /\ Named(stream, "l")
    BY <1>2, <1>3, <2>1
  <2> HIDE DEF g, a, stream
  <2>4. PICK q : /\ \/ RestOf(g, a) # <<>> /\ q = RestOf(g, a)
                    \/ /\ RestOf(g, a) = <<>>
                       /\ \E n \in 1..MaxDgm :
                            /\ Len(Payload(g)) + n <= MaxOctets["l"]
                            /\ q = Frame([i \in 1..n |-> <<"l", Len(Payload(g)) + i>>])
                 /\ Head(q) = Head(a) /\ Tail(q) = RestOf(Append(g, Head(a)), Tail(a))
    BY ZenonT(60), <2>2, <2>3, NextOctet
  <2>5. RestOf(g, a) = sRest /\ Payload(g) = sSent["l"] /\ Head(a) = h /\ g = cGot["r"] /\ a = cWire
    BY <1>2, <1>3 DEF sRest, g, a
  <2> QED
    BY <1>4, <2>4, <2>5
<1>6. q \in IF sRest = <<>> THEN Server!NextFrames ELSE {sRest}
  <2>1. \A n \in 1..MaxDgm : Len(sSent["l"]) + n <= MaxOctets["l"] =>
          Server!Frame([i \in 1..n |-> <<sDgm, Len(sSent[sDgm]) + i>>]) \in Server!NextFrames
    BY <1>2 DEF Server!NextFrames
  <2> QED
    BY <1>2, <1>5, <2>1, OneFraming
<1>7. Server!PeerSends
  <2>1. /\ sIn' = [sIn EXCEPT !["l"] = Append(@, Head(q))]
        /\ sSent' = [sSent EXCEPT !["l"] = @ \o Server!Payload(<<Head(q)>>)]
        /\ sRest' = Tail(q)
    BY <1>1, <1>5, OneFraming
  <2> QED
    BY <1>1, <1>2, <1>6, <2>1 DEF Server!PeerSends
<1>8. UNCHANGED <<sDgm, Server!pipeVars, Server!bridgeVars, sHave, sProc>>
  BY <1>1 DEF sProgram, Server!pipeVars, Server!bridgeVars
<1> QED
  BY <1>1, <1>7, <1>8 DEF Server!HostActs

-----------------------------------------------------------------------------
(* Every step of the pair is one of each program, or none.                 *)

PairStep ==
  [Client!Next]_(Client!vars) /\ [Server!Next]_(Server!vars) /\ MidInv'

LEMMA NamedGrows ==
  ASSUME NEW q \in Seq(Octets), NEW o \in Sides, Named(q, o), Len(q) < MaxOctets[o]
  PROVE  Named(Append(q, <<o, Len(q) + 1>>), o)
<1> DEFINE e == <<o, Len(q) + 1>>
           T == Octets \cup {e}
           p == Append(q, e)
<1>1. q \in Seq(T) /\ e \in T
  BY SeqMonotonic
<1> HIDE DEF T, e
<1>2. /\ p \in Seq(T) /\ Len(p) = Len(q) + 1 /\ p[Len(q) + 1] = e
      /\ \A i \in 1..Len(q) : p[i] = q[i]
  BY <1>1, AppendProperties
<1>3. DOMAIN p = 1..Len(p) /\ DOMAIN q = 1..Len(q) /\ Len(q) \in Nat /\ MaxOctets[o] \in Nat
  BY <1>2, LenProperties, PairAssumption
<1> HIDE DEF p
<1>4. ASSUME NEW i \in DOMAIN p
      PROVE  p[i] = <<o, i>>
  <2>1. CASE i \in 1..Len(q)
    BY <1>2, <1>3, <2>1 DEF Named
  <2>2. CASE i = Len(q) + 1
    BY <1>2, <2>2 DEF e
  <2> QED
    BY <1>2, <1>3, <2>1, <2>2
<1>5. Len(p) <= MaxOctets[o]
  BY <1>2, <1>3
<1>6. Named(p, o)
  BY <1>4, <1>5 DEF Named
<1> QED
  BY <1>6 DEF p, e

LEMMA ClientProgramSteps ==
  ASSUME PairInv, CStep
  PROVE  PairStep
<1>1. Client!Proxy /\ UNCHANGED sVars /\ sRest' = sRest
  BY ClientActs, ClientWrites DEF CStep
<1>2. Client!Next
  BY <1>1 DEF Client!Next
<1>3. UNCHANGED Server!vars
  BY <1>1, ServerSleeps
<1>4. /\ cProc = "running" /\ cShut \subseteq cShut' /\ UNCHANGED <<cSent, cEof, cGot, cDgm>>
      /\ UNCHANGED <<sSent, sGot, sOut, sEof, sShut, sProc, sDgm>>
      /\ "r" \in cShut => cOut'["r"] = cOut["r"]
  BY <1>1, Client!ProxyKeeps, ClientWrites, ClientAssumptions DEF sVars, sProgram
<1>5. MidInv'
  BY <1>4 DEF PairInv, MidInv
<1> QED
  BY <1>2, <1>3, <1>5 DEF PairStep

LEMMA ServerProgramSteps ==
  ASSUME PairInv, SStep
  PROVE  PairStep
<1>1. Server!Proxy /\ UNCHANGED cVars /\ cRest' = cRest
  BY ServerActs, ServerWrites DEF SStep
<1>2. Server!Next
  BY <1>1 DEF Server!Next
<1>3. UNCHANGED Client!vars
  BY <1>1, ClientSleeps
<1>4. /\ sProc = "running" /\ sShut \subseteq sShut' /\ UNCHANGED <<sSent, sEof, sGot, sDgm>>
      /\ UNCHANGED <<cSent, cGot, cOut, cEof, cShut, cProc, cDgm>>
      /\ "l" \in sShut => sOut'["l"] = sOut["l"]
  BY <1>1, Server!ProxyKeeps, ServerWrites, ServerAssumptions DEF cVars, cProgram
<1>5. MidInv'
  BY <1>4 DEF PairInv, MidInv
<1> QED
  BY <1>2, <1>3, <1>5 DEF PairStep

LEMMA ClientOctetSteps ==
  ASSUME PairInv, CToS
  PROVE  PairStep
<1> DEFINE h == Head(cOut["r"])
<1>1. /\ C!HostReads("r") /\ UNCHANGED <<cProgram, sGot, sOut, sPend>>
  BY DEF CToS, MidOpen, C!HostReads, sProgram
<1>2. Client!Next
  <2>1. cDgm = "r" /\ UNCHANGED cRest
    BY <1>1 DEF PairInv, MidInv, cRest, sWire
  <2>2. Client!HostActs
    BY <1>1, <2>1, ClientHosts DEF Sides
  <2> QED
    BY <2>2 DEF Client!Next
<1>3. Server!Next
  BY ServerReceives DEF Server!Next
<1>4. MidInv'
  <2>1. /\ cGot' = [cGot EXCEPT !["r"] = Append(@, h)] /\ sSent' = [sSent EXCEPT !["l"] = @ \o Payload(<<h>>)]
        /\ cOut["r"] # <<>>
        /\ UNCHANGED <<cEof, cShut, cSent, cDgm, cProc, sEof, sOut, sShut, sGot, sDgm, sProc>>
    BY DEF CToS, cProgram, sProgram
  <2>2. /\ cGot["r"] \in Seq(Octets) /\ cOut["r"] \in Seq(Octets)
        /\ cGot'["r"] = Append(cGot["r"], h)
        /\ sSent'["l"] = sSent["l"] \o Payload(<<h>>) /\ sSent'["r"] = sSent["r"]
    BY <2>1, ClientWire, ServerWire DEF Sides
  <2>3. h \in Octets
    BY <2>1, <2>2, HeadTailProperties
  <2> HIDE DEF h
  <2>4. Payload(Append(cGot["r"], h)) = Payload(cGot["r"]) \o Payload(<<h>>)
    <3>1. Append(cGot["r"], h) = cGot["r"] \o <<h>> /\ <<h>> \in Seq(Octets)
      BY <2>2, <2>3, AppendIsConcat
    <3> QED
      BY <2>2, <3>1, PayloadCat
  <2> QED
    BY <2>1, <2>2, <2>4 DEF PairInv, MidInv
<1> QED
  BY <1>2, <1>3, <1>4 DEF PairStep

LEMMA ClientFinSteps ==
  ASSUME PairInv, CEnds
  PROVE  PairStep
<1>1. /\ S!HostCloses("l") /\ sProc = "running" /\ UNCHANGED <<cVars, sProgram>>
      /\ cOut["r"] = <<>> /\ ("r" \in cShut \/ cProc # "running")
      /\ UNCHANGED <<cSent, cGot, cOut, cEof, cShut, cProc, cPend, cDgm>>
      /\ UNCHANGED <<sSent, sGot, sOut, sShut, sProc, sPend, sDgm>> /\ sEof' = sEof \cup {"l"}
  BY DEF CEnds, S!HostCloses, cVars, cProgram, sProgram
<1>2. UNCHANGED <<cRest, sRest>> /\ sDgm = "l"
  BY <1>1 DEF PairInv, MidInv, cRest, sRest, cWire, sWire
<1>3. Server!Next
  BY <1>1, <1>2, ServerHosts DEF Server!Next, Sides
<1>4. UNCHANGED Client!vars
  BY <1>1, <1>2, ClientSleeps
<1>5. MidInv'
  BY <1>1 DEF PairInv, MidInv
<1> QED
  BY <1>3, <1>4, <1>5 DEF PairStep

\* The host of a program, and the failure of either of its connections.
LEMMA ClientHostSteps ==
  ASSUME PairInv, UNCHANGED <<sVars, cProgram>>,
         \/ C!Connected("l") \/ C!Refused("l") \/ C!HostReads("l") \/ \E s \in Sides : C!ConnectionLost(s)
         \/ cProc = "running" /\ (C!HostSends("l") \/ C!HostCloses("l"))
  PROVE  PairStep
<1>1. /\ UNCHANGED <<sSent, sGot, sOut, sEof, sShut, sProc, sPend, sDgm, cPend, cDgm, cProc>>
      /\ UNCHANGED cShut
  BY DEF sVars, sProgram, cProgram, C!Connected, C!Refused, C!HostReads, C!ConnectionLost, C!HostSends,
         C!HostCloses
<1>2. cGot'["r"] = cGot["r"] /\ cOut'["r"] = cOut["r"] /\ cSent'["r"] = cSent["r"]
  <2>1. /\ cOut \in [Sides -> Seq(Octets)] /\ cGot \in [Sides -> Seq(Octets)]
        /\ cSent \in [Sides -> Seq(Octets)] /\ "r" \in Sides
    BY ClientWire DEF Sides
  <2> QED
    BY <2>1 DEF C!Connected, C!Refused, C!HostReads, C!ConnectionLost, C!HostSends, C!HostCloses
<1>3. UNCHANGED <<cRest, sRest>> /\ cDgm = "r"
  BY <1>1, <1>2 DEF PairInv, MidInv, cRest, sRest, cWire, sWire
<1>4. Client!Next
  BY <1>3, ClientHosts DEF Client!Next, Sides
<1>5. UNCHANGED Server!vars
  BY <1>3, ServerSleeps
<1>6. "r" \in cEof' => "r" \in cEof
  BY DEF C!Connected, C!Refused, C!HostReads, C!ConnectionLost, C!HostSends, C!HostCloses
<1>7. Named(cSent'["l"], "l")
  <2>1. CASE cSent' = cSent
    BY <2>1 DEF PairInv, MidInv
  <2>2. CASE C!HostSends("l")
    <3>1. /\ Len(cSent["l"]) < MaxOctets["l"]
          /\ cSent' = [cSent EXCEPT !["l"] = Append(@, <<"l", Len(cSent["l"]) + 1>>)]
      BY <2>2 DEF C!HostSends
    <3>2. cSent["l"] \in Seq(Octets) /\ cSent \in [Sides -> Seq(Octets)] /\ "l" \in Sides
      BY ClientWire DEF Sides
    <3>3. cSent'["l"] = Append(cSent["l"], <<"l", Len(cSent["l"]) + 1>>) /\ Named(cSent["l"], "l")
      BY <3>1, <3>2 DEF PairInv, MidInv
    <3> QED
      BY <3>1, <3>2, <3>3, NamedGrows
  <2> QED
    BY <2>1, <2>2 DEF C!Connected, C!Refused, C!HostReads, C!ConnectionLost, C!HostCloses
<1>8. MidInv'
  BY <1>1, <1>2, <1>6, <1>7 DEF PairInv, MidInv
<1> QED
  BY <1>4, <1>5, <1>8 DEF PairStep

LEMMA ServerOctetSteps ==
  ASSUME PairInv, SToC
  PROVE  PairStep
<1> DEFINE h == Head(sOut["l"])
<1>1. /\ S!HostReads("l") /\ UNCHANGED <<sProgram, cGot, cOut, cPend>>
  BY DEF SToC, MidOpen, S!HostReads, cProgram
<1>2. Server!Next
  <2>1. sDgm = "l" /\ UNCHANGED sRest
    BY <1>1 DEF PairInv, MidInv, sRest, cWire
  <2>2. Server!HostActs
    BY <1>1, <2>1, ServerHosts DEF Sides
  <2> QED
    BY <2>2 DEF Server!Next
<1>3. Client!Next
  BY ClientReceives DEF Client!Next
<1>4. MidInv'
  <2>1. /\ sGot' = [sGot EXCEPT !["l"] = Append(@, h)] /\ cSent' = [cSent EXCEPT !["r"] = @ \o Payload(<<h>>)]
        /\ sOut["l"] # <<>>
        /\ UNCHANGED <<sEof, sShut, sSent, sDgm, sProc, cEof, cOut, cShut, cGot, cDgm, cProc>>
    BY DEF SToC, sProgram, cProgram
  <2>2. /\ sGot["l"] \in Seq(Octets) /\ sOut["l"] \in Seq(Octets)
        /\ sGot'["l"] = Append(sGot["l"], h)
        /\ cSent'["r"] = cSent["r"] \o Payload(<<h>>) /\ cSent'["l"] = cSent["l"]
    BY <2>1, ServerWire, ClientWire DEF Sides
  <2>3. h \in Octets
    BY <2>1, <2>2, HeadTailProperties
  <2> HIDE DEF h
  <2>4. Payload(Append(sGot["l"], h)) = Payload(sGot["l"]) \o Payload(<<h>>)
    <3>1. Append(sGot["l"], h) = sGot["l"] \o <<h>> /\ <<h>> \in Seq(Octets)
      BY <2>2, <2>3, AppendIsConcat
    <3> QED
      BY <2>2, <3>1, PayloadCat
  <2> QED
    BY <2>1, <2>2, <2>4 DEF PairInv, MidInv
<1> QED
  BY <1>2, <1>3, <1>4 DEF PairStep

LEMMA ServerFinSteps ==
  ASSUME PairInv, SEnds
  PROVE  PairStep
<1>1. /\ C!HostCloses("r") /\ cProc = "running" /\ UNCHANGED <<sVars, cProgram>>
      /\ sOut["l"] = <<>> /\ ("l" \in sShut \/ sProc # "running")
      /\ UNCHANGED <<sSent, sGot, sOut, sEof, sShut, sProc, sPend, sDgm>>
      /\ UNCHANGED <<cSent, cGot, cOut, cShut, cProc, cPend, cDgm>> /\ cEof' = cEof \cup {"r"}
  BY DEF SEnds, C!HostCloses, sVars, sProgram, cProgram
<1>2. UNCHANGED <<sRest, cRest>> /\ cDgm = "r"
  BY <1>1 DEF PairInv, MidInv, sRest, cRest, sWire, cWire
<1>3. Client!Next
  BY <1>1, <1>2, ClientHosts DEF Client!Next, Sides
<1>4. UNCHANGED Server!vars
  BY <1>1, <1>2, ServerSleeps
<1>5. MidInv'
  BY <1>1 DEF PairInv, MidInv
<1> QED
  BY <1>3, <1>4, <1>5 DEF PairStep

\* The host of a program, and the failure of either of its connections.
LEMMA ServerHostSteps ==
  ASSUME PairInv, UNCHANGED <<cVars, sProgram>>,
         \/ S!Connected("r") \/ S!Refused("r") \/ S!HostReads("r") \/ \E s \in Sides : S!ConnectionLost(s)
         \/ sProc = "running" /\ (S!HostSends("r") \/ S!HostCloses("r"))
  PROVE  PairStep
<1>1. /\ UNCHANGED <<cSent, cGot, cOut, cEof, cShut, cProc, cPend, cDgm, sPend, sDgm, sProc>>
      /\ UNCHANGED sShut
  BY DEF cVars, cProgram, sProgram, S!Connected, S!Refused, S!HostReads, S!ConnectionLost, S!HostSends,
         S!HostCloses
<1>2. sGot'["l"] = sGot["l"] /\ sOut'["l"] = sOut["l"] /\ sSent'["l"] = sSent["l"]
  <2>1. /\ sOut \in [Sides -> Seq(Octets)] /\ sGot \in [Sides -> Seq(Octets)]
        /\ sSent \in [Sides -> Seq(Octets)] /\ "l" \in Sides
    BY ServerWire DEF Sides
  <2> QED
    BY <2>1 DEF S!Connected, S!Refused, S!HostReads, S!ConnectionLost, S!HostSends, S!HostCloses
<1>3. UNCHANGED <<sRest, cRest>> /\ sDgm = "l"
  BY <1>1, <1>2 DEF PairInv, MidInv, sRest, cRest, sWire, cWire
<1>4. Server!Next
  BY <1>3, ServerHosts DEF Server!Next, Sides
<1>5. UNCHANGED Client!vars
  BY <1>3, ClientSleeps
<1>6. "l" \in sEof' => "l" \in sEof
  BY DEF S!Connected, S!Refused, S!HostReads, S!ConnectionLost, S!HostSends, S!HostCloses
<1>7. Named(sSent'["r"], "r")
  <2>1. CASE sSent' = sSent
    BY <2>1 DEF PairInv, MidInv
  <2>2. CASE S!HostSends("r")
    <3>1. /\ Len(sSent["r"]) < MaxOctets["r"]
          /\ sSent' = [sSent EXCEPT !["r"] = Append(@, <<"r", Len(sSent["r"]) + 1>>)]
      BY <2>2 DEF S!HostSends
    <3>2. sSent["r"] \in Seq(Octets) /\ sSent \in [Sides -> Seq(Octets)] /\ "r" \in Sides
      BY ServerWire DEF Sides
    <3>3. sSent'["r"] = Append(sSent["r"], <<"r", Len(sSent["r"]) + 1>>) /\ Named(sSent["r"], "r")
      BY <3>1, <3>2 DEF PairInv, MidInv
    <3> QED
      BY <3>1, <3>2, <3>3, NamedGrows
  <2> QED
    BY <2>1, <2>2 DEF S!Connected, S!Refused, S!HostReads, S!ConnectionLost, S!HostCloses
<1>8. MidInv'
  BY <1>1, <1>2, <1>6, <1>7 DEF PairInv, MidInv
<1> QED
  BY <1>4, <1>5, <1>8 DEF PairStep

LEMMA PairSteps ==
  ASSUME PairInv, [Next]_vars
  PROVE  PairStep
<1>1. CASE CStep \/ SStep
  BY <1>1, ClientProgramSteps, ServerProgramSteps
<1>2. CASE Network
  <2>1. CASE CToS \/ SToC
    BY <2>1, ClientOctetSteps, ServerOctetSteps
  <2>2. CASE CEnds \/ SEnds
    BY <2>2, ClientFinSteps, ServerFinSteps
  <2>3. CASE CLoses
    BY <2>3, ClientHostSteps DEF CLoses, Sides
  <2>4. CASE SLoses
    BY <2>4, ServerHostSteps DEF SLoses, Sides
  <2> QED
    BY <1>2, <2>1, <2>2, <2>3, <2>4 DEF Network
<1>3. CASE HostA \/ HostAReads
  BY <1>3, ClientHostSteps DEF HostA, HostAReads
<1>4. CASE HostB \/ HostBReads
  BY <1>4, ServerHostSteps DEF HostB, HostBReads
<1>5. CASE Faults
  BY <1>5, ClientHostSteps, ServerHostSteps DEF Faults, Sides
<1>6. CASE Terminated \/ UNCHANGED vars
  <2>1. UNCHANGED <<cVars, sVars>>
    BY <1>6 DEF Terminated, vars
  <2>2. UNCHANGED <<cOut, cPend, cGot, cShut, cEof, cSent, cDgm, cProc, sOut, sPend, sGot, sShut, sEof,
                    sSent, sDgm, sProc>>
    BY <2>1 DEF cVars, sVars, cProgram, sProgram
  <2>3. UNCHANGED <<cRest, sRest>>
    BY <2>2 DEF cRest, sRest, cWire, sWire
  <2>4. UNCHANGED Client!vars /\ UNCHANGED Server!vars
    BY <2>1, <2>3, ClientSleeps, ServerSleeps
  <2>5. MidInv'
    BY <2>2 DEF PairInv, MidInv
  <2> QED
    BY <2>4, <2>5 DEF PairStep
<1> QED
  BY <1>1, <1>2, <1>3, <1>4, <1>5, <1>6 DEF Next, Delivers

-----------------------------------------------------------------------------
(* The invariant of the pair.                                              *)

LEMMA PairInitially == Init => Client!Init /\ Server!Init /\ MidInv
<1> SUFFICES ASSUME Init
             PROVE  Client!Init /\ Server!Init /\ MidInv
  OBVIOUS
<1>1. /\ C!Init /\ cDgm = "r" /\ S!Init /\ sDgm = "l"
  BY DEF Init
<1>2. /\ cOut["r"] = <<>> /\ cGot["r"] = <<>> /\ cPend = <<>> /\ cEof = {}
      /\ cSent["l"] = <<>> /\ cSent["r"] = <<>>
      /\ sOut["l"] = <<>> /\ sGot["l"] = <<>> /\ sPend = <<>> /\ sEof = {}
      /\ sSent["l"] = <<>> /\ sSent["r"] = <<>>
  BY <1>1 DEF C!Init, C!SocketsInit, S!Init, S!SocketsInit, Sides, C!Sides, S!Sides
<1>3. RestOf(<<>>, Cat(<<>>, <<>>)) = <<>>
  <2>1. <<>> \in Seq(Octets) /\ Cat(<<>>, <<>>) = <<>>
    BY EmptySeq, CatEmpty
  <2>2. InStep(<<>>)
    <3>1. DOMAIN <<>> = {}
      OBVIOUS
    <3> QED
      BY <3>1 DEF WellFramed, InStep
  <2> QED
    BY <2>1, <2>2, RestFacts
<1>4. cRest = <<>> /\ sRest = <<>>
  BY <1>2, <1>3 DEF cRest, sRest, cWire, sWire
<1>5. Client!Init
  BY <1>1, <1>4 DEF C!Init, C!SocketsInit, C!BridgeInit, C!Sides, C!InitialFlags, C!InitialMask, C!Idle,
       Client!Init, Client!SocketsInit, Client!BridgeInit, Client!Sides, Client!InitialFlags,
       Client!InitialMask, Client!Idle
<1>6. Server!Init
  BY <1>1, <1>4 DEF S!Init, S!SocketsInit, S!BridgeInit, S!Sides, S!InitialFlags, S!InitialMask, S!Idle,
       Server!Init, Server!SocketsInit, Server!BridgeInit, Server!Sides, Server!InitialFlags,
       Server!InitialMask, Server!Idle
<1>7. MidInv
  <2>1. Payload(<<>>) = <<>>
    BY PayloadEmpty
  <2>2. Named(<<>>, "l") /\ Named(<<>>, "r")
    BY PairAssumption DEF Named, Sides
  <2> QED
    BY <1>1, <1>2, <2>1, <2>2 DEF MidInv
<1> QED
  BY <1>5, <1>6, <1>7

\* What is inductive of one program is so of the pair.
LEMMA ClientKeepsIts ==
  ASSUME Client!IndInv, Client!WireInv, [Client!Next]_(Client!vars)
  PROVE  Client!IndInv' /\ Client!WireInv'
<1>1. Client!TypeOK /\ Client!ControlInv /\ Client!StreamInv /\ Client!TodoInv /\ Client!InStepInv
  BY DEF Client!IndInv, Client!StreamInv, Client!FrameInv
<1>2. Client!TypeOK' /\ Client!ControlInv' /\ Client!StreamInv' /\ Client!TodoInv'
  BY <1>1, ClientAssumptions, Client!TypesInductive, Client!ControlInductive, Client!StreamsInductive,
     Client!TodoInductive
<1>3. Client!WireInv'
  BY <1>1, ClientAssumptions, Client!WireInductive
<1> QED
  BY <1>2, <1>3 DEF Client!IndInv

LEMMA ClientStartsWithIts == Client!Init => Client!IndInv /\ Client!WireInv
<1>1. Client!Init => Client!TypeOK /\ Client!ControlInv /\ Client!StreamInv /\ Client!TodoInv
  BY ClientAssumptions, Client!TypesInitially, Client!ControlInitially, Client!StreamsInitially,
     Client!TodoInitially
<1>2. Client!Init => Client!WireInv
  BY ClientAssumptions, Client!WireInitially
<1> QED
  BY <1>1, <1>2 DEF Client!IndInv

\* What is inductive of one program is so of the pair.
LEMMA ServerKeepsIts ==
  ASSUME Server!IndInv, Server!WireInv, [Server!Next]_(Server!vars)
  PROVE  Server!IndInv' /\ Server!WireInv'
<1>1. Server!TypeOK /\ Server!ControlInv /\ Server!StreamInv /\ Server!TodoInv /\ Server!InStepInv
  BY DEF Server!IndInv, Server!StreamInv, Server!FrameInv
<1>2. Server!TypeOK' /\ Server!ControlInv' /\ Server!StreamInv' /\ Server!TodoInv'
  BY <1>1, ServerAssumptions, Server!TypesInductive, Server!ControlInductive, Server!StreamsInductive,
     Server!TodoInductive
<1>3. Server!WireInv'
  BY <1>1, ServerAssumptions, Server!WireInductive
<1> QED
  BY <1>2, <1>3 DEF Server!IndInv

LEMMA ServerStartsWithIts == Server!Init => Server!IndInv /\ Server!WireInv
<1>1. Server!Init => Server!TypeOK /\ Server!ControlInv /\ Server!StreamInv /\ Server!TodoInv
  BY ServerAssumptions, Server!TypesInitially, Server!ControlInitially, Server!StreamsInitially,
     Server!TodoInitially
<1>2. Server!Init => Server!WireInv
  BY ServerAssumptions, Server!WireInitially
<1> QED
  BY <1>1, <1>2 DEF Server!IndInv

\* What is shown of one proxy holds of both, and the connection in the middle
\* takes from the one what it gives to the other, for whatever sizes of buffers
\* and datagrams.
THEOREM PairInvariantHolds == Spec => []PairInv
<1>1. Init => PairInv
  BY PairInitially, ClientStartsWithIts, ServerStartsWithIts DEF PairInv
<1>2. PairInv /\ [Next]_vars => PairInv'
  BY PairSteps, ClientKeepsIts, ServerKeepsIts DEF PairInv, PairStep
<1> QED
  BY <1>1, <1>2, PTL DEF Spec

\* The assumptions that TcpProxy makes about the proxy at the other end are met
\* when that is the other program: the program of this side, with the rest of the
\* pair for its environment, behaves as TcpProxy says.
THEOREM ClientIsAProxy == Spec => Client!Spec
<1>1. Init => Client!Init
  BY PairInitially
<1>2. PairInv /\ [Next]_vars => [Client!Next]_(Client!vars)
  BY PairSteps DEF PairStep
<1> QED
  BY <1>1, <1>2, PairInvariantHolds, PTL DEF Spec, Client!Spec

\* What TcpProxyProofs shows of such a program.
LEMMA ClientIsSound ==
  Spec => [](Client!IndInv /\ Client!WireInv /\ Client!EndInv /\ Client!ReportsInv)
<1>1. Client!Spec => []Client!EndInv
  BY ClientAssumptions, Client!NothingIsLeftBehind
<1>2. Client!Spec => []Client!ReportsInv
  BY ClientAssumptions, Client!ReportsAreTrue
<1>3. PairInv => Client!IndInv /\ Client!WireInv
  BY DEF PairInv
<1> QED
  BY <1>1, <1>2, <1>3, ClientIsAProxy, PairInvariantHolds, PTL

\* The assumptions that TcpProxy makes about the proxy at the other end are met
\* when that is the other program: the program of this side, with the rest of the
\* pair for its environment, behaves as TcpProxy says.
THEOREM ServerIsAProxy == Spec => Server!Spec
<1>1. Init => Server!Init
  BY PairInitially
<1>2. PairInv /\ [Next]_vars => [Server!Next]_(Server!vars)
  BY PairSteps DEF PairStep
<1> QED
  BY <1>1, <1>2, PairInvariantHolds, PTL DEF Spec, Server!Spec

\* What TcpProxyProofs shows of such a program.
LEMMA ServerIsSound ==
  Spec => [](Server!IndInv /\ Server!WireInv /\ Server!EndInv /\ Server!ReportsInv)
<1>1. Server!Spec => []Server!EndInv
  BY ServerAssumptions, Server!NothingIsLeftBehind
<1>2. Server!Spec => []Server!ReportsInv
  BY ServerAssumptions, Server!ReportsAreTrue
<1>3. PairInv => Server!IndInv /\ Server!WireInv
  BY DEF PairInv
<1> QED
  BY <1>1, <1>2, <1>3, ServerIsAProxy, PairInvariantHolds, PTL

-----------------------------------------------------------------------------
(* No program is told of a failure unless a connection has failed.         *)

\* What is known of each program and of the connection between them.
Sound ==
  /\ PairInv
  /\ Client!EndInv /\ Client!ReportsInv
  /\ Server!EndInv /\ Server!ReportsInv

NoFalseAlarm == ~Failures => cReports # <<"failed">> /\ sReports # <<"failed">>

\* A program that sends no more, and has not failed, has sent all of its last
\* datagram.
LEMMA ClientIsDone ==
  ASSUME Sound, cReports # <<"failed">>, "r" \in cShut \/ cProc # "running"
  PROVE  "r" \in cShut /\ cPend = <<>>
<1>1. Client!TypeOK /\ Client!ControlInv /\ Client!EndInv /\ Client!ReportsInv /\ cDgm = "r"
  BY DEF Sound, PairInv, MidInv, Client!IndInv
<1>2. "r" \in cShut
  <2>1. CASE cProc # "running"
    <3>1. cProc = "exited"
      BY <1>1, <2>1 DEF Client!TypeOK, Client!ControlInv, Client!NoAbort
    <3>2. cReports = <<"graceful">>
      BY <1>1, <3>1 DEF Client!EndInv, Client!ReportsInv, Client!Dead
    <3> QED
      BY <1>1, <3>2 DEF Client!ReportsInv, Client!Sides
  <2> QED
    BY <2>1
<1>3. "fin_sent" \in cTcp["r"]
  BY <1>1, <1>2 DEF Client!ControlInv, Client!FinInv
<1>4. cPend = <<>>
  BY <1>1, <1>3 DEF Client!ControlInv, Client!LinkInv
<1> QED
  BY <1>2, <1>4

\* It has handed over what the other one has received.
LEMMA ClientHasSent ==
  ASSUME PairInv, cOut["r"] = <<>>, cPend = <<>>
  PROVE  C!Passed("r") = sSent["l"] /\ cWire = <<>>
<1>1. cWire = <<>>
  BY CatEmpty, EmptySeq DEF cWire
<1>2. Cat(cGot["r"], cWire) = cGot["r"]
  BY <1>1, ClientWire, CatEmpty
<1> QED
  BY <1>1, <1>2, ClientWire DEF PairInv, MidInv

\* The end of its stream does not cut a datagram.
LEMMA ServerIsNotTorn ==
  ASSUME Sound, cReports # <<"failed">>
  PROVE  ~Server!Torn
<1> SUFFICES ASSUME Server!Torn
             PROVE  FALSE
  OBVIOUS
<1>1. "l" \in sEof /\ sRest # <<>>
  BY DEF Sound, PairInv, MidInv, Server!Torn
<1>2. cOut["r"] = <<>> /\ ("r" \in cShut \/ cProc # "running")
  BY <1>1 DEF Sound, PairInv, MidInv
<1>3. PairInv /\ cPend = <<>>
  BY <1>2, ClientIsDone DEF Sound
<1>4. cWire = <<>>
  BY <1>2, <1>3, ClientHasSent
<1>5. sRest = <<>>
  BY <1>3, <1>4, ClientWire, RestFacts DEF sRest
<1> QED
  BY <1>1, <1>5

\* A program that sends no more, and has not failed, has sent all of its last
\* datagram.
LEMMA ServerIsDone ==
  ASSUME Sound, sReports # <<"failed">>, "l" \in sShut \/ sProc # "running"
  PROVE  "l" \in sShut /\ sPend = <<>>
<1>1. Server!TypeOK /\ Server!ControlInv /\ Server!EndInv /\ Server!ReportsInv /\ sDgm = "l"
  BY DEF Sound, PairInv, MidInv, Server!IndInv
<1>2. "l" \in sShut
  <2>1. CASE sProc # "running"
    <3>1. sProc = "exited"
      BY <1>1, <2>1 DEF Server!TypeOK, Server!ControlInv, Server!NoAbort
    <3>2. sReports = <<"graceful">>
      BY <1>1, <3>1 DEF Server!EndInv, Server!ReportsInv, Server!Dead
    <3> QED
      BY <1>1, <3>2 DEF Server!ReportsInv, Server!Sides
  <2> QED
    BY <2>1
<1>3. "fin_sent" \in sTcp["l"]
  BY <1>1, <1>2 DEF Server!ControlInv, Server!FinInv
<1>4. sPend = <<>>
  BY <1>1, <1>3 DEF Server!ControlInv, Server!LinkInv
<1> QED
  BY <1>2, <1>4

\* It has handed over what the other one has received.
LEMMA ServerHasSent ==
  ASSUME PairInv, sOut["l"] = <<>>, sPend = <<>>
  PROVE  S!Passed("l") = cSent["r"] /\ sWire = <<>>
<1>1. sWire = <<>>
  BY CatEmpty, EmptySeq DEF sWire
<1>2. Cat(sGot["l"], sWire) = sGot["l"]
  BY <1>1, ServerWire, CatEmpty
<1> QED
  BY <1>1, <1>2, ServerWire DEF PairInv, MidInv

\* The end of its stream does not cut a datagram.
LEMMA ClientIsNotTorn ==
  ASSUME Sound, sReports # <<"failed">>
  PROVE  ~Client!Torn
<1> SUFFICES ASSUME Client!Torn
             PROVE  FALSE
  OBVIOUS
<1>1. "r" \in cEof /\ cRest # <<>>
  BY DEF Sound, PairInv, MidInv, Client!Torn
<1>2. sOut["l"] = <<>> /\ ("l" \in sShut \/ sProc # "running")
  BY <1>1 DEF Sound, PairInv, MidInv
<1>3. PairInv /\ sPend = <<>>
  BY <1>2, ServerIsDone DEF Sound
<1>4. sWire = <<>>
  BY <1>2, <1>3, ServerHasSent
<1>5. cRest = <<>>
  BY <1>3, <1>4, ServerWire, RestFacts DEF cRest
<1> QED
  BY <1>1, <1>5

LEMMA ClientRaisesNoAlarm ==
  ASSUME Sound, PairInv', NoFalseAlarm, ~Failures, [Client!Next]_(Client!vars)
  PROVE  cReports' # <<"failed">>
<1>1. Client!IndInv /\ Client!IndInv' /\ cReports # <<"failed">> /\ sReports # <<"failed">>
  BY DEF Sound, PairInv, NoFalseAlarm
<1>2. ~Client!Torn
  BY <1>1, ClientIsNotTorn
<1>3. \A s \in Sides : ~Client!Failed(s)
  BY ClientNames DEF Failures
<1>4. Client!Lost = {}
  BY <1>2, <1>3, ClientNames DEF Client!Lost
<1>5. Client!ReportStep
  BY <1>1, ClientAssumptions, Client!StepReports
<1> QED
  BY <1>1, <1>4, <1>5 DEF Client!ReportStep

LEMMA ClientFailedStays ==
  ASSUME PairInv, [Client!Next]_(Client!vars), NEW s \in Sides, C!Failed(s)
  PROVE  C!Failed(s)'
<1>1. Client!TypeOK /\ Client!Failed(s) /\ s \in Client!Sides
  BY ClientNames DEF PairInv, Client!IndInv
<1>2. Client!Failed(s)'
  BY <1>1, ClientAssumptions, Client!FailedStays
<1> QED
  BY <1>2 DEF C!Failed, Client!Failed

LEMMA ServerRaisesNoAlarm ==
  ASSUME Sound, PairInv', NoFalseAlarm, ~Failures, [Server!Next]_(Server!vars)
  PROVE  sReports' # <<"failed">>
<1>1. Server!IndInv /\ Server!IndInv' /\ sReports # <<"failed">> /\ cReports # <<"failed">>
  BY DEF Sound, PairInv, NoFalseAlarm
<1>2. ~Server!Torn
  BY <1>1, ServerIsNotTorn
<1>3. \A s \in Sides : ~Server!Failed(s)
  BY ServerNames DEF Failures
<1>4. Server!Lost = {}
  BY <1>2, <1>3, ServerNames DEF Server!Lost
<1>5. Server!ReportStep
  BY <1>1, ServerAssumptions, Server!StepReports
<1> QED
  BY <1>1, <1>4, <1>5 DEF Server!ReportStep

LEMMA ServerFailedStays ==
  ASSUME PairInv, [Server!Next]_(Server!vars), NEW s \in Sides, S!Failed(s)
  PROVE  S!Failed(s)'
<1>1. Server!TypeOK /\ Server!Failed(s) /\ s \in Server!Sides
  BY ServerNames DEF PairInv, Server!IndInv
<1>2. Server!Failed(s)'
  BY <1>1, ServerAssumptions, Server!FailedStays
<1> QED
  BY <1>2 DEF S!Failed, Server!Failed

LEMMA AlarmIsTrue ==
  ASSUME Sound, PairInv', NoFalseAlarm, [Next]_vars
  PROVE  NoFalseAlarm'
<1> SUFFICES ASSUME ~Failures'
             PROVE  cReports' # <<"failed">> /\ sReports' # <<"failed">>
  BY DEF NoFalseAlarm
<1>1. PairInv /\ [Client!Next]_(Client!vars) /\ [Server!Next]_(Server!vars)
  BY PairSteps DEF Sound, PairStep
<1>2. ~Failures
  <2>1. SUFFICES ASSUME NEW s \in Sides, C!Failed(s) \/ S!Failed(s)
                 PROVE  FALSE
    BY DEF Failures
  <2>2. C!Failed(s)' \/ S!Failed(s)'
    BY <1>1, <2>1, ClientFailedStays, ServerFailedStays
  <2> QED
    BY <2>2 DEF Failures
<1> QED
  BY <1>1, <1>2, ClientRaisesNoAlarm, ServerRaisesNoAlarm

LEMMA BothAreSound == Spec => []Sound
<1>1. PairInv /\ Client!EndInv /\ Client!ReportsInv /\ Server!EndInv /\ Server!ReportsInv => Sound
  BY DEF Sound
<1>2. Client!IndInv /\ Client!WireInv /\ Client!EndInv /\ Client!ReportsInv =>
        Client!EndInv /\ Client!ReportsInv
  OBVIOUS
<1> QED
  BY <1>1, <1>2, PairInvariantHolds, ClientIsSound, ServerIsSound, PTL

\* As long as no connection has failed no program reports that one has: neither
\* takes the end of the other one for a failure.
THEOREM NoAlarmIsFalse == Spec => []NoFalseAlarm
<1>1. Init => NoFalseAlarm
  BY DEF Init, C!Init, S!Init, C!BridgeInit, S!BridgeInit, NoFalseAlarm
<1>2. Sound /\ PairInv' /\ NoFalseAlarm /\ [Next]_vars => NoFalseAlarm'
  BY AlarmIsTrue
<1> QED
  BY <1>1, <1>2, BothAreSound, PairInvariantHolds, PTL DEF Spec

-----------------------------------------------------------------------------
(* The whole way, from one host to the other.                              *)

LEMMA ServerStreams ==
  ASSUME PairInv
  PROVE  /\ S!Passed("r") \in Seq(Octets)
         /\ IsPrefix(S!Passed("r"), sSent["l"])
         /\ IsPrefix(sSent["l"], C!Passed("r"))
<1>1. /\ Server!TypeOK /\ Server!StreamIntact /\ sDgm = "l"
      /\ sSent["l"] = Payload(cGot["r"])
  BY DEF PairInv, MidInv, Server!IndInv, Server!StreamInv
<1>2. "l" \in Sides /\ "r" \in Sides /\ Peer("r") = "l"
  BY DEF Sides, Peer
<1>3. S!Passed("r") = Cat(sGot["r"], sOut["r"])
  BY <1>1 DEF S!Passed, Cat
<1>4. sGot["r"] \in Seq(Octets) /\ sOut["r"] \in Seq(Octets)
  BY <1>2, ServerWire
<1>5. S!Passed("r") \in Seq(Octets)
  BY <1>3, <1>4, CatType
<1>6. IsPrefix(S!Passed("r"), sSent["l"])
  <2>1. Server!IsPrefix(Server!Passed("r"), sSent[Server!Peer("r")])
    BY <1>1, <1>2, ServerNames DEF Server!StreamIntact
  <2> QED
    BY <1>2, <2>1, ServerNames
<1>7. IsPrefix(sSent["l"], C!Passed("r"))
  <2>1. Payload(Cat(cGot["r"], cWire)) = Cat(Payload(cGot["r"]), Payload(cWire))
    BY ClientWire, PayloadCat DEF Cat
  <2>2. Payload(cGot["r"]) \in Seq(Octets) /\ Payload(cWire) \in Seq(Octets)
    BY ClientWire, PayloadSeq
  <2>3. IsPrefix(Payload(cGot["r"]), Payload(cGot["r"]) \o Payload(cWire))
    BY <2>2, PrefixOfConcat
  <2> QED
    BY <1>1, <2>1, <2>3, ClientWire DEF Cat
<1> QED
  BY <1>5, <1>6, <1>7

\* Host B gets a beginning of what host A has sent.
LEMMA BeginningOfA == PairInv => IsPrefix(S!Passed("r"), cSent["l"])
<1> SUFFICES ASSUME PairInv
             PROVE  IsPrefix(S!Passed("r"), cSent["l"])
  OBVIOUS
<1>1. /\ S!Passed("r") \in Seq(Octets) /\ sSent["l"] \in Seq(Octets)
      /\ C!Passed("r") \in Seq(Octets) /\ cSent["l"] \in Seq(Octets)
  <2>1. Payload(Cat(cGot["r"], cWire)) \in Seq(Octets)
    BY ClientWire, CatType, PayloadSeq
  <2> QED
    BY <2>1, ServerStreams, ServerWire, ClientWire
<1>2. /\ IsPrefix(S!Passed("r"), sSent["l"]) /\ IsPrefix(sSent["l"], C!Passed("r"))
      /\ IsPrefix(C!Passed("r"), cSent["l"])
  BY ServerStreams, ClientWire
<1>3. IsPrefix(S!Passed("r"), C!Passed("r"))
  BY <1>1, <1>2, PrefixTrans
<1> QED
  BY <1>1, <1>2, <1>3, PrefixTrans

\* Nothing is missing on the way from host A to host B.
LEMMA NoneMissingToB ==
  ASSUME Sound, cReports # <<"failed">>, sReports # <<"failed">>
  PROVE  WayToB = cSent["l"]
<1>1. /\ Client!IndInv /\ Client!EndInv /\ Client!ReportsInv /\ cDgm = "r"
      /\ Server!IndInv /\ Server!EndInv /\ Server!ReportsInv /\ sDgm = "l"
      /\ sSent["l"] = Payload(cGot["r"]) /\ PairInv
  BY DEF Sound, PairInv, MidInv
<1>2. "l" \in Sides /\ "r" \in Sides /\ Peer("r") = "l"
  BY DEF Sides, Peer
<1>3. S!Passed("r") \o sPending["r"] \o S!Received("l") = Payload(cGot["r"])
  <2>1. Server!Passed("r") \o sPending["r"] \o Server!Received(Server!Peer("r")) = sSent[Server!Peer("r")]
    BY <1>1, <1>2, ServerNames, ServerAssumptions, Server!AllAccounted
  <2> QED
    BY <1>1, <1>2, <2>1, ServerNames
<1>4. C!Passed("r") \o cPending["r"] \o cIn["l"] = cSent["l"]
  <2>1. Client!Passed("r") \o cPending["r"] \o Client!Received(Client!Peer("r")) = cSent[Client!Peer("r")]
    BY <1>1, <1>2, ClientNames, ClientAssumptions, Client!AllAccounted
  <2>2. Client!Received("l") = cIn["l"]
    BY <1>1 DEF Client!Received
  <2> QED
    BY <1>2, <2>1, <2>2, ClientNames
<1>5. Payload(cGot["r"]) \o Payload(cOut["r"] \o cPend) = C!Passed("r")
  <2>1. Payload(Cat(cGot["r"], cWire)) = Payload(cGot["r"]) \o Payload(cWire)
    BY <1>1, ClientWire, PayloadCat DEF Cat
  <2> QED
    BY <1>1, <2>1, ClientWire DEF cWire, Cat
<1> QED
  BY <1>3, <1>4, <1>5 DEF WayToB

\* FIN to host B comes after everything host A has sent, and only if A has closed.
LEMMA FinToB ==
  ASSUME Sound, cReports # <<"failed">>, "r" \in sShut
  PROVE  "l" \in cEof /\ S!Passed("r") = cSent["l"]
<1>1. PairInv /\ Client!ReportsInv /\ Server!ReportsInv
  BY DEF Sound
<1>2. Peer("r") = "l"
  BY DEF Peer
<1>3. "l" \in sEof /\ S!Passed("r") = sSent["l"]
  BY <1>1, <1>2, ServerNames DEF Server!ReportsInv
<1>4. cOut["r"] = <<>> /\ ("r" \in cShut \/ cProc # "running")
  BY <1>1, <1>3 DEF PairInv, MidInv
<1>5. "r" \in cShut /\ cPend = <<>>
  BY <1>4, ClientIsDone
<1>6. "l" \in cEof /\ C!Passed("r") = cSent["l"]
  BY <1>1, <1>2, <1>5, ClientNames DEF Client!ReportsInv
<1> QED
  BY <1>1, <1>3, <1>4, <1>5, <1>6, ClientHasSent

\* A graceful end leaves nothing of what the other program has framed behind,
\* however that one has ended.
LEMMA GracefulToB ==
  ASSUME Sound, sReports = <<"graceful">>
  PROVE  S!Passed("r") = C!Passed("r")
<1>1. PairInv /\ Server!ReportsInv /\ Client!WireInv /\ sDgm = "l" /\ cDgm = "r"
  BY DEF Sound, PairInv, MidInv
<1>2. Peer("r") = "l" /\ "r" \in sShut
  BY <1>1, ServerNames DEF Peer, Sides, Server!ReportsInv
<1>3. "l" \in sEof /\ S!Passed("r") = sSent["l"] /\ ~Server!Torn
  BY <1>1, <1>2, ServerNames DEF Server!ReportsInv
<1>4. cOut["r"] = <<>>
  BY <1>1, <1>3 DEF PairInv, MidInv
<1>5. InStep(cGot["r"])
  <2>1. sRest = <<>>
    BY <1>1, <1>3 DEF Server!Torn
  <2> QED
    BY <1>1, <2>1, ClientWire, RestFacts DEF sRest
<1>6. cPend = <<>>
  <2>1. SUFFICES ASSUME cPend # <<>>
                 PROVE  FALSE
    OBVIOUS
  <2>2. cPend \in Seq(Octets) /\ cGot["r"] \in Seq(Octets)
    BY <1>1, ClientWire
  <2>3. Len(cPend) \in Nat /\ Len(cPend) # 0
    BY <2>1, <2>2, LenProperties, EmptySeq
  <2>4. ~Client!InStep(cGot["r"] \o cOut["r"] \o Client!Taken(cPend, 0))
    BY <1>1, <2>3 DEF Client!WireInv
  <2>5. Client!Taken(cPend, 0) = <<>>
    BY <2>2, CutAtEnds DEF Taken, Client!Taken
  <2>6. cGot["r"] \o cOut["r"] \o <<>> = cGot["r"]
    BY <1>4, <2>2, ConcatEmptySeq
  <2> QED
    BY <1>5, <2>4, <2>5, <2>6, OneFraming
<1> QED
  BY <1>1, <1>3, <1>4, <1>6, ClientHasSent

LEMMA ClientStreams ==
  ASSUME PairInv
  PROVE  /\ C!Passed("l") \in Seq(Octets)
         /\ IsPrefix(C!Passed("l"), cSent["r"])
         /\ IsPrefix(cSent["r"], S!Passed("l"))
<1>1. /\ Client!TypeOK /\ Client!StreamIntact /\ cDgm = "r"
      /\ cSent["r"] = Payload(sGot["l"])
  BY DEF PairInv, MidInv, Client!IndInv, Client!StreamInv
<1>2. "r" \in Sides /\ "l" \in Sides /\ Peer("l") = "r"
  BY DEF Sides, Peer
<1>3. C!Passed("l") = Cat(cGot["l"], cOut["l"])
  BY <1>1 DEF C!Passed, Cat
<1>4. cGot["l"] \in Seq(Octets) /\ cOut["l"] \in Seq(Octets)
  BY <1>2, ClientWire
<1>5. C!Passed("l") \in Seq(Octets)
  BY <1>3, <1>4, CatType
<1>6. IsPrefix(C!Passed("l"), cSent["r"])
  <2>1. Client!IsPrefix(Client!Passed("l"), cSent[Client!Peer("l")])
    BY <1>1, <1>2, ClientNames DEF Client!StreamIntact
  <2> QED
    BY <1>2, <2>1, ClientNames
<1>7. IsPrefix(cSent["r"], S!Passed("l"))
  <2>1. Payload(Cat(sGot["l"], sWire)) = Cat(Payload(sGot["l"]), Payload(sWire))
    BY ServerWire, PayloadCat DEF Cat
  <2>2. Payload(sGot["l"]) \in Seq(Octets) /\ Payload(sWire) \in Seq(Octets)
    BY ServerWire, PayloadSeq
  <2>3. IsPrefix(Payload(sGot["l"]), Payload(sGot["l"]) \o Payload(sWire))
    BY <2>2, PrefixOfConcat
  <2> QED
    BY <1>1, <2>1, <2>3, ServerWire DEF Cat
<1> QED
  BY <1>5, <1>6, <1>7

\* Host A gets a beginning of what host B has sent.
LEMMA BeginningOfB == PairInv => IsPrefix(C!Passed("l"), sSent["r"])
<1> SUFFICES ASSUME PairInv
             PROVE  IsPrefix(C!Passed("l"), sSent["r"])
  OBVIOUS
<1>1. /\ C!Passed("l") \in Seq(Octets) /\ cSent["r"] \in Seq(Octets)
      /\ S!Passed("l") \in Seq(Octets) /\ sSent["r"] \in Seq(Octets)
  <2>1. Payload(Cat(sGot["l"], sWire)) \in Seq(Octets)
    BY ServerWire, CatType, PayloadSeq
  <2> QED
    BY <2>1, ClientStreams, ClientWire, ServerWire
<1>2. /\ IsPrefix(C!Passed("l"), cSent["r"]) /\ IsPrefix(cSent["r"], S!Passed("l"))
      /\ IsPrefix(S!Passed("l"), sSent["r"])
  BY ClientStreams, ServerWire
<1>3. IsPrefix(C!Passed("l"), S!Passed("l"))
  BY <1>1, <1>2, PrefixTrans
<1> QED
  BY <1>1, <1>2, <1>3, PrefixTrans

\* Nothing is missing on the way from host B to host A.
LEMMA NoneMissingToA ==
  ASSUME Sound, sReports # <<"failed">>, cReports # <<"failed">>
  PROVE  WayToA = sSent["r"]
<1>1. /\ Server!IndInv /\ Server!EndInv /\ Server!ReportsInv /\ sDgm = "l"
      /\ Client!IndInv /\ Client!EndInv /\ Client!ReportsInv /\ cDgm = "r"
      /\ cSent["r"] = Payload(sGot["l"]) /\ PairInv
  BY DEF Sound, PairInv, MidInv
<1>2. "r" \in Sides /\ "l" \in Sides /\ Peer("l") = "r"
  BY DEF Sides, Peer
<1>3. C!Passed("l") \o cPending["l"] \o C!Received("r") = Payload(sGot["l"])
  <2>1. Client!Passed("l") \o cPending["l"] \o Client!Received(Client!Peer("l")) = cSent[Client!Peer("l")]
    BY <1>1, <1>2, ClientNames, ClientAssumptions, Client!AllAccounted
  <2> QED
    BY <1>1, <1>2, <2>1, ClientNames
<1>4. S!Passed("l") \o sPending["l"] \o sIn["r"] = sSent["r"]
  <2>1. Server!Passed("l") \o sPending["l"] \o Server!Received(Server!Peer("l")) = sSent[Server!Peer("l")]
    BY <1>1, <1>2, ServerNames, ServerAssumptions, Server!AllAccounted
  <2>2. Server!Received("r") = sIn["r"]
    BY <1>1 DEF Server!Received
  <2> QED
    BY <1>2, <2>1, <2>2, ServerNames
<1>5. Payload(sGot["l"]) \o Payload(sOut["l"] \o sPend) = S!Passed("l")
  <2>1. Payload(Cat(sGot["l"], sWire)) = Payload(sGot["l"]) \o Payload(sWire)
    BY <1>1, ServerWire, PayloadCat DEF Cat
  <2> QED
    BY <1>1, <2>1, ServerWire DEF sWire, Cat
<1> QED
  BY <1>3, <1>4, <1>5 DEF WayToA

\* FIN to host A comes after everything host B has sent, and only if B has closed.
LEMMA FinToA ==
  ASSUME Sound, sReports # <<"failed">>, "l" \in cShut
  PROVE  "r" \in sEof /\ C!Passed("l") = sSent["r"]
<1>1. PairInv /\ Server!ReportsInv /\ Client!ReportsInv
  BY DEF Sound
<1>2. Peer("l") = "r"
  BY DEF Peer
<1>3. "r" \in cEof /\ C!Passed("l") = cSent["r"]
  BY <1>1, <1>2, ClientNames DEF Client!ReportsInv
<1>4. sOut["l"] = <<>> /\ ("l" \in sShut \/ sProc # "running")
  BY <1>1, <1>3 DEF PairInv, MidInv
<1>5. "l" \in sShut /\ sPend = <<>>
  BY <1>4, ServerIsDone
<1>6. "r" \in sEof /\ S!Passed("l") = sSent["r"]
  BY <1>1, <1>2, <1>5, ServerNames DEF Server!ReportsInv
<1> QED
  BY <1>1, <1>3, <1>4, <1>5, <1>6, ServerHasSent

\* A graceful end leaves nothing of what the other program has framed behind,
\* however that one has ended.
LEMMA GracefulToA ==
  ASSUME Sound, cReports = <<"graceful">>
  PROVE  C!Passed("l") = S!Passed("l")
<1>1. PairInv /\ Client!ReportsInv /\ Server!WireInv /\ cDgm = "r" /\ sDgm = "l"
  BY DEF Sound, PairInv, MidInv
<1>2. Peer("l") = "r" /\ "l" \in cShut
  BY <1>1, ClientNames DEF Peer, Sides, Client!ReportsInv
<1>3. "r" \in cEof /\ C!Passed("l") = cSent["r"] /\ ~Client!Torn
  BY <1>1, <1>2, ClientNames DEF Client!ReportsInv
<1>4. sOut["l"] = <<>>
  BY <1>1, <1>3 DEF PairInv, MidInv
<1>5. InStep(sGot["l"])
  <2>1. cRest = <<>>
    BY <1>1, <1>3 DEF Client!Torn
  <2> QED
    BY <1>1, <2>1, ServerWire, RestFacts DEF cRest
<1>6. sPend = <<>>
  <2>1. SUFFICES ASSUME sPend # <<>>
                 PROVE  FALSE
    OBVIOUS
  <2>2. sPend \in Seq(Octets) /\ sGot["l"] \in Seq(Octets)
    BY <1>1, ServerWire
  <2>3. Len(sPend) \in Nat /\ Len(sPend) # 0
    BY <2>1, <2>2, LenProperties, EmptySeq
  <2>4. ~Server!InStep(sGot["l"] \o sOut["l"] \o Server!Taken(sPend, 0))
    BY <1>1, <2>3 DEF Server!WireInv
  <2>5. Server!Taken(sPend, 0) = <<>>
    BY <2>2, CutAtEnds DEF Taken, Server!Taken
  <2>6. sGot["l"] \o sOut["l"] \o <<>> = sGot["l"]
    BY <1>4, <2>2, ConcatEmptySeq
  <2> QED
    BY <1>5, <2>4, <2>5, <2>6, OneFraming
<1> QED
  BY <1>1, <1>3, <1>4, <1>6, ServerHasSent

\* Each host gets what the other one has sent, in order and, as long as no
\* connection fails, all of it; FIN follows the last octet; and a graceful end
\* loses nothing, for whatever sizes of buffers and datagrams.
THEOREM StreamsArriveEndToEnd == Spec => []EndToEnd
<1>1. Sound /\ NoFalseAlarm => EndToEnd
  <2> SUFFICES ASSUME Sound, NoFalseAlarm
               PROVE  EndToEnd
    OBVIOUS
  <2>1. IsPrefix(S!Passed("r"), cSent["l"]) /\ IsPrefix(C!Passed("l"), sSent["r"])
    BY BeginningOfA, BeginningOfB DEF Sound
  <2>2. ~Failures => WayToB = cSent["l"] /\ WayToA = sSent["r"]
    BY NoneMissingToB, NoneMissingToA DEF NoFalseAlarm
  <2>3. ~Failures =>
          /\ "r" \in sShut => "l" \in cEof /\ S!Passed("r") = cSent["l"]
          /\ "l" \in cShut => "r" \in sEof /\ C!Passed("l") = sSent["r"]
    BY FinToB, FinToA DEF NoFalseAlarm
  <2>4. /\ sReports = <<"graceful">> => S!Passed("r") = C!Passed("r")
        /\ cReports = <<"graceful">> => C!Passed("l") = S!Passed("l")
    BY GracefulToB, GracefulToA
  <2> QED
    BY <2>1, <2>2, <2>3, <2>4 DEF EndToEnd
<1> QED
  BY <1>1, BothAreSound, NoAlarmIsFalse, PTL

=============================================================================
