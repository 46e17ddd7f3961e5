------------------------------ MODULE TcpProxy ------------------------------
(***************************************************************************)
(* tcp-proxy.c: one io_bridge between a tcp_pipe and a dgm_pipe, which     *)
(* frames what it sends to a second proxy and unframes what it receives    *)
(* from it.  The other proxy is a host that sends whole datagrams, in      *)
(* pieces, and may end in the middle of one.                               *)
(*                                                                         *)
(* Steps are cut as in TcpRelay.  On the datagram side the calls of the    *)
(* bridge go through three pipes: `tcp' holds the bits of the lowest one,  *)
(* the atx_pipe's are a function of those (AtxPipe), and `flags' holds     *)
(* what the bridge sees.  On the plain side `tcp' and `flags' agree.       *)
(***************************************************************************)
EXTENDS DgmPipe, Sockets, IoBridge

CONSTANTS RecvSize  \* br_pipe.recv_size of both sides

ASSUME ProxyAssumption == RecvSize \in Nat /\ RecvSize >= MaxDgm

VARIABLES
  dgm,      \* the side of the other proxy: "r" for -c, "l" for -s
  tcp,      \* state bits of the tcp_pipe of each side
  rx,       \* dgm_pipe.rx: octets received, <<>> for NULL
  pend,     \* atx_pipe.pending
  wantFin,  \* atx_pipe.want_fin
  mask, have, proc,  \* as in TcpRelay
  todo      \* what the other proxy has yet to send of a datagram

pipeVars == <<tcp, rx, pend, wantFin, mask>>
bridgeVars == <<flags, pending, cb, reports>>
hostVars == <<sockVars, todo>>
vars == <<hostVars, dgm, pipeVars, bridgeVars, have, proc>>

Plain == Peer(dgm)

Init ==
  /\ dgm \in Sides
  /\ SocketsInit
  /\ BridgeInit
  /\ flags = [s \in Sides |-> InitialFlags]
  /\ tcp = [s \in Sides |-> InitialFlags]
  /\ mask = [s \in Sides |-> InitialMask]
  /\ have = [s \in Sides |-> {}]
  /\ rx = <<>> /\ pend = <<>> /\ wantFin = FALSE
  /\ todo = <<>>
  /\ proc = "running"

Survives(asserts) == proc' = IF asserts THEN "running" ELSE "aborted"

\* The bits after pipe calls, which re-arm the event mask.  A tcp_pipe whose
\* bits are as they were has its mask already, if it was called at all.
SetPipes(f, up) ==
  /\ tcp' = f
  /\ mask' = [s \in Sides |-> IF f[s] = tcp[s] THEN mask[s] ELSE EventMask(f[s])]
  /\ flags' = up

SetPipe(s, f, up) == SetPipes([tcp EXCEPT ![s] = f], [flags EXCEPT ![s] = up])

-----------------------------------------------------------------------------
(* The pipe calls of the bridge: what recv() and send() of the pipe of     *)
(* side s may do, whichever pipe that is.                                  *)

PlainRecvs(s) ==
  {[is |-> IF r.is \in {"data", "fin"} THEN r.is ELSE "nothing",
    data |-> Taken(in[s], r.n), read |-> r.n, rx |-> rx,
    tcp |-> FlagsAfterRecv(tcp[s], r.is), up |-> FlagsAfterRecv(tcp[s], r.is)] :
     r \in RecvResults(s, RecvSize)}

DgmRecvs(s) ==
  IF LeftOver(rx) THEN {WithRead(DgmTaken(tcp[s], pend, flags[s], rx), 0)}
  ELSE {WithRead(DgmReceived(tcp[s], pend, flags[s], rx, r.is, Taken(in[s], r.n)), r.n) :
          r \in RecvResults(s, RxSpace(rx, RecvSize))}

Recvs(s) == IF s = dgm THEN DgmRecvs(s) ELSE PlainRecvs(s)

PlainSends(s, data) ==
  {[n |-> w.n, put |-> Taken(data, w.n), pend |-> pend,
    tcp |-> FlagsAfterSend(tcp[s], w.is), up |-> FlagsAfterSend(tcp[s], w.is)] :
     w \in SendResults(s, Len(data))}

DgmSends(s, data) ==
  IF MaySend(flags[s], pend)
    THEN {DgmSent(tcp[s], data, w) : w \in SendResults(s, Len(Frame(data)))}
    ELSE {DgmRefused(tcp[s], pend, flags[s])}

Sends(s, data) == IF s = dgm THEN DgmSends(s, data) ELSE PlainSends(s, data)

\* send_fin() of the pipe of side d
Fin(d) ==
  LET a == IF d = dgm THEN AtxFin(tcp[d], pend, wantFin, ~Failed(d))
           ELSE [tcp |-> FlagsAfterFin(tcp[d], ~Failed(d)), wantFin |-> wantFin]
  IN [tcp |-> a.tcp, wantFin |-> a.wantFin,
      up |-> IF d = dgm THEN AtxClone(a.tcp, pend) ELSE a.tcp]

\* The assert()s of dgm_pipe and atx_pipe in those calls.
SideRecvAsserts(s) == s = dgm => RecvAsserts(rx, RecvSize)
SideSendAsserts(s, w) == s = dgm => SendAsserts(w)
FinAsserts(s) == s = dgm => AtxFinAsserts(tcp[s], pend, wantFin)

-----------------------------------------------------------------------------
Dispatched == \A s \in Sides : have[s] = {}

\* `while (! enough) evl->monitor()', up to the return of select().
Select ==
  /\ proc = "running" /\ cb.at = "idle" /\ Dispatched /\ ~Dead
  /\ have' = [s \in Sides |-> ReadyEvents(s) \cap (mask[s] \cup {"error"})]
  /\ \E s \in Sides : have'[s] # {}
  /\ UNCHANGED <<hostVars, dgm, pipeVars, bridgeVars, proc>>

Dispatching(s) ==
  /\ proc = "running" /\ cb.at = "idle" /\ have[s] # {}
  /\ s = "r" => have["l"] = {}
  /\ have' = [have EXCEPT ![s] = {}]

\* The bits and the io events of the tcp_pipe that is called back.
TcpFlags(s) == FlagsOnActivity(tcp[s], have[s], Failed(s))
TcpEvents(s) == EventsOnActivity(tcp[s], have[s], Failed(s))

DispatchPlain ==
  /\ Dispatching(Plain)
  /\ SetPipe(Plain, TcpFlags(Plain), TcpFlags(Plain))
  /\ BridgeCalled(Plain, TcpEvents(Plain))
  /\ Survives(/\ OnActivityAsserts(tcp[Plain], have[Plain], Failed(Plain))
              /\ BridgeCalledAsserts(Plain, TcpEvents(Plain), TcpFlags(Plain)))
  /\ UNCHANGED <<hostVars, dgm, rx, pend, wantFin>>

\* The atx_pipe has done `a' with the events, and calls its user, unless
\* none is left.
AtxCalls(a) ==
  /\ pend' = a.pend
  /\ IF a.events = {}
       THEN SetPipe(dgm, a.tcp, flags[dgm]) /\ UNCHANGED <<pending, cb, reports>>
       ELSE /\ SetPipe(dgm, a.tcp, AtxClone(a.tcp, a.pend))
            /\ BridgeCalled(dgm, a.events)
  /\ Survives(/\ OnActivityAsserts(tcp[dgm], have[dgm], Failed(dgm))
              /\ BridgeCalledAsserts(dgm, a.events, AtxClone(a.tcp, a.pend)))

\* atx_pipe_on_activity() with nothing to flush, and dgm_pipe_on_activity()
DispatchDgm ==
  /\ Dispatching(dgm)
  /\ "writable" \notin TcpEvents(dgm) \/ pend = <<>>
  /\ AtxCalls(AtxNothingToFlush(TcpFlags(dgm), TcpEvents(dgm), pend))
  /\ UNCHANGED <<hostVars, dgm, rx, wantFin>>

\* The same when the pending octets are sent first, and FIN if it was put off.
DispatchDgmFlush ==
  /\ Dispatching(dgm)
  /\ "writable" \in TcpEvents(dgm) /\ pend # <<>>
  /\ \E w \in SendResults(dgm, Len(pend)) :
       /\ AtxCalls(AtxFlushed(TcpFlags(dgm), TcpEvents(dgm), pend, wantFin, w, ~Failed(dgm)))
       /\ out' = [out EXCEPT ![dgm] = @ \o Taken(pend, w.n)]
       /\ shut' = IF wantFin /\ w.is = "all" THEN shut \cup {dgm} ELSE shut
  /\ UNCHANGED <<conn, in, eof, sent, got, todo, dgm, rx, wantFin>>

Flush ==
  /\ proc = "running" /\ cb.at = "flush"
  /\ \E w \in Sends(cb.self, pending[cb.self]) :
       /\ out' = [out EXCEPT ![cb.self] = @ \o w.put]
       /\ pend' = w.pend
       /\ SetPipe(cb.self, w.tcp, w.up)
       /\ Flushed(w.n, w.up)
       /\ Survives(FlushedAsserts(w.n, w.up) /\ SideSendAsserts(cb.self, w))
  /\ UNCHANGED <<conn, in, eof, shut, sent, got, todo, dgm, rx, wantFin, have>>

RelayNothing ==
  /\ proc = "running" /\ InRelay /\ Relaying
  /\ \E r \in Recvs(Src) :
       /\ r.is = "nothing"
       /\ in' = [in EXCEPT ![Src] = Rest(@, r.read)]
       /\ rx' = r.rx
       /\ SetPipe(Src, r.tcp, r.up)
       /\ RelayedNothing(r.up)
  /\ Survives(RelayAsserts /\ SideRecvAsserts(Src))
  /\ UNCHANGED <<conn, eof, out, shut, sent, got, todo, dgm, pend, wantFin, have>>

RelayFin ==
  /\ proc = "running" /\ InRelay /\ Relaying
  /\ \E r \in Recvs(Src) :
       /\ r.is = "fin"
       /\ SetPipes([tcp EXCEPT ![Src] = r.tcp, ![Dst] = Fin(Dst).tcp],
                   [flags EXCEPT ![Src] = r.up, ![Dst] = Fin(Dst).up])
       /\ wantFin' = Fin(Dst).wantFin
       /\ RelayedFin(Fin(Dst).up)
       /\ Survives(/\ RelayAsserts /\ SideRecvAsserts(Src)
                   /\ RelayedFinAsserts(r.up) /\ FinAsserts(Dst))
  /\ shut' = IF "fin_sent" \in Fin(Dst).tcp THEN shut \cup {Dst} ELSE shut
  /\ UNCHANGED <<conn, in, eof, out, sent, got, todo, dgm, rx, pend, have>>

RelayData ==
  /\ proc = "running" /\ InRelay /\ Relaying
  /\ \E r \in Recvs(Src) :
       /\ r.is = "data"
       /\ \E w \in Sends(Dst, r.data) :
            /\ in' = [in EXCEPT ![Src] = Rest(@, r.read)]
            /\ out' = [out EXCEPT ![Dst] = @ \o w.put]
            /\ rx' = r.rx /\ pend' = w.pend
            /\ SetPipes([tcp EXCEPT ![Src] = r.tcp, ![Dst] = w.tcp],
                        [flags EXCEPT ![Src] = r.up, ![Dst] = w.up])
            /\ RelayedData(r.data, w.n, w.up)
            /\ Survives(/\ RelayAsserts /\ SideRecvAsserts(Src) /\ SideSendAsserts(Dst, w)
                        /\ RelayedDataAsserts(r.data, w.n, w.up))
  /\ UNCHANGED <<conn, eof, shut, sent, got, todo, dgm, wantFin, have>>

RelayTurns ==
  /\ proc = "running" /\ RelayInEnds
  /\ UNCHANGED <<hostVars, dgm, pipeVars, have, proc>>

Return ==
  /\ proc = "running" /\ CallbackEnds
  /\ UNCHANGED <<hostVars, dgm, pipeVars, have, proc>>

\* on_bridge_down() has set `enough'; as in TcpRelay.
Exit ==
  /\ proc = "running" /\ cb.at = "idle" /\ Dispatched /\ Dead
  /\ proc' = "exited"
  /\ conn' = [s \in Sides |-> IF in[s] # <<>> \/ conn[s] = "connecting"
                              THEN "reset" ELSE conn[s]]
  /\ UNCHANGED <<in, eof, out, shut, sent, got, todo, dgm, pipeVars, bridgeVars, have>>

Proxy ==
  \/ Select \/ DispatchPlain \/ DispatchDgm \/ DispatchDgmFlush
  \/ Flush \/ RelayNothing \/ RelayFin \/ RelayData \/ RelayTurns
  \/ Return \/ Exit

-----------------------------------------------------------------------------
(* The host of the plain side and the proxy at the other end.              *)

\* A datagram the other proxy may send next.
NextFrames ==
  {Frame([i \in 1..n |-> <<dgm, Len(sent[dgm]) + i>>]) :
     n \in {k \in 1..MaxDgm : Len(sent[dgm]) + k <= MaxOctets[dgm]}}

\* One more octet of what the other proxy sends arrives; the history of its
\* stream holds the octets inside the datagrams.
PeerSends ==
  /\ conn[dgm] = "open" /\ dgm \notin eof /\ Len(in[dgm]) < RcvBuf
  /\ \E q \in IF todo = <<>> THEN NextFrames ELSE {todo} :
       /\ in' = [in EXCEPT ![dgm] = Append(@, Head(q))]
       /\ sent' = [sent EXCEPT ![dgm] = @ \o Payload(<<Head(q)>>)]
       /\ todo' = Tail(q)
  /\ UNCHANGED <<conn, eof, out, shut, got>>

\* What is sent to a proxy that is gone is not of interest.
HostActs ==
  /\ \/ /\ \E s \in Sides : Connected(s) \/ Refused(s) \/ HostReads(s) \/ ConnectionLost(s)
        /\ UNCHANGED todo
     \/ /\ proc = "running"
        /\ HostSends(Plain) \/ \E s \in Sides : HostCloses(s)
        /\ UNCHANGED todo
     \/ proc = "running" /\ PeerSends
  /\ UNCHANGED <<dgm, pipeVars, bridgeVars, have, proc>>

Terminated ==
  /\ proc # "running"
  /\ UNCHANGED vars

Next == Proxy \/ HostActs \/ Terminated

Spec == Init /\ [][Next]_vars

-----------------------------------------------------------------------------
(* Safety.                                                                 *)

\* What the hosts send, and with the headers what the sockets carry.
Item == {<<s, k>> : s \in Sides, k \in 1..(MaxOctets["l"] + MaxOctets["r"])}
Octets == Item \cup HeaderOctet

TypeOK ==
  /\ dgm \in Sides
  /\ conn \in [Sides -> ConnState]
  /\ eof \subseteq Sides /\ shut \subseteq Sides
  /\ \A q \in {in, out, sent, got, pending} : q \in [Sides -> Seq(Octets)]
  /\ rx \in Seq(Octets) /\ pend \in Seq(Octets) /\ todo \in Seq(Octets)
  /\ flags \in [Sides -> SUBSET Flag] /\ tcp \in [Sides -> SUBSET Flag]
  /\ mask \in [Sides -> SUBSET SkEvent] /\ have \in [Sides -> SUBSET SkEvent]
  /\ wantFin \in BOOLEAN
  /\ cb \in Activation
  /\ reports \in Seq(Report)
  /\ proc \in {"running", "exited", "aborted"}

\* None of the assert()s of the bridge and of the three kinds of pipe fires:
\* the bridge is told of room only when its pipe has some, FIN is sent once,
\* the receive buffer always has room for more, however datagrams are cut into
\* pieces.
NoAbort == proc # "aborted"

\* The other proxy ended in the middle of a datagram.
Torn == dgm \in eof /\ todo # <<>>

\* What the proxy has handed to the connection of side d, or will without
\* being asked again.
Passed(d) == IF d = dgm THEN Payload(got[d] \o out[d] \o pend) ELSE got[d] \o out[d]

\* What has reached the proxy on side s and was not given to the bridge.
Received(s) == IF s = dgm THEN Payload(rx \o in[s]) ELSE in[s]

\* Framed or not, what is passed on, what the bridge has set aside and what
\* waits to be received make up the stream that the other side has sent: no
\* octet is lost, duplicated or reordered by framing, by short writes of a
\* frame, or by frames that arrive in pieces (dgm_pipe_recv, atx_pipe_send,
\* atx_pipe_on_activity).
StreamIntact ==
  \A d \in Sides :
    /\ IsPrefix(Passed(d), sent[Peer(d)])
    /\ ~Dead => Passed(d) \o pending[d] \o Received(Peer(d)) = sent[Peer(d)]

\* Datagrams go out whole: what was sent to the other proxy and what the
\* atx_pipe keeps for it are complete frames, never one without its beginning
\* or its end, so the other proxy stays in step with the headers.
FramesAreWhole == WellFramed(got[dgm] \o out[dgm] \o pend)

\* When the process is about to block in select(), no stream can be relayed
\* right away, and what each of them waits for is watched.  A stream that is
\* not ended waits for its source to be connected and to have octets or FIN,
\* or, if it has some, for room at its destination; so do octets that the
\* bridge or the atx_pipe keeps.  In particular no datagram that has arrived
\* completely is left in the receive buffer of a dgm_pipe that has nothing to
\* read below: no event would ever call for it (tcp_pipe_adjust_event_mask,
\* dgm_pipe_recv).
NothingStranded ==
  proc = "running" /\ cb.at = "idle" /\ Dispatched /\ ~Dead =>
    /\ \A s \in Sides :
         /\ ~("readable" \in flags[s] /\ "writable" \in flags[Peer(s)])
         /\ pending[s] # <<>> => "writable" \in mask[s]
         /\ Peer(s) \notin shut =>
              IF "ready" \notin flags[s] THEN "writable" \in mask[s]
              ELSE IF "readable" \notin flags[s] THEN "readable" \in mask[s]
              ELSE "writable" \in mask[Peer(s)]
    /\ pend # <<>> => "writable" \in mask[dgm]
    /\ ProcessRx(rx).is = "dgm" => "readable" \in flags[dgm] /\ "writable" \in mask[Plain]

-----------------------------------------------------------------------------
\* Seen without the frames the proxy is a pair of reliable, ordered streams,
\* just as tcp-relay is: every behaviour of this module is one of StreamRelay.
\* A datagram that is cut off counts as a lost connection.
Streams ==
  INSTANCE StreamRelay WITH
    Item <- Item,
    closed <- IF Torn THEN eof \ {dgm} ELSE eof,
    fwd <- [d \in Sides |-> Passed(d)],
    got <- [d \in Sides |-> Payload(got[d])],
    finned <- shut,
    lost <- {s \in Sides : Failed(s) \/ (s = dgm /\ Torn)}

ImplementsStreams == Streams!Spec

=============================================================================
