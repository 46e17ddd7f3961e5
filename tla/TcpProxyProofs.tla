--------------------------- MODULE TcpProxyProofs ---------------------------
(***************************************************************************)
(* Proofs about TcpProxy for all values of its constants: any buffer and   *)
(* datagram sizes, any number of octets, headers of one and of two octets, *)
(* with and without error events and spurious failures.                    *)
(*                                                                         *)
(* In this order: types; the invariant IndInv and the safety properties    *)
(* that follow from it; the refinement of StreamRelay, and how a relay     *)
(* ends; last what ProxyPairProofs needs of each of two proxies.           *)
(***************************************************************************)
EXTENDS TcpProxyInv, FrameFacts

-----------------------------------------------------------------------------
(* Types.                                                                  *)

\* The octets of the streams are told from those of the headers.
LEMMA OctetsAreTyped == TypedHeaders(Octets) /\ <<>> \in Seq(Octets)
<1>1. HeaderOctet \subseteq Octets
  BY DEF Octets, Item
<1>2. \A e \in Octets : IsHeader(e) => e \in HeaderOctet
  BY DEF Octets, Item, IsHeader, Sides
<1> QED
  BY <1>1, <1>2, EmptySeq DEF TypedHeaders

\* Every operation of a tcp_pipe yields state bits, and a mask.
LEMMA PipeTypes ==
  ASSUME NEW f \in SUBSET Flag
  PROVE  /\ EventMask(f) \in SUBSET SkEvent
         /\ TagBroken(f) \in SUBSET Flag
         /\ \A o \in RecvOutcome : FlagsAfterRecv(f, o) \in SUBSET Flag
         /\ \A o \in SendOutcome : FlagsAfterSend(f, o) \in SUBSET Flag
         /\ \A ok \in BOOLEAN : FlagsAfterFin(f, ok) \in SUBSET Flag
         /\ \A p : AtxClone(f, p) \in SUBSET Flag
<1>1. EventMask(f) \in SUBSET SkEvent
  BY DEF EventMask, SkEvent
<1>2. TagBroken(f) \in SUBSET Flag
  BY DEF TagBroken, Flag
<1>3. \A o \in RecvOutcome : FlagsAfterRecv(f, o) \in SUBSET Flag
  BY <1>2 DEF FlagsAfterRecv, RecvOutcome, Flag
<1>4. \A o \in SendOutcome : FlagsAfterSend(f, o) \in SUBSET Flag
  BY <1>2 DEF FlagsAfterSend, SendOutcome, Flag
<1>5. \A ok \in BOOLEAN : FlagsAfterFin(f, ok) \in SUBSET Flag
  BY <1>2 DEF FlagsAfterFin, Flag
<1>6. \A p : AtxClone(f, p) \in SUBSET Flag
  BY DEF AtxClone
<1> QED
  BY <1>1, <1>2, <1>3, <1>4, <1>5, <1>6

\* Both ways a stage of the callback can end.
LEMMA ReportTypes ==
  ASSUME reports \in Seq(Report), cb \in Activation,
         NEW stage \in Stage, NEW report \in Report,
         Shutdown(report) \/ GoTo(stage)
  PROVE  reports' \in Seq(Report) /\ cb' \in Activation
<1>1. CASE Shutdown(report)
  <2>1. reports' \in Seq(Report)
    BY <1>1, AppendProperties DEF Shutdown
  <2> QED
    BY <1>1, <2>1 DEF Shutdown, Idle, Activation, Stage, Sides
<1>2. CASE GoTo(stage)
  BY <1>2 DEF GoTo, Activation, Stage
<1> QED
  BY <1>1, <1>2

LEMMA SrcDst ==
  ASSUME cb \in Activation
  PROVE  Src \in Sides /\ Dst \in Sides /\ Dst = Peer(Src) /\ Src = Peer(Dst) /\ Src # Dst
BY PeerFacts DEF Src, Dst, Activation, Sides, Peer

\* The octets of one side, in a form the provers can instantiate.
LEMMA SeqTypes ==
  ASSUME TypeOK, NEW s \in Sides
  PROVE  /\ in[s] \in Seq(Octets) /\ out[s] \in Seq(Octets) /\ sent[s] \in Seq(Octets)
         /\ got[s] \in Seq(Octets) /\ pending[s] \in Seq(Octets)
         /\ rx \in Seq(Octets) /\ pend \in Seq(Octets) /\ todo \in Seq(Octets)
BY DEF TypeOK

\* What recv() of a socket may answer.
LEMMA SocketRecvTypes ==
  ASSUME TypeOK, NEW s \in Sides, NEW len, NEW r \in RecvResults(s, len)
  PROVE  /\ r.is \in RecvOutcome /\ r.n \in 0..Len(in[s])
         /\ Taken(in[s], r.n) \in Seq(Octets)
<1>1. Len(in[s]) \in Nat /\ in[s] \in Seq(Octets)
  BY SeqTypes, LenProperties
<1>2. r.is \in RecvOutcome
  BY DEF RecvResults
<1>3. r.n \in 0..Len(in[s])
  BY <1>1 DEF RecvResults
<1> QED
  BY <1>1, <1>2, <1>3, CutFacts

\* What a call of process_rx() leaves.
LEMMA TakenTypes ==
  ASSUME NEW f \in SUBSET Flag, NEW p, NEW up \in SUBSET Flag, NEW q \in Seq(Octets)
  PROVE  LET r == DgmTaken(f, p, up, q)
         IN /\ r.is \in {"data", "nothing"}
            /\ r.data \in Seq(Octets) /\ r.rx \in Seq(Octets)
            /\ r.tcp \in SUBSET Flag /\ r.up \in SUBSET Flag
<1>1. /\ ProcessRx(q).is \in {"bad", "short", "dgm"}
      /\ ProcessRx(q).data \in Seq(Octets) /\ ProcessRx(q).rest \in Seq(Octets)
  BY OctetsAreTyped, ProcessRxTypes
<1>2. AtxClone(f, p) \in SUBSET Flag /\ TagBroken(up) \in SUBSET Flag
  BY PipeTypes
<1> QED
  BY <1>1, <1>2, OctetsAreTyped DEF DgmTaken, DgmFailed, DgmPassed

LEMMA RecvTypes ==
  ASSUME TypeOK, NEW s \in Sides, NEW r \in Recvs(s)
  PROVE  /\ r.is \in {"data", "fin", "nothing"} /\ r.read \in 0..Len(in[s])
         /\ r.data \in Seq(Octets) /\ r.rx \in Seq(Octets)
         /\ r.tcp \in SUBSET Flag /\ r.up \in SUBSET Flag
<1>1. /\ in[s] \in Seq(Octets) /\ Len(in[s]) \in Nat /\ rx \in Seq(Octets)
      /\ tcp[s] \in SUBSET Flag /\ flags[s] \in SUBSET Flag
  BY SeqTypes, LenProperties DEF TypeOK
<1>2. CASE s # dgm
  <2>1. PICK t \in RecvResults(s, RecvSize) :
          r = [is |-> IF t.is \in {"data", "fin"} THEN t.is ELSE "nothing",
               data |-> Taken(in[s], t.n), read |-> t.n, rx |-> rx,
               tcp |-> FlagsAfterRecv(tcp[s], t.is), up |-> FlagsAfterRecv(tcp[s], t.is)]
    BY <1>2 DEF Recvs, PlainRecvs
  <2>2. FlagsAfterRecv(tcp[s], t.is) \in SUBSET Flag
    BY <1>1, SocketRecvTypes, PipeTypes
  <2>3. t.n \in 0..Len(in[s]) /\ Taken(in[s], t.n) \in Seq(Octets)
    BY SocketRecvTypes
  <2> QED
    BY <1>1, <2>1, <2>2, <2>3
<1>3. CASE s = dgm /\ LeftOver(rx)
  <2>1. r = WithRead(DgmTaken(tcp[s], pend, flags[s], rx), 0)
    BY <1>3 DEF Recvs, DgmRecvs
  <2> DEFINE d == DgmTaken(tcp[s], pend, flags[s], rx)
  <2>2. /\ d.is \in {"data", "nothing"} /\ d.data \in Seq(Octets) /\ d.rx \in Seq(Octets)
        /\ d.tcp \in SUBSET Flag /\ d.up \in SUBSET Flag
    BY <1>1, TakenTypes
  <2> HIDE DEF d
  <2> QED
    BY <1>1, <2>1, <2>2 DEF WithRead, d
<1>4. CASE s = dgm /\ ~LeftOver(rx)
  <2>1. PICK t \in RecvResults(s, RxSpace(rx, RecvSize)) :
          r = WithRead(DgmReceived(tcp[s], pend, flags[s], rx, t.is, Taken(in[s], t.n)), t.n)
    BY <1>4 DEF Recvs, DgmRecvs
  <2> DEFINE d == DgmReceived(tcp[s], pend, flags[s], rx, t.is, Taken(in[s], t.n))
             f == FlagsAfterRecv(tcp[s], t.is)
             q == rx \o Taken(in[s], t.n)
  <2>2. t.is \in RecvOutcome /\ t.n \in 0..Len(in[s]) /\ Taken(in[s], t.n) \in Seq(Octets)
    BY SocketRecvTypes
  <2>3. f \in SUBSET Flag
    BY <1>1, <2>2, PipeTypes
  <2>4. q \in Seq(Octets)
    BY <1>1, <2>2, ConcatProperties
  <2>5. AtxClone(f, pend) \in SUBSET Flag /\ TagBroken(flags[s]) \in SUBSET Flag
    BY <1>1, <2>3, PipeTypes
  <2>6. /\ d.is \in {"data", "fin", "nothing"} /\ d.data \in Seq(Octets) /\ d.rx \in Seq(Octets)
        /\ d.tcp \in SUBSET Flag /\ d.up \in SUBSET Flag
    <3> HIDE DEF f, q
    <3>1. CASE t.is = "data"
      <4> DEFINE e == DgmTaken(f, pend, flags[s], q)
      <4>1. d = e
        BY <3>1 DEF DgmReceived, f, q
      <4>2. /\ e.is \in {"data", "nothing"} /\ e.data \in Seq(Octets) /\ e.rx \in Seq(Octets)
            /\ e.tcp \in SUBSET Flag /\ e.up \in SUBSET Flag
        BY <1>1, <2>3, <2>4, TakenTypes
      <4> HIDE DEF d, e
      <4> QED
        BY <4>1, <4>2
    <3>2. CASE t.is = "fin" /\ rx # <<>>
      BY <1>1, <2>3, <2>5, <3>2, OctetsAreTyped DEF DgmReceived, DgmFailed, f
    <3>3. CASE t.is = "fin" /\ rx = <<>>
      BY <1>1, <2>3, <2>5, <3>3, OctetsAreTyped DEF DgmReceived, DgmPassed, f
    <3>4. CASE t.is \notin {"data", "fin"}
      BY <1>1, <2>3, <2>5, <3>4, OctetsAreTyped DEF DgmReceived, DgmPassed, f
    <3> QED
      BY <3>1, <3>2, <3>3, <3>4
  <2> HIDE DEF d
  <2> QED
    BY <1>1, <2>1, <2>2, <2>6 DEF WithRead, d
<1> QED
  BY <1>2, <1>3, <1>4

LEMMA SocketSendTypes ==
  ASSUME NEW s, NEW q \in Seq(Octets), NEW w \in SendResults(s, Len(q))
  PROVE  /\ w.is \in SendOutcome /\ w.n \in 0..Len(q)
         /\ Taken(q, w.n) \in Seq(Octets) /\ Rest(q, w.n) \in Seq(Octets)
<1>1. w.is \in SendOutcome /\ w.n \in 0..Len(q)
  BY DEF SendResults
<1> QED
  BY <1>1, CutFacts

LEMMA SendTypes ==
  ASSUME TypeOK, NEW s \in Sides, NEW data \in Seq(Octets), NEW w \in Sends(s, data)
  PROVE  /\ w.n \in 0..Len(data)
         /\ w.put \in Seq(Octets) /\ w.pend \in Seq(Octets)
         /\ w.tcp \in SUBSET Flag /\ w.up \in SUBSET Flag
<1>1. /\ Len(data) \in Nat /\ pend \in Seq(Octets) /\ <<>> \in Seq(Octets)
      /\ tcp[s] \in SUBSET Flag /\ flags[s] \in SUBSET Flag
  BY SeqTypes, LenProperties, OctetsAreTyped DEF TypeOK
<1>2. CASE s # dgm
  <2>1. PICK t \in SendResults(s, Len(data)) :
          w = [n |-> t.n, put |-> Taken(data, t.n), pend |-> pend,
               tcp |-> FlagsAfterSend(tcp[s], t.is), up |-> FlagsAfterSend(tcp[s], t.is)]
    BY <1>2 DEF Sends, PlainSends
  <2>2. t.is \in SendOutcome /\ t.n \in 0..Len(data) /\ Taken(data, t.n) \in Seq(Octets)
    BY SocketSendTypes
  <2>3. FlagsAfterSend(tcp[s], t.is) \in SUBSET Flag
    BY <1>1, <2>2, PipeTypes
  <2> QED
    BY <1>1, <2>1, <2>2, <2>3
<1>3. CASE s = dgm /\ ~MaySend(flags[s], pend)
  <2>1. w = DgmRefused(tcp[s], pend, flags[s])
    BY <1>3 DEF Sends, DgmSends
  <2>2. AtxClone(tcp[s], pend) \in SUBSET Flag
    BY <1>1, PipeTypes
  <2> QED
    BY <1>1, <2>1, <2>2 DEF DgmRefused
<1>4. CASE s = dgm /\ MaySend(flags[s], pend)
  <2> DEFINE q == Frame(data)
  <2>1. PICK t \in SendResults(s, Len(q)) : w = DgmSent(tcp[s], data, t)
    BY <1>4 DEF Sends, DgmSends
  <2>2. q \in Seq(Octets)
    BY OctetsAreTyped, FrameAt
  <2>3. t.is \in SendOutcome /\ t.n \in 0..Len(q) /\ Taken(q, t.n) \in Seq(Octets) /\ Rest(q, t.n) \in Seq(Octets)
    <3> HIDE DEF q
    <3> QED
      BY <2>2, SocketSendTypes
  <2> DEFINE f == FlagsAfterSend(tcp[s], t.is)
             p == IF t.is = "some" THEN Rest(q, t.n) ELSE <<>>
  <2>4. w = [ok |-> t.is \in {"all", "some"}, n |-> IF t.is \in {"all", "some"} THEN Len(data) ELSE 0,
             put |-> Taken(q, t.n), pend |-> p, tcp |-> f, up |-> AtxClone(f, p)]
    BY <2>1 DEF DgmSent, AtxSent
  <2>5. f \in SUBSET Flag
    BY <1>1, <2>3, PipeTypes
  <2>6. AtxClone(f, p) \in SUBSET Flag
    BY <2>5, PipeTypes
  <2> HIDE DEF f, q
  <2> QED
    BY <1>1, <2>3, <2>4, <2>5, <2>6
<1> QED
  BY <1>2, <1>3, <1>4

LEMMA SetPipesTypes ==
  ASSUME TypeOK, NEW f \in [Sides -> SUBSET Flag], NEW up \in [Sides -> SUBSET Flag], SetPipes(f, up)
  PROVE  /\ tcp' \in [Sides -> SUBSET Flag] /\ flags' \in [Sides -> SUBSET Flag]
         /\ mask' \in [Sides -> SUBSET SkEvent]
<1>1. \A s \in Sides : EventMask(f[s]) \in SUBSET SkEvent
  BY PipeTypes
<1> QED
  BY <1>1 DEF SetPipes, TypeOK

LEMMA SetPipeTypes ==
  ASSUME TypeOK, NEW s \in Sides, NEW f \in SUBSET Flag, NEW up \in SUBSET Flag, SetPipe(s, f, up)
  PROVE  /\ tcp' \in [Sides -> SUBSET Flag] /\ flags' \in [Sides -> SUBSET Flag]
         /\ mask' \in [Sides -> SUBSET SkEvent]
<1>1. [tcp EXCEPT ![s] = f] \in [Sides -> SUBSET Flag] /\ [flags EXCEPT ![s] = up] \in [Sides -> SUBSET Flag]
  BY DEF TypeOK
<1> QED
  BY <1>1, SetPipesTypes DEF SetPipe

LEMMA TypesInitially == Init => TypeOK
<1> SUFFICES ASSUME Init
             PROVE  TypeOK
  OBVIOUS
<1>1. \A q \in {in, out, sent, got, pending} : q \in [Sides -> Seq(Octets)]
  BY OctetsAreTyped DEF Init, SocketsInit, BridgeInit
<1>2. rx \in Seq(Octets) /\ pend \in Seq(Octets) /\ todo \in Seq(Octets)
  BY OctetsAreTyped DEF Init
<1>3. reports \in Seq(Report)
  BY EmptySeq DEF Init, BridgeInit
<1>4. conn \in [Sides -> ConnState] /\ eof \subseteq Sides /\ shut \subseteq Sides
  BY DEF Init, SocketsInit, ConnState
<1>5. cb \in Activation
  BY DEF Init, BridgeInit, Idle, Activation, Stage, Sides, IoEvent
<1>6. /\ flags \in [Sides -> SUBSET Flag] /\ tcp \in [Sides -> SUBSET Flag]
      /\ mask \in [Sides -> SUBSET SkEvent] /\ have \in [Sides -> SUBSET SkEvent]
  BY DEF Init, InitialFlags, InitialMask, Flag, SkEvent
<1>7. dgm \in Sides /\ wantFin \in BOOLEAN /\ proc \in {"running", "exited", "aborted"}
  BY DEF Init
<1> QED
  BY <1>1, <1>2, <1>3, <1>4, <1>5, <1>6, <1>7 DEF TypeOK

LEMMA TypesOfSelect == TypeOK /\ Select => TypeOK'
<1> SUFFICES ASSUME TypeOK, Select
             PROVE  TypeOK'
  OBVIOUS
<1>1. \A s \in Sides : ReadyEvents(s) \in SUBSET SkEvent
  BY DEF ReadyEvents
<1>2. have' \in [Sides -> SUBSET SkEvent]
  BY <1>1 DEF Select
<1>3. UNCHANGED <<hostVars, dgm, pipeVars, bridgeVars, proc>>
  BY DEF Select
<1> QED
  BY <1>2, <1>3 DEF TypeOK, hostVars, sockVars, pipeVars, bridgeVars

LEMMA DispatchTypes ==
  ASSUME TypeOK, NEW s \in Sides
  PROVE  TcpFlags(s) \in SUBSET Flag /\ TcpEvents(s) \in SUBSET IoEvent
<1>1. tcp[s] \in SUBSET Flag /\ have[s] \in SUBSET SkEvent
  BY DEF TypeOK
<1> QED
  BY <1>1, PipeTypes DEF TcpFlags, TcpEvents, FlagsOnActivity, EventsOnActivity, Flag, IoEvent, SkEvent

LEMMA CalledTypes ==
  ASSUME TypeOK, NEW s \in Sides, NEW ev \in SUBSET IoEvent, BridgeCalled(s, ev)
  PROVE  cb' \in Activation /\ UNCHANGED <<pending, reports>>
BY DEF BridgeCalled, Activation, Idle, Stage, Sides, IoEvent

LEMMA TypesOfDispatchPlain == TypeOK /\ DispatchPlain => TypeOK'
<1> SUFFICES ASSUME TypeOK, DispatchPlain
             PROVE  TypeOK'
  OBVIOUS
<1>1. Plain \in Sides
  BY PeerFacts DEF TypeOK, Plain
<1>2. /\ tcp' \in [Sides -> SUBSET Flag] /\ flags' \in [Sides -> SUBSET Flag]
      /\ mask' \in [Sides -> SUBSET SkEvent]
  BY <1>1, DispatchTypes, SetPipeTypes DEF DispatchPlain
<1>3. cb' \in Activation /\ UNCHANGED <<pending, reports>>
  BY <1>1, DispatchTypes, CalledTypes DEF DispatchPlain
<1>4. have' \in [Sides -> SUBSET SkEvent] /\ proc' \in {"running", "exited", "aborted"}
  BY DEF DispatchPlain, Dispatching, Survives, TypeOK
<1> QED
  BY <1>2, <1>3, <1>4 DEF DispatchPlain, TypeOK, hostVars, sockVars

LEMMA AtxCallsTypes ==
  ASSUME TypeOK, NEW a, AtxCalls(a),
         a.pend \in Seq(Octets), a.tcp \in SUBSET Flag, a.events \in SUBSET IoEvent
  PROVE  /\ tcp' \in [Sides -> SUBSET Flag] /\ flags' \in [Sides -> SUBSET Flag]
         /\ mask' \in [Sides -> SUBSET SkEvent]
         /\ pend' \in Seq(Octets) /\ cb' \in Activation
         /\ UNCHANGED <<pending, reports>>
         /\ proc' \in {"running", "exited", "aborted"}
<1>1. dgm \in Sides /\ flags[dgm] \in SUBSET Flag /\ cb \in Activation
  BY DEF TypeOK
<1>2. AtxClone(a.tcp, a.pend) \in SUBSET Flag
  BY PipeTypes
<1>3. pend' = a.pend /\ proc' \in {"running", "exited", "aborted"}
  BY DEF AtxCalls, Survives
<1>4. CASE a.events = {}
  <2>1. SetPipe(dgm, a.tcp, flags[dgm]) /\ UNCHANGED <<pending, cb, reports>>
    BY <1>4 DEF AtxCalls
  <2> QED
    BY <1>1, <1>3, <2>1, SetPipeTypes
<1>5. CASE a.events # {}
  <2>1. SetPipe(dgm, a.tcp, AtxClone(a.tcp, a.pend)) /\ BridgeCalled(dgm, a.events)
    BY <1>5 DEF AtxCalls
  <2>2. cb' \in Activation /\ UNCHANGED <<pending, reports>>
    BY <1>1, <2>1, CalledTypes
  <2> QED
    BY <1>1, <1>2, <1>3, <2>1, <2>2, SetPipeTypes
<1> QED
  BY <1>4, <1>5

LEMMA TypesOfDispatchDgm == TypeOK /\ DispatchDgm => TypeOK'
<1> SUFFICES ASSUME TypeOK, DispatchDgm
             PROVE  TypeOK'
  OBVIOUS
<1> DEFINE a == AtxNothingToFlush(TcpFlags(dgm), TcpEvents(dgm), pend)
<1>1. a.pend \in Seq(Octets) /\ a.tcp \in SUBSET Flag /\ a.events \in SUBSET IoEvent
  BY DispatchTypes DEF TypeOK, AtxNothingToFlush
<1>2. AtxCalls(a)
  BY DEF DispatchDgm
<1>3. have' \in [Sides -> SUBSET SkEvent]
  BY DEF DispatchDgm, Dispatching, TypeOK
<1> HIDE DEF a
<1>4. /\ tcp' \in [Sides -> SUBSET Flag] /\ flags' \in [Sides -> SUBSET Flag]
      /\ mask' \in [Sides -> SUBSET SkEvent]
      /\ pend' \in Seq(Octets) /\ cb' \in Activation
      /\ UNCHANGED <<pending, reports>>
      /\ proc' \in {"running", "exited", "aborted"}
  BY <1>1, <1>2, AtxCallsTypes
<1> QED
  BY <1>3, <1>4 DEF DispatchDgm, TypeOK, hostVars, sockVars

LEMMA FlushedTypes ==
  ASSUME TypeOK, NEW w \in SendResults(dgm, Len(pend))
  PROVE  LET a == AtxFlushed(TcpFlags(dgm), TcpEvents(dgm), pend, wantFin, w, ~Failed(dgm))
         IN a.pend \in Seq(Octets) /\ a.tcp \in SUBSET Flag /\ a.events \in SUBSET IoEvent
<1> DEFINE s == FlagsAfterSend(TcpFlags(dgm), w.is)
           f == FlagsAfterFin(s, ~Failed(dgm))
<1>1. dgm \in Sides /\ TcpFlags(dgm) \in SUBSET Flag /\ TcpEvents(dgm) \in SUBSET IoEvent
  BY DispatchTypes DEF TypeOK
<1>2. w.is \in SendOutcome /\ Rest(pend, w.n) \in Seq(Octets)
  <2>1. pend \in Seq(Octets)
    BY DEF TypeOK
  <2> QED
    BY <2>1, SocketSendTypes
<1>3. s \in SUBSET Flag
  BY <1>1, <1>2, PipeTypes
<1>4. f \in SUBSET Flag
  <2> HIDE DEF s
  <2>1. (~Failed(dgm)) \in BOOLEAN
    BY DEF Failed
  <2> QED
    BY <1>3, <2>1, PipeTypes
<1> HIDE DEF f
<1> QED
  BY <1>1, <1>2, <1>3, <1>4 DEF AtxFlushed, IoEvent, f

LEMMA TypesOfDispatchDgmFlush == TypeOK /\ DispatchDgmFlush => TypeOK'
<1> SUFFICES ASSUME TypeOK, DispatchDgmFlush
             PROVE  TypeOK'
  OBVIOUS
<1> DEFINE A(w) == AtxFlushed(TcpFlags(dgm), TcpEvents(dgm), pend, wantFin, w, ~Failed(dgm))
<1>1. PICK w \in SendResults(dgm, Len(pend)) :
       /\ AtxCalls(A(w))
       /\ out' = [out EXCEPT ![dgm] = @ \o Taken(pend, w.n)]
       /\ shut' = IF wantFin /\ w.is = "all" THEN shut \cup {dgm} ELSE shut
  BY DEF DispatchDgmFlush
<1> DEFINE a == A(w)
<1>2. a.pend \in Seq(Octets) /\ a.tcp \in SUBSET Flag /\ a.events \in SUBSET IoEvent
  BY FlushedTypes
<1> HIDE DEF a
<1>3. /\ tcp' \in [Sides -> SUBSET Flag] /\ flags' \in [Sides -> SUBSET Flag]
      /\ mask' \in [Sides -> SUBSET SkEvent]
      /\ pend' \in Seq(Octets) /\ cb' \in Activation
      /\ UNCHANGED <<pending, reports>>
      /\ proc' \in {"running", "exited", "aborted"}
  BY <1>1, <1>2, AtxCallsTypes DEF a
<1>4. have' \in [Sides -> SUBSET SkEvent]
  BY DEF DispatchDgmFlush, Dispatching, TypeOK
<1>5. out' \in [Sides -> Seq(Octets)]
  <2>1. pend \in Seq(Octets) /\ out[dgm] \in Seq(Octets)
    BY SeqTypes DEF TypeOK
  <2>2. Taken(pend, w.n) \in Seq(Octets)
    BY <2>1, SocketSendTypes
  <2>3. out[dgm] \o Taken(pend, w.n) \in Seq(Octets)
    BY <2>1, <2>2, ConcatProperties
  <2> QED
    BY <1>1, <2>3 DEF TypeOK
<1>6. shut' \subseteq Sides
  BY <1>1 DEF TypeOK
<1> QED
  BY <1>3, <1>4, <1>5, <1>6 DEF DispatchDgmFlush, TypeOK

\* The queues after octets were read from one and put into another.
LEMMA TypesOfFlush == TypeOK /\ Flush => TypeOK'
<1> SUFFICES ASSUME TypeOK, Flush
             PROVE  TypeOK'
  OBVIOUS
<1> DEFINE d == cb.self
           q == pending[d]
<1>1. PICK w \in Sends(d, q) :
       /\ out' = [out EXCEPT ![d] = @ \o w.put]
       /\ pend' = w.pend
       /\ SetPipe(d, w.tcp, w.up)
       /\ Flushed(w.n, w.up)
       /\ Survives(FlushedAsserts(w.n, w.up) /\ SideSendAsserts(d, w))
  BY DEF Flush
<1>2. d \in Sides /\ q \in Seq(Octets) /\ out[d] \in Seq(Octets)
  BY SeqTypes DEF TypeOK, Activation
<1> HIDE DEF d, q
<1>3. /\ w.n \in 0..Len(q) /\ w.put \in Seq(Octets) /\ w.pend \in Seq(Octets)
      /\ w.tcp \in SUBSET Flag /\ w.up \in SUBSET Flag
  BY <1>2, SendTypes
<1>4. Rest(q, w.n) \in Seq(Octets) /\ out[d] \o w.put \in Seq(Octets)
  BY <1>2, <1>3, CutFacts, ConcatProperties
<1>5. out' \in [Sides -> Seq(Octets)]
  BY <1>1, <1>4 DEF TypeOK
<1>6. pending' \in [Sides -> Seq(Octets)]
  BY <1>1, <1>4 DEF Flushed, TypeOK, q, d
<1>7. reports' \in Seq(Report) /\ cb' \in Activation
  <2>1. Shutdown("failed") \/ GoTo("relay_in")
    BY <1>1 DEF Flushed, Proceed
  <2> QED
    BY <2>1, ReportTypes DEF TypeOK, Stage, Report
<1>8. /\ tcp' \in [Sides -> SUBSET Flag] /\ flags' \in [Sides -> SUBSET Flag]
      /\ mask' \in [Sides -> SUBSET SkEvent]
  BY <1>1, <1>2, <1>3, SetPipeTypes
<1>9. proc' \in {"running", "exited", "aborted"} /\ pend' \in Seq(Octets)
  BY <1>1, <1>3 DEF Survives
<1>10. UNCHANGED <<conn, in, eof, shut, sent, got, todo, dgm, rx, wantFin, have>>
  BY DEF Flush
<1>11. \A o \in {in', out', sent', got', pending'} : o \in [Sides -> Seq(Octets)]
  BY <1>5, <1>6, <1>10 DEF TypeOK
<1> QED
  BY <1>7, <1>8, <1>9, <1>10, <1>11 DEF TypeOK

LEMMA TypesOfRelayNothing == TypeOK /\ RelayNothing => TypeOK'
<1> SUFFICES ASSUME TypeOK, RelayNothing
             PROVE  TypeOK'
  OBVIOUS
<1> DEFINE s == Src
<1>1. PICK r \in Recvs(s) :
       /\ in' = [in EXCEPT ![s] = Rest(@, r.read)]
       /\ rx' = r.rx
       /\ SetPipe(s, r.tcp, r.up)
       /\ RelayedNothing(r.up)
  BY DEF RelayNothing
<1>2. s \in Sides /\ in[s] \in Seq(Octets) /\ cb.at \in Stage
  BY SrcDst, SeqTypes DEF TypeOK, Activation
<1> HIDE DEF s
<1>3. /\ r.read \in 0..Len(in[s]) /\ r.rx \in Seq(Octets)
      /\ r.tcp \in SUBSET Flag /\ r.up \in SUBSET Flag
  BY <1>2, RecvTypes
<1>4. Rest(in[s], r.read) \in Seq(Octets)
  BY <1>2, <1>3, CutFacts
<1>5. in' \in [Sides -> Seq(Octets)] /\ rx' \in Seq(Octets)
  BY <1>1, <1>3, <1>4 DEF TypeOK
<1>6. reports' \in Seq(Report) /\ cb' \in Activation /\ pending' = pending
  <2>1. Shutdown("failed") \/ GoTo(cb.at)
    BY <1>1 DEF RelayedNothing, Proceed
  <2>2. reports' \in Seq(Report) /\ cb' \in Activation
    BY <1>2, <2>1, ReportTypes DEF TypeOK, Report
  <2> QED
    BY <1>1, <2>2 DEF RelayedNothing
<1>7. /\ tcp' \in [Sides -> SUBSET Flag] /\ flags' \in [Sides -> SUBSET Flag]
      /\ mask' \in [Sides -> SUBSET SkEvent]
  BY <1>1, <1>2, <1>3, SetPipeTypes
<1>8. proc' \in {"running", "exited", "aborted"}
  BY DEF RelayNothing, Survives
<1>9. UNCHANGED <<conn, eof, out, shut, sent, got, todo, dgm, pend, wantFin, have>>
  BY DEF RelayNothing
<1>10. \A o \in {in', out', sent', got', pending'} : o \in [Sides -> Seq(Octets)]
  BY <1>5, <1>6, <1>9 DEF TypeOK
<1> QED
  BY <1>5, <1>6, <1>7, <1>8, <1>9, <1>10 DEF TypeOK

LEMMA FinTypes ==
  ASSUME TypeOK, NEW d \in Sides
  PROVE  Fin(d).tcp \in SUBSET Flag /\ Fin(d).up \in SUBSET Flag /\ Fin(d).wantFin \in BOOLEAN
<1> DEFINE f == FlagsAfterFin(tcp[d], ~Failed(d))
<1>1. tcp[d] \in SUBSET Flag /\ (~Failed(d)) \in BOOLEAN /\ wantFin \in BOOLEAN
  BY DEF TypeOK, Failed
<1>2. f \in SUBSET Flag
  BY <1>1, PipeTypes
<1>3. AtxClone(f, pend) \in SUBSET Flag /\ AtxClone(tcp[d], pend) \in SUBSET Flag
  BY <1>1, <1>2, PipeTypes
<1> HIDE DEF f
<1> QED
  BY <1>1, <1>2, <1>3 DEF Fin, AtxFin, f

LEMMA TypesOfRelayFin == TypeOK /\ RelayFin => TypeOK'
<1> SUFFICES ASSUME TypeOK, RelayFin
             PROVE  TypeOK'
  OBVIOUS
<1> DEFINE s == Src
           d == Dst
<1>1. PICK r \in Recvs(s) :
       /\ SetPipes([tcp EXCEPT ![s] = r.tcp, ![d] = Fin(d).tcp],
                   [flags EXCEPT ![s] = r.up, ![d] = Fin(d).up])
       /\ wantFin' = Fin(d).wantFin
       /\ RelayedFin(Fin(d).up)
  BY DEF RelayFin
<1>2. s \in Sides /\ d \in Sides /\ cb.at \in Stage
  BY SrcDst DEF TypeOK, Activation
<1>3. shut' \subseteq Sides /\ proc' \in {"running", "exited", "aborted"}
  BY <1>2 DEF RelayFin, Survives, TypeOK
<1> HIDE DEF s, d
<1>4. /\ r.tcp \in SUBSET Flag /\ r.up \in SUBSET Flag
      /\ Fin(d).tcp \in SUBSET Flag /\ Fin(d).up \in SUBSET Flag /\ Fin(d).wantFin \in BOOLEAN
  BY <1>2, RecvTypes, FinTypes
<1>5. /\ [tcp EXCEPT ![s] = r.tcp, ![d] = Fin(d).tcp] \in [Sides -> SUBSET Flag]
      /\ [flags EXCEPT ![s] = r.up, ![d] = Fin(d).up] \in [Sides -> SUBSET Flag]
  BY <1>4 DEF TypeOK
<1>6. /\ tcp' \in [Sides -> SUBSET Flag] /\ flags' \in [Sides -> SUBSET Flag]
      /\ mask' \in [Sides -> SUBSET SkEvent]
  BY <1>1, <1>5, SetPipesTypes
<1>7. reports' \in Seq(Report) /\ cb' \in Activation /\ pending' = pending
  <2>1. Shutdown("failed") \/ GoTo(cb.at)
    BY <1>1 DEF RelayedFin, Proceed
  <2>2. reports' \in Seq(Report) /\ cb' \in Activation
    BY <1>2, <2>1, ReportTypes DEF TypeOK, Report
  <2> QED
    BY <1>1, <2>2 DEF RelayedFin
<1>8. wantFin' \in BOOLEAN
  BY <1>1, <1>4
<1> QED
  BY <1>3, <1>6, <1>7, <1>8 DEF RelayFin, TypeOK

LEMMA TypesOfRelayData == TypeOK /\ RelayData => TypeOK'
<1> SUFFICES ASSUME TypeOK, RelayData
             PROVE  TypeOK'
  OBVIOUS
<1> DEFINE s == Src
           d == Dst
<1>1. PICK r \in Recvs(s) :
       \E w \in Sends(d, r.data) :
         /\ in' = [in EXCEPT ![s] = Rest(@, r.read)]
         /\ out' = [out EXCEPT ![d] = @ \o w.put]
         /\ rx' = r.rx /\ pend' = w.pend
         /\ SetPipes([tcp EXCEPT ![s] = r.tcp, ![d] = w.tcp],
                     [flags EXCEPT ![s] = r.up, ![d] = w.up])
         /\ RelayedData(r.data, w.n, w.up)
  BY DEF RelayData
<1>2. PICK w \in Sends(d, r.data) :
         /\ in' = [in EXCEPT ![s] = Rest(@, r.read)]
         /\ out' = [out EXCEPT ![d] = @ \o w.put]
         /\ rx' = r.rx /\ pend' = w.pend
         /\ SetPipes([tcp EXCEPT ![s] = r.tcp, ![d] = w.tcp],
                     [flags EXCEPT ![s] = r.up, ![d] = w.up])
         /\ RelayedData(r.data, w.n, w.up)
  BY <1>1
<1>3. s \in Sides /\ d \in Sides /\ cb.at \in Stage /\ in[s] \in Seq(Octets) /\ out[d] \in Seq(Octets)
  BY SrcDst, SeqTypes DEF TypeOK, Activation
<1>4. proc' \in {"running", "exited", "aborted"}
  BY DEF RelayData, Survives
<1>5. \/ pending' = pending
      \/ pending' = [pending EXCEPT ![d] = Rest(r.data, w.n)]
  BY <1>2 DEF RelayedData
<1> HIDE DEF s, d
<1>6. /\ r.tcp \in SUBSET Flag /\ r.up \in SUBSET Flag /\ r.data \in Seq(Octets)
      /\ r.read \in 0..Len(in[s]) /\ r.rx \in Seq(Octets)
  BY <1>3, RecvTypes
<1>7. /\ w.n \in 0..Len(r.data) /\ w.put \in Seq(Octets) /\ w.pend \in Seq(Octets)
      /\ w.tcp \in SUBSET Flag /\ w.up \in SUBSET Flag
  BY <1>3, <1>6, SendTypes
<1>8. in' \in [Sides -> Seq(Octets)]
  <2>1. Rest(in[s], r.read) \in Seq(Octets)
    BY <1>3, <1>6, CutFacts
  <2> QED
    BY <1>2, <2>1 DEF TypeOK
<1>9. out' \in [Sides -> Seq(Octets)]
  <2>1. out[d] \o w.put \in Seq(Octets)
    BY <1>3, <1>7, ConcatProperties
  <2> QED
    BY <1>2, <2>1 DEF TypeOK
<1>10. pending' \in [Sides -> Seq(Octets)]
  <2>1. Rest(r.data, w.n) \in Seq(Octets)
    BY <1>6, <1>7, CutFacts
  <2> QED
    BY <1>5, <2>1 DEF TypeOK
<1>11. /\ tcp' \in [Sides -> SUBSET Flag] /\ flags' \in [Sides -> SUBSET Flag]
       /\ mask' \in [Sides -> SUBSET SkEvent]
  <2>1. /\ [tcp EXCEPT ![s] = r.tcp, ![d] = w.tcp] \in [Sides -> SUBSET Flag]
        /\ [flags EXCEPT ![s] = r.up, ![d] = w.up] \in [Sides -> SUBSET Flag]
    BY <1>6, <1>7 DEF TypeOK
  <2> QED
    BY <1>2, <2>1, SetPipesTypes
<1>12. reports' \in Seq(Report) /\ cb' \in Activation
  <2>1. Shutdown("failed") \/ GoTo(cb.at)
    BY <1>2 DEF RelayedData, Proceed
  <2> QED
    BY <1>3, <2>1, ReportTypes DEF TypeOK, Report
<1>13. rx' \in Seq(Octets) /\ pend' \in Seq(Octets)
  BY <1>2, <1>6, <1>7
<1>14. UNCHANGED <<conn, eof, shut, sent, got, todo, dgm, wantFin, have>>
  BY DEF RelayData
<1>15. \A q \in {in', out', sent', got', pending'} : q \in [Sides -> Seq(Octets)]
  BY <1>8, <1>9, <1>10, <1>14 DEF TypeOK
<1> QED
  BY <1>4, <1>11, <1>12, <1>13, <1>14, <1>15 DEF TypeOK

LEMMA TypesOfRelayTurns == TypeOK /\ RelayTurns => TypeOK'
<1> SUFFICES ASSUME TypeOK, RelayTurns
             PROVE  TypeOK'
  OBVIOUS
<1>1. reports' \in Seq(Report) /\ cb' \in Activation
  BY ReportTypes DEF RelayTurns, RelayInEnds, TypeOK, Stage, Report
<1> QED
  BY <1>1 DEF RelayTurns, RelayInEnds, TypeOK, hostVars, sockVars, pipeVars

LEMMA TypesOfReturn == TypeOK /\ Return => TypeOK'
<1> SUFFICES ASSUME TypeOK, Return
             PROVE  TypeOK'
  OBVIOUS
<1>1. reports' \in Seq(Report) /\ cb' \in Activation
  <2>1. CASE Shutdown("failed")
    BY <2>1, ReportTypes DEF TypeOK, Stage, Report
  <2>2. CASE Shutdown("graceful")
    BY <2>2, ReportTypes DEF TypeOK, Stage, Report
  <2>3. CASE cb' = Idle /\ UNCHANGED reports
    BY <2>3 DEF TypeOK, Idle, Activation, Stage, Sides
  <2> QED
    BY <2>1, <2>2, <2>3 DEF Return, CallbackEnds
<1> QED
  BY <1>1 DEF Return, CallbackEnds, TypeOK, hostVars, sockVars, pipeVars

LEMMA TypesOfExit == TypeOK /\ Exit => TypeOK'
BY DEF Exit, TypeOK, pipeVars, bridgeVars, ConnState

\* What the other proxy sends are octets.
LEMMA NextFrameTypes ==
  ASSUME TypeOK, NEW q \in NextFrames
  PROVE  /\ q \in Seq(Octets) /\ q # <<>>
         /\ \E data \in Seq(Octets) :
              /\ q = Frame(data) /\ Len(data) \in 1..MaxDgm
              /\ \A i \in DOMAIN data : ~IsHeader(data[i])
<1> DEFINE l == Len(sent[dgm])
<1>1. l \in Nat /\ dgm \in Sides /\ MaxOctets["l"] \in Nat /\ MaxOctets["r"] \in Nat
  BY SeqTypes, SocketAssumption, LenProperties DEF TypeOK, Sides
<1>2. PICK n \in {k \in 1..MaxDgm : l + k <= MaxOctets[dgm]} :
        q = Frame([i \in 1..n |-> <<dgm, l + i>>])
  BY DEF NextFrames
<1> HIDE DEF l
<1> DEFINE data == [i \in 1..n |-> <<dgm, l + i>>]
<1>3. n \in Nat /\ n \in 1..MaxDgm /\ l + n <= MaxOctets["l"] + MaxOctets["r"]
  BY <1>1, <1>2 DEF Sides
<1>4. \A i \in 1..n : <<dgm, l + i>> \in Octets /\ ~IsHeader(<<dgm, l + i>>)
  BY <1>1, <1>3 DEF Octets, Item, IsHeader, Sides
<1>5. data \in Seq(Octets) /\ Len(data) = n
  BY <1>3, <1>4
<1>6. \A i \in DOMAIN data : ~IsHeader(data[i])
  <2>1. DOMAIN data = 1..n /\ \A i \in 1..n : data[i] = <<dgm, l + i>>
    OBVIOUS
  <2> QED
    BY <1>4, <2>1
<1>7. q = Frame(data)
  BY <1>2
<1> HIDE DEF data
<1>8. Frame(data) \in Seq(Octets) /\ Len(Frame(data)) # 0
  <2>1. /\ Frame(data) \in Seq(Octets) /\ Len(Frame(data)) = HdrLen(Len(data)) + Len(data)
        /\ HdrLen(Len(data)) \in {1, 2}
    BY <1>5, OctetsAreTyped, FrameAt
  <2> QED
    BY <1>3, <1>5, <2>1
<1>9. q \in Seq(Octets) /\ Len(q) # 0
  BY <1>7, <1>8
<1>10. Len(data) \in 1..MaxDgm
  BY <1>3, <1>5
<1> QED
  BY <1>5, <1>6, <1>7, <1>9, <1>10, EmptySeq

\* A step of the other proxy, for a datagram that is under way or the next one.
LEMMA PeerSendsFrom ==
  ASSUME TypeOK, PeerSends
  PROVE  \E q \in Seq(Octets) :
           /\ q # <<>> /\ q \in (IF todo = <<>> THEN NextFrames ELSE {todo})
           /\ Head(q) \in Octets /\ Tail(q) \in Seq(Octets)
           /\ in' = [in EXCEPT ![dgm] = Append(@, Head(q))]
           /\ sent' = [sent EXCEPT ![dgm] = @ \o Payload(<<Head(q)>>)]
           /\ todo' = Tail(q)
<1>1. PICK q \in IF todo = <<>> THEN NextFrames ELSE {todo} :
        /\ in' = [in EXCEPT ![dgm] = Append(@, Head(q))]
        /\ sent' = [sent EXCEPT ![dgm] = @ \o Payload(<<Head(q)>>)]
        /\ todo' = Tail(q)
  BY DEF PeerSends
<1>2. q \in Seq(Octets) /\ q # <<>>
  <2>1. CASE todo = <<>>
    BY <1>1, <2>1, NextFrameTypes
  <2>2. CASE todo # <<>>
    BY <1>1, <2>2 DEF TypeOK
  <2> QED
    BY <2>1, <2>2
<1>3. Head(q) \in Octets /\ Tail(q) \in Seq(Octets)
  BY <1>2, HeadTailProperties
<1> QED
  BY <1>1, <1>2, <1>3

LEMMA TypesOfPeerSends ==
  ASSUME TypeOK, PeerSends
  PROVE  /\ in' \in [Sides -> Seq(Octets)] /\ sent' \in [Sides -> Seq(Octets)]
         /\ todo' \in Seq(Octets)
<1>1. PICK q \in Seq(Octets) :
        /\ q # <<>> /\ Head(q) \in Octets /\ Tail(q) \in Seq(Octets)
        /\ in' = [in EXCEPT ![dgm] = Append(@, Head(q))]
        /\ sent' = [sent EXCEPT ![dgm] = @ \o Payload(<<Head(q)>>)]
        /\ todo' = Tail(q)
  BY PeerSendsFrom
<1>2. in[dgm] \in Seq(Octets) /\ sent[dgm] \in Seq(Octets)
  BY SeqTypes DEF TypeOK
<1> DEFINE e == Head(q)
           p == Payload(<<e>>)
<1>3. Append(in[dgm], e) \in Seq(Octets)
  BY <1>1, <1>2, AppendProperties
<1>4. p \in Seq(Octets)
  <2>1. <<e>> \in Seq(Octets)
    BY <1>1
  <2> QED
    BY <2>1, PayloadSeq
<1> HIDE DEF p, e
<1>5. sent[dgm] \o p \in Seq(Octets)
  BY <1>2, <1>4, ConcatProperties
<1> QED
  BY <1>1, <1>3, <1>5 DEF TypeOK, p, e

LEMMA TypesOfHostMoves ==
  ASSUME TypeOK, NEW s \in Sides,
         Connected(s) \/ Refused(s) \/ HostReads(s) \/ ConnectionLost(s) \/ HostSends(s) \/ HostCloses(s)
  PROVE  /\ conn' \in [Sides -> ConnState] /\ eof' \subseteq Sides /\ shut' \subseteq Sides
         /\ \A q \in {in', out', sent', got'} : q \in [Sides -> Seq(Octets)]
<1>1. /\ conn \in [Sides -> ConnState] /\ eof \subseteq Sides /\ shut \subseteq Sides
      /\ in \in [Sides -> Seq(Octets)] /\ out \in [Sides -> Seq(Octets)]
      /\ sent \in [Sides -> Seq(Octets)] /\ got \in [Sides -> Seq(Octets)]
  BY DEF TypeOK
<1>2. CASE HostSends(s)
  <2> DEFINE o == <<s, Len(sent[s]) + 1>>
  <2>1. o \in Octets
    <3>1. Len(sent[s]) \in Nat /\ MaxOctets[s] \in Nat /\ Len(sent[s]) < MaxOctets[s]
      BY SocketAssumption, <1>1, <1>2, LenProperties DEF HostSends
    <3>2. MaxOctets["l"] \in Nat /\ MaxOctets["r"] \in Nat
      BY SocketAssumption DEF Sides
    <3>3. Len(sent[s]) + 1 \in 1..(MaxOctets["l"] + MaxOctets["r"])
      BY <3>1, <3>2 DEF Sides
    <3> QED
      BY <3>3 DEF Octets, Item
  <2>2. Append(in[s], o) \in Seq(Octets) /\ Append(sent[s], o) \in Seq(Octets)
    BY <1>1, <2>1, AppendProperties
  <2> QED
    BY <1>1, <1>2, <2>2 DEF HostSends
<1>3. CASE HostReads(s)
  <2>1. Head(out[s]) \in Octets /\ Tail(out[s]) \in Seq(Octets)
    BY <1>1, <1>3, HeadTailProperties DEF HostReads
  <2>2. Append(got[s], Head(out[s])) \in Seq(Octets)
    BY <1>1, <2>1, AppendProperties
  <2> QED
    BY <1>1, <1>3, <2>1, <2>2 DEF HostReads
<1>4. CASE Connected(s) \/ Refused(s) \/ ConnectionLost(s) \/ HostCloses(s)
  BY <1>1, <1>4 DEF Connected, Refused, ConnectionLost, HostCloses, ConnState
<1> QED
  BY <1>2, <1>3, <1>4

LEMMA TypesOfHosts == TypeOK /\ HostActs => TypeOK'
<1> SUFFICES ASSUME TypeOK, HostActs
             PROVE  TypeOK'
  OBVIOUS
<1>1. UNCHANGED <<dgm, pipeVars, bridgeVars, have, proc>>
  BY DEF HostActs
<1>2. /\ conn' \in [Sides -> ConnState] /\ eof' \subseteq Sides /\ shut' \subseteq Sides
      /\ \A q \in {in', out', sent', got'} : q \in [Sides -> Seq(Octets)]
      /\ todo' \in Seq(Octets)
  <2>1. CASE /\ \E s \in Sides : Connected(s) \/ Refused(s) \/ HostReads(s) \/ ConnectionLost(s)
             /\ UNCHANGED todo
    BY <2>1, TypesOfHostMoves DEF TypeOK
  <2>2. CASE (HostSends(Plain) \/ \E s \in Sides : HostCloses(s)) /\ UNCHANGED todo
    <3>1. Plain \in Sides
      BY PeerFacts DEF TypeOK, Plain
    <3> QED
      BY <2>2, <3>1, TypesOfHostMoves DEF TypeOK
  <2>3. CASE PeerSends
    <3>1. /\ in' \in [Sides -> Seq(Octets)] /\ sent' \in [Sides -> Seq(Octets)] /\ todo' \in Seq(Octets)
      BY <2>3, TypesOfPeerSends
    <3> QED
      BY <2>3, <3>1 DEF PeerSends, TypeOK
  <2> QED
    BY <2>1, <2>2, <2>3 DEF HostActs
<1> QED
  BY <1>1, <1>2 DEF TypeOK, pipeVars, bridgeVars

LEMMA TypesInductive == TypeOK /\ [Next]_vars => TypeOK'
<1>1. TypeOK /\ UNCHANGED vars => TypeOK'
  BY DEF vars, hostVars, sockVars, pipeVars, bridgeVars, TypeOK
<1> QED
  BY <1>1, TypesOfSelect, TypesOfDispatchPlain, TypesOfDispatchDgm, TypesOfDispatchDgmFlush, TypesOfFlush,
     TypesOfRelayNothing, TypesOfRelayFin, TypesOfRelayData, TypesOfRelayTurns, TypesOfReturn, TypesOfExit,
     TypesOfHosts DEF Next, Proxy, Terminated

\* Every variable keeps its type, whatever the sizes of buffers and datagrams:
\* no call of the three pipes leaves anything but octets and state bits.
THEOREM TypeCorrect == Spec => []TypeOK
<1>1. Init => TypeOK
  BY TypesInitially
<1>2. TypeOK /\ [Next]_vars => TypeOK'
  BY TypesInductive
<1> QED
  BY <1>1, <1>2, PTL DEF Spec

-----------------------------------------------------------------------------
(* What the pipe calls of the bridge do to the bits.                       *)

\* The mask of a pipe bit by bit.
LEMMA EventMaskBits ==
  ASSUME NEW f
  PROVE  /\ "readable" \in EventMask(f) <=>
              "ready" \in f /\ "broken" \notin f /\ "readable" \notin f /\ "fin_rcvd" \notin f
         /\ "writable" \in EventMask(f) <=>
              "ready" \in f /\ "broken" \notin f /\ "writable" \notin f /\ "fin_sent" \notin f
         /\ "error" \notin EventMask(f)
BY DEF EventMask

\* While the bridge lives it sees the bits of the tcp_pipes as they are: the
\* atx_pipe hides "writable" only when the pipe below has lost it too.
LEMMA FlagsAreBits ==
  ASSUME TypeOK, ControlInv, ~Dead
  PROVE  flags = tcp /\ dgm \in Sides /\ Plain \in Sides /\ Plain # dgm
<1>1. /\ dgm \in Sides /\ Plain \in Sides /\ Plain # dgm
      /\ \A s \in Sides : s = dgm \/ s = Plain
  BY PeerFacts, TwoSides DEF TypeOK, Plain
<1>2. flags[dgm] = tcp[dgm]
  <2>1. pend # <<>> => "writable" \notin tcp[dgm]
    BY DEF ControlInv, LinkInv
  <2>2. flags[dgm] = IF pend = <<>> THEN tcp[dgm] ELSE tcp[dgm] \ {"writable"}
    BY DEF ControlInv, LinkInv, AtxClone
  <2> QED
    BY <2>1, <2>2
<1>3. flags[Plain] = tcp[Plain]
  BY DEF ControlInv, LinkInv
<1>4. flags \in [Sides -> SUBSET Flag] /\ tcp \in [Sides -> SUBSET Flag]
  BY DEF TypeOK
<1>5. \A s \in Sides : flags[s] = tcp[s]
  BY <1>1, <1>2, <1>3
<1> QED
  BY <1>1, <1>4, <1>5

\* While the callback runs the bridge lives, and a pipe with a raised
\* readable or writable bit is not broken and was called back before.
LEMMA InCallback ==
  ASSUME TypeOK, ControlInv, cb.at # "idle"
  PROVE  /\ ~Dead /\ reports = <<>> /\ flags = tcp
         /\ cb.self \in Sides /\ have[cb.self] = {}
         /\ \A s \in Sides : {"readable", "writable"} \cap tcp[s] # {} =>
              "ready" \in tcp[s] /\ "broken" \notin tcp[s] /\ mask[s] = EventMask(tcp[s])
<1>1. ~Dead /\ cb.self \in Sides /\ have[cb.self] = {}
  BY DEF TypeOK, Activation, ControlInv, EventsInv, StageInv
<1>2. reports = <<>>
  BY <1>1 DEF Dead
<1>3. \A s \in Sides : {"readable", "writable"} \cap tcp[s] # {} =>
        "ready" \in tcp[s] /\ "broken" \notin tcp[s] /\ mask[s] = EventMask(tcp[s])
  BY <1>1 DEF ControlInv, FlagsInv, BrokenInv, MaskInv
<1> QED
  BY <1>1, <1>2, <1>3, FlagsAreBits

\* What is left after process_rx(): the bits are those before, or the dgm_pipe
\* alone is broken.
LEMMA TakenBits ==
  ASSUME NEW f, NEW p, NEW up, NEW q \in Seq(Octets)
  PROVE  LET r == DgmTaken(f, p, up, q)
         IN /\ r.is \in {"data", "nothing"} /\ r.tcp = f
            /\ \/ r.up = AtxClone(f, p)
               \/ r.is = "nothing" /\ r.up = TagBroken(up)
BY OctetsAreTyped, ProcessRxTypes DEF DgmTaken, DgmFailed, DgmPassed

LEMMA RecvBits ==
  ASSUME TypeOK, ControlInv, cb.at # "idle", NEW s \in Sides, "readable" \in flags[s], NEW r \in Recvs(s)
  PROVE  /\ \/ r.is \in {"data", "nothing"} /\ r.tcp = tcp[s] /\ r.up = tcp[s]
            \/ /\ r.is = "nothing" /\ r.tcp = tcp[s] \ {"readable"} /\ r.up = r.tcp
               /\ r.rx = rx /\ r.read = 0 /\ (s = dgm => ~LeftOver(rx))
            \/ /\ r.is = "fin" /\ r.tcp = (tcp[s] \ {"readable"}) \cup {"fin_rcvd"} /\ r.up = r.tcp
               /\ s \in eof /\ in[s] = <<>> /\ r.rx = rx /\ r.read = 0 /\ (s = dgm => rx = <<>>)
            \/ /\ r.is = "nothing" /\ "broken" \in r.up
               /\ \/ r.tcp = tcp[s]
                  \/ r.tcp = TagBroken(tcp[s]) /\ Failed(s) /\ r.read = 0
                  \/ /\ r.tcp = (tcp[s] \ {"readable"}) \cup {"fin_rcvd"}
                     /\ s \in eof /\ in[s] = <<>> /\ r.read = 0
         /\ s # dgm => r.rx = rx /\ r.up = r.tcp
<1>1. /\ flags = tcp /\ "readable" \in tcp[s] /\ tcp[s] \in SUBSET Flag
      /\ rx \in Seq(Octets) /\ in[s] \in Seq(Octets)
  BY InCallback, SeqTypes DEF TypeOK
<1>2. \A f : (s = dgm /\ "writable" \notin f) \/ pend = <<>> => AtxClone(f, pend) = f
  BY DEF AtxClone
<1>3. s = dgm => AtxClone(tcp[s], pend) = tcp[s]
  BY <1>2 DEF ControlInv, LinkInv
<1>4. CASE s # dgm
  <2>1. PICK t \in RecvResults(s, RecvSize) :
          r = [is |-> IF t.is \in {"data", "fin"} THEN t.is ELSE "nothing",
               data |-> Taken(in[s], t.n), read |-> t.n, rx |-> rx,
               tcp |-> FlagsAfterRecv(tcp[s], t.is), up |-> FlagsAfterRecv(tcp[s], t.is)]
    BY <1>4 DEF Recvs, PlainRecvs
  <2>2. \/ t.is = "data"
        \/ t.is = "fin" /\ s \in eof /\ in[s] = <<>> /\ t.n = 0
        \/ t.is = "again" /\ t.n = 0
        \/ t.is = "fatal" /\ Failed(s) /\ t.n = 0
    BY DEF RecvResults
  <2>3. CASE t.is = "data"
    BY <1>1, <1>4, <2>1, <2>3 DEF FlagsAfterRecv
  <2>4. CASE t.is = "fin" /\ s \in eof /\ in[s] = <<>> /\ t.n = 0
    BY <1>1, <1>4, <2>1, <2>4 DEF FlagsAfterRecv
  <2>5. CASE t.is = "again" /\ t.n = 0
    BY <1>1, <1>4, <2>1, <2>5 DEF FlagsAfterRecv
  <2>6. CASE t.is = "fatal" /\ Failed(s) /\ t.n = 0
    BY <1>1, <1>4, <2>1, <2>6 DEF FlagsAfterRecv, TagBroken
  <2> QED
    BY <2>2, <2>3, <2>4, <2>5, <2>6
<1>5. CASE s = dgm /\ LeftOver(rx)
  <2> DEFINE d == DgmTaken(tcp[s], pend, flags[s], rx)
  <2>1. r = WithRead(d, 0)
    BY <1>5 DEF Recvs, DgmRecvs
  <2>2. /\ d.is \in {"data", "nothing"} /\ d.tcp = tcp[s]
        /\ \/ d.up = AtxClone(tcp[s], pend)
           \/ d.is = "nothing" /\ d.up = TagBroken(flags[s])
    BY <1>1, TakenBits
  <2>3. r.is = d.is /\ r.tcp = d.tcp /\ r.up = d.up
    BY <2>1 DEF WithRead
  <2> HIDE DEF d
  <2> QED
    BY <1>3, <1>5, <2>2, <2>3 DEF TagBroken
<1>6. CASE s = dgm /\ ~LeftOver(rx)
  <2> DEFINE D(t) == DgmReceived(tcp[s], pend, flags[s], rx, t.is, Taken(in[s], t.n))
  <2>1. PICK t \in RecvResults(s, RxSpace(rx, RecvSize)) : r = WithRead(D(t), t.n)
    BY <1>6 DEF Recvs, DgmRecvs
  <2> DEFINE d == D(t)
             f == FlagsAfterRecv(tcp[s], t.is)
  <2>2. \/ t.is = "data"
        \/ t.is = "fin" /\ s \in eof /\ in[s] = <<>> /\ t.n = 0
        \/ t.is = "again" /\ t.n = 0
        \/ t.is = "fatal" /\ Failed(s) /\ t.n = 0
    BY DEF RecvResults
  <2>3. r.is = d.is /\ r.tcp = d.tcp /\ r.up = d.up /\ r.rx = d.rx /\ r.read = t.n
    BY <2>1 DEF WithRead
  <2>4. pend # <<>> => "writable" \notin tcp[s]
    BY <1>6 DEF ControlInv, LinkInv
  <2>5. AtxClone(f, pend) = f
    <3>1. t.is \in {"data", "fin", "again", "fatal"}
      BY <2>2
    <3>2. pend # <<>> => "writable" \notin f
      BY <2>4, <3>1 DEF FlagsAfterRecv, TagBroken
    <3> QED
      BY <1>6, <3>2, <1>2
  <2>6. CASE t.is = "data"
    <3> DEFINE q == rx \o Taken(in[s], t.n)
               e == DgmTaken(f, pend, flags[s], q)
    <3>1. q \in Seq(Octets)
      BY <1>1, SocketRecvTypes, ConcatProperties
    <3>2. /\ e.is \in {"data", "nothing"} /\ e.tcp = f
          /\ \/ e.up = AtxClone(f, pend)
             \/ e.is = "nothing" /\ e.up = TagBroken(flags[s])
      <4> HIDE DEF q, f
      <4> QED
        BY <3>1, TakenBits
    <3>3. d = e
      BY <2>6 DEF DgmReceived
    <3>4. f = tcp[s]
      BY <1>1, <2>6 DEF FlagsAfterRecv
    <3> HIDE DEF d, e, f
    <3> QED
      BY <1>6, <2>3, <2>5, <3>2, <3>3, <3>4 DEF TagBroken
  <2>7. CASE t.is = "fin" /\ s \in eof /\ in[s] = <<>> /\ t.n = 0 /\ rx # <<>>
    <3>1. d = [is |-> "nothing", data |-> <<>>, tcp |-> f, rx |-> <<>>, up |-> TagBroken(flags[s])]
      BY <2>7 DEF DgmReceived, DgmFailed
    <3>2. f = (tcp[s] \ {"readable"}) \cup {"fin_rcvd"}
      BY <2>7 DEF FlagsAfterRecv
    <3> HIDE DEF d, f
    <3> QED
      BY <1>6, <2>3, <2>7, <3>1, <3>2 DEF TagBroken
  <2>8. CASE t.is = "fin" /\ s \in eof /\ in[s] = <<>> /\ t.n = 0 /\ rx = <<>>
    <3>1. d = [is |-> "fin", data |-> <<>>, tcp |-> f, rx |-> rx, up |-> AtxClone(f, pend)]
      BY <2>8 DEF DgmReceived, DgmPassed
    <3>2. f = (tcp[s] \ {"readable"}) \cup {"fin_rcvd"}
      BY <2>8 DEF FlagsAfterRecv
    <3> HIDE DEF d, f
    <3> QED
      BY <1>6, <2>3, <2>5, <2>8, <3>1, <3>2
  <2>9. CASE t.is = "again" /\ t.n = 0
    <3>1. d = [is |-> "nothing", data |-> <<>>, tcp |-> f, rx |-> rx, up |-> AtxClone(f, pend)]
      BY <2>9 DEF DgmReceived, DgmPassed
    <3>2. f = tcp[s] \ {"readable"}
      BY <2>9 DEF FlagsAfterRecv
    <3> HIDE DEF d, f
    <3> QED
      BY <1>6, <2>3, <2>5, <2>9, <3>1, <3>2
  <2>10. CASE t.is = "fatal" /\ Failed(s) /\ t.n = 0
    <3>1. d = [is |-> "nothing", data |-> <<>>, tcp |-> f, rx |-> rx, up |-> AtxClone(f, pend)]
      BY <2>10 DEF DgmReceived, DgmPassed
    <3>2. f = TagBroken(tcp[s]) /\ "broken" \in f
      BY <2>10 DEF FlagsAfterRecv, TagBroken
    <3> HIDE DEF d, f
    <3> QED
      BY <1>6, <2>3, <2>5, <2>10, <3>1, <3>2
  <2> QED
    BY <2>2, <2>6, <2>7, <2>8, <2>9, <2>10
<1> QED
  BY <1>4, <1>5, <1>6

\* The receive buffer has room when it holds no complete datagram.
LEMMA RecvNeverFull == ASSUME TypeOK, NEW s \in Sides PROVE SideRecvAsserts(s)
<1>1. rx \in Seq(Octets) /\ Len(rx) \in Nat
  BY SeqTypes, LenProperties
<1>2. ~LeftOver(rx) => Len(rx) < 2 + MaxDgm
  BY <1>1, OctetsAreTyped, ProcessRxTypes DEF LeftOver
<1>3. MaxHdr \in Nat /\ MaxHdr >= 2 /\ RecvSize \in Nat /\ RecvSize >= MaxDgm /\ MaxDgm \in Nat
  BY ProxyAssumption, DgmAssumption
<1>4. ~LeftOver(rx) => MaxHdr + RecvSize - Len(rx) > 0
  BY <1>1, <1>2, <1>3
<1> QED
  BY <1>4 DEF SideRecvAsserts, RecvAsserts, RxSpace

LEMMA SendBits ==
  ASSUME TypeOK, ControlInv, cb.at # "idle", NEW s \in Sides, "writable" \in flags[s],
         NEW data \in Seq(Octets), NEW w \in Sends(s, data)
  PROVE  /\ \/ w.tcp = tcp[s] /\ w.n = Len(data)
            \/ w.tcp = tcp[s] \ {"writable"}
            \/ w.tcp = TagBroken(tcp[s]) /\ Failed(s) /\ w.n = 0
         /\ w.up = w.tcp /\ SideSendAsserts(s, w)
         /\ s # dgm => w.pend = pend
         /\ s = dgm => pend = <<>>
         /\ s = dgm /\ w.pend # <<>> => w.tcp = tcp[s] \ {"writable"}
<1>1. flags = tcp /\ "writable" \in tcp[s] /\ tcp[s] \in SUBSET Flag
  BY InCallback DEF TypeOK
<1>2. CASE s # dgm
  <2>1. PICK t \in SendResults(s, Len(data)) :
          w = [n |-> t.n, put |-> Taken(data, t.n), pend |-> pend,
               tcp |-> FlagsAfterSend(tcp[s], t.is), up |-> FlagsAfterSend(tcp[s], t.is)]
    BY <1>2 DEF Sends, PlainSends
  <2>2. \/ t.is = "all" /\ t.n = Len(data)
        \/ t.is \in {"some", "again"}
        \/ t.is \in {"fatal", "epipe"} /\ Failed(s) /\ t.n = 0
    BY DEF SendResults
  <2> QED
    BY <1>1, <1>2, <2>1, <2>2 DEF FlagsAfterSend, SideSendAsserts
<1>3. CASE s = dgm
  <2> DEFINE q == Frame(data)
  <2>1. pend = <<>>
    BY <1>1, <1>3 DEF ControlInv, LinkInv
  <2>2. PICK t \in SendResults(s, Len(q)) : w = DgmSent(tcp[s], data, t)
    BY <1>1, <1>3, <2>1 DEF Sends, DgmSends, MaySend
  <2>3. \/ t.is = "all"
        \/ t.is = "some"
        \/ t.is = "again"
        \/ t.is \in {"fatal", "epipe"} /\ Failed(s)
    BY DEF SendResults
  <2> DEFINE f == FlagsAfterSend(tcp[s], t.is)
             p == IF t.is = "some" THEN Rest(q, t.n) ELSE <<>>
  <2>4. /\ w.n = IF t.is \in {"all", "some"} THEN Len(data) ELSE 0
        /\ w.tcp = f /\ w.pend = p /\ w.up = AtxClone(f, p)
    BY <2>2 DEF DgmSent, AtxSent
  <2>5. /\ t.is = "all" => f = tcp[s]
        /\ t.is \in {"some", "again"} => f = tcp[s] \ {"writable"}
        /\ t.is \in {"fatal", "epipe"} => f = TagBroken(tcp[s])
    BY <1>1 DEF FlagsAfterSend
  <2> HIDE DEF q, f
  <2>6. w.up = w.tcp /\ (w.pend # <<>> => w.tcp = tcp[s] \ {"writable"})
    BY <2>4, <2>5 DEF AtxClone
  <2>7. SideSendAsserts(s, w)
    BY <2>6 DEF SideSendAsserts, SendAsserts
  <2> QED
    BY <1>3, <2>1, <2>3, <2>4, <2>5, <2>6, <2>7
<1> QED
  BY <1>2, <1>3

\* FIN is asked for when there is room, so the atx_pipe never puts it off.
LEMMA FinBits ==
  ASSUME TypeOK, ControlInv, cb.at # "idle", NEW s \in Sides, "writable" \in flags[s]
  PROVE  /\ Fin(s).tcp = IF Failed(s) THEN TagBroken(tcp[s])
                         ELSE (tcp[s] \ {"writable"}) \cup {"fin_sent"}
         /\ Fin(s).up = Fin(s).tcp /\ Fin(s).wantFin = wantFin
         /\ FinAsserts(s)
<1>1. flags = tcp /\ "writable" \in tcp[s] /\ ~wantFin
  BY InCallback DEF ControlInv, LinkInv
<1>2. s = dgm => pend = <<>>
  BY <1>1 DEF ControlInv, LinkInv
<1>3. "fin_sent" \notin tcp[s]
  BY <1>1 DEF ControlInv, FlagsInv
<1> QED
  BY <1>1, <1>2, <1>3 DEF Fin, AtxFin, AtxClone, FlagsAfterFin, FinAsserts, AtxFinAsserts

-----------------------------------------------------------------------------
(* What recv() of the dgm_pipe does to the octets.                         *)

\* process_rx() when the octets are in step: what it takes out is what the
\* first datagram carries, and it leaves the rest in step.
LEMMA TakenFrames ==
  ASSUME NEW f, NEW p, NEW up, NEW q \in Seq(Octets), NEW rest \in Seq(Octets), NEW later \in Seq(Octets),
         InStep(Cat(Cat(q, rest), later))
  PROVE  LET r == DgmTaken(f, p, up, q)
         IN /\ InStep(Cat(Cat(r.rx, rest), later))
            /\ r.is = "data" => Len(r.data) \in 1..MaxDgm
            /\ \A i \in DOMAIN r.data : ~IsHeader(r.data[i])
            /\ Payload(Cat(q, rest)) = Cat(r.data, Payload(Cat(r.rx, rest)))
<1> DEFINE r == DgmTaken(f, p, up, q)
           x == ProcessRx(q)
           l == Cat(rest, later)
<1>1. /\ l \in Seq(Octets) /\ Cat(Cat(q, rest), later) = Cat(q, l)
      /\ x.is \in {"bad", "short", "dgm"} /\ x.data \in Seq(Octets) /\ x.rest \in Seq(Octets)
  BY OctetsAreTyped, CatType, CatAssoc, ProcessRxTypes
<1> HIDE DEF l
<1>2. InStep(q \o l)
  BY <1>1 DEF Cat
<1>3. /\ x.is # "bad" /\ InStep(x.rest \o l)
      /\ \A i \in DOMAIN x.data : ~IsHeader(x.data[i])
      /\ Payload(q) = x.data \o Payload(x.rest)
  BY <1>1, <1>2, OctetsAreTyped, ProcessRxFacts
<1>4. x.is = "dgm" => Len(x.data) \in 1..MaxDgm
  BY <1>1, <1>2, OctetsAreTyped, DatagramsHoldOctets
<1> HIDE DEF x
<1>5. r.data = x.data /\ r.rx = x.rest /\ r.is = IF x.is = "dgm" THEN "data" ELSE "nothing"
  BY <1>3 DEF DgmTaken, DgmPassed, x
<1>6. InStep(Cat(Cat(x.rest, rest), later))
  <2>1. Cat(Cat(x.rest, rest), later) = Cat(x.rest, l)
    BY <1>1, CatAssoc DEF l
  <2> QED
    BY <1>3, <2>1 DEF Cat
<1>7. Payload(Cat(q, rest)) = Cat(x.data, Payload(Cat(x.rest, rest)))
  <2> DEFINE a == Payload(x.rest)
             b == Payload(rest)
  <2>1. a \in Seq(Octets) /\ b \in Seq(Octets)
    BY <1>1, PayloadSeq
  <2>2. Payload(Cat(q, rest)) = Cat(Payload(q), b) /\ Payload(Cat(x.rest, rest)) = Cat(a, b)
    BY <1>1, PayloadCat DEF Cat
  <2>3. Payload(q) = Cat(x.data, a)
    BY <1>3 DEF Cat
  <2> HIDE DEF a, b
  <2>4. Cat(Cat(x.data, a), b) = Cat(x.data, Cat(a, b))
    BY <1>1, <2>1, CatAssoc
  <2> QED
    BY <2>2, <2>3, <2>4
<1> HIDE DEF r
<1>8. /\ InStep(Cat(Cat(r.rx, rest), later))
      /\ r.is = "data" => Len(r.data) \in 1..MaxDgm
      /\ \A i \in DOMAIN r.data : ~IsHeader(r.data[i])
      /\ Payload(Cat(q, rest)) = Cat(r.data, Payload(Cat(r.rx, rest)))
  BY <1>3, <1>4, <1>5, <1>6, <1>7
<1> QED
  BY <1>8 DEF r

LEMMA RecvFrames ==
  ASSUME TypeOK, InStepInv, ~Dead, NEW r \in Recvs(dgm), "broken" \notin r.up
  PROVE  LET left == Rest(in[dgm], r.read)
         IN /\ InStep(Cat(Cat(r.rx, left), todo))
            /\ r.is = "data" => Len(r.data) \in 1..MaxDgm
            /\ \A i \in DOMAIN r.data : ~IsHeader(r.data[i])
            /\ Payload(Cat(rx, in[dgm])) = Cat(r.data, Payload(Cat(r.rx, left)))
<1>1. /\ dgm \in Sides /\ rx \in Seq(Octets) /\ in[dgm] \in Seq(Octets) /\ todo \in Seq(Octets)
      /\ Rest(in[dgm], 0) = in[dgm]
  BY SeqTypes, CutAtEnds DEF TypeOK
<1>2. InStep(Cat(Cat(rx, in[dgm]), todo))
  BY DEF InStepInv, Cat
<1>3. Cat(<<>>, Payload(Cat(rx, in[dgm]))) = Payload(Cat(rx, in[dgm])) /\ \A i \in DOMAIN <<>> : FALSE
  <2>1. Payload(Cat(rx, in[dgm])) \in Seq(Octets)
    BY <1>1, CatType, PayloadSeq
  <2> QED
    BY <2>1, CatEmpty
<1>4. CASE LeftOver(rx)
  <2> DEFINE d == DgmTaken(tcp[dgm], pend, flags[dgm], rx)
             left == Rest(in[dgm], r.read)
  <2>1. r = WithRead(d, 0)
    BY <1>4 DEF Recvs, DgmRecvs
  <2>2. r.is = d.is /\ r.data = d.data /\ r.rx = d.rx /\ left = in[dgm]
    BY <1>1, <2>1 DEF WithRead
  <2>3. /\ InStep(Cat(Cat(d.rx, in[dgm]), todo))
        /\ d.is = "data" => Len(d.data) \in 1..MaxDgm
        /\ \A i \in DOMAIN d.data : ~IsHeader(d.data[i])
        /\ Payload(Cat(rx, in[dgm])) = Cat(d.data, Payload(Cat(d.rx, in[dgm])))
    BY <1>1, <1>2, TakenFrames
  <2> HIDE DEF d, left
  <2>4. /\ InStep(Cat(Cat(r.rx, left), todo))
        /\ r.is = "data" => Len(r.data) \in 1..MaxDgm
        /\ \A i \in DOMAIN r.data : ~IsHeader(r.data[i])
        /\ Payload(Cat(rx, in[dgm])) = Cat(r.data, Payload(Cat(r.rx, left)))
    BY <2>2, <2>3
  <2> QED
    BY <2>4 DEF left
<1>5. CASE ~LeftOver(rx)
  <2> DEFINE D(t) == DgmReceived(tcp[dgm], pend, flags[dgm], rx, t.is, Taken(in[dgm], t.n))
  <2>1. PICK t \in RecvResults(dgm, RxSpace(rx, RecvSize)) : r = WithRead(D(t), t.n)
    BY <1>5 DEF Recvs, DgmRecvs
  <2> DEFINE d == D(t)
             f == FlagsAfterRecv(tcp[dgm], t.is)
             left == Rest(in[dgm], r.read)
  <2>2. r.is = d.is /\ r.data = d.data /\ r.rx = d.rx /\ r.up = d.up /\ left = Rest(in[dgm], t.n)
    BY <2>1 DEF WithRead
  <2>3. t.is \in RecvOutcome /\ t.n \in 0..Len(in[dgm]) /\ (t.is # "data" => t.n = 0)
    <3>1. t.is \in RecvOutcome /\ t.n \in 0..Len(in[dgm])
      BY <1>1, SocketRecvTypes
    <3> QED
      BY <3>1 DEF RecvResults, RecvOutcome
  <2>4. CASE t.is = "data"
    <3> DEFINE now == Taken(in[dgm], t.n)
               q == Cat(rx, now)
               e == DgmTaken(f, pend, flags[dgm], q)
               rest == Rest(in[dgm], t.n)
    <3>1. now \in Seq(Octets) /\ rest \in Seq(Octets) /\ in[dgm] = Cat(now, rest)
      BY <1>1, <2>3, CutFacts DEF Cat
    <3>2. d = e
      BY <2>4 DEF DgmReceived, Cat
    <3> HIDE DEF now, rest
    <3>3. q \in Seq(Octets) /\ Cat(q, rest) = Cat(rx, in[dgm])
      BY <1>1, <3>1, CatType, CatAssoc
    <3> HIDE DEF q, f, d
    <3>4. /\ InStep(Cat(Cat(e.rx, rest), todo))
          /\ e.is = "data" => Len(e.data) \in 1..MaxDgm
          /\ \A i \in DOMAIN e.data : ~IsHeader(e.data[i])
          /\ Payload(Cat(q, rest)) = Cat(e.data, Payload(Cat(e.rx, rest)))
      <4>1. InStep(Cat(Cat(q, rest), todo))
        BY <1>2, <3>3
      <4> QED
        BY <1>1, <3>1, <3>3, <4>1, TakenFrames
    <3> HIDE DEF e, left
    <3>5. /\ InStep(Cat(Cat(r.rx, left), todo))
          /\ r.is = "data" => Len(r.data) \in 1..MaxDgm
          /\ \A i \in DOMAIN r.data : ~IsHeader(r.data[i])
          /\ Payload(Cat(rx, in[dgm])) = Cat(r.data, Payload(Cat(r.rx, left)))
      BY <2>2, <3>2, <3>3, <3>4 DEF rest
    <3> QED
      BY <3>5 DEF left
  <2>5. CASE t.is # "data"
    <3>1. r.is # "data" /\ r.data = <<>> /\ r.rx = rx
      <4>1. CASE t.is = "fin" /\ rx # <<>>
        <5>1. d = DgmFailed(f, flags[dgm])
          BY <4>1 DEF DgmReceived
        <5>2. "broken" \in r.up
          BY <2>2, <5>1 DEF DgmFailed, TagBroken
        <5> QED
          BY <5>2
      <4>2. CASE t.is = "fin" /\ rx = <<>>
        BY <2>2, <4>2 DEF DgmReceived, DgmPassed
      <4>3. CASE t.is \notin {"data", "fin"}
        BY <2>2, <4>3 DEF DgmReceived, DgmPassed
      <4> QED
        BY <2>5, <4>1, <4>2, <4>3
    <3>2. left = in[dgm]
      BY <1>1, <2>2, <2>3, <2>5
    <3> HIDE DEF left, d
    <3>3. /\ InStep(Cat(Cat(r.rx, left), todo))
          /\ \A i \in DOMAIN r.data : ~IsHeader(r.data[i])
          /\ Payload(Cat(rx, in[dgm])) = Cat(r.data, Payload(Cat(r.rx, left)))
      BY <1>2, <1>3, <3>1, <3>2
    <3> QED
      BY <3>1, <3>3 DEF left
  <2> QED
    BY <2>4, <2>5
<1> QED
  BY <1>4, <1>5

\* No call of recv() returns an empty piece of data.
LEMMA DataIsNotEmpty ==
  ASSUME TypeOK, ControlInv, InStepInv, cb.at # "idle",
         NEW s \in Sides, "readable" \in flags[s], NEW r \in Recvs(s), r.is = "data"
  PROVE  Len(r.data) \in Nat \ {0}
<1>1. CASE s = dgm
  <2>1. ~Dead /\ flags = tcp /\ "broken" \notin tcp[s]
    BY InCallback
  <2>2. "broken" \notin r.up
    BY <2>1, RecvBits
  <2> QED
    BY <1>1, <2>1, <2>2, RecvFrames
<1>2. CASE s # dgm
  <2>1. PICK t \in RecvResults(s, RecvSize) :
          /\ r.is = (IF t.is \in {"data", "fin"} THEN t.is ELSE "nothing")
          /\ r.data = Taken(in[s], t.n)
    BY <1>2 DEF Recvs, PlainRecvs
  <2>2. t.is = "data"
    BY <2>1
  <2>3. t.n \in 1..Len(in[s]) /\ in[s] \in Seq(Octets) /\ Len(in[s]) \in Nat
    BY <2>2, SeqTypes, LenProperties DEF RecvResults
  <2>4. t.n \in 0..Len(in[s])
    BY <2>3
  <2>5. Len(r.data) = t.n
    BY <2>1, <2>3, <2>4, CutFacts
  <2> QED
    BY <2>3, <2>5
<1> QED
  BY <1>1, <1>2

-----------------------------------------------------------------------------
(* Control: the bits, the masks, the undispatched events and the stages of *)
(* the callback fit together, so no assertion fails and nothing is left    *)
(* without an event that would call for it.                                *)

\* on_shutdown() marks the bridge dead, going on does not.
LEMMA LifeAndDeath ==
  ASSUME reports \in Seq(Report), NEW stage, NEW report \in Report
  PROVE  /\ Shutdown(report) => Dead' /\ reports' = Append(reports, report)
         /\ GoTo(stage) => (Dead' <=> Dead) /\ reports' = reports
<1>1. Append(reports, report) # <<>>
  BY AppendProperties
<1> QED
  BY <1>1 DEF Shutdown, GoTo, Dead

LEMMA NothingLeftOver == ~LeftOver(<<>>)
BY DEF LeftOver, ProcessRx, Short

LEMMA ControlInitially == Init => ControlInv
<1> SUFFICES ASSUME Init
             PROVE  ControlInv
  OBVIOUS
<1>1. LinkInv /\ LeftOverInv
  <2>1. Plain \in Sides /\ dgm \in Sides
    BY PeerFacts DEF Init, Plain
  <2> QED
    BY <2>1, NothingLeftOver DEF Init, LinkInv, LeftOverInv, AtxClone, InitialFlags
<1>2. FlagsInv /\ MaskInv /\ EventsInv /\ BrokenInv /\ StageInv /\ PendingInv /\ AwakeInv /\ FinInv /\ NoAbort
  BY DEF Init, SocketsInit, BridgeInit, InitialFlags, InitialMask, Idle, FlagsInv, MaskInv,
    EventsInv, BrokenInv, StageInv, PendingInv, AwakeInv, FinInv, NoAbort, Dead
<1> QED
  BY <1>1, <1>2 DEF ControlInv

\* The masks follow the bits, if no call clears them all.
LEMMA MaskFollows ==
  ASSUME TypeOK, ControlInv, NEW f \in [Sides -> SUBSET Flag], NEW up, SetPipes(f, up),
         \A s \in Sides : f[s] = tcp[s] \/ f[s] # {}
  PROVE  MaskInv' /\ tcp' = f /\ flags' = up
BY DEF SetPipes, ControlInv, MaskInv

LEMMA ControlOfSelect == TypeOK /\ ControlInv /\ Select => ControlInv'
<1> SUFFICES ASSUME TypeOK, ControlInv, Select
             PROVE  ControlInv'
  OBVIOUS
<1>1. UNCHANGED <<sockVars, todo, dgm, pipeVars, bridgeVars, proc>> /\ cb.at = "idle" /\ ~Dead
  BY DEF Select, hostVars
<1>2. \A s \in Sides : have'[s] = ReadyEvents(s) \cap (mask[s] \cup {"error"})
  BY DEF Select
<1>3. EventsInv'
  <2> SUFFICES ASSUME NEW s \in Sides
               PROVE  /\ have'[s] \subseteq mask[s] \cup {"error"}
                      /\ "readable" \in have'[s] => "ready" \in tcp[s] /\ "fin_rcvd" \notin tcp[s]
                      /\ "writable" \in have'[s] => "fin_sent" \notin tcp[s]
                      /\ "error" \in have'[s] => Failed(s)
    BY <1>1 DEF EventsInv, bridgeVars, pipeVars, sockVars, Failed
  <2>1. "error" \in ReadyEvents(s) => Failed(s)
    BY DEF ReadyEvents
  <2>2. mask[s] = IF tcp[s] = {} THEN InitialMask ELSE EventMask(tcp[s])
    BY DEF ControlInv, MaskInv
  <2>3. "error" \notin mask[s]
    BY <2>2 DEF InitialMask, EventMask
  <2>4. "readable" \in mask[s] => "ready" \in tcp[s] /\ "fin_rcvd" \notin tcp[s]
    BY <2>2, EventMaskBits DEF InitialMask
  <2>5. "writable" \in mask[s] => "fin_sent" \notin tcp[s]
    BY <2>2, EventMaskBits DEF InitialMask
  <2> QED
    BY <1>2, <2>1, <2>3, <2>4, <2>5
<1>4. FlagsInv' /\ MaskInv' /\ BrokenInv' /\ StageInv' /\ PendingInv' /\ AwakeInv' /\ FinInv' /\ NoAbort'
  BY <1>1 DEF ControlInv, FlagsInv, MaskInv, BrokenInv, StageInv, PendingInv, AwakeInv, FinInv,
     NoAbort, bridgeVars, pipeVars, sockVars, Dead, Failed
<1>5. LinkInv' /\ LeftOverInv'
  BY <1>1 DEF ControlInv, LinkInv, LeftOverInv, Plain, Dead, pipeVars, bridgeVars
<1> QED
  BY <1>3, <1>4, <1>5 DEF ControlInv

\* What a callback of the event loop does to the bits f of the tcp_pipe of
\* side s, and what the bridge hears of it.
Heard(s, f, ev) ==
  /\ f \subseteq {"broken"} \/ "ready" \in f
  /\ f = tcp[s] \/ f # {}
  /\ \A e \in {"fin_sent", "fin_rcvd"} : e \in f <=> e \in tcp[s]
  /\ "readable" \in f => "fin_rcvd" \notin f
  /\ "writable" \in f => "fin_sent" \notin f
  /\ \A e \in {"readable", "writable", "broken"} : e \in f => e \in tcp[s] \/ e \in ev
  /\ "writable" \in ev => "writable" \in f
  /\ "broken" \in ev => /\ "broken" \in f /\ Failed(s)
                        /\ {"readable", "writable"} \cap f = {} /\ "writable" \notin ev
  /\ {"readable", "broken"} \cap tcp[s] # {} => {"readable", "broken"} \cap f # {}
  /\ "ready" \in tcp[s] => "ready" \in f

LEMMA DispatchKeepsControl ==
  ASSUME TypeOK, ControlInv, NEW s \in Sides, Dispatching(s),
         NEW f \in SUBSET Flag, NEW up, NEW ev, Heard(s, f, ev), SetPipe(s, f, up),
         BridgeCalled(s, ev) \/ (ev = {} /\ UNCHANGED <<pending, cb, reports>>),
         UNCHANGED <<conn, in, eof, shut, rx, wantFin, dgm>>, proc' # "aborted",
         s = Plain => up = f /\ pend' = pend,
         s = dgm /\ ~Dead => up = AtxClone(f, pend'),
         pend' # <<>> => pend # <<>> /\ (s = dgm => "writable" \notin f)
  PROVE  ControlInv'
<1>1. /\ cb.at = "idle" /\ have' = [have EXCEPT ![s] = {}]
      /\ UNCHANGED <<pending, reports>>
  BY DEF Dispatching, BridgeCalled
<1>2. /\ MaskInv'
      /\ tcp' = [tcp EXCEPT ![s] = f] /\ flags' = [flags EXCEPT ![s] = up]
  <2> DEFINE g == [tcp EXCEPT ![s] = f]
  <2>1. g \in [Sides -> SUBSET Flag] /\ \A t \in Sides : g[t] = tcp[t] \/ g[t] # {}
    BY DEF TypeOK, Heard
  <2>2. SetPipes(g, [flags EXCEPT ![s] = up])
    BY DEF SetPipe
  <2> HIDE DEF g
  <2>3. MaskInv' /\ tcp' = g /\ flags' = [flags EXCEPT ![s] = up]
    BY <2>1, <2>2, MaskFollows
  <2> QED
    BY <2>3 DEF g
<1>3. /\ tcp'[s] = f /\ flags'[s] = up /\ have'[s] = {}
      /\ \A t \in Sides : t # s => tcp'[t] = tcp[t] /\ flags'[t] = flags[t] /\ have'[t] = have[t]
      /\ dgm \in Sides /\ Plain \in Sides /\ Plain # dgm /\ Plain' = Plain
      /\ \A t \in Sides : t = dgm \/ t = Plain
  <2>1. dgm \in Sides /\ Plain \in Sides /\ Plain # dgm /\ \A t \in Sides : t = dgm \/ t = Plain
    BY PeerFacts, TwoSides DEF TypeOK, Plain
  <2>2. Plain' = Plain
    BY DEF Plain
  <2> QED
    BY <1>1, <1>2, <2>1, <2>2 DEF TypeOK
<1>4. \/ ev = {} /\ cb' = cb
      \/ Dead /\ cb' = Idle
      \/ /\ ~Dead /\ cb'.self = s /\ cb'.events = ev
         /\ cb'.at = IF "writable" \notin ev THEN "relay_out"
                     ELSE IF pending[s] # <<>> THEN "flush" ELSE "relay_in"
  <2>1. CASE BridgeCalled(s, ev)
    BY <2>1 DEF BridgeCalled
  <2> QED
    BY <2>1
<1>5. Dead' <=> Dead
  BY <1>1 DEF Dead
<1>6. \A t \in Sides : Failed(t)' <=> Failed(t)
  BY DEF Failed
<1>7. ~Dead => flags = tcp /\ \A t \in Sides : "broken" \notin tcp[t]
  BY <1>1, FlagsAreBits DEF ControlInv, BrokenInv
<1>8. LinkInv'
  <2>1. flags'[Plain] = tcp'[Plain]
    BY <1>3 DEF ControlInv, LinkInv
  <2>2. pend' # <<>> => "ready" \in tcp'[dgm] /\ "writable" \notin tcp'[dgm] /\ "fin_sent" \notin tcp'[dgm]
    <3>1. CASE s = dgm
      BY <1>3, <3>1 DEF ControlInv, LinkInv, Heard
    <3>2. CASE s # dgm
      BY <1>3, <3>2 DEF ControlInv, LinkInv
    <3> QED
      BY <3>1, <3>2
  <2>3. ~Dead => flags'[dgm] = AtxClone(tcp'[dgm], pend')
    <3>1. CASE s = dgm
      BY <1>3, <3>1
    <3>2. CASE s # dgm
      BY <1>3, <3>2 DEF ControlInv, LinkInv
    <3> QED
      BY <3>1, <3>2
  <2>4. ~wantFin'
    BY DEF ControlInv, LinkInv
  <2> QED
    BY <1>3, <1>5, <2>1, <2>2, <2>3, <2>4 DEF LinkInv
<1>9. FlagsInv'
  BY <1>3 DEF ControlInv, FlagsInv, Heard
<1>10. ~Dead => flags' = tcp'
  <2>1. ~Dead => up = f
    <3>1. CASE s = dgm
      BY <3>1 DEF AtxClone
    <3> QED
      BY <1>3, <3>1
  <2> QED
    BY <1>2, <1>7, <2>1
<1>11. EventsInv'
  <2>1. cb'.at # "idle" => have'[cb'.self] = {}
    BY <1>1, <1>3, <1>4 DEF Idle
  <2>2. \A t \in Sides : t # s => mask'[t] = mask[t]
    BY <1>2, <1>3 DEF SetPipe, SetPipes
  <2>3. ~Dead => \A t \in Sides : have'[t] \subseteq mask'[t] \cup {"error"}
    BY <1>3, <2>2 DEF ControlInv, EventsInv
  <2>4. \A t \in Sides : /\ "readable" \in have'[t] => "ready" \in tcp'[t] /\ "fin_rcvd" \notin tcp'[t]
                         /\ "writable" \in have'[t] => "fin_sent" \notin tcp'[t]
                         /\ "error" \in have'[t] => Failed(t)
    BY <1>3 DEF ControlInv, EventsInv
  <2> QED
    BY <1>5, <1>6, <2>1, <2>3, <2>4 DEF EventsInv
<1>12. BrokenInv'
  <2>1. \A t \in Sides : "broken" \in tcp'[t] => Failed(t)
    BY <1>3 DEF ControlInv, BrokenInv, Heard
  <2>2. ~Dead => \A t \in Sides : "broken" \in tcp'[t] =>
          /\ {"readable", "writable"} \cap tcp'[t] = {}
          /\ cb'.at = "relay_out" /\ "broken" \in cb'.events /\ cb'.self = t
    BY <1>3, <1>4, <1>7 DEF Heard
  <2> QED
    BY <1>5, <1>6, <2>1, <2>2 DEF BrokenInv
<1>13. StageInv'
  <2>1. cb'.at # "idle" => ~Dead /\ cb'.self = s /\ cb'.events = ev
    BY <1>1, <1>4 DEF Idle
  <2>2. cb'.at = "flush" => "writable" \in flags'[s] /\ pending'[s] # <<>>
    BY <1>1, <1>3, <1>4, <1>10 DEF Heard, Idle
  <2>3. cb'.at # "idle" /\ "broken" \in ev => "broken" \in tcp'[s]
    BY <1>3 DEF Heard
  <2> QED
    BY <1>5, <2>1, <2>2, <2>3 DEF StageInv
<1>14. PendingInv'
  <2>1. ~Dead => \A t \in Sides : pending[t] # <<>> => "writable" \notin tcp[t]
    BY <1>1, <1>7 DEF ControlInv, PendingInv
  <2>2. ~Dead => \A t \in Sides : pending[t] # <<>> /\ "writable" \in tcp'[t] =>
           cb'.at = "flush" /\ cb'.self = t
    BY <1>3, <1>4, <2>1 DEF Heard
  <2> QED
    BY <1>1, <1>5, <1>10, <2>2 DEF PendingInv
<1>15. AwakeInv'
  <2>1. ~Dead => \A t \in Sides : ~("readable" \in tcp[t] /\ "writable" \in tcp[Peer(t)])
    BY <1>1, <1>7 DEF ControlInv, AwakeInv
  <2>2. ~Dead => \A t \in Sides : "readable" \in tcp'[t] /\ "writable" \in tcp'[Peer(t)] =>
          \/ cb'.self = Peer(t) /\ cb'.at \in {"flush", "relay_in"}
          \/ cb'.self = t /\ cb'.at # "idle" /\ "readable" \in cb'.events
    <3> SUFFICES ASSUME ~Dead, NEW t \in Sides, "readable" \in tcp'[t], "writable" \in tcp'[Peer(t)]
                 PROVE  \/ cb'.self = Peer(t) /\ cb'.at \in {"flush", "relay_in"}
                        \/ cb'.self = t /\ cb'.at # "idle" /\ "readable" \in cb'.events
      OBVIOUS
    <3>1. Peer(t) \in Sides /\ Peer(t) # t /\ (s = t \/ s = Peer(t))
      BY PeerFacts, TwoSides
    <3>2. CASE s = t
      <4>1. "writable" \in tcp[Peer(t)]
        BY <1>3, <3>1, <3>2
      <4>2. "readable" \in ev
        BY <1>3, <2>1, <3>2, <4>1 DEF Heard
      <4> QED
        BY <1>4, <3>2, <4>2
    <3>3. CASE s = Peer(t)
      <4>1. "readable" \in tcp[t]
        BY <1>3, <3>1, <3>3
      <4>2. "writable" \in ev
        BY <1>3, <2>1, <3>3, <4>1 DEF Heard
      <4> QED
        BY <1>4, <3>3, <4>2
    <3> QED
      BY <3>1, <3>2, <3>3
  <2> QED
    BY <1>5, <1>10, <2>2 DEF AwakeInv
<1>16. FinInv'
  <2>1. \A e \in {"fin_sent", "fin_rcvd"} : \A t \in Sides : e \in tcp'[t] <=> e \in tcp[t]
    BY <1>3 DEF Heard
  <2>2. shut' = {d \in Sides : "fin_sent" \in tcp'[d]}
    BY <2>1 DEF ControlInv, FinInv
  <2>3. /\ \A t \in Sides : "fin_rcvd" \in tcp'[t] => t \in eof' /\ in'[t] = <<>>
        /\ \A d \in Sides : "fin_sent" \in tcp'[d] => "fin_rcvd" \in tcp'[Peer(d)] /\ pending'[d] = <<>>
        /\ ~Dead => \A t \in Sides : "fin_rcvd" \in tcp'[t] => "fin_sent" \in tcp'[Peer(t)]
    BY <1>1, <2>1, PeerFacts DEF ControlInv, FinInv
  <2>4. ~Dead /\ "fin_rcvd" \in tcp'[dgm'] => rx' = <<>>
    BY <1>3, <2>1 DEF ControlInv, FinInv
  <2> QED
    BY <1>5, <2>2, <2>3, <2>4 DEF FinInv
<1>17. LeftOverInv'
  BY <1>3, <1>5 DEF ControlInv, LeftOverInv, Heard
<1>18. NoAbort'
  BY DEF NoAbort
<1> QED
  BY <1>2, <1>8, <1>9, <1>11, <1>12, <1>13, <1>14, <1>15, <1>16, <1>17, <1>18 DEF ControlInv

LEMMA HeardFromSocket ==
  ASSUME TypeOK, ControlInv, NEW s \in Sides, Dispatching(s)
  PROVE  /\ Heard(s, TcpFlags(s), TcpEvents(s))
         /\ OnActivityAsserts(tcp[s], have[s], Failed(s))
<1> DEFINE fails == ConnectFailed(tcp[s], have[s], Failed(s))
<1>1. have[s] \in SUBSET SkEvent /\ have[s] # {} /\ tcp[s] \in SUBSET Flag
  BY DEF Dispatching, TypeOK
<1>2. /\ "readable" \in have[s] => "ready" \in tcp[s] /\ "fin_rcvd" \notin tcp[s]
      /\ "writable" \in have[s] => "fin_sent" \notin tcp[s]
      /\ "error" \in have[s] => Failed(s)
  BY DEF ControlInv, EventsInv
<1>3. fails => "ready" \notin tcp[s] /\ Failed(s)
  BY <1>2 DEF ConnectFailed
<1>4. OnActivityAsserts(tcp[s], have[s], Failed(s))
  BY <1>1, <1>2 DEF OnActivityAsserts, SkEvent
<1>5. /\ tcp[s] \subseteq {"broken"} \/ "ready" \in tcp[s]
      /\ ~({"readable", "fin_rcvd"} \subseteq tcp[s])
      /\ ~({"writable", "fin_sent"} \subseteq tcp[s])
  BY DEF ControlInv, FlagsInv
<1>6. CASE fails
  <2>1. TcpFlags(s) = TagBroken(tcp[s]) /\ TcpEvents(s) = {"broken"}
    BY <1>6 DEF TcpFlags, TcpEvents, FlagsOnActivity, EventsOnActivity
  <2> QED
    BY <1>3, <1>4, <1>5, <1>6, <2>1 DEF Heard, TagBroken
<1>7. CASE ~fails
  <2>1. /\ TcpFlags(s) = tcp[s] \cup {"ready"} \cup (have[s] \cap {"readable", "writable"})
        /\ TcpEvents(s) = ({"ready"} \ tcp[s]) \cup (have[s] \cap {"readable", "writable"})
    BY <1>7 DEF TcpFlags, TcpEvents, FlagsOnActivity, EventsOnActivity
  <2> QED
    BY <1>2, <1>4, <1>5, <2>1 DEF Heard
<1> QED
  BY <1>6, <1>7

LEMMA ControlOfDispatchPlain == TypeOK /\ ControlInv /\ DispatchPlain => ControlInv'
<1> SUFFICES ASSUME TypeOK, ControlInv, DispatchPlain
             PROVE  ControlInv'
  OBVIOUS
<1> DEFINE s == Plain
           f == TcpFlags(s)
           ev == TcpEvents(s)
<1>1. /\ Dispatching(s) /\ SetPipe(s, f, f) /\ BridgeCalled(s, ev)
      /\ Survives(/\ OnActivityAsserts(tcp[s], have[s], Failed(s))
                  /\ BridgeCalledAsserts(s, ev, f))
      /\ UNCHANGED <<conn, in, eof, shut, rx, wantFin, dgm, pend>>
  BY DEF DispatchPlain, hostVars, sockVars
<1>2. s \in Sides /\ s # dgm
  BY PeerFacts DEF TypeOK, Plain
<1>3. f \in SUBSET Flag
  BY <1>2, DispatchTypes
<1>4. Heard(s, f, ev) /\ OnActivityAsserts(tcp[s], have[s], Failed(s))
  BY <1>1, <1>2, HeardFromSocket
<1>5. proc' # "aborted"
  <2>1. BridgeCalledAsserts(s, ev, f)
    BY <1>4 DEF BridgeCalledAsserts, Heard
  <2> QED
    BY <1>1, <1>4, <2>1 DEF Survives
<1> HIDE DEF f, ev
<1> QED
  BY <1>1, <1>2, <1>3, <1>4, <1>5, DispatchKeepsControl

\* The callback of the atx_pipe, whether or not it has flushed anything.
LEMMA AtxCallsKeepControl ==
  ASSUME TypeOK, ControlInv, Dispatching(dgm), NEW a, AtxCalls(a),
         a.tcp \in SUBSET Flag, Heard(dgm, a.tcp, a.events),
         a.pend # <<>> => pend # <<>> /\ "writable" \notin a.tcp,
         a.events = {} => a.tcp = tcp[dgm],
         UNCHANGED <<conn, in, eof, shut, rx, wantFin, dgm>>
  PROVE  ControlInv'
<1> DEFINE f == a.tcp
           ev == a.events
           up == IF ev = {} THEN flags[dgm] ELSE AtxClone(f, a.pend)
<1>1. dgm \in Sides /\ dgm # Plain
  BY PeerFacts DEF TypeOK, Plain
<1>2. /\ pend' = a.pend /\ SetPipe(dgm, f, up)
      /\ BridgeCalled(dgm, ev) \/ (ev = {} /\ UNCHANGED <<pending, cb, reports>>)
      /\ Survives(/\ OnActivityAsserts(tcp[dgm], have[dgm], Failed(dgm))
                  /\ BridgeCalledAsserts(dgm, ev, AtxClone(f, a.pend)))
  BY DEF AtxCalls
<1>3. proc' # "aborted"
  <2>1. BridgeCalledAsserts(dgm, ev, AtxClone(f, a.pend))
    BY DEF BridgeCalledAsserts, Heard, AtxClone
  <2> QED
    BY <1>1, <1>2, <2>1, HeardFromSocket DEF Survives
<1>4. ~Dead => up = AtxClone(f, pend')
  <2>1. CASE ev = {} /\ ~Dead
    <3>1. flags[dgm] = f
      BY <1>1, <2>1, FlagsAreBits
    <3>2. AtxClone(f, a.pend) = f
      BY DEF AtxClone
    <3> QED
      BY <1>2, <2>1, <3>1, <3>2
  <2> QED
    BY <1>2, <2>1
<1> HIDE DEF f, ev, up
<1>5. f \in SUBSET Flag /\ Heard(dgm, f, ev) /\ (pend' # <<>> => pend # <<>> /\ "writable" \notin f)
  BY <1>2 DEF f, ev
<1> QED
  BY <1>1, <1>2, <1>3, <1>4, <1>5, DispatchKeepsControl

LEMMA ControlOfDispatchDgm == TypeOK /\ ControlInv /\ DispatchDgm => ControlInv'
<1> SUFFICES ASSUME TypeOK, ControlInv, DispatchDgm
             PROVE  ControlInv'
  OBVIOUS
<1> DEFINE f == TcpFlags(dgm)
           ev == TcpEvents(dgm)
           a == AtxNothingToFlush(f, ev, pend)
<1>1. /\ Dispatching(dgm) /\ AtxCalls(a) /\ ("writable" \notin ev \/ pend = <<>>)
      /\ UNCHANGED <<conn, in, eof, shut, rx, wantFin, dgm>>
  BY DEF DispatchDgm, hostVars, sockVars
<1>2. dgm \in Sides /\ f \in SUBSET Flag
  BY DispatchTypes DEF TypeOK
<1>3. Heard(dgm, f, ev)
  BY <1>1, <1>2, HeardFromSocket
<1>4. a.tcp = f /\ a.pend = pend /\ a.events = ev
  BY DEF AtxNothingToFlush
<1>5. a.pend # <<>> => pend # <<>> /\ "writable" \notin a.tcp
  BY <1>1, <1>3, <1>4 DEF Heard, ControlInv, LinkInv
<1>6. a.events = {} => a.tcp = tcp[dgm]
  BY <1>1, <1>4 DEF TcpFlags, TcpEvents, FlagsOnActivity, EventsOnActivity
<1> HIDE DEF a
<1> QED
  BY <1>1, <1>2, <1>3, <1>4, <1>5, <1>6, AtxCallsKeepControl

LEMMA ControlOfDispatchDgmFlush == TypeOK /\ ControlInv /\ DispatchDgmFlush => ControlInv'
<1> SUFFICES ASSUME TypeOK, ControlInv, DispatchDgmFlush
             PROVE  ControlInv'
  OBVIOUS
<1> DEFINE f == TcpFlags(dgm)
           ev == TcpEvents(dgm)
           A(w) == AtxFlushed(f, ev, pend, wantFin, w, ~Failed(dgm))
<1>1. PICK w \in SendResults(dgm, Len(pend)) :
       /\ AtxCalls(A(w))
       /\ shut' = IF wantFin /\ w.is = "all" THEN shut \cup {dgm} ELSE shut
  BY DEF DispatchDgmFlush
<1>2. /\ Dispatching(dgm) /\ "writable" \in ev /\ pend # <<>> /\ ~wantFin
      /\ "ready" \in tcp[dgm] /\ "writable" \notin tcp[dgm]
      /\ UNCHANGED <<conn, in, eof, rx, wantFin, dgm>>
  BY DEF DispatchDgmFlush, ControlInv, LinkInv
<1>3. shut' = shut
  BY <1>1, <1>2
<1>4. dgm \in Sides /\ f \in SUBSET Flag /\ Heard(dgm, f, ev)
  BY <1>2, DispatchTypes, HeardFromSocket DEF TypeOK
<1>5. /\ f = tcp[dgm] \cup (have[dgm] \cap {"readable", "writable"})
      /\ ev = have[dgm] \cap {"readable", "writable"}
  BY <1>2 DEF TcpFlags, TcpEvents, FlagsOnActivity, EventsOnActivity, ConnectFailed
<1> DEFINE a == A(w)
           g == FlagsAfterSend(f, w.is)
<1>6. /\ a.tcp = g /\ a.pend = Rest(pend, w.n)
      /\ a.events = {e \in ev : e = "writable" => w.is = "all"} \cup (g \cap {"broken"})
  BY <1>2 DEF AtxFlushed
<1>7. \/ w.is = "all" /\ ~Failed(dgm) /\ g = f
      \/ w.is \in {"some", "again"} /\ ~Failed(dgm) /\ g = f \ {"writable"}
      \/ w.is \in {"fatal", "epipe"} /\ Failed(dgm) /\ g = TagBroken(f)
  BY <1>2, <1>4 DEF SendResults, FlagsAfterSend, Failed, Heard
<1>8. "broken" \in tcp[dgm] => Failed(dgm)
  BY <1>4 DEF ControlInv, BrokenInv
<1>9. w.is = "all" => a.pend = <<>>
  <2>1. pend \in Seq(Octets)
    BY DEF TypeOK
  <2>2. w.is = "all" => w.n = Len(pend)
    BY DEF SendResults
  <2> QED
    BY <1>6, <2>1, <2>2, CutAtEnds
<1>10. w.is \in SendOutcome
  BY DEF SendResults
<1>11. g \in SUBSET Flag
  BY <1>4, <1>10, PipeTypes
<1>12. AtxCalls(a)
  BY <1>1
<1> HIDE DEF f, g, a, ev
<1>13. Heard(dgm, a.tcp, a.events)
  <2> DEFINE evs == a.events
  <2>1. CASE w.is = "all"
    <3>1. g = f /\ evs = ev
      BY <1>5, <1>6, <1>7, <1>8, <2>1
    <3> QED
      BY <1>4, <1>6, <3>1
  <2>2. CASE w.is \in {"some", "again"}
    <3>1. g = f \ {"writable"} /\ evs = ev \ {"writable"} /\ "broken" \notin f
      BY <1>5, <1>6, <1>7, <1>8, <2>2
    <3> QED
      BY <1>2, <1>4, <1>5, <1>6, <3>1 DEF Heard
  <2>3. CASE w.is \in {"fatal", "epipe"}
    <3>1. /\ g = (f \cup {"broken"}) \ {"readable", "writable"}
          /\ evs = (ev \ {"writable"}) \cup {"broken"} /\ Failed(dgm)
      BY <1>5, <1>6, <1>7, <2>3 DEF TagBroken
    <3> QED
      BY <1>2, <1>4, <1>5, <1>6, <3>1 DEF Heard
  <2> QED
    BY <1>7, <2>1, <2>2, <2>3
<1>14. a.pend # <<>> => pend # <<>> /\ "writable" \notin a.tcp
  BY <1>2, <1>6, <1>7, <1>9 DEF TagBroken
<1>15. a.events = {} => a.tcp = tcp[dgm]
  <2>1. CASE w.is = "all"
    BY <1>2, <1>6, <2>1
  <2>2. CASE w.is \in {"some", "again"}
    <3>1. a.events = {} => ev \subseteq {"writable"}
      BY <1>5, <1>6, <2>2
    <3>2. f = tcp[dgm] \cup ev
      BY <1>5
    <3>3. ev \subseteq {"writable"} => f \ {"writable"} = tcp[dgm]
      BY <1>2, <3>2
    <3>4. a.tcp = f \ {"writable"}
      BY <1>6, <1>7, <2>2
    <3> QED
      BY <3>1, <3>3, <3>4
  <2>3. CASE w.is \in {"fatal", "epipe"}
    BY <1>6, <1>7, <2>3 DEF TagBroken
  <2> QED
    BY <1>7, <2>1, <2>2, <2>3
<1> QED
  BY <1>2, <1>3, <1>6, <1>11, <1>12, <1>13, <1>14, <1>15, AtxCallsKeepControl

\* What holds whenever the bridge passes over a pair of pipe calls.
LEMMA RelayPass ==
  ASSUME TypeOK, ControlInv, InRelay, Relaying
  PROVE  /\ Src \in Sides /\ Dst \in Sides /\ Dst = Peer(Src) /\ Src = Peer(Dst) /\ Src # Dst
         /\ cb.at \in {"relay_in", "relay_out"} /\ cb.at # "idle" /\ ~Dead /\ reports = <<>>
         /\ flags = tcp /\ "readable" \in flags[Src] /\ "writable" \in flags[Dst]
         /\ "broken" \notin tcp[Src] /\ "broken" \notin tcp[Dst]
         /\ "ready" \in tcp[Src] /\ "ready" \in tcp[Dst]
         /\ "fin_rcvd" \notin tcp[Src] /\ "fin_sent" \notin tcp[Dst]
         /\ mask[Src] = EventMask(tcp[Src]) /\ mask[Dst] = EventMask(tcp[Dst])
         /\ pending[Dst] = <<>>
         /\ "readable" \notin have[Src] /\ "writable" \notin have[Dst]
         /\ have[cb.self] = {} /\ cb.self \in {Src, Dst} /\ "broken" \notin cb.events
         /\ Plain' = Peer(dgm') /\ dgm \in Sides
<1>1. cb.at \in {"relay_in", "relay_out"} /\ cb.at # "idle"
  BY DEF InRelay
<1>2. /\ Src \in Sides /\ Dst \in Sides /\ Dst = Peer(Src) /\ Src = Peer(Dst) /\ Src # Dst
      /\ cb.self \in {Src, Dst}
  BY SrcDst, PeerFacts DEF TypeOK, Src, Dst, Activation
<1>3. /\ ~Dead /\ reports = <<>> /\ have[cb.self] = {} /\ flags = tcp
      /\ "ready" \in tcp[Src] /\ "broken" \notin tcp[Src] /\ mask[Src] = EventMask(tcp[Src])
      /\ "ready" \in tcp[Dst] /\ "broken" \notin tcp[Dst] /\ mask[Dst] = EventMask(tcp[Dst])
  BY <1>1, <1>2, InCallback DEF Relaying
<1>4. "fin_rcvd" \notin tcp[Src] /\ "fin_sent" \notin tcp[Dst]
  BY <1>2, <1>3 DEF Relaying, ControlInv, FlagsInv
<1>5. pending[Dst] = <<>>
  BY <1>1, <1>2, <1>3 DEF Relaying, ControlInv, PendingInv
<1>6. "readable" \notin have[Src] /\ "writable" \notin have[Dst]
  <2>1. have[Src] \subseteq mask[Src] \cup {"error"} /\ have[Dst] \subseteq mask[Dst] \cup {"error"}
    BY <1>2, <1>3 DEF ControlInv, EventsInv
  <2> QED
    BY <1>2, <1>3, <2>1, EventMaskBits DEF Relaying
<1>7. "broken" \notin cb.events
  BY <1>1, <1>2, <1>3 DEF ControlInv, StageInv
<1> QED
  BY <1>1, <1>2, <1>3, <1>4, <1>5, <1>6, <1>7 DEF Relaying, TypeOK, Plain

\* The bits f of the side that octets or FIN were received from, ...
Took(s, f) ==
  /\ "ready" \in f
  /\ "readable" \in f => "fin_rcvd" \notin f
  /\ "writable" \in f => "writable" \in tcp[s]
  /\ "broken" \notin f => ("writable" \in f <=> "writable" \in tcp[s])
  /\ "fin_sent" \in f <=> "fin_sent" \in tcp[s]
  /\ "fin_rcvd" \in f => s \in eof /\ in'[s] = <<>>
  /\ "broken" \in f => Failed(s) /\ {"readable", "writable"} \cap f = {}

\* ... and of the side they were passed on to.
Gave(s, f) ==
  /\ "ready" \in f
  /\ "writable" \in f => "fin_sent" \notin f
  /\ "readable" \in f => "readable" \in tcp[s]
  /\ "broken" \notin f => ("readable" \in f <=> "readable" \in tcp[s])
  /\ "fin_rcvd" \in f <=> "fin_rcvd" \in tcp[s]
  /\ "broken" \in f => Failed(s) /\ {"readable", "writable"} \cap f = {}

\* A pass of the relay loop, b when it ends with on_shutdown().
LEMMA PassKeepsControl ==
  ASSUME TypeOK, ControlInv, InRelay, Relaying,
         NEW fs \in SUBSET Flag, NEW fd \in SUBSET Flag, NEW us, NEW ud, NEW b \in BOOLEAN,
         Took(Src, fs), Gave(Dst, fd),
         SetPipes([tcp EXCEPT ![Src] = fs, ![Dst] = fd], [flags EXCEPT ![Src] = us, ![Dst] = ud]),
         IF b THEN Shutdown("failed") ELSE GoTo(cb.at),
         ~b => us = fs /\ ud = fd /\ "broken" \notin fs /\ "broken" \notin fd,
         Src # dgm => us = fs /\ rx' = rx,
         Dst # dgm => ud = fd /\ pend' = pend,
         "fin_sent" \in fd => "fin_rcvd" \in fs,
         ~b /\ "fin_rcvd" \in fs => "fin_sent" \in fd /\ (Src = dgm => rx' = <<>>),
         ~b /\ Src = dgm /\ LeftOver(rx') => "readable" \in fs,
         Dst = dgm /\ pend' # <<>> => "writable" \notin fd /\ "fin_sent" \notin fd,
         UNCHANGED <<conn, eof, have, dgm, wantFin>>, in'[Dst] = in[Dst],
         shut' = IF "fin_sent" \in fd THEN shut \cup {Dst} ELSE shut,
         pending'[Src] = pending[Src],
         pending'[Dst] # <<>> => "writable" \notin fd /\ "fin_sent" \notin fd,
         proc' # "aborted"
  PROVE  ControlInv'
<1> DEFINE src == Src
           dst == Dst
<1>1. /\ src \in Sides /\ dst \in Sides /\ dst = Peer(src) /\ src = Peer(dst) /\ src # dst
      /\ cb.at \in {"relay_in", "relay_out"} /\ ~Dead /\ reports = <<>> /\ flags = tcp
      /\ "readable" \in tcp[src] /\ "writable" \in tcp[dst]
      /\ "fin_rcvd" \notin tcp[src] /\ "fin_sent" \notin tcp[dst]
      /\ "ready" \in tcp[src] /\ "ready" \in tcp[dst]
      /\ "broken" \notin tcp[src] /\ "broken" \notin tcp[dst]
      /\ mask[src] = EventMask(tcp[src]) /\ mask[dst] = EventMask(tcp[dst])
      /\ "readable" \notin have[src] /\ "writable" \notin have[dst]
      /\ have[cb.self] = {} /\ "broken" \notin cb.events
      /\ Plain' = Plain /\ dgm \in Sides
  BY RelayPass DEF Plain
<1>2. \/ cb.self = dst /\ cb.at = "relay_in"
      \/ cb.self = src /\ cb.at = "relay_out" /\ "readable" \in cb.events
  BY <1>1, PeerFacts DEF InRelay, Src, Dst, TypeOK, Activation
<1>3. /\ Took(src, fs) /\ Gave(dst, fd) /\ in'[dst] = in[dst] /\ pending'[src] = pending[src]
      /\ shut' = IF "fin_sent" \in fd THEN shut \cup {dst} ELSE shut
      /\ pending'[dst] # <<>> => "writable" \notin fd /\ "fin_sent" \notin fd
      /\ src # dgm => us = fs /\ rx' = rx
      /\ dst # dgm => ud = fd /\ pend' = pend
      /\ ~b /\ "fin_rcvd" \in fs => "fin_sent" \in fd /\ (src = dgm => rx' = <<>>)
      /\ ~b /\ src = dgm /\ LeftOver(rx') => "readable" \in fs
      /\ dst = dgm /\ pend' # <<>> => "writable" \notin fd /\ "fin_sent" \notin fd
      /\ UNCHANGED <<conn, eof, have, dgm, wantFin>>
  OBVIOUS
<1> DEFINE g == [tcp EXCEPT ![src] = fs, ![dst] = fd]
<1>4. SetPipes(g, [flags EXCEPT ![src] = us, ![dst] = ud])
  OBVIOUS
<1> HIDE DEF src, dst
<1>5. g \in [Sides -> SUBSET Flag] /\ \A t \in Sides : g[t] = tcp[t] \/ g[t] # {}
  BY <1>1, <1>3 DEF TypeOK, Took, Gave
<1>6. MaskInv' /\ tcp' = g /\ flags' = [flags EXCEPT ![src] = us, ![dst] = ud]
  <2> HIDE DEF g
  <2> QED
    BY <1>4, <1>5, MaskFollows
<1>7. /\ tcp'[src] = fs /\ tcp'[dst] = fd /\ flags'[src] = us /\ flags'[dst] = ud
      /\ \A t \in Sides : t = src \/ t = dst
  <2>1. tcp \in [Sides -> SUBSET Flag] /\ flags \in [Sides -> SUBSET Flag]
    BY DEF TypeOK
  <2>2. \A t \in Sides : t = src \/ t = dst
    BY <1>1, TwoSides
  <2> QED
    BY <1>1, <1>6, <2>1, <2>2
<1>8. mask'[src] = EventMask(fs) /\ mask'[dst] = EventMask(fd)
  <2>1. fs # {} /\ fd # {}
    BY <1>3 DEF Took, Gave
  <2> QED
    BY <1>1, <1>6, <1>7, <2>1 DEF MaskInv
<1>9. /\ Dead' <=> b
      /\ b => cb' = Idle
      /\ ~b => cb' = cb
  <2>1. Dead' <=> b
    BY <1>1, LifeAndDeath DEF TypeOK, Report
  <2> QED
    BY <2>1 DEF Shutdown, GoTo, TypeOK, Activation
<1>10. \A t \in Sides : Failed(t)' <=> Failed(t)
  BY <1>3 DEF Failed
<1>11. ~b => flags' = tcp'
  BY <1>1, <1>6
<1>12. LinkInv'
  <2>1. flags'[Plain'] = tcp'[Plain']
    <3>1. Plain \in Sides /\ Plain # dgm
      BY <1>1, PeerFacts DEF Plain
    <3> QED
      BY <1>1, <1>3, <1>7, <3>1
  <2>2. pend' # <<>> => "ready" \in tcp'[dgm] /\ "writable" \notin tcp'[dgm] /\ "fin_sent" \notin tcp'[dgm]
    <3>1. CASE dgm = dst
      BY <1>3, <1>7, <3>1 DEF Gave
    <3>2. CASE dgm = src
      BY <1>1, <1>3, <1>7, <3>2 DEF ControlInv, LinkInv, Took
    <3> QED
      BY <1>1, <1>7, <3>1, <3>2
  <2>3. ~b => flags'[dgm] = AtxClone(tcp'[dgm], pend')
    BY <1>11, <2>2 DEF AtxClone
  <2>4. ~wantFin'
    BY <1>3 DEF ControlInv, LinkInv
  <2> QED
    BY <1>3, <1>9, <2>1, <2>2, <2>3, <2>4 DEF LinkInv
<1>13. FlagsInv'
  <2>1. /\ ~({"writable", "fin_sent"} \subseteq tcp[src])
        /\ ~({"readable", "fin_rcvd"} \subseteq tcp[dst])
    BY <1>1 DEF ControlInv, FlagsInv
  <2> QED
    BY <1>3, <1>7, <2>1 DEF FlagsInv, Took, Gave
<1>14. EventsInv'
  <2>1. cb'.at # "idle" => have[cb'.self] = {}
    BY <1>1, <1>9 DEF Idle
  <2>2. ~Dead => have[src] \subseteq mask[src] \cup {"error"} /\ have[dst] \subseteq mask[dst] \cup {"error"}
    BY <1>1 DEF ControlInv, EventsInv
  <2>3. "writable" \in have[src] => "fin_sent" \notin fs /\ (~b => "writable" \in EventMask(fs))
    <3>1. "writable" \in have[src] => "writable" \in EventMask(tcp[src])
      BY <1>1, <2>2
    <3> QED
      BY <1>1, <1>3, <3>1, EventMaskBits DEF Took
  <2>4. "readable" \in have[dst] => "fin_rcvd" \notin fd /\ (~b => "readable" \in EventMask(fd))
    <3>1. "readable" \in have[dst] => "readable" \in EventMask(tcp[dst])
      BY <1>1, <2>2
    <3> QED
      BY <1>1, <1>3, <3>1, EventMaskBits DEF Gave
  <2>5. have[src] \subseteq SkEvent /\ have[dst] \subseteq SkEvent
    BY <1>1 DEF TypeOK
  <2>6. \A t \in Sides : "error" \in have[t] => Failed(t)
    BY DEF ControlInv, EventsInv
  <2>7. ~b => have[src] \subseteq mask'[src] \cup {"error"} /\ have[dst] \subseteq mask'[dst] \cup {"error"}
    BY <1>1, <1>8, <2>3, <2>4, <2>5 DEF SkEvent
  <2>8. "ready" \in fs /\ "ready" \in fd
    BY <1>3 DEF Took, Gave
  <2> QED
    BY <1>1, <1>3, <1>7, <1>9, <1>10, <2>1, <2>3, <2>4, <2>6, <2>7, <2>8 DEF EventsInv
<1>15. BrokenInv'
  BY <1>3, <1>7, <1>9, <1>10 DEF BrokenInv, Took, Gave
<1>16. StageInv'
  BY <1>1, <1>9 DEF StageInv, Idle
<1>17. PendingInv'
  <2>1. ~b => ~(pending[src] # <<>> /\ "writable" \in tcp[src])
    BY <1>1 DEF ControlInv, PendingInv
  <2> QED
    BY <1>3, <1>7, <1>9, <1>11, <2>1 DEF PendingInv, Took
<1>18. AwakeInv'
  <2>1. "readable" \in tcp[dst] /\ "writable" \in tcp[src] =>
          \/ cb.self = src /\ cb.at \in {"flush", "relay_in"}
          \/ cb.self = dst /\ cb.at # "idle" /\ "readable" \in cb.events
    BY <1>1 DEF ControlInv, AwakeInv
  <2> QED
    BY <1>1, <1>2, <1>3, <1>7, <1>9, <1>11, <2>1 DEF AwakeInv, Took, Gave
<1>19. FinInv'
  <2>1. shut' = {d \in Sides : "fin_sent" \in tcp'[d]}
    <3>1. shut = {d \in Sides : "fin_sent" \in tcp[d]}
      BY DEF ControlInv, FinInv
    <3> QED
      BY <1>1, <1>3, <1>7, <3>1 DEF Took
  <2>2. "fin_rcvd" \in tcp[dst] => dst \in eof /\ in[dst] = <<>>
    BY <1>1 DEF ControlInv, FinInv
  <2>3. "fin_sent" \in tcp[src] => "fin_rcvd" \in tcp[dst] /\ pending[src] = <<>>
    BY <1>1 DEF ControlInv, FinInv
  <2>4. "fin_rcvd" \in tcp[dst] => "fin_sent" \in tcp[src] /\ (dst = dgm => rx = <<>>)
    BY <1>1 DEF ControlInv, FinInv
  <2>5. \A t \in Sides : "fin_rcvd" \in tcp'[t] => t \in eof' /\ in'[t] = <<>>
    BY <1>3, <1>7, <2>2 DEF Took, Gave
  <2>6. \A t \in Sides : "fin_sent" \in tcp'[t] => "fin_rcvd" \in tcp'[Peer(t)] /\ pending'[t] = <<>>
    BY <1>1, <1>3, <1>7, <2>3 DEF Took, Gave
  <2>7. ~b => \A t \in Sides : "fin_rcvd" \in tcp'[t] => "fin_sent" \in tcp'[Peer(t)]
    BY <1>1, <1>3, <1>7, <2>4 DEF Took, Gave
  <2>8. ~b /\ "fin_rcvd" \in tcp'[dgm] => rx' = <<>>
    BY <1>1, <1>3, <1>7, <2>4 DEF Took, Gave
  <2> QED
    BY <1>3, <1>9, <2>1, <2>5, <2>6, <2>7, <2>8 DEF FinInv
<1>20. LeftOverInv'
  <2>1. LeftOver(rx) => {"readable", "broken"} \cap tcp[dgm] # {}
    BY <1>1 DEF ControlInv, LeftOverInv
  <2>2. ~b /\ LeftOver(rx') => "readable" \in tcp'[dgm]
    <3>1. CASE dgm = src
      BY <1>3, <1>7, <3>1
    <3>2. CASE dgm = dst
      <4>1. rx' = rx
        BY <1>1, <1>3, <3>2
      <4>2. ~b => "broken" \notin fd
        OBVIOUS
      <4> QED
        BY <1>1, <1>3, <1>7, <2>1, <3>2, <4>1, <4>2 DEF Gave
    <3> QED
      BY <1>1, <1>7, <3>1, <3>2
  <2> QED
    BY <1>3, <1>9, <2>2 DEF LeftOverInv
<1>21. NoAbort'
  BY DEF NoAbort
<1> QED
  BY <1>6, <1>12, <1>13, <1>14, <1>15, <1>16, <1>17, <1>18, <1>19, <1>20, <1>21 DEF ControlInv

LEMMA SetAsItWas ==
  ASSUME NEW S, NEW f \in [Sides -> S], NEW s \in Sides, NEW d \in Sides, s # d, NEW v
  PROVE  [f EXCEPT ![s] = v, ![d] = f[d]] = [f EXCEPT ![s] = v]
OBVIOUS

LEMMA ControlOfRelayNothing == TypeOK /\ ControlInv /\ RelayNothing => ControlInv'
<1> SUFFICES ASSUME TypeOK, ControlInv, RelayNothing
             PROVE  ControlInv'
  OBVIOUS
<1> DEFINE s == Src
           d == Dst
<1>1. PICK r \in Recvs(s) :
       /\ r.is = "nothing"
       /\ in' = [in EXCEPT ![s] = Rest(@, r.read)]
       /\ rx' = r.rx
       /\ SetPipe(s, r.tcp, r.up)
       /\ RelayedNothing(r.up)
  BY DEF RelayNothing
<1>2. /\ InRelay /\ Relaying /\ proc = "running"
      /\ Survives(RelayAsserts /\ SideRecvAsserts(s))
      /\ UNCHANGED <<conn, eof, out, shut, sent, got, todo, dgm, pend, wantFin, have>>
  BY DEF RelayNothing
<1>3. /\ s \in Sides /\ d \in Sides /\ s # d /\ cb.at # "idle" /\ flags = tcp
      /\ "readable" \in flags[s] /\ "readable" \in tcp[s] /\ "writable" \in tcp[d]
      /\ "ready" \in tcp[s] /\ "broken" \notin tcp[s] /\ "fin_rcvd" \notin tcp[s]
      /\ "ready" \in tcp[d] /\ "broken" \notin tcp[d] /\ "fin_sent" \notin tcp[d]
      /\ pending[d] = <<>> /\ RelayAsserts
  BY <1>2, RelayPass DEF RelayAsserts
<1>4. tcp \in [Sides -> SUBSET Flag] /\ flags \in [Sides -> SUBSET Flag] /\ in \in [Sides -> Seq(Octets)]
  BY DEF TypeOK
<1> DEFINE fs == r.tcp
           us == r.up
           fd == tcp[d]
           b == "broken" \in r.up
<1>5. /\ \/ fs = tcp[s] /\ us = tcp[s]
         \/ fs = tcp[s] \ {"readable"} /\ us = fs /\ r.rx = rx /\ (s = dgm => ~LeftOver(rx))
         \/ /\ "broken" \in us
            /\ \/ fs = tcp[s]
               \/ fs = TagBroken(tcp[s]) /\ Failed(s)
               \/ /\ fs = (tcp[s] \ {"readable"}) \cup {"fin_rcvd"}
                  /\ s \in eof /\ in[s] = <<>> /\ r.read = 0
      /\ s # dgm => r.rx = rx /\ us = fs
  BY <1>1, <1>3, RecvBits
<1>6. proc' # "aborted"
  BY <1>2, <1>3, RecvNeverFull DEF Survives
<1>7. fs \in SUBSET Flag /\ fd \in SUBSET Flag
  BY <1>3, <1>4, RecvTypes
<1>8. SetPipes([tcp EXCEPT ![s] = fs, ![d] = fd], [flags EXCEPT ![s] = us, ![d] = flags[d]])
  <2>1. [tcp EXCEPT ![s] = fs, ![d] = fd] = [tcp EXCEPT ![s] = fs]
    <3> HIDE DEF s, d, fs
    <3> QED
      BY <1>3, <1>4, SetAsItWas
  <2>2. [flags EXCEPT ![s] = us, ![d] = flags[d]] = [flags EXCEPT ![s] = us]
    <3> HIDE DEF s, d, us
    <3> QED
      BY <1>3, <1>4, SetAsItWas
  <2> QED
    BY <1>1, <2>1, <2>2 DEF SetPipe
<1>9. /\ IF b THEN Shutdown("failed") ELSE GoTo(cb.at)
      /\ pending' = pending
  BY <1>1 DEF RelayedNothing, Proceed
<1>10. in'[d] = in[d] /\ in'[s] = Rest(in[s], r.read)
  BY <1>1, <1>3, <1>4
<1>11. in[s] = <<>> /\ r.read = 0 => in'[s] = <<>>
  BY <1>10, EmptySeq, CutAtEnds
<1> HIDE DEF s, d, fs, us, fd, b
<1>12. b \in BOOLEAN /\ (b <=> "broken" \in us)
  BY DEF b, us
<1>13. Took(s, fs)
  <2>1. CASE fs = tcp[s]
    BY <1>3, <2>1 DEF Took
  <2>2. CASE fs = tcp[s] \ {"readable"}
    BY <1>3, <2>2 DEF Took
  <2>3. CASE fs = TagBroken(tcp[s]) /\ Failed(s)
    BY <1>3, <2>3 DEF Took, TagBroken
  <2>4. CASE fs = (tcp[s] \ {"readable"}) \cup {"fin_rcvd"} /\ s \in eof /\ in[s] = <<>> /\ r.read = 0
    BY <1>3, <1>11, <2>4 DEF Took
  <2> QED
    BY <1>5, <2>1, <2>2, <2>3, <2>4
<1>14. Gave(d, fd)
  BY <1>3 DEF Gave, fd, ControlInv, FlagsInv
<1>15. ~b => us = fs /\ "broken" \notin fs /\ "fin_rcvd" \notin fs
  BY <1>3, <1>5, <1>12
<1>16. ~b /\ s = dgm /\ LeftOver(rx') => "readable" \in fs
  BY <1>1, <1>3, <1>5, <1>12
<1>17. s # dgm => us = fs /\ rx' = rx
  BY <1>1, <1>5
<1>18. "fin_sent" \notin fd /\ "broken" \notin fd /\ fd = flags[d]
  BY <1>3 DEF fd
<1>19. d = dgm /\ pend' # <<>> => "writable" \notin fd /\ "fin_sent" \notin fd
  BY <1>2 DEF ControlInv, LinkInv, fd
<1>20. pending'[s] = pending[s] /\ pending'[d] = <<>> /\ pend' = pend /\ shut' = shut
  BY <1>2, <1>3, <1>9
<1> QED
  BY <1>2, <1>6, <1>7, <1>8, <1>9, <1>10, <1>12, <1>13, <1>14, <1>15, <1>16, <1>17, <1>18, <1>19, <1>20,
     PassKeepsControl DEF s, d

LEMMA ControlOfRelayFin == TypeOK /\ ControlInv /\ RelayFin => ControlInv'
<1> SUFFICES ASSUME TypeOK, ControlInv, RelayFin
             PROVE  ControlInv'
  OBVIOUS
<1> DEFINE s == Src
           d == Dst
           fd == Fin(Dst).tcp
           ud == Fin(Dst).up
<1>1. PICK r \in Recvs(s) :
       /\ r.is = "fin"
       /\ SetPipes([tcp EXCEPT ![s] = r.tcp, ![d] = fd], [flags EXCEPT ![s] = r.up, ![d] = ud])
       /\ wantFin' = Fin(d).wantFin
       /\ RelayedFin(ud)
       /\ Survives(/\ RelayAsserts /\ SideRecvAsserts(s)
                   /\ RelayedFinAsserts(r.up) /\ FinAsserts(d))
  BY DEF RelayFin
<1>2. /\ InRelay /\ Relaying /\ proc = "running"
      /\ shut' = IF "fin_sent" \in fd THEN shut \cup {d} ELSE shut
      /\ UNCHANGED <<conn, in, eof, out, sent, got, todo, dgm, rx, pend, have>>
  BY DEF RelayFin
<1>3. /\ s \in Sides /\ d \in Sides /\ s # d /\ cb.at # "idle" /\ flags = tcp
      /\ "readable" \in flags[s] /\ "writable" \in flags[d]
      /\ "readable" \in tcp[s] /\ "writable" \in tcp[d]
      /\ "ready" \in tcp[s] /\ "broken" \notin tcp[s] /\ "fin_rcvd" \notin tcp[s]
      /\ "ready" \in tcp[d] /\ "broken" \notin tcp[d] /\ "fin_sent" \notin tcp[d]
      /\ pending[d] = <<>> /\ RelayAsserts
  BY <1>2, RelayPass DEF RelayAsserts
<1> DEFINE fs == r.tcp
           us == r.up
           b == "broken" \in fd
<1>4. /\ fs = (tcp[s] \ {"readable"}) \cup {"fin_rcvd"} /\ us = fs
      /\ s \in eof /\ in[s] = <<>> /\ (s = dgm => rx = <<>>)
  <2>1. r.is = "fin"
    BY <1>1
  <2> QED
    BY <1>3, <2>1, RecvBits
<1>5. /\ fd = IF Failed(d) THEN TagBroken(tcp[d]) ELSE (tcp[d] \ {"writable"}) \cup {"fin_sent"}
      /\ ud = fd /\ Fin(d).wantFin = wantFin /\ FinAsserts(d)
  BY <1>3, FinBits
<1>6. fs \in SUBSET Flag /\ fd \in SUBSET Flag
  BY <1>3, RecvTypes, FinTypes
<1>7. proc' # "aborted"
  <2>1. RelayedFinAsserts(r.up)
    BY <1>3, <1>4 DEF RelayedFinAsserts
  <2> QED
    BY <1>1, <1>2, <1>3, <1>5, <2>1, RecvNeverFull DEF Survives
<1>8. /\ IF b THEN Shutdown("failed") ELSE GoTo(cb.at)
      /\ pending' = pending /\ wantFin' = wantFin
  BY <1>1, <1>5 DEF RelayedFin, Proceed
<1>9. SetPipes([tcp EXCEPT ![s] = fs, ![d] = fd], [flags EXCEPT ![s] = us, ![d] = ud])
  BY <1>1
<1> HIDE DEF s, d, fs, us, fd, ud, b
<1>10. b \in BOOLEAN /\ (b <=> "broken" \in fd) /\ (b <=> Failed(d))
  <2>1. b \in BOOLEAN /\ (b <=> "broken" \in fd)
    BY DEF b
  <2>2. "broken" \in fd <=> Failed(d)
    BY <1>3, <1>5 DEF TagBroken
  <2> QED
    BY <2>1, <2>2
<1>11. Took(s, fs)
  BY <1>2, <1>3, <1>4 DEF Took
<1>12. Gave(d, fd)
  <2>1. CASE Failed(d)
    BY <1>3, <1>5, <2>1 DEF Gave, TagBroken
  <2>2. CASE ~Failed(d)
    BY <1>3, <1>5, <2>2 DEF Gave
  <2> QED
    BY <2>1, <2>2
<1>13. /\ "fin_sent" \in fd <=> ~b
       /\ "fin_rcvd" \in fs /\ "broken" \notin fs /\ "readable" \notin fs
       /\ "writable" \notin fd
  BY <1>3, <1>4, <1>5, <1>10 DEF TagBroken
<1>14. ~LeftOver(<<>>)
  BY NothingLeftOver
<1>15. d = dgm => pend' = <<>>
  BY <1>2, <1>3 DEF ControlInv, LinkInv
<1>16. in'[d] = in[d] /\ pending'[s] = pending[s] /\ pending'[d] = <<>> /\ pend' = pend /\ rx' = rx
  BY <1>2, <1>3, <1>8
<1> QED
  BY <1>2, <1>4, <1>5, <1>6, <1>7, <1>8, <1>9, <1>10, <1>11, <1>12, <1>13, <1>14, <1>15, <1>16,
     PassKeepsControl DEF s, d

LEMMA ControlOfRelayData == TypeOK /\ ControlInv /\ InStepInv /\ RelayData => ControlInv'
<1> SUFFICES ASSUME TypeOK, ControlInv, InStepInv, RelayData
             PROVE  ControlInv'
  OBVIOUS
<1> DEFINE s == Src
           d == Dst
<1>0. PICK r \in Recvs(s) :
       /\ r.is = "data"
       /\ \E w \in Sends(d, r.data) :
            /\ in' = [in EXCEPT ![s] = Rest(@, r.read)]
            /\ rx' = r.rx /\ pend' = w.pend
            /\ SetPipes([tcp EXCEPT ![s] = r.tcp, ![d] = w.tcp], [flags EXCEPT ![s] = r.up, ![d] = w.up])
            /\ RelayedData(r.data, w.n, w.up)
            /\ Survives(/\ RelayAsserts /\ SideRecvAsserts(s) /\ SideSendAsserts(d, w)
                        /\ RelayedDataAsserts(r.data, w.n, w.up))
  BY DEF RelayData
<1>1. PICK w \in Sends(d, r.data) :
       /\ r.is = "data"
       /\ in' = [in EXCEPT ![s] = Rest(@, r.read)]
       /\ rx' = r.rx /\ pend' = w.pend
       /\ SetPipes([tcp EXCEPT ![s] = r.tcp, ![d] = w.tcp], [flags EXCEPT ![s] = r.up, ![d] = w.up])
       /\ RelayedData(r.data, w.n, w.up)
       /\ Survives(/\ RelayAsserts /\ SideRecvAsserts(s) /\ SideSendAsserts(d, w)
                   /\ RelayedDataAsserts(r.data, w.n, w.up))
  BY <1>0
<1>2. /\ InRelay /\ Relaying /\ proc = "running"
      /\ UNCHANGED <<conn, eof, shut, sent, got, todo, dgm, wantFin, have>>
  BY DEF RelayData
<1>3. /\ s \in Sides /\ d \in Sides /\ s # d /\ cb.at # "idle" /\ flags = tcp
      /\ "readable" \in flags[s] /\ "writable" \in flags[d]
      /\ "readable" \in tcp[s] /\ "writable" \in tcp[d]
      /\ "ready" \in tcp[s] /\ "broken" \notin tcp[s] /\ "fin_rcvd" \notin tcp[s]
      /\ "ready" \in tcp[d] /\ "broken" \notin tcp[d] /\ "fin_sent" \notin tcp[d]
      /\ pending[d] = <<>> /\ RelayAsserts
  BY <1>2, RelayPass DEF RelayAsserts
<1> DEFINE fs == r.tcp
           us == r.up
           fd == w.tcp
           ud == w.up
           len == Len(r.data)
           b == w.n < len /\ "broken" \in ud
<1>4. fs = tcp[s] /\ us = tcp[s] /\ (s # dgm => r.rx = rx)
  <2>1. r.is = "data"
    BY <1>1
  <2> QED
    BY <1>3, <2>1, RecvBits
<1>5. r.data \in Seq(Octets) /\ fs \in SUBSET Flag /\ len \in Nat \ {0}
  BY <1>1, <1>3, RecvTypes, DataIsNotEmpty
<1>6. /\ \/ fd = tcp[d] /\ w.n = len
         \/ fd = tcp[d] \ {"writable"}
         \/ fd = TagBroken(tcp[d]) /\ Failed(d) /\ w.n = 0
      /\ ud = fd /\ SideSendAsserts(d, w)
      /\ d # dgm => w.pend = pend
      /\ d = dgm => pend = <<>>
      /\ d = dgm /\ w.pend # <<>> => fd = tcp[d] \ {"writable"}
  <2> HIDE DEF d, s
  <2> QED
    BY <1>3, <1>5, SendBits
<1>7. fd \in SUBSET Flag
  BY <1>3, <1>5, SendTypes
<1>8. /\ IF b THEN Shutdown("failed") ELSE GoTo(cb.at)
      /\ pending' = IF w.n = len \/ "broken" \in ud THEN pending
                    ELSE [pending EXCEPT ![d] = Rest(r.data, w.n)]
  BY <1>1 DEF RelayedData, Proceed
<1>9. SetPipes([tcp EXCEPT ![s] = fs, ![d] = fd], [flags EXCEPT ![s] = us, ![d] = ud])
  BY <1>1
<1>10. in'[d] = in[d] /\ rx' = r.rx /\ pend' = w.pend
  BY <1>1, <1>3 DEF TypeOK
<1>11. Survives(/\ RelayAsserts /\ SideRecvAsserts(s) /\ SideSendAsserts(d, w)
                /\ (w.n < len /\ "broken" \notin ud => "writable" \notin ud))
  BY <1>1 DEF RelayedDataAsserts
<1> HIDE DEF s, d, fs, us, fd, ud, len, b
<1>12. b \in BOOLEAN /\ (b <=> "broken" \in fd)
  <2>1. "broken" \in fd => w.n = 0
    BY <1>3, <1>6
  <2> QED
    BY <1>5, <1>6, <2>1 DEF b
<1>13. w.n < len /\ "broken" \notin ud => "writable" \notin ud
  BY <1>5, <1>6 DEF TagBroken
<1>14. proc' # "aborted"
  BY <1>3, <1>6, <1>11, <1>13, RecvNeverFull DEF Survives
<1>15. Took(s, fs)
  BY <1>3, <1>4 DEF Took
<1>16. Gave(d, fd)
  <2>1. CASE "broken" \in fd
    BY <1>3, <1>6, <2>1 DEF Gave, TagBroken
  <2>2. CASE "broken" \notin fd
    BY <1>3, <1>6, <2>2 DEF Gave, TagBroken
  <2> QED
    BY <2>1, <2>2
<1>17. "fin_sent" \notin fd /\ "fin_rcvd" \notin fs /\ "broken" \notin fs /\ "readable" \in fs
  BY <1>3, <1>4, <1>6 DEF TagBroken
<1>18. d = dgm /\ pend' # <<>> => "writable" \notin fd
  BY <1>6, <1>10
<1>19. pending'[s] = pending[s] /\ (pending'[d] # <<>> => "writable" \notin fd)
  <2>1. pending \in [Sides -> Seq(Octets)]
    BY DEF TypeOK
  <2>2. fd = tcp[d] => w.n = len
    BY <1>3, <1>6 DEF TagBroken
  <2>3. fd = TagBroken(tcp[d]) => "writable" \notin fd
    BY DEF TagBroken
  <2> QED
    BY <1>3, <1>6, <1>8, <2>1, <2>2, <2>3
<1>20. s # dgm => us = fs /\ rx' = rx
  BY <1>4, <1>10
<1>21. d # dgm => ud = fd /\ pend' = pend
  BY <1>6, <1>10
<1>22. ~b => us = fs /\ ud = fd /\ "broken" \notin fd
  BY <1>4, <1>6, <1>12
<1> QED
  BY <1>2, <1>5, <1>7, <1>8, <1>9, <1>10, <1>12, <1>14, <1>15, <1>16, <1>17, <1>18, <1>19, <1>20, <1>21,
     <1>22, PassKeepsControl DEF s, d

LEMMA ControlOfFlush == TypeOK /\ ControlInv /\ Flush => ControlInv'
<1> SUFFICES ASSUME TypeOK, ControlInv, Flush
             PROVE  ControlInv'
  OBVIOUS
<1> DEFINE d == cb.self
           q == pending[d]
<1>1. PICK w \in Sends(d, q) :
        /\ pend' = w.pend
        /\ SetPipe(d, w.tcp, w.up)
        /\ Flushed(w.n, w.up)
        /\ Survives(FlushedAsserts(w.n, w.up) /\ SideSendAsserts(d, w))
  BY DEF Flush
<1> DEFINE fd == w.tcp
           b == "broken" \in fd
<1>2. cb.at = "flush" /\ proc = "running"
      /\ UNCHANGED <<conn, in, eof, shut, dgm, rx, wantFin, have>>
  BY DEF Flush
<1>3. d \in Sides /\ "writable" \in flags[d] /\ have[d] = {} /\ ~Dead /\ reports = <<>>
      /\ flags = tcp /\ "writable" \in tcp[d] /\ q # <<>> /\ q \in Seq(Octets)
  BY <1>2, InCallback, SeqTypes DEF TypeOK, ControlInv, StageInv
<1>4. /\ "ready" \in tcp[d] /\ "broken" \notin tcp[d] /\ "fin_sent" \notin tcp[d]
      /\ mask[d] = EventMask(tcp[d]) /\ "broken" \notin cb.events
      /\ dgm \in Sides /\ Plain \in Sides /\ Plain # dgm /\ Plain' = Plain
  <2>1. "ready" \in tcp[d] /\ "broken" \notin tcp[d] /\ mask[d] = EventMask(tcp[d])
    BY <1>2, <1>3, InCallback
  <2>2. "fin_sent" \notin tcp[d]
    BY <1>3 DEF ControlInv, FlagsInv
  <2>3. "broken" \notin cb.events
    BY <1>2, <2>1 DEF ControlInv, StageInv
  <2> QED
    BY <1>2, <1>3, <2>1, <2>2, <2>3, FlagsAreBits DEF Plain
<1>5. /\ \/ fd = tcp[d] /\ w.n = Len(q)
         \/ fd = tcp[d] \ {"writable"}
         \/ fd = TagBroken(tcp[d]) /\ Failed(d) /\ w.n = 0
      /\ w.up = fd /\ SideSendAsserts(d, w)
      /\ d # dgm => pend' = pend
      /\ d = dgm /\ pend' # <<>> => fd = tcp[d] \ {"writable"}
  <2> HIDE DEF d, q
  <2>1. /\ \/ w.tcp = tcp[d] /\ w.n = Len(q)
           \/ w.tcp = tcp[d] \ {"writable"}
           \/ w.tcp = TagBroken(tcp[d]) /\ Failed(d) /\ w.n = 0
        /\ w.up = w.tcp /\ SideSendAsserts(d, w)
        /\ d # dgm => w.pend = pend
        /\ d = dgm => pend = <<>>
        /\ d = dgm /\ w.pend # <<>> => w.tcp = tcp[d] \ {"writable"}
    BY <1>2, <1>3, SendBits
  <2> QED
    BY <1>1, <2>1
<1>6. fd \in SUBSET Flag
  <2> HIDE DEF d, q
  <2> QED
    BY <1>3, SendTypes
<1>7. /\ pending' = [pending EXCEPT ![d] = Rest(@, w.n)]
      /\ IF "broken" \in w.up THEN Shutdown("failed") ELSE GoTo("relay_in")
  BY <1>1 DEF Flushed, Proceed
<1>8. w.n = Len(q) => pending'[d] = <<>>
  <2>1. Rest(q, Len(q)) = <<>>
    <3> HIDE DEF q
    <3> QED
      BY <1>3, CutAtEnds
  <2> QED
    BY <1>3, <1>7, <2>1 DEF TypeOK
<1>9. w.n < Len(q) => "writable" \notin fd
  <2>1. Len(q) \in Nat
    <3> HIDE DEF q
    <3> QED
      BY <1>3, LenProperties
  <2> QED
    BY <1>5, <2>1 DEF TagBroken
<1>10. proc' # "aborted"
  <2>1. FlushedAsserts(w.n, w.up)
    BY <1>3, <1>5, <1>9 DEF FlushedAsserts
  <2> QED
    BY <1>1, <1>5, <2>1 DEF Survives
<1> DEFINE g == [tcp EXCEPT ![d] = fd]
<1>11. SetPipes(g, [flags EXCEPT ![d] = fd])
  BY <1>1, <1>5 DEF SetPipe
<1>12. \A t \in Sides : t # d => pending'[t] = pending[t]
  BY <1>3, <1>7 DEF TypeOK
<1> HIDE DEF d, q, fd, b
<1>13. "ready" \in fd /\ (b => fd \cap {"readable", "writable"} = {} /\ Failed(d)) /\ (b <=> "broken" \in fd)
       /\ b \in BOOLEAN
  <2>1. b \in BOOLEAN /\ (b <=> "broken" \in fd)
    BY DEF b
  <2> QED
    BY <1>4, <1>5, <2>1 DEF TagBroken
<1>14. g \in [Sides -> SUBSET Flag] /\ \A t \in Sides : g[t] = tcp[t] \/ g[t] # {}
  BY <1>3, <1>6, <1>13 DEF TypeOK
<1>15. MaskInv' /\ tcp' = g /\ flags' = [flags EXCEPT ![d] = fd]
  <2> HIDE DEF g
  <2> QED
    BY <1>11, <1>14, MaskFollows
<1>16. tcp'[d] = fd /\ flags' = tcp' /\ \A t \in Sides : t # d => tcp'[t] = tcp[t]
  <2>1. tcp \in [Sides -> SUBSET Flag]
    BY DEF TypeOK
  <2> QED
    BY <1>3, <1>15, <2>1
<1>17. /\ Dead' <=> b
       /\ b => cb' = Idle
       /\ ~b => cb'.at = "relay_in" /\ cb'.self = d /\ cb'.events = cb.events
  <2>1. IF b THEN Shutdown("failed") ELSE GoTo("relay_in")
    BY <1>5, <1>7, <1>13
  <2>2. Dead' <=> b
    BY <1>3, <2>1, LifeAndDeath DEF TypeOK, Report
  <2> QED
    BY <2>1, <2>2 DEF Shutdown, GoTo, TypeOK, Activation, d
<1>18. \A t \in Sides : Failed(t)' <=> Failed(t)
  BY <1>2 DEF Failed
<1>19. \A e \in {"fin_sent", "fin_rcvd"} : \A t \in Sides : e \in tcp'[t] <=> e \in tcp[t]
  BY <1>5, <1>16 DEF TagBroken
<1>20. /\ "readable" \in fd => "readable" \in tcp[d]
       /\ "writable" \in fd => fd = tcp[d] /\ w.n = Len(q)
       /\ ~b => ("readable" \in fd <=> "readable" \in tcp[d])
  BY <1>3, <1>5, <1>13 DEF TagBroken
<1>21. LinkInv'
  <2>1. pend' # <<>> => "ready" \in tcp'[dgm] /\ "writable" \notin tcp'[dgm] /\ "fin_sent" \notin tcp'[dgm]
    <3>1. CASE d = dgm
      BY <1>4, <1>5, <1>13, <1>16, <3>1
    <3>2. CASE d # dgm
      BY <1>4, <1>5, <1>16, <3>2 DEF ControlInv, LinkInv
    <3> QED
      BY <3>1, <3>2
  <2>2. AtxClone(tcp'[dgm], pend') = tcp'[dgm]
    BY <2>1 DEF AtxClone
  <2>3. ~wantFin'
    BY <1>2 DEF ControlInv, LinkInv
  <2> QED
    BY <1>2, <1>4, <1>16, <2>1, <2>2, <2>3 DEF LinkInv
<1>22. FlagsInv'
  BY <1>3, <1>4, <1>13, <1>16, <1>19, <1>20 DEF ControlInv, FlagsInv
<1>23. EventsInv'
  <2>1. cb'.at # "idle" => cb'.self = d
    BY <1>17 DEF Idle
  <2>2. \A t \in Sides : t # d => mask'[t] = mask[t]
    BY <1>15, <1>16 DEF MaskInv, ControlInv
  <2>3. \A t \in Sides : t # d => have[t] \subseteq mask[t] \cup {"error"}
    BY <1>3 DEF ControlInv, EventsInv
  <2>4. \A t \in Sides : "readable" \in have[t] => "ready" \in tcp[t] /\ "fin_rcvd" \notin tcp[t]
    BY DEF ControlInv, EventsInv
  <2>5. \A t \in Sides : /\ "writable" \in have[t] => "fin_sent" \notin tcp[t]
                         /\ "error" \in have[t] => Failed(t)
    BY DEF ControlInv, EventsInv
  <2> QED
    BY <1>2, <1>3, <1>16, <1>18, <2>1, <2>2, <2>3, <2>4, <2>5 DEF EventsInv
<1>24. BrokenInv'
  <2>1. \A t \in Sides : "broken" \in tcp[t] => Failed(t) /\ t # d /\ cb.at = "relay_out"
    BY <1>3, <1>4 DEF ControlInv, BrokenInv
  <2> QED
    BY <1>2, <1>13, <1>16, <1>17, <1>18, <2>1 DEF BrokenInv
<1>25. StageInv'
  BY <1>4, <1>17 DEF StageInv, Idle
<1>26. PendingInv'
  <2>1. \A t \in Sides : pending[t] # <<>> /\ "writable" \in tcp[t] => t = d
    BY <1>2, <1>3 DEF ControlInv, PendingInv, d
  <2> QED
    BY <1>8, <1>12, <1>16, <1>20, <2>1 DEF PendingInv
<1>27. AwakeInv'
  <2> SUFFICES ASSUME ~Dead', NEW t \in Sides, "readable" \in tcp'[t], "writable" \in tcp'[Peer(t)]
               PROVE  \/ cb'.self = Peer(t) /\ cb'.at \in {"flush", "relay_in"}
                      \/ cb'.self = t /\ cb'.at # "idle" /\ "readable" \in cb'.events
    BY <1>16 DEF AwakeInv
  <2>1. Peer(t) \in Sides /\ cb'.at = "relay_in" /\ cb'.self = d /\ cb'.events = cb.events
    BY <1>17, PeerFacts
  <2>2. "readable" \in tcp[t] /\ "writable" \in tcp[Peer(t)]
    BY <1>16, <1>20, <2>1
  <2>3. \/ cb.self = Peer(t) /\ cb.at \in {"flush", "relay_in"}
        \/ cb.self = t /\ cb.at # "idle" /\ "readable" \in cb.events
    BY <1>3, <2>2 DEF ControlInv, AwakeInv
  <2> QED
    BY <2>1, <2>3 DEF d
<1>28. FinInv'
  <2>1. \A t \in Sides : "fin_sent" \in tcp[t] => t # d /\ "fin_rcvd" \in tcp[Peer(t)] /\ pending[t] = <<>>
    BY <1>4 DEF ControlInv, FinInv
  <2>2. \A t \in Sides : "fin_rcvd" \in tcp[t] => t \in eof /\ in[t] = <<>> /\ "fin_sent" \in tcp[Peer(t)]
    BY <1>3 DEF ControlInv, FinInv
  <2>3. shut = {t \in Sides : "fin_sent" \in tcp[t]} /\ ("fin_rcvd" \in tcp[dgm] => rx = <<>>)
    BY <1>3 DEF ControlInv, FinInv
  <2>4. shut' = {t \in Sides : "fin_sent" \in tcp'[t]}
    BY <1>2, <1>19, <2>3
  <2> QED
    BY <1>2, <1>4, <1>12, <1>19, <2>1, <2>2, <2>3, <2>4, PeerFacts DEF FinInv
<1>29. LeftOverInv'
  <2>1. LeftOver(rx) => {"readable", "broken"} \cap tcp[dgm] # {}
    BY <1>3 DEF ControlInv, LeftOverInv
  <2>2. {"readable", "broken"} \cap tcp[dgm] # {} => {"readable", "broken"} \cap tcp'[dgm] # {}
    <3>1. CASE d = dgm
      BY <1>4, <1>13, <1>16, <1>20, <3>1
    <3>2. CASE d # dgm
      BY <1>4, <1>16, <3>2
    <3> QED
      BY <3>1, <3>2
  <2> QED
    BY <1>2, <2>1, <2>2 DEF LeftOverInv
<1>30. NoAbort'
  BY <1>10 DEF NoAbort
<1> QED
  BY <1>15, <1>21, <1>22, <1>23, <1>24, <1>25, <1>26, <1>27, <1>28, <1>29, <1>30 DEF ControlInv

LEMMA ControlOfRelayTurns == TypeOK /\ ControlInv /\ RelayTurns => ControlInv'
<1> SUFFICES ASSUME TypeOK, ControlInv, RelayTurns
             PROVE  ControlInv'
  OBVIOUS
<1>1. /\ cb.at = "relay_in" /\ ~Relaying /\ cb' = [cb EXCEPT !.at = "relay_out"]
      /\ UNCHANGED <<sockVars, dgm, tcp, rx, pend, wantFin, mask, flags, pending, reports, have, proc>>
  BY DEF RelayTurns, RelayInEnds, GoTo, hostVars, pipeVars
<1>2. cb'.at = "relay_out" /\ cb'.self = cb.self /\ cb'.events = cb.events
  BY <1>1 DEF TypeOK, Activation
<1>3. ~("readable" \in flags[Peer(cb.self)] /\ "writable" \in flags[cb.self])
  BY <1>1, PeerFacts DEF Relaying, Src, Dst, TypeOK, Activation
<1>4. AwakeInv'
  BY <1>1, <1>2, <1>3, PeerFacts DEF ControlInv, AwakeInv, Dead, TypeOK, Activation
<1>5. PendingInv'
  BY <1>1, <1>2 DEF ControlInv, PendingInv, Dead
<1>6. BrokenInv' /\ StageInv' /\ EventsInv'
  BY <1>1, <1>2 DEF ControlInv, BrokenInv, StageInv, EventsInv, Dead, Failed, sockVars
<1>7. FlagsInv' /\ MaskInv' /\ FinInv' /\ NoAbort'
  BY <1>1 DEF ControlInv, FlagsInv, MaskInv, FinInv, NoAbort, Dead, sockVars
<1>8. LinkInv' /\ LeftOverInv'
  BY <1>1 DEF ControlInv, LinkInv, LeftOverInv, Plain, Dead
<1> QED
  BY <1>4, <1>5, <1>6, <1>7, <1>8 DEF ControlInv

LEMMA ControlOfReturn == TypeOK /\ ControlInv /\ Return => ControlInv'
<1> SUFFICES ASSUME TypeOK, ControlInv, Return
             PROVE  ControlInv'
  OBVIOUS
<1>1. /\ cb.at = "relay_out" /\ ~("readable" \in cb.events /\ Relaying)
      /\ UNCHANGED <<sockVars, dgm, tcp, rx, pend, wantFin, mask, flags, pending, have, proc>>
  BY DEF Return, CallbackEnds, hostVars, pipeVars
<1>2. cb' = Idle
  BY DEF Return, CallbackEnds, Shutdown
<1>3. /\ Dead' \/ (reports' = reports /\ "broken" \notin cb.events)
      /\ ~Dead
  BY <1>1, LifeAndDeath DEF Return, CallbackEnds, TypeOK, Report, ControlInv, StageInv
<1>4. ~Dead' => ~Dead /\ "broken" \notin cb.events
  BY <1>3 DEF Dead
<1>5. AwakeInv'
  <2>1. "readable" \in cb.events =>
          ~("readable" \in flags[cb.self] /\ "writable" \in flags[Peer(cb.self)])
    BY <1>1, PeerFacts DEF Relaying, Src, Dst, TypeOK, Activation
  <2> QED
    BY <1>1, <1>4, <2>1 DEF ControlInv, AwakeInv
<1>6. PendingInv'
  BY <1>1, <1>4 DEF ControlInv, PendingInv
<1>7. BrokenInv'
  BY <1>1, <1>4 DEF ControlInv, BrokenInv, Failed, sockVars
<1>8. StageInv' /\ EventsInv'
  BY <1>1, <1>2, <1>4 DEF ControlInv, StageInv, EventsInv, Failed, sockVars, Idle
<1>9. FlagsInv' /\ MaskInv' /\ NoAbort'
  BY <1>1 DEF ControlInv, FlagsInv, MaskInv, NoAbort
<1>10. FinInv'
  BY <1>1, <1>4 DEF ControlInv, FinInv, sockVars
<1>11. LinkInv' /\ LeftOverInv'
  BY <1>1, <1>4 DEF ControlInv, LinkInv, LeftOverInv, Plain
<1> QED
  BY <1>5, <1>6, <1>7, <1>8, <1>9, <1>10, <1>11 DEF ControlInv

\* The exit of the process and the moves of the hosts leave the bridge alone,
\* and nothing arrives at a side that has closed.
LEMMA ControlOfOthers ==
  ASSUME TypeOK, ControlInv,
         UNCHANGED <<bridgeVars, pipeVars, dgm, have, shut>>, proc' # "aborted",
         \A s \in Sides : /\ Failed(s) => Failed(s)'
                          /\ s \in eof => s \in eof' /\ in'[s] = in[s]
  PROVE  ControlInv'
<1> USE DEF bridgeVars, pipeVars
<1>1. FlagsInv' /\ MaskInv' /\ NoAbort'
  BY DEF ControlInv, FlagsInv, MaskInv, NoAbort
<1>2. StageInv' /\ PendingInv' /\ AwakeInv'
  BY DEF ControlInv, StageInv, PendingInv, AwakeInv, Dead
<1>3. EventsInv' /\ BrokenInv'
  BY DEF ControlInv, EventsInv, BrokenInv, Dead
<1>4. FinInv'
  BY DEF ControlInv, FinInv, Dead
<1>5. LinkInv' /\ LeftOverInv'
  BY DEF ControlInv, LinkInv, LeftOverInv, Plain, Dead
<1> QED
  BY <1>1, <1>2, <1>3, <1>4, <1>5 DEF ControlInv

LEMMA ControlOfExit == TypeOK /\ ControlInv /\ Exit => ControlInv'
<1> SUFFICES ASSUME TypeOK, ControlInv, Exit
             PROVE  ControlInv'
  OBVIOUS
<1>1. \A s \in Sides : Failed(s) => Failed(s)'
  BY DEF Exit, Failed, TypeOK
<1> QED
  BY <1>1, ControlOfOthers DEF Exit

\* What the hosts never undo.
LEMMA HostsGoOn ==
  ASSUME TypeOK, HostActs
  PROVE  /\ UNCHANGED <<dgm, pipeVars, bridgeVars, have, proc, shut>>
         /\ \A t \in Sides : /\ Failed(t) => Failed(t)'
                             /\ t \in eof => t \in eof' /\ in'[t] = in[t]
<1> USE DEF Connected, Refused, HostSends, HostCloses, HostReads, ConnectionLost
<1>1. dgm \in Sides /\ conn \in [Sides -> ConnState] /\ in \in [Sides -> Seq(Octets)]
  BY DEF TypeOK
<1>2. UNCHANGED <<dgm, pipeVars, bridgeVars, have, proc>>
  BY DEF HostActs
<1>3. CASE \E s \in Sides : Connected(s) \/ Refused(s) \/ HostReads(s) \/ ConnectionLost(s)
  BY <1>1, <1>2, <1>3 DEF Failed
<1>4. CASE HostSends(Plain) \/ \E s \in Sides : HostCloses(s)
  BY <1>1, <1>2, <1>4 DEF Failed
<1>5. CASE PeerSends
  BY <1>1, <1>2, <1>5 DEF Failed, PeerSends
<1> QED
  BY <1>3, <1>4, <1>5 DEF HostActs

LEMMA ControlOfHosts == TypeOK /\ ControlInv /\ HostActs => ControlInv'
<1> SUFFICES ASSUME TypeOK, ControlInv, HostActs
             PROVE  ControlInv'
  OBVIOUS
<1>1. proc' # "aborted"
  BY HostsGoOn DEF ControlInv, NoAbort
<1> QED
  BY <1>1, HostsGoOn, ControlOfOthers

LEMMA ControlInductive == TypeOK /\ ControlInv /\ InStepInv /\ [Next]_vars => ControlInv'
<1>1. TypeOK /\ ControlInv /\ UNCHANGED vars => ControlInv'
  BY ControlOfOthers DEF vars, hostVars, sockVars, Failed, ControlInv, NoAbort
<1> QED
  BY <1>1, ControlOfSelect, ControlOfDispatchPlain, ControlOfDispatchDgm, ControlOfDispatchDgmFlush,
     ControlOfFlush, ControlOfRelayNothing, ControlOfRelayFin, ControlOfRelayData,
     ControlOfRelayTurns, ControlOfReturn, ControlOfExit, ControlOfHosts DEF Next, Proxy, Terminated

-----------------------------------------------------------------------------
(* Streams: nothing is lost, duplicated or reordered, datagrams go out     *)
(* whole, and what comes in stays in step with its headers.                *)

\* What is not a header is an octet of a stream.
LEMMA ItemsAreCarried ==
  /\ Item = {e \in Octets : ~IsHeader(e)} /\ Seq(Item) \subseteq Seq(Octets)
  /\ <<>> \in Seq(Item)
<1>1. Item = {e \in Octets : ~IsHeader(e)}
  BY DEF Octets, Item, HeaderOctet, IsHeader, Sides
<1>2. Seq(Item) \subseteq Seq(Octets)
  BY <1>1
<1> QED
  BY <1>1, <1>2, EmptySeq

LEMMA PayloadIsItems ==
  ASSUME NEW q \in Seq(Octets)
  PROVE  Payload(q) \in Seq(Item)
BY PayloadType, ItemsAreCarried

\* A stream without headers carries itself.
LEMMA PlainStream ==
  ASSUME NEW q \in Seq(Octets)
  PROVE  q \in Seq(Item) <=> \A i \in DOMAIN q : ~IsHeader(q[i])
<1>1. ASSUME q \in Seq(Item), NEW i \in DOMAIN q
      PROVE  ~IsHeader(q[i])
  <2>1. i \in 1..Len(q)
    BY <1>1, LenProperties
  <2>2. q[i] \in Item
    BY <1>1, <2>1, ElementOfSeq
  <2> QED
    BY <2>2, ItemsAreCarried
<1>2. ASSUME \A i \in DOMAIN q : ~IsHeader(q[i])
      PROVE  q \in Seq(Item)
  <2>1. Payload(q) = q
    BY <1>2, PayloadOfPlain
  <2> QED
    BY <2>1, PayloadIsItems
<1> QED
  BY <1>1, <1>2

\* The types of what StreamIntact speaks of.
LEMMA PassedTypes ==
  ASSUME TypeOK, PlainInv
  PROVE  /\ \A s \in Sides : /\ Passed(s) \in Seq(Item) /\ Received(s) \in Seq(Item)
                             /\ pending[s] \in Seq(Item) /\ sent[s] \in Seq(Item)
         /\ got[dgm] \o out[dgm] \o pend \in Seq(Octets)
         /\ rx \o in[dgm] \in Seq(Octets)
         /\ dgm \in Sides /\ Plain \in Sides /\ Plain # dgm /\ Peer(dgm) = Plain /\ Peer(Plain) = dgm
         /\ \A s \in Sides : s = dgm \/ s = Plain
<1>1. /\ dgm \in Sides /\ Plain \in Sides /\ Plain # dgm /\ Peer(dgm) = Plain /\ Peer(Plain) = dgm
      /\ \A s \in Sides : s = dgm \/ s = Plain
  BY PeerFacts, TwoSides DEF TypeOK, Plain
<1>2. /\ got[dgm] \in Seq(Octets) /\ out[dgm] \in Seq(Octets) /\ pend \in Seq(Octets)
      /\ rx \in Seq(Octets) /\ in[dgm] \in Seq(Octets)
  BY <1>1, SeqTypes
<1>3. /\ got[dgm] \o out[dgm] \o pend \in Seq(Octets)
      /\ rx \o in[dgm] \in Seq(Octets)
  BY <1>2, ConcatProperties
<1>4. in[Plain] \in Seq(Item) /\ out[Plain] \in Seq(Item) /\ got[Plain] \in Seq(Item)
  BY DEF PlainInv
<1>5. got[Plain] \o out[Plain] \in Seq(Item)
  BY <1>4, ConcatProperties
<1>6. /\ Payload(got[dgm] \o out[dgm] \o pend) \in Seq(Item)
      /\ Payload(rx \o in[dgm]) \in Seq(Item)
  BY <1>3, PayloadIsItems
<1>7. \A s \in Sides : pending[s] \in Seq(Item) /\ sent[s] \in Seq(Item)
  BY DEF PlainInv
<1> QED
  BY <1>1, <1>3, <1>4, <1>5, <1>6, <1>7 DEF Passed, Received

\* A call of send() passes on what it has taken, and to the other proxy a
\* whole datagram or nothing.
LEMMA SendPasses ==
  ASSUME TypeOK, ControlInv, PlainInv, FramesAreWhole,
         cb.at # "idle", NEW d \in Sides, "writable" \in flags[d],
         NEW data \in Seq(Item), NEW w \in Sends(d, data),
         out' = [out EXCEPT ![d] = @ \o w.put], pend' = w.pend, UNCHANGED <<got, dgm>>
  PROVE  /\ Passed(d)' = Cat(Passed(d), Taken(data, w.n))
         /\ \A e \in Sides : e # d => Passed(e)' = Passed(e)
         /\ FramesAreWhole' /\ out'[Plain'] \in Seq(Item) /\ w.n \in 0..Len(data)
<1>1. /\ dgm \in Sides /\ Plain \in Sides /\ Plain # dgm /\ \A s \in Sides : s = dgm \/ s = Plain
      /\ Plain' = Plain /\ Passed(dgm) \in Seq(Item)
  BY PassedTypes DEF Plain
<1>2. /\ out'[d] = out[d] \o w.put /\ (\A e \in Sides : e # d => out'[e] = out[e])
      /\ data \in Seq(Octets)
  BY ItemsAreCarried DEF TypeOK
<1>3. w.n \in 0..Len(data) /\ (d # dgm => w.pend = pend) /\ (d = dgm => pend = <<>>)
  BY <1>2, SendTypes, SendBits
<1>4. CASE d # dgm
  <2>1. d = Plain /\ w.put = Taken(data, w.n) /\ pend' = pend
    BY <1>1, <1>3, <1>4 DEF Sends, PlainSends
  <2>2. Passed(dgm)' = Passed(dgm) /\ FramesAreWhole'
    BY <1>1, <1>2, <1>4, <2>1 DEF Passed, FramesAreWhole
  <2>3. got[d] \in Seq(Item) /\ out[d] \in Seq(Item) /\ w.put \in Seq(Item)
    BY <1>3, <2>1, CutFacts DEF PlainInv
  <2>4. Cat(got[d], Cat(out[d], w.put)) = Cat(Cat(got[d], out[d]), w.put)
    BY <2>3, CatAssoc
  <2>5. Passed(d)' = Cat(Passed(d), Taken(data, w.n))
    BY <1>1, <1>2, <1>4, <2>1, <2>4 DEF Passed, Cat
  <2>6. out'[Plain'] \in Seq(Item)
    BY <1>1, <1>2, <2>1, <2>3, ConcatProperties
  <2> QED
    BY <1>1, <1>3, <2>1, <2>2, <2>5, <2>6
<1>5. CASE d = dgm
  <2> DEFINE q == Frame(data)
             wire == got[dgm] \o out[dgm]
             g == got[dgm]
             o == out[dgm]
  <2>1. flags = tcp /\ "writable" \in tcp[d]
    BY InCallback
  <2>2. PICK t \in SendResults(d, Len(q)) : w = DgmSent(tcp[d], data, t)
    BY <1>3, <1>5, <2>1 DEF Sends, DgmSends, MaySend
  <2>3. q \in Seq(Octets) /\ Len(q) \in Nat /\ \A i \in DOMAIN data : ~IsHeader(data[i])
    BY <1>2, OctetsAreTyped, FrameAt, PlainStream, LenProperties
  <2>4. g \in Seq(Octets) /\ o \in Seq(Octets) /\ <<>> \in Seq(Octets)
    BY <1>1, SeqTypes, EmptySeq
  <2>5. /\ w.put = Taken(q, t.n)
        /\ w.pend = IF t.is = "some" THEN Rest(q, t.n) ELSE <<>>
        /\ w.n = IF t.is \in {"all", "some"} THEN Len(data) ELSE 0
    BY <2>2 DEF DgmSent, AtxSent
  <2> HIDE DEF q
  <2>6. /\ t.n \in 0..Len(q)
        /\ t.is = "all" => t.n = Len(q)
        /\ t.is \notin {"all", "some"} => t.n = 0
    <3>1. /\ t.is = "all" => t.n = Len(q)
          /\ t.is \notin {"all", "some"} => t.n = 0
      BY DEF SendResults, SendOutcome
    <3> QED
      BY <2>3, <3>1, SocketSendTypes
  <2>7. Cat(w.put, w.pend) = IF t.is \in {"all", "some"} THEN q ELSE <<>>
    <3>1. CASE t.is = "all"
      <4>1. Taken(q, t.n) = q /\ Cat(q, <<>>) = q
        BY <2>3, <2>6, <3>1, CutAtEnds, CatEmpty
      <4> QED
        BY <2>5, <3>1, <4>1
    <3>2. CASE t.is = "some"
      <4>1. Cat(Taken(q, t.n), Rest(q, t.n)) = q
        BY <2>3, <2>6, CutFacts DEF Cat
      <4> QED
        BY <2>5, <3>2, <4>1
    <3>3. CASE t.is \notin {"all", "some"}
      <4>1. Taken(q, 0) = <<>> /\ Cat(<<>>, <<>>) = <<>>
        BY <2>3, <2>4, CutAtEnds, CatEmpty
      <4> QED
        BY <2>5, <2>6, <3>3, <4>1
    <3> QED
      BY <3>1, <3>2, <3>3
  <2>8. w.put \in Seq(Octets) /\ w.pend \in Seq(Octets)
    BY <1>2, SendTypes
  <2> DEFINE add == Cat(w.put, w.pend)
             before == Cat(g, o)
  <2>9. /\ got' = got /\ out'[dgm] = Cat(o, w.put) /\ pend' = w.pend
        /\ got[dgm] \o out[dgm] \o pend = before
    <3>1. Cat(before, <<>>) = before
      BY <2>4, CatType, CatEmpty
    <3> QED
      BY <1>2, <1>3, <1>5, <3>1 DEF Cat
  <2>10. (got[dgm] \o out[dgm] \o pend)' = Cat(before, add)
    <3> HIDE DEF g, o
    <3>1. Cat(Cat(g, Cat(o, w.put)), w.pend) = Cat(Cat(g, o), Cat(w.put, w.pend))
      <4>1. Cat(g, o) \in Seq(Octets)
        BY <2>4, CatType
      <4>2. Cat(Cat(g, o), w.put) = Cat(g, Cat(o, w.put))
        BY <2>4, <2>8, CatAssoc
      <4>3. Cat(Cat(Cat(g, o), w.put), w.pend) = Cat(Cat(g, o), Cat(w.put, w.pend))
        BY <2>8, <4>1, CatAssoc
      <4> QED
        BY <4>2, <4>3
    <3>2. (got[dgm] \o out[dgm] \o pend)' = Cat(Cat(g, Cat(o, w.put)), w.pend)
      BY <2>9 DEF Cat, g
    <3> QED
      BY <3>1, <3>2
  <2>11. before \in Seq(Octets) /\ WellFramed(before)
    BY <2>4, <2>9, CatType DEF FramesAreWhole
  <2> HIDE DEF before, add, g, o
  <2>12. /\ WellFramed(Cat(before, add))
         /\ Payload(Cat(before, add)) = Cat(Payload(before), Taken(data, w.n))
    <3>1. CASE t.is \in {"all", "some"}
      <4>1. add = q /\ w.n = Len(data)
        BY <2>5, <2>7, <3>1 DEF add
      <4>2. WellFramed(Cat(before, q))
        BY <1>2, <2>3, <2>11, OctetsAreTyped, JoinFrame DEF Cat, q
      <4>3. Payload(Cat(before, q)) = Cat(Payload(before), Payload(q))
        BY <2>3, <2>11, PayloadCat DEF Cat
      <4>4. Payload(q) = data
        BY <1>2, <2>3, OctetsAreTyped, PayloadOfFrame DEF q
      <4>5. Taken(data, Len(data)) = data
        BY <1>2, CutAtEnds
      <4> QED
        BY <4>1, <4>2, <4>3, <4>4, <4>5
    <3>2. CASE t.is \notin {"all", "some"}
      <4>1. add = <<>> /\ w.n = 0
        BY <2>5, <2>7, <3>2 DEF add
      <4>2. Cat(before, <<>>) = before /\ Taken(data, 0) = <<>> /\ Payload(before) \in Seq(Octets)
        BY <1>2, <2>11, CatEmpty, CutAtEnds, PayloadSeq
      <4>3. Cat(Payload(before), <<>>) = Payload(before)
        BY <4>2, CatEmpty
      <4> QED
        BY <2>11, <4>1, <4>2, <4>3
    <3> QED
      BY <3>1, <3>2
  <2>13. FramesAreWhole'
    BY <2>10, <2>12 DEF FramesAreWhole
  <2>14. Passed(d)' = Cat(Passed(d), Taken(data, w.n))
    <3>1. Passed(d) = Payload(before)
      BY <1>5, <2>9 DEF Passed
    <3>2. Passed(d)' = Payload(Cat(before, add))
      BY <1>5, <2>10 DEF Passed
    <3> QED
      BY <2>12, <3>1, <3>2
  <2>15. ASSUME NEW e \in Sides, e # d
         PROVE  Passed(e)' = Passed(e)
    <3>1. e # dgm /\ e # dgm' /\ out'[e] = out[e] /\ got'[e] = got[e]
      BY <1>2, <1>5, <2>15
    <3>2. Passed(e) = got[e] \o out[e]
      BY <3>1 DEF Passed
    <3>3. Passed(e)' = got'[e] \o out'[e]
      BY <3>1 DEF Passed
    <3> QED
      BY <3>1, <3>2, <3>3
  <2>16. out'[Plain'] \in Seq(Item)
    BY <1>1, <1>2, <1>5 DEF PlainInv
  <2> QED
    BY <1>3, <2>13, <2>14, <2>15, <2>16
<1> QED
  BY <1>4, <1>5

\* Only a call of recv() that ends with data returns any.
LEMMA NoDataNoOctets ==
  ASSUME TypeOK, NEW s \in Sides, NEW r \in Recvs(s), r.is # "data"
  PROVE  r.data = <<>>
<1>1. /\ in[s] \in Seq(Octets) /\ rx \in Seq(Octets) /\ Taken(in[s], 0) = <<>>
  BY SeqTypes, CutAtEnds
<1>2. \A q \in Seq(Octets) : ProcessRx(q).is # "dgm" => ProcessRx(q).data = <<>>
  BY OctetsAreTyped, ProcessRxTypes
<1>3. ASSUME NEW f, NEW q \in Seq(Octets), DgmTaken(f, pend, flags[s], q).is # "data"
      PROVE  DgmTaken(f, pend, flags[s], q).data = <<>>
  <2>1. CASE ProcessRx(q).is = "bad"
    BY <2>1 DEF DgmTaken, DgmFailed
  <2>2. CASE ProcessRx(q).is # "bad"
    <3>1. ProcessRx(q).is # "dgm"
      BY <1>3, <2>2 DEF DgmTaken, DgmPassed
    <3> QED
      BY <1>2, <2>2, <3>1 DEF DgmTaken, DgmPassed
  <2> QED
    BY <2>1, <2>2
<1>4. CASE s # dgm
  <2>1. PICK t \in RecvResults(s, RecvSize) :
          /\ r.is = (IF t.is \in {"data", "fin"} THEN t.is ELSE "nothing")
          /\ r.data = Taken(in[s], t.n)
    BY <1>4 DEF Recvs, PlainRecvs
  <2>2. t.is # "data"
    BY <2>1
  <2>3. t.n = 0
    BY <2>2 DEF RecvResults, RecvOutcome
  <2> QED
    BY <1>1, <2>1, <2>3
<1>5. CASE s = dgm /\ LeftOver(rx)
  <2> DEFINE e == DgmTaken(tcp[s], pend, flags[s], rx)
  <2>1. r.is = e.is /\ r.data = e.data
    BY <1>5 DEF Recvs, DgmRecvs, WithRead
  <2>2. e.is # "data" => e.data = <<>>
    BY <1>1, <1>3
  <2> HIDE DEF e
  <2> QED
    BY <2>1, <2>2
<1>6. CASE s = dgm /\ ~LeftOver(rx)
  <2> DEFINE D(t) == DgmReceived(tcp[s], pend, flags[s], rx, t.is, Taken(in[s], t.n))
  <2>1. PICK t \in RecvResults(s, RxSpace(rx, RecvSize)) : r = WithRead(D(t), t.n)
    BY <1>6 DEF Recvs, DgmRecvs
  <2> DEFINE f == FlagsAfterRecv(tcp[s], t.is)
             d == D(t)
  <2>2. r.is = d.is /\ r.data = d.data
    BY <2>1 DEF WithRead
  <2>3. CASE t.is = "data"
    <3> DEFINE q == rx \o Taken(in[s], t.n)
               e == DgmTaken(f, pend, flags[s], q)
    <3>1. q \in Seq(Octets)
      BY <1>1, SocketRecvTypes, ConcatProperties
    <3>2. d = e
      BY <2>3 DEF DgmReceived
    <3> HIDE DEF q, f, d
    <3>3. e.is # "data" => e.data = <<>>
      BY <3>1, <1>3
    <3> HIDE DEF e
    <3> QED
      BY <2>2, <3>2, <3>3
  <2>4. CASE t.is # "data"
    <3>1. d.data = <<>>
      <4>1. CASE t.is = "fin" /\ rx # <<>>
        BY <4>1 DEF DgmReceived, DgmFailed
      <4>2. CASE t.is = "fin" /\ rx = <<>>
        BY <4>2 DEF DgmReceived, DgmPassed
      <4>3. CASE t.is # "fin"
        BY <2>4, <4>3 DEF DgmReceived, DgmPassed
      <4> QED
        BY <4>1, <4>2, <4>3
    <3> QED
      BY <2>2, <3>1
  <2> QED
    BY <2>3, <2>4
<1> QED
  BY <1>4, <1>5, <1>6

\* A call of recv() takes what it returns from the front of what has arrived,
\* unless the pipe is broken by it.
LEMMA RecvTakes ==
  ASSUME TypeOK, PlainInv, InStepInv, ~Dead, NEW s \in Sides, NEW r \in Recvs(s), "broken" \notin r.up \/ s # dgm,
         in' = [in EXCEPT ![s] = Rest(@, r.read)], rx' = r.rx, UNCHANGED <<todo, dgm>>
  PROVE  /\ Received(s) = Cat(r.data, Received(s)') /\ Received(s)' \in Seq(Item)
         /\ \A e \in Sides : e # s /\ (s # dgm => r.rx = rx) => Received(e)' = Received(e)
         /\ r.data \in Seq(Item) /\ in'[Plain'] \in Seq(Item)
         /\ (s # dgm => r.rx = rx) => InStepInv'
<1>1. /\ dgm \in Sides /\ Plain \in Sides /\ Plain # dgm /\ \A t \in Sides : t = dgm \/ t = Plain
      /\ Plain' = Plain /\ in[Plain] \in Seq(Item)
  BY PassedTypes DEF Plain, PlainInv
<1>2. in'[s] = Rest(in[s], r.read) /\ \A e \in Sides : e # s => in'[e] = in[e]
  BY DEF TypeOK
<1>3. r.read \in 0..Len(in[s]) /\ r.data \in Seq(Octets)
  BY RecvTypes
<1>4. CASE s # dgm
  <2>1. s = Plain /\ r.data = Taken(in[s], r.read)
    BY <1>1, <1>4 DEF Recvs, PlainRecvs
  <2>2. r.data \in Seq(Item) /\ in'[s] \in Seq(Item) /\ Cat(r.data, in'[s]) = in[s]
    <3>1. in[s] \in Seq(Item)
      BY <1>1, <2>1
    <3>2. /\ Taken(in[s], r.read) \in Seq(Item) /\ Rest(in[s], r.read) \in Seq(Item)
          /\ Taken(in[s], r.read) \o Rest(in[s], r.read) = in[s]
      BY <1>3, <3>1, CutFacts
    <3> QED
      BY <1>2, <2>1, <3>2 DEF Cat
  <2>3. Received(s) = in[s] /\ Received(s)' = in'[s]
    BY <1>4 DEF Received
  <2>4. InStepInv' \/ rx' # rx
    BY <1>1, <1>2, <1>4 DEF InStepInv, Dead
  <2>5. ASSUME NEW e \in Sides, e # s, rx' = rx
        PROVE  Received(e)' = Received(e)
    <3>1. e = dgm /\ e = dgm' /\ in'[e] = in[e]
      BY <1>1, <1>2, <1>4, <2>1, <2>5
    <3>2. Received(e) = Payload(rx \o in[e])
      BY <3>1 DEF Received
    <3>3. Received(e)' = Payload(rx' \o in'[e])
      BY <3>1 DEF Received
    <3> QED
      BY <2>5, <3>1, <3>2, <3>3
  <2> QED
    BY <1>1, <1>4, <2>1, <2>2, <2>3, <2>4, <2>5
<1>5. CASE s = dgm
  <2> DEFINE left == Rest(in[dgm], r.read)
  <2>1. /\ InStep(Cat(Cat(r.rx, left), todo))
        /\ \A i \in DOMAIN r.data : ~IsHeader(r.data[i])
        /\ Payload(Cat(rx, in[dgm])) = Cat(r.data, Payload(Cat(r.rx, left)))
    BY <1>5, RecvFrames
  <2>2. left = in'[dgm] /\ rx' = r.rx
    BY <1>2, <1>5
  <2> HIDE DEF left
  <2>3. InStepInv'
    BY <2>1, <2>2 DEF InStepInv, Cat
  <2>4. Received(s) = Payload(Cat(rx, in[dgm])) /\ Received(s)' = Payload(Cat(r.rx, left))
    BY <1>5, <2>2 DEF Received, Cat
  <2>5. r.data \in Seq(Item)
    BY <1>3, <2>1, PlainStream
  <2>6. ASSUME NEW e \in Sides, e # s
        PROVE  Received(e)' = Received(e)
    <3>1. e # dgm /\ e # dgm' /\ in'[e] = in[e]
      BY <1>2, <1>5, <2>6
    <3> QED
      BY <3>1 DEF Received
  <2>7. in'[Plain'] \in Seq(Item)
    BY <1>1, <1>2, <1>5
  <2>8. Received(s)' \in Seq(Item)
    <3>1. left \in Seq(Octets) /\ r.rx \in Seq(Octets)
      BY <1>1, <1>3, <1>5, RecvTypes, SeqTypes, CutFacts DEF left
    <3>2. Cat(r.rx, left) \in Seq(Octets)
      BY <3>1, CatType
    <3> QED
      BY <2>4, <3>2, PayloadIsItems
  <2> QED
    BY <2>1, <2>3, <2>4, <2>5, <2>6, <2>7, <2>8
<1> QED
  BY <1>4, <1>5

\* In the direction of d octets t were passed on, u of what waited before is
\* set aside and i has yet to be received.
LEMMA DirectionGoesOn ==
  ASSUME TypeOK, PlainInv, StreamIntact, ~Dead, NEW d \in Sides,
         NEW t \in Seq(Item), NEW u \in Seq(Item), NEW i \in Seq(Item),
         Passed(d)' = Cat(Passed(d), t),
         Cat(pending[d], Received(Peer(d))) = Cat(Cat(t, u), i),
         ~Dead' => pending'[d] = u /\ Received(Peer(d))' = i,
         sent' = sent
  PROVE  /\ IsPrefix(Passed(d)', sent'[Peer(d)])
         /\ ~Dead' => Passed(d)' \o pending'[d] \o Received(Peer(d))' = sent'[Peer(d)]
<1> DEFINE f == Passed(d)
           p == pending[d]
           r == Received(Peer(d))
<1>1. f \in Seq(Item) /\ p \in Seq(Item) /\ r \in Seq(Item)
  BY PassedTypes, PeerFacts
<1>2. Cat(Cat(f, p), r) = sent[Peer(d)]
  BY DEF StreamIntact, Cat
<1>3. Cat(p, r) = Cat(Cat(t, u), i)
  OBVIOUS
<1> DEFINE g == Passed(d)'
<1>4. g = Cat(f, t)
  OBVIOUS
<1> HIDE DEF f, p, r, g
<1>5. sent[Peer(d)] = Cat(f, Cat(Cat(t, u), i))
  <2>1. Cat(Cat(f, p), r) = Cat(f, Cat(p, r))
    BY <1>1, CatAssoc
  <2> QED
    BY <1>2, <1>3, <2>1
<1>6. Cat(f, Cat(Cat(t, u), i)) = Cat(Cat(g, u), i)
  <2>1. Cat(t, u) \in Seq(Item) /\ Cat(f, t) \in Seq(Item)
    BY <1>1, CatType
  <2>2. Cat(Cat(f, Cat(t, u)), i) = Cat(f, Cat(Cat(t, u), i))
    BY <1>1, <2>1, CatAssoc
  <2>3. Cat(Cat(f, t), u) = Cat(f, Cat(t, u))
    BY <1>1, CatAssoc
  <2> QED
    BY <1>4, <2>2, <2>3
<1>7. IsPrefix(g, Cat(Cat(g, u), i))
  <2>1. g \in Seq(Item) /\ Cat(u, i) \in Seq(Item)
    BY <1>1, <1>4, CatType
  <2>2. Cat(Cat(g, u), i) = Cat(g, Cat(u, i))
    BY <2>1, CatAssoc
  <2>3. IsPrefix(g, Cat(g, Cat(u, i)))
    BY <2>1, CatPrefix
  <2> QED
    BY <2>2, <2>3
<1>8. IsPrefix(g, sent[Peer(d)]) /\ Cat(Cat(g, u), i) = sent[Peer(d)]
  BY <1>5, <1>6, <1>7
<1>9. ~Dead' => Cat(Cat(Passed(d)', pending'[d]), Received(Peer(d))') = sent[Peer(d)]
  BY <1>8 DEF g
<1> QED
  BY <1>8, <1>9 DEF g, Cat

\* A direction in which nothing happens.
LEMMA DirectionRests ==
  ASSUME StreamIntact, NEW d \in Sides, Dead => Dead',
         Passed(d)' = Passed(d), pending'[d] = pending[d],
         Received(Peer(d))' = Received(Peer(d)), sent'[Peer(d)] = sent[Peer(d)]
  PROVE  /\ IsPrefix(Passed(d)', sent'[Peer(d)])
         /\ ~Dead' => Passed(d)' \o pending'[d] \o Received(Peer(d))' = sent'[Peer(d)]
BY DEF StreamIntact

LEMMA StreamsInitially == Init => StreamInv
<1> SUFFICES ASSUME Init
             PROVE  StreamInv
  OBVIOUS
<1>1. /\ dgm \in Sides /\ Plain \in Sides /\ reports = <<>> /\ rx = <<>> /\ pend = <<>> /\ todo = <<>>
      /\ \A s \in Sides : in[s] = <<>> /\ out[s] = <<>> /\ sent[s] = <<>> /\ got[s] = <<>> /\ pending[s] = <<>>
      /\ sent = [s \in Sides |-> <<>>] /\ pending = [s \in Sides |-> <<>>]
  BY PeerFacts DEF Init, SocketsInit, BridgeInit, Plain
<1>2. <<>> \in Seq(Item) /\ <<>> \o <<>> = <<>>
  BY ItemsAreCarried, ConcatEmptySeq
<1>3. WellFramed(<<>>) /\ InStep(<<>>)
  <2>1. DOMAIN <<>> = {}
    OBVIOUS
  <2> QED
    BY <2>1 DEF WellFramed, InStep
<1>4. FramesAreWhole /\ InStepInv
  BY <1>1, <1>2, <1>3 DEF FramesAreWhole, InStepInv
<1>5. PlainInv
  BY <1>1, <1>2 DEF PlainInv
<1>6. \A s \in Sides : Passed(s) = <<>> /\ Received(s) = <<>>
  BY <1>1, <1>2, PayloadEmpty DEF Passed, Received
<1>7. StreamIntact
  <2>1. IsPrefix(<<>>, <<>>)
    BY EmptySeq DEF IsPrefix, Taken
  <2> QED
    BY <1>1, <1>2, <1>6, <2>1, PeerFacts DEF StreamIntact
<1> QED
  BY <1>4, <1>5, <1>7 DEF StreamInv, FrameInv

\* A step that leaves the buffers alone leaves the streams alone.
LEMMA StreamsOfOthers ==
  ASSUME StreamInv, UNCHANGED <<dgm, in, out, pending, sent, got, rx, pend, todo>>, Dead => Dead'
  PROVE  StreamInv'
<1>1. Plain' = Plain
  BY DEF Plain
<1>2. \A s : Passed(s)' = Passed(s) /\ Received(s)' = Received(s)
  BY DEF Passed, Received
<1>3. StreamIntact'
  BY <1>2 DEF StreamInv, StreamIntact
<1>4. FramesAreWhole' /\ InStepInv' /\ PlainInv'
  BY <1>1 DEF StreamInv, FrameInv, FramesAreWhole, InStepInv, PlainInv
<1> QED
  BY <1>3, <1>4 DEF StreamInv, FrameInv

\* A step that passes nothing on, and ends with on_shutdown().
LEMMA StreamsOfTheDead ==
  ASSUME StreamInv, Dead', FramesAreWhole', PlainInv', sent' = sent,
         \A s \in Sides : Passed(s)' = Passed(s)
  PROVE  StreamInv'
BY DEF StreamInv, FrameInv, InStepInv, StreamIntact

LEMMA StreamsOfDispatch == StreamInv /\ (DispatchPlain \/ DispatchDgm) => StreamInv'
<1> SUFFICES ASSUME StreamInv, DispatchPlain \/ DispatchDgm
             PROVE  StreamInv'
  OBVIOUS
<1>1. UNCHANGED <<dgm, in, out, pending, sent, got, rx, pend, todo, reports>>
  BY DEF DispatchPlain, DispatchDgm, AtxCalls, AtxNothingToFlush, BridgeCalled, hostVars, sockVars
<1> QED
  BY <1>1, StreamsOfOthers DEF Dead

LEMMA StreamsOfOtherSteps ==
  StreamInv /\ TypeOK /\ ControlInv /\ (Select \/ RelayFin \/ RelayTurns \/ Return \/ Exit) => StreamInv'
<1> SUFFICES ASSUME StreamInv, TypeOK, ControlInv, Select \/ RelayFin \/ RelayTurns \/ Return \/ Exit
             PROVE  StreamInv'
  OBVIOUS
<1>1. CASE Select
  BY <1>1, StreamsOfOthers DEF Select, hostVars, sockVars, pipeVars, bridgeVars, Dead
<1>2. CASE RelayFin
  BY <1>2, RelayPass, StreamsOfOthers DEF RelayFin, RelayedFin
<1>3. CASE RelayTurns
  BY <1>3, StreamsOfOthers DEF RelayTurns, RelayInEnds, GoTo, hostVars, sockVars, pipeVars, Dead
<1>4. CASE Return
  <2>1. ~Dead
    BY <1>4 DEF Return, CallbackEnds, ControlInv, StageInv
  <2> QED
    BY <1>4, <2>1, StreamsOfOthers DEF Return, CallbackEnds, hostVars, sockVars, pipeVars
<1>5. CASE Exit
  BY <1>5, StreamsOfOthers DEF Exit, pipeVars, bridgeVars, Dead
<1> QED
  BY <1>1, <1>2, <1>3, <1>4, <1>5

\* What the atx_pipe has kept is sent from its front.
LEMMA KeptIsPassed ==
  ASSUME TypeOK, DispatchDgmFlush
  PROVE  /\ \A s \in Sides : Passed(s)' = Passed(s)
         /\ (got[dgm] \o out[dgm] \o pend)' = got[dgm] \o out[dgm] \o pend
         /\ \A s \in Sides : s # dgm => out'[s] = out[s]
         /\ UNCHANGED <<conn, eof, in, sent, got, todo, dgm, rx, pending, reports>>
<1>1. PICK w \in SendResults(dgm, Len(pend)) :
       /\ AtxCalls(AtxFlushed(TcpFlags(dgm), TcpEvents(dgm), pend, wantFin, w, ~Failed(dgm)))
       /\ out' = [out EXCEPT ![dgm] = @ \o Taken(pend, w.n)]
  BY DEF DispatchDgmFlush
<1>2. /\ pend' = Rest(pend, w.n) /\ UNCHANGED <<pending, reports>>
      /\ UNCHANGED <<conn, eof, in, sent, got, todo, dgm, rx>>
  BY <1>1 DEF DispatchDgmFlush, AtxCalls, AtxFlushed, BridgeCalled
<1>3. dgm \in Sides
  BY DEF TypeOK
<1> DEFINE g == got[dgm]
           o == out[dgm]
           t == Taken(pend, w.n)
           r == Rest(pend, w.n)
<1>4. /\ g \in Seq(Octets) /\ o \in Seq(Octets) /\ pend \in Seq(Octets)
      /\ t \in Seq(Octets) /\ r \in Seq(Octets) /\ Cat(t, r) = pend
  <2>1. g \in Seq(Octets) /\ o \in Seq(Octets) /\ pend \in Seq(Octets)
    BY <1>3, SeqTypes
  <2>2. w.n \in 0..Len(pend)
    BY <2>1, SocketSendTypes
  <2> QED
    BY <2>1, <2>2, CutFacts DEF Cat
<1>5. out'[dgm] = Cat(o, t) /\ (\A s \in Sides : s # dgm => out'[s] = out[s]) /\ pend' = r
  BY <1>1, <1>2, <1>3 DEF TypeOK, Cat
<1> HIDE DEF t, r
<1>6. (got[dgm] \o out[dgm] \o pend)' = got[dgm] \o out[dgm] \o pend
  <2>1. (got[dgm] \o out[dgm] \o pend)' = Cat(Cat(g, Cat(o, t)), r)
    BY <1>2, <1>5 DEF Cat
  <2>2. got[dgm] \o out[dgm] \o pend = Cat(Cat(g, o), pend)
    BY DEF Cat
  <2> HIDE DEF g, o
  <2>3. Cat(g, o) \in Seq(Octets)
    BY <1>4, CatType
  <2>4. Cat(Cat(g, o), t) = Cat(g, Cat(o, t))
    BY <1>4, CatAssoc
  <2>5. Cat(Cat(Cat(g, o), t), r) = Cat(Cat(g, o), Cat(t, r))
    BY <1>4, <2>3, CatAssoc
  <2> QED
    BY <1>4, <2>1, <2>2, <2>4, <2>5
<1>7. ASSUME NEW s \in Sides
      PROVE  Passed(s)' = Passed(s)
  <2>1. CASE s = dgm
    <3>1. Passed(s) = Payload(got[dgm] \o out[dgm] \o pend)
      BY <2>1 DEF Passed
    <3>2. Passed(s)' = Payload((got[dgm] \o out[dgm] \o pend)')
      BY <1>2, <2>1 DEF Passed
    <3> QED
      BY <1>6, <3>1, <3>2
  <2>2. CASE s # dgm
    <3>1. s # dgm /\ s # dgm' /\ out'[s] = out[s] /\ got'[s] = got[s]
      BY <1>2, <1>5, <2>2
    <3>2. Passed(s) = got[s] \o out[s]
      BY <3>1 DEF Passed
    <3>3. Passed(s)' = got'[s] \o out'[s]
      BY <3>1 DEF Passed
    <3> QED
      BY <3>1, <3>2, <3>3
  <2> QED
    BY <2>1, <2>2
<1> QED
  BY <1>2, <1>5, <1>6, <1>7

LEMMA StreamsOfDispatchDgmFlush == TypeOK /\ StreamInv /\ DispatchDgmFlush => StreamInv'
<1> SUFFICES ASSUME TypeOK, StreamInv, DispatchDgmFlush
             PROVE  StreamInv'
  OBVIOUS
<1>1. PlainInv /\ FramesAreWhole /\ InStepInv /\ StreamIntact
  BY DEF StreamInv, FrameInv
<1>2. Plain \in Sides /\ Plain # dgm /\ Plain' = Plain
  BY <1>1, PassedTypes, KeptIsPassed DEF Plain
<1>3. FramesAreWhole' /\ PlainInv' /\ InStepInv'
  BY <1>1, <1>2, KeptIsPassed DEF FramesAreWhole, PlainInv, InStepInv, Dead
<1>4. \A s \in Sides : Received(s)' = Received(s)
  BY KeptIsPassed DEF Received
<1>5. StreamIntact'
  <2>1. \A s \in Sides : Received(Peer(s))' = Received(Peer(s)) /\ Passed(s)' = Passed(s)
    BY <1>4, PeerFacts, KeptIsPassed
  <2> QED
    BY <1>1, <2>1, KeptIsPassed DEF StreamIntact, Dead
<1> QED
  BY <1>3, <1>5 DEF StreamInv, FrameInv

LEMMA StreamsOfFlush == TypeOK /\ ControlInv /\ StreamInv /\ Flush => StreamInv'
<1> SUFFICES ASSUME TypeOK, ControlInv, StreamInv, Flush
             PROVE  StreamInv'
  OBVIOUS
<1>0. PICK d \in Sides : d = cb.self
  BY DEF TypeOK, Activation, Flush
<1> DEFINE q == pending[d]
<1>1. PICK w \in Sends(d, q) :
       /\ out' = [out EXCEPT ![d] = @ \o w.put]
       /\ pend' = w.pend
       /\ Flushed(w.n, w.up)
  BY <1>0 DEF Flush
<1>2. UNCHANGED <<in, sent, got, todo, dgm, rx>> /\ cb.at = "flush" /\ cb.at # "idle"
  BY DEF Flush
<1>3. PlainInv /\ FramesAreWhole /\ InStepInv /\ StreamIntact
  BY DEF StreamInv, FrameInv
<1>4. d \in Sides /\ "writable" \in flags[d] /\ ~Dead /\ q \in Seq(Item)
  BY <1>0, <1>2, <1>3, InCallback DEF ControlInv, StageInv, PlainInv
<1>5. pending' = [pending EXCEPT ![d] = Rest(q, w.n)]
  BY <1>0, <1>1 DEF Flushed
<1> HIDE DEF q
<1>6. /\ Passed(d)' = Cat(Passed(d), Taken(q, w.n))
      /\ \A e \in Sides : e # d => Passed(e)' = Passed(e)
      /\ FramesAreWhole' /\ out'[Plain'] \in Seq(Item) /\ w.n \in 0..Len(q)
  BY <1>1, <1>2, <1>3, <1>4, SendPasses
<1> DEFINE t == Taken(q, w.n)
           u == Rest(q, w.n)
           i == Received(Peer(d))
<1>7. t \in Seq(Item) /\ u \in Seq(Item) /\ Cat(t, u) = q
  BY <1>4, <1>6, CutFacts DEF Cat
<1>8. i \in Seq(Item)
  BY <1>3, <1>4, PassedTypes, PeerFacts
<1>9. \A e \in Sides : Received(e)' = Received(e)
  BY <1>2 DEF Received
<1>10. /\ pending' \in [Sides -> Seq(Item)] /\ pending'[d] = u
       /\ \A e \in Sides : e # d => pending'[e] = pending[e]
  BY <1>3, <1>4, <1>5, <1>7 DEF PlainInv
<1>11. PlainInv'
  <2>1. Plain' = Plain
    BY <1>2 DEF Plain
  <2> QED
    BY <1>2, <1>3, <1>6, <1>10, <2>1 DEF PlainInv
<1>12. InStepInv'
  <2>1. ~Dead
    BY <1>4
  <2> QED
    BY <1>2, <1>3, <2>1 DEF InStepInv
<1>13. /\ IsPrefix(Passed(d)', sent'[Peer(d)])
       /\ ~Dead' => Passed(d)' \o pending'[d] \o Received(Peer(d))' = sent'[Peer(d)]
  <2> HIDE DEF t, u
  <2>1. Passed(d)' = Cat(Passed(d), t)
    BY <1>6 DEF t
  <2>2. Cat(pending[d], Received(Peer(d))) = Cat(Cat(t, u), i)
    BY <1>7 DEF q
  <2>3. pending'[d] = u /\ Received(Peer(d))' = i
    BY <1>4, <1>9, <1>10, PeerFacts
  <2> HIDE DEF i
  <2> QED
    BY <1>2, <1>3, <1>4, <1>7, <1>8, <2>1, <2>2, <2>3, DirectionGoesOn
<1>14. ASSUME NEW e \in Sides, e # d
       PROVE  /\ IsPrefix(Passed(e)', sent'[Peer(e)])
              /\ ~Dead' => Passed(e)' \o pending'[e] \o Received(Peer(e))' = sent'[Peer(e)]
  <2>1. Passed(e)' = Passed(e) /\ pending'[e] = pending[e]
    BY <1>6, <1>10, <1>14
  <2>2. Received(Peer(e))' = Received(Peer(e))
    BY <1>9, PeerFacts
  <2>3. sent'[Peer(e)] = sent[Peer(e)]
    BY <1>2
  <2> QED
    BY <1>3, <1>4, <2>1, <2>2, <2>3, DirectionRests
<1>15. StreamIntact'
  BY <1>13, <1>14 DEF StreamIntact
<1> QED
  BY <1>6, <1>11, <1>12, <1>15 DEF StreamInv, FrameInv

LEMMA StreamsOfRelayNothing == TypeOK /\ ControlInv /\ StreamInv /\ RelayNothing => StreamInv'
<1> SUFFICES ASSUME TypeOK, ControlInv, StreamInv, RelayNothing
             PROVE  StreamInv'
  OBVIOUS
<1>0. PICK s \in Sides, d \in Sides : s = Src /\ d = Dst
  BY SrcDst DEF TypeOK
<1>1. PICK r \in Recvs(s) :
       /\ r.is = "nothing"
       /\ in' = [in EXCEPT ![s] = Rest(@, r.read)]
       /\ rx' = r.rx
       /\ RelayedNothing(r.up)
  BY <1>0 DEF RelayNothing
<1>2. /\ InRelay /\ Relaying
      /\ UNCHANGED <<out, sent, got, todo, dgm, pend>>
  BY DEF RelayNothing
<1>3. /\ s \in Sides /\ d \in Sides /\ s # d /\ Peer(d) = s /\ cb.at # "idle" /\ ~Dead
      /\ "readable" \in flags[s]
  BY <1>0, <1>2, RelayPass
<1>4. PlainInv /\ FramesAreWhole /\ InStepInv /\ StreamIntact
  BY DEF StreamInv, FrameInv
<1>5. pending' = pending /\ IF "broken" \in r.up THEN Shutdown("failed") ELSE GoTo(cb.at)
  BY <1>1 DEF RelayedNothing, Proceed
<1>6. r.data = <<>> /\ (s # dgm => r.rx = rx)
  <2>1. r.is # "data"
    BY <1>1
  <2> QED
    BY <1>3, <2>1, NoDataNoOctets, RecvBits
<1>7. \A e \in Sides : Passed(e)' = Passed(e)
  BY <1>2 DEF Passed
<1>8. FramesAreWhole'
  BY <1>2, <1>4 DEF FramesAreWhole
<1>9. /\ Plain' = Plain /\ Plain \in Sides /\ Plain # dgm
      /\ in'[s] = Rest(in[s], r.read) /\ \A e \in Sides : e # s => in'[e] = in[e]
  <2>1. Plain' = Plain
    BY <1>2 DEF Plain
  <2> QED
    BY <1>1, <1>3, <1>4, <2>1, PassedTypes DEF TypeOK
<1>10. in'[Plain] \in Seq(Item) => PlainInv'
  BY <1>2, <1>4, <1>5, <1>9 DEF PlainInv
<1>11. CASE "broken" \in r.up /\ s = dgm
  <2>1. Dead'
    BY <1>3, <1>5, <1>11, LifeAndDeath DEF TypeOK, Report
  <2>2. PlainInv'
    BY <1>4, <1>9, <1>10, <1>11 DEF PlainInv
  <2> QED
    BY <1>2, <1>7, <1>8, <2>1, <2>2, StreamsOfTheDead
<1>12. CASE "broken" \notin r.up \/ s # dgm
  <2>1. /\ Received(s) = Cat(r.data, Received(s)')
        /\ \A e \in Sides : e # s => Received(e)' = Received(e)
        /\ in'[Plain'] \in Seq(Item) /\ InStepInv' /\ Received(s)' \in Seq(Item)
    BY <1>1, <1>2, <1>3, <1>4, <1>6, <1>12, RecvTakes
  <2>2. Received(s)' = Received(s)
    <3>1. \A x \in Seq(Item) : Cat(<<>>, x) = x
      BY CatEmpty
    <3> QED
      BY <1>6, <2>1, <3>1
  <2>3. \A e \in Sides : Received(e)' = Received(e)
    BY <2>1, <2>2
  <2>4. StreamIntact'
    <3>1. \A e \in Sides : Received(Peer(e))' = Received(Peer(e))
      BY <2>3, PeerFacts
    <3> QED
      BY <1>2, <1>3, <1>4, <1>5, <1>7, <3>1 DEF StreamIntact
  <2> QED
    BY <1>8, <1>9, <1>10, <2>1, <2>4 DEF StreamInv, FrameInv
<1> QED
  BY <1>11, <1>12

LEMMA StreamsOfRelayData == TypeOK /\ ControlInv /\ StreamInv /\ RelayData => StreamInv'
<1> SUFFICES ASSUME TypeOK, ControlInv, StreamInv, RelayData
             PROVE  StreamInv'
  OBVIOUS
<1>0. PICK s \in Sides, d \in Sides : s = Src /\ d = Dst
  BY SrcDst DEF TypeOK
<1>1. PICK r \in Recvs(s) :
       /\ r.is = "data"
       /\ \E w \in Sends(d, r.data) :
            /\ in' = [in EXCEPT ![s] = Rest(@, r.read)]
            /\ out' = [out EXCEPT ![d] = @ \o w.put]
            /\ rx' = r.rx /\ pend' = w.pend
            /\ RelayedData(r.data, w.n, w.up)
  BY <1>0 DEF RelayData
<1>2. PICK w \in Sends(d, r.data) :
       /\ in' = [in EXCEPT ![s] = Rest(@, r.read)]
       /\ out' = [out EXCEPT ![d] = @ \o w.put]
       /\ rx' = r.rx /\ pend' = w.pend
       /\ RelayedData(r.data, w.n, w.up)
  BY <1>1
<1>3. /\ InRelay /\ Relaying
      /\ UNCHANGED <<sent, got, todo, dgm>>
  BY DEF RelayData
<1>4. /\ s # d /\ Peer(d) = s /\ cb.at # "idle" /\ ~Dead /\ flags = tcp
      /\ "readable" \in flags[s] /\ "writable" \in flags[d]
      /\ "broken" \notin tcp[s] /\ pending[d] = <<>>
  BY <1>0, <1>3, RelayPass
<1>5. PlainInv /\ FramesAreWhole /\ InStepInv /\ StreamIntact
  BY DEF StreamInv, FrameInv
<1>6. "broken" \notin r.up /\ (s # dgm => r.rx = rx)
  BY <1>1, <1>4, RecvBits
<1>7. /\ Received(s) = Cat(r.data, Received(s)') /\ Received(s)' \in Seq(Item)
      /\ \A e \in Sides : e # s => Received(e)' = Received(e)
      /\ r.data \in Seq(Item) /\ in'[Plain'] \in Seq(Item)
      /\ InStepInv'
  BY <1>2, <1>3, <1>4, <1>5, <1>6, RecvTakes
<1>8. /\ Passed(d)' = Cat(Passed(d), Taken(r.data, w.n))
      /\ \A e \in Sides : e # d => Passed(e)' = Passed(e)
      /\ FramesAreWhole' /\ out'[Plain'] \in Seq(Item) /\ w.n \in 0..Len(r.data)
  BY <1>2, <1>3, <1>4, <1>5, <1>7, SendPasses
<1> DEFINE data == r.data
           t == Taken(data, w.n)
           u == Rest(data, w.n)
           i == Received(s)'
<1>9. /\ t \in Seq(Item) /\ u \in Seq(Item) /\ Cat(t, u) = data
      /\ w.n = Len(data) => u = <<>>
  <2>1. t \in Seq(Item) /\ u \in Seq(Item) /\ Cat(t, u) = data
    BY <1>7, <1>8, CutFacts DEF Cat
  <2>2. w.n = Len(data) => u = <<>>
    BY <1>7, CutAtEnds
  <2> QED
    BY <2>1, <2>2
<1>10. /\ pending' = IF w.n = Len(data) \/ "broken" \in w.up THEN pending
                     ELSE [pending EXCEPT ![d] = u]
       /\ IF w.n < Len(data) /\ "broken" \in w.up THEN Shutdown("failed") ELSE GoTo(cb.at)
  BY <1>0, <1>2 DEF RelayedData, Proceed
<1> HIDE DEF data, t, u
<1>11. pending' \in [Sides -> Seq(Item)] /\ \A e \in Sides : e # d => pending'[e] = pending[e]
  BY <1>5, <1>9, <1>10 DEF PlainInv
<1>12. ~Dead' => pending'[d] = u
  <2>1. "broken" \in w.up /\ w.n < Len(data) => Dead'
    BY <1>4, <1>10, LifeAndDeath DEF TypeOK, Report
  <2>2. w.n = Len(data) \/ w.n < Len(data)
    <3>1. Len(data) \in Nat
      BY <1>7, LenProperties DEF data
    <3> QED
      BY <1>8, <3>1 DEF data
  <2>3. CASE w.n = Len(data)
    BY <1>4, <1>9, <1>10, <2>3
  <2>4. CASE w.n < Len(data) /\ w.n # Len(data)
    BY <1>4, <1>5, <1>10, <2>1, <2>4 DEF PlainInv
  <2> QED
    BY <2>2, <2>3, <2>4
<1>13. PlainInv'
  <2>1. got'[Plain'] = got[Plain]
    BY <1>3 DEF Plain
  <2> QED
    BY <1>3, <1>5, <1>7, <1>8, <1>11, <2>1 DEF PlainInv
<1>14. /\ IsPrefix(Passed(d)', sent'[Peer(d)])
       /\ ~Dead' => Passed(d)' \o pending'[d] \o Received(Peer(d))' = sent'[Peer(d)]
  <2>1. Passed(d)' = Cat(Passed(d), t)
    BY <1>8 DEF t, data
  <2>2. Cat(pending[d], Received(Peer(d))) = Cat(Cat(t, u), i)
    <3>1. Received(s) \in Seq(Item)
      BY <1>5, PassedTypes
    <3>2. Cat(<<>>, Received(s)) = Received(s)
      BY <3>1, CatEmpty
    <3> QED
      BY <1>4, <1>7, <1>9, <3>2 DEF data
  <2>3. Received(Peer(d))' = i /\ i \in Seq(Item)
    BY <1>4, <1>7
  <2> HIDE DEF i
  <2> QED
    BY <1>3, <1>4, <1>5, <1>9, <1>12, <2>1, <2>2, <2>3, DirectionGoesOn
<1>15. ASSUME NEW e \in Sides, e # d
       PROVE  /\ IsPrefix(Passed(e)', sent'[Peer(e)])
              /\ ~Dead' => Passed(e)' \o pending'[e] \o Received(Peer(e))' = sent'[Peer(e)]
  <2>1. Passed(e)' = Passed(e) /\ pending'[e] = pending[e]
    BY <1>8, <1>11, <1>15
  <2>2. Peer(e) \in Sides /\ Peer(e) # s
    BY <1>4, <1>15, PeerFacts, TwoSides
  <2>3. Received(Peer(e))' = Received(Peer(e)) /\ sent'[Peer(e)] = sent[Peer(e)]
    BY <1>3, <1>7, <2>2
  <2> QED
    BY <1>4, <1>5, <2>1, <2>3, DirectionRests
<1>16. StreamIntact'
  BY <1>14, <1>15 DEF StreamIntact
<1> QED
  BY <1>7, <1>8, <1>13, <1>16 DEF StreamInv, FrameInv

\* What the host of a side reads was passed on before.
LEMMA HostReadsPassed ==
  ASSUME TypeOK, NEW s \in Sides, HostReads(s), UNCHANGED <<dgm, pend>>
  PROVE  /\ \A t \in Sides : Passed(t)' = Passed(t)
         /\ (got[dgm] \o out[dgm] \o pend)' = got[dgm] \o out[dgm] \o pend
<1>1. /\ out[s] \in Seq(Octets) /\ out[s] # <<>> /\ got[s] \in Seq(Octets)
      /\ out'[s] = Tail(out[s]) /\ got'[s] = Append(got[s], Head(out[s]))
      /\ \A t \in Sides : t # s => out'[t] = out[t] /\ got'[t] = got[t]
  BY DEF HostReads, TypeOK
<1>2. Cat(Append(got[s], Head(out[s])), Tail(out[s])) = Cat(got[s], out[s])
  BY <1>1, ReadOne
<1>3. \A t \in Sides : Cat(got'[t], out'[t]) = Cat(got[t], out[t])
  BY <1>1, <1>2
<1>4. \A t \in Sides : got'[t] \o out'[t] = got[t] \o out[t]
  BY <1>3 DEF Cat
<1>5. (got[dgm] \o out[dgm] \o pend)' = got[dgm] \o out[dgm] \o pend
  BY <1>4 DEF TypeOK
<1>6. ASSUME NEW t \in Sides
      PROVE  Passed(t)' = Passed(t)
  <2>1. CASE t = dgm
    <3>1. Passed(t) = Payload(got[dgm] \o out[dgm] \o pend)
      BY <2>1 DEF Passed
    <3>2. Passed(t)' = Payload((got[dgm] \o out[dgm] \o pend)')
      BY <2>1 DEF Passed
    <3> QED
      BY <1>5, <3>1, <3>2
  <2>2. CASE t # dgm
    <3>1. Passed(t) = got[t] \o out[t]
      BY <2>2 DEF Passed
    <3>2. Passed(t)' = got'[t] \o out'[t]
      BY <2>2 DEF Passed
    <3> QED
      BY <1>4, <3>1, <3>2
  <2> QED
    BY <2>1, <2>2
<1> QED
  BY <1>5, <1>6

LEMMA StreamsOfHostReads ==
  ASSUME TypeOK, StreamInv, NEW s \in Sides, HostReads(s), UNCHANGED <<dgm, rx, pend, todo, pending, reports>>
  PROVE  StreamInv'
<1>1. /\ out[s] # <<>> /\ out'[s] = Tail(out[s]) /\ got'[s] = Append(got[s], Head(out[s]))
      /\ \A t \in Sides : t # s => out'[t] = out[t] /\ got'[t] = got[t]
      /\ UNCHANGED <<in, sent>>
  BY DEF HostReads, TypeOK
<1>2. PlainInv /\ FramesAreWhole /\ InStepInv /\ StreamIntact
  BY DEF StreamInv, FrameInv
<1>3. Plain' = Plain /\ Plain \in Sides
  BY <1>2, PassedTypes DEF Plain
<1>4. FramesAreWhole' /\ InStepInv'
  BY <1>1, <1>2, HostReadsPassed DEF FramesAreWhole, InStepInv, Dead
<1>5. PlainInv'
  <2>1. CASE s = Plain
    <3>1. out[s] \in Seq(Item) /\ got[s] \in Seq(Item)
      BY <1>2, <2>1 DEF PlainInv
    <3>2. Head(out[s]) \in Item /\ Tail(out[s]) \in Seq(Item)
      BY <1>1, <3>1, HeadTailProperties
    <3>3. Append(got[s], Head(out[s])) \in Seq(Item)
      BY <3>1, <3>2, AppendProperties
    <3>4. got'[Plain'] \in Seq(Item) /\ out'[Plain'] \in Seq(Item)
      BY <1>1, <1>3, <2>1, <3>2, <3>3
    <3> QED
      BY <1>1, <1>2, <1>3, <3>4 DEF PlainInv
  <2>2. CASE s # Plain
    BY <1>1, <1>2, <1>3, <2>2 DEF PlainInv
  <2> QED
    BY <2>1, <2>2
<1>6. \A t \in Sides : Received(t)' = Received(t)
  BY <1>1 DEF Received
<1>7. StreamIntact'
  <2>1. \A t \in Sides : Received(Peer(t))' = Received(Peer(t)) /\ Passed(t)' = Passed(t)
    BY <1>6, PeerFacts, HostReadsPassed
  <2> QED
    BY <1>1, <1>2, <2>1 DEF StreamIntact, Dead
<1> QED
  BY <1>4, <1>5, <1>7 DEF StreamInv, FrameInv

\* In the direction to d the stream has grown by i.
LEMMA DirectionGrows ==
  ASSUME TypeOK, PlainInv, StreamIntact, NEW s \in Sides, NEW d \in Sides, s = Peer(d), NEW i \in Seq(Item),
         UNCHANGED <<pending, reports>>, Passed(d)' = Passed(d),
         Received(s)' = Cat(Received(s), i), sent'[s] = Cat(sent[s], i)
  PROVE  /\ IsPrefix(Passed(d)', sent'[Peer(d)])
         /\ ~Dead' => Passed(d)' \o pending'[d] \o Received(Peer(d))' = sent'[Peer(d)]
<1> DEFINE f == Passed(d)
           p == pending[d]
           r == Received(s)
           h == sent[s]
<1>1. f \in Seq(Item) /\ p \in Seq(Item) /\ r \in Seq(Item) /\ h \in Seq(Item)
  BY PassedTypes
<1>2. IsPrefix(f, h) /\ (~Dead => Cat(Cat(f, p), r) = h)
  BY DEF StreamIntact, Cat
<1>3. Dead' <=> Dead
  BY DEF Dead
<1> HIDE DEF f, p, r, h
<1>4. IsPrefix(f, Cat(h, i))
  BY <1>1, <1>2, PrefixGrows
<1>5. Cat(Cat(Cat(f, p), r), i) = Cat(Cat(f, p), Cat(r, i))
  <2>1. Cat(f, p) \in Seq(Item)
    BY <1>1, CatType
  <2> QED
    BY <1>1, <2>1, CatAssoc
<1>6. IsPrefix(Passed(d)', sent'[Peer(d)])
  BY <1>4 DEF f, h
<1>7. ~Dead' => Cat(Cat(Passed(d)', pending'[d]), Received(Peer(d))') = sent'[Peer(d)]
  BY <1>2, <1>3, <1>5 DEF f, p, r, h
<1> QED
  BY <1>6, <1>7 DEF Cat

\* What the host of the plain side sends arrives as it is, ...
LEMMA StreamsOfHostSends ==
  ASSUME TypeOK, StreamInv, HostSends(Plain), UNCHANGED <<dgm, rx, pend, todo, pending, reports>>
  PROVE  StreamInv'
<1>1. PICK s \in Sides : s = Plain /\ s # dgm
  BY PeerFacts DEF TypeOK, Plain
<1> DEFINE e == <<s, Len(sent[s]) + 1>>
<1>2. /\ in'[s] = Append(in[s], e) /\ sent' = [sent EXCEPT ![s] = Append(@, e)]
      /\ \A t \in Sides : t # s => in'[t] = in[t]
      /\ UNCHANGED <<out, got>> /\ Plain' = Plain
  BY <1>1 DEF HostSends, TypeOK, Plain
<1>3. PlainInv /\ FramesAreWhole /\ InStepInv /\ StreamIntact
  BY DEF StreamInv, FrameInv
<1>4. e \in Item
  <2>1. Len(sent[s]) \in Nat /\ MaxOctets[s] \in Nat /\ Len(sent[s]) < MaxOctets[s]
    BY SocketAssumption, <1>1, SeqTypes, LenProperties DEF HostSends
  <2>2. MaxOctets["l"] \in Nat /\ MaxOctets["r"] \in Nat
    BY SocketAssumption DEF Sides
  <2>3. Len(sent[s]) + 1 \in 1..(MaxOctets["l"] + MaxOctets["r"])
    BY <2>1, <2>2 DEF Sides
  <2> QED
    BY <2>3 DEF Item
<1> HIDE DEF e
<1> DEFINE i == <<e>>
<1>5. /\ in[s] \in Seq(Item) /\ sent[s] \in Seq(Item) /\ i \in Seq(Item)
      /\ sent \in [Sides -> Seq(Item)]
  BY <1>1, <1>3, <1>4 DEF PlainInv
<1>6. Append(in[s], e) = Cat(in[s], i) /\ Append(sent[s], e) = Cat(sent[s], i)
  BY <1>4, <1>5, AppendIsConcat DEF Cat
<1>7. in'[s] \in Seq(Item) /\ sent' \in [Sides -> Seq(Item)] /\ sent'[s] = Cat(sent[s], i)
      /\ \A t \in Sides : t # s => sent'[t] = sent[t]
  <2>1. Append(in[s], e) \in Seq(Item) /\ Append(sent[s], e) \in Seq(Item)
    BY <1>4, <1>5, AppendProperties
  <2> QED
    BY <1>2, <1>5, <1>6, <2>1
<1>8. PlainInv'
  BY <1>1, <1>2, <1>3, <1>7 DEF PlainInv
<1>9. FramesAreWhole' /\ InStepInv'
  <2>1. in'[dgm] = in[dgm]
    BY <1>1, <1>2 DEF TypeOK
  <2> QED
    BY <1>2, <1>3, <2>1 DEF FramesAreWhole, InStepInv, Dead
<1>10. \A t \in Sides : Passed(t)' = Passed(t)
  BY <1>2 DEF Passed
<1>11. /\ Received(s)' = Cat(Received(s), i)
       /\ \A t \in Sides : t # s => Received(t)' = Received(t)
  BY <1>1, <1>2, <1>6 DEF Received
<1> HIDE DEF i
<1>12. StreamIntact'
  <2> SUFFICES ASSUME NEW d \in Sides
               PROVE  /\ IsPrefix(Passed(d)', sent'[Peer(d)])
                      /\ ~Dead' => Passed(d)' \o pending'[d] \o Received(Peer(d))' = sent'[Peer(d)]
    BY DEF StreamIntact
  <2>1. CASE s = Peer(d)
    BY <1>3, <1>5, <1>7, <1>10, <1>11, <2>1, DirectionGrows
  <2>2. CASE s # Peer(d)
    <3>1. Received(Peer(d))' = Received(Peer(d)) /\ sent'[Peer(d)] = sent[Peer(d)]
      BY <1>7, <1>11, <2>2, PeerFacts
    <3>2. Dead => Dead'
      BY DEF Dead
    <3> QED
      BY <1>3, <1>10, <3>1, <3>2, DirectionRests
  <2> QED
    BY <2>1, <2>2
<1> QED
  BY <1>8, <1>9, <1>12 DEF StreamInv, FrameInv

\* ... and what the other proxy sends within datagrams, each behind its header.
LEMMA StreamsOfPeerSends ==
  ASSUME TypeOK, StreamInv, PeerSends, UNCHANGED <<dgm, rx, pend, pending, reports>>
  PROVE  StreamInv'
<1>1. PICK s \in Sides : s = dgm
  BY DEF TypeOK
<1>2. PICK q \in Seq(Octets) :
        /\ q # <<>> /\ q \in (IF todo = <<>> THEN NextFrames ELSE {todo})
        /\ Head(q) \in Octets /\ Tail(q) \in Seq(Octets)
        /\ in' = [in EXCEPT ![s] = Append(@, Head(q))]
        /\ sent' = [sent EXCEPT ![s] = @ \o Payload(<<Head(q)>>)]
        /\ todo' = Tail(q)
  BY <1>1, PeerSendsFrom
<1>3. UNCHANGED <<out, got>> /\ Plain' = Plain
  BY DEF PeerSends, Plain
<1>4. PlainInv /\ FramesAreWhole /\ InStepInv /\ StreamIntact
  BY DEF StreamInv, FrameInv
<1>5. /\ in[s] \in Seq(Octets) /\ rx \in Seq(Octets) /\ todo \in Seq(Octets)
      /\ Plain \in Sides /\ Plain # s /\ sent \in [Sides -> Seq(Item)]
  BY <1>1, <1>4, SeqTypes, PassedTypes DEF PlainInv
<1> DEFINE e == Head(q)
           one == <<e>>
           i == Payload(one)
<1>6. one \in Seq(Octets) /\ i \in Seq(Item)
  <2>1. one \in Seq(Octets)
    BY <1>2
  <2> QED
    BY <2>1, PayloadIsItems
<1>7. Append(in[s], e) = Cat(in[s], one)
  BY <1>2, <1>5, AppendIsConcat DEF Cat
<1>8. Cat(one, Tail(q)) = q
  <2>1. Len(q) \in Nat \ {0}
    BY <1>2, EmptySeq
  <2> QED
    BY <1>2, <2>1, HeadTailProperties DEF Cat
<1> HIDE DEF e, one, i
<1>9. /\ in'[s] = Cat(in[s], one) /\ \A t \in Sides : t # s => in'[t] = in[t]
      /\ sent'[s] = Cat(sent[s], i) /\ \A t \in Sides : t # s => sent'[t] = sent[t]
      /\ sent' \in [Sides -> Seq(Item)]
  <2>1. Cat(sent[s], i) \in Seq(Item)
    BY <1>5, <1>6, CatType
  <2>2. sent' = [sent EXCEPT ![s] = Cat(@, i)]
    BY <1>2 DEF Cat, i, one, e
  <2>3. in' = [in EXCEPT ![s] = Cat(in[s], one)]
    BY <1>2, <1>7 DEF e
  <2> QED
    BY <1>5, <2>1, <2>2, <2>3 DEF TypeOK
<1>10. PlainInv'
  BY <1>3, <1>4, <1>5, <1>9 DEF PlainInv
<1>11. FramesAreWhole'
  BY <1>3, <1>4 DEF FramesAreWhole
<1> DEFINE w == Cat(rx, in[s])
<1>12. w \in Seq(Octets) /\ Cat(rx, Cat(in[s], one)) = Cat(w, one)
  <2> DEFINE j == in[s]
  <2>1. j \in Seq(Octets)
    BY <1>5
  <2> HIDE DEF j
  <2>2. Cat(rx, j) \in Seq(Octets)
    BY <1>5, <2>1, CatType
  <2>3. Cat(rx, Cat(j, one)) = Cat(Cat(rx, j), one)
    BY <1>5, <1>6, <2>1, CatAssoc
  <2> QED
    BY <2>2, <2>3 DEF j
<1>13. ~Dead => InStep(Cat(w, q))
  <2>1. ~Dead => InStep(Cat(w, todo))
    BY <1>1, <1>4 DEF InStepInv, Cat
  <2>2. CASE todo # <<>>
    BY <1>2, <2>1, <2>2
  <2>3. CASE todo = <<>>
    <3>1. PICK data \in Seq(Octets) :
            /\ q = Frame(data) /\ Len(data) \in 1..MaxDgm
            /\ \A j \in DOMAIN data : ~IsHeader(data[j])
      BY <1>2, <2>3, NextFrameTypes
    <3>2. ~Dead => InStep(w)
      BY <1>12, <2>1, <2>3, CatEmpty
    <3>3. InStep(w) => InStep(Cat(w, Frame(data)))
      BY <1>12, <3>1, OctetsAreTyped, JoinInStep DEF Cat
    <3> QED
      BY <3>1, <3>2, <3>3
  <2> QED
    BY <2>2, <2>3
<1>14. InStepInv'
  <2>1. Cat(Cat(w, one), Tail(q)) = Cat(w, q)
    <3> DEFINE r == Tail(q)
    <3>1. r \in Seq(Octets) /\ Cat(one, r) = q
      BY <1>2, <1>8
    <3> HIDE DEF r, w
    <3>2. Cat(Cat(w, one), r) = Cat(w, Cat(one, r))
      BY <1>6, <1>12, <3>1, CatAssoc
    <3> QED
      BY <3>1, <3>2 DEF r
  <2>2. (rx \o in[dgm] \o todo)' = Cat(Cat(rx, Cat(in[s], one)), Tail(q))
    BY <1>1, <1>2, <1>9 DEF Cat
  <2>3. Dead' <=> Dead
    BY DEF Dead
  <2> QED
    BY <1>12, <1>13, <2>1, <2>2, <2>3 DEF InStepInv
<1>15. \A t \in Sides : Passed(t)' = Passed(t)
  BY <1>3 DEF Passed
<1>16. Received(s)' = Cat(Received(s), i)
  <2>1. Received(s) = Payload(w)
    BY <1>1 DEF Received, Cat
  <2>2. Received(s)' = Payload(Cat(w, one))
    BY <1>1, <1>9, <1>12 DEF Received, Cat
  <2> HIDE DEF w
  <2>3. Payload(Cat(w, one)) = Cat(Payload(w), i)
    BY <1>6, <1>12, PayloadCat DEF Cat, i
  <2> QED
    BY <2>1, <2>2, <2>3
<1>17. \A t \in Sides : t # s => Received(t)' = Received(t)
  BY <1>1, <1>9 DEF Received
<1>18. StreamIntact'
  <2> SUFFICES ASSUME NEW d \in Sides
               PROVE  /\ IsPrefix(Passed(d)', sent'[Peer(d)])
                      /\ ~Dead' => Passed(d)' \o pending'[d] \o Received(Peer(d))' = sent'[Peer(d)]
    BY DEF StreamIntact
  <2>1. CASE s = Peer(d)
    BY <1>4, <1>6, <1>9, <1>15, <1>16, <2>1, DirectionGrows
  <2>2. CASE s # Peer(d)
    <3>1. Received(Peer(d))' = Received(Peer(d)) /\ sent'[Peer(d)] = sent[Peer(d)]
      BY <1>9, <1>17, <2>2, PeerFacts
    <3>2. Dead => Dead'
      BY DEF Dead
    <3> QED
      BY <1>4, <1>15, <3>1, <3>2, DirectionRests
  <2> QED
    BY <2>1, <2>2
<1> QED
  BY <1>10, <1>11, <1>14, <1>18 DEF StreamInv, FrameInv

LEMMA StreamsOfHosts == TypeOK /\ StreamInv /\ HostActs => StreamInv'
<1> SUFFICES ASSUME TypeOK, StreamInv, HostActs
             PROVE  StreamInv'
  OBVIOUS
<1>1. UNCHANGED <<dgm, rx, pend, pending, reports>>
  BY DEF HostActs, pipeVars, bridgeVars
<1>2. CASE PeerSends
  BY <1>1, <1>2, StreamsOfPeerSends
<1>3. CASE HostSends(Plain) /\ UNCHANGED todo
  BY <1>1, <1>3, StreamsOfHostSends
<1>4. CASE (\E s \in Sides : HostReads(s)) /\ UNCHANGED todo
  BY <1>1, <1>4, StreamsOfHostReads
<1>5. ASSUME NEW s \in Sides, Connected(s) \/ Refused(s) \/ ConnectionLost(s) \/ HostCloses(s), UNCHANGED todo
      PROVE  StreamInv'
  BY <1>1, <1>5, StreamsOfOthers DEF Connected, Refused, ConnectionLost, HostCloses, Dead
<1> QED
  BY <1>2, <1>3, <1>4, <1>5 DEF HostActs

LEMMA StreamsInductive == TypeOK /\ ControlInv /\ StreamInv /\ [Next]_vars => StreamInv'
<1>1. StreamInv /\ UNCHANGED vars => StreamInv'
  BY StreamsOfOthers DEF vars, hostVars, sockVars, pipeVars, bridgeVars, Dead
<1> QED
  BY <1>1, StreamsOfDispatch, StreamsOfDispatchDgmFlush, StreamsOfFlush, StreamsOfRelayNothing,
     StreamsOfRelayData, StreamsOfOtherSteps, StreamsOfHosts DEF Next, Proxy, Terminated

-----------------------------------------------------------------------------
(* The invariant and what follows from it.                                 *)

\* Of a datagram that is under way its beginning was sent.
LEMMA TodoInductive == TypeOK /\ TodoInv /\ [Next]_vars => TodoInv'
<1> SUFFICES ASSUME TypeOK, TodoInv, [Next]_vars
             PROVE  TodoInv'
  OBVIOUS
<1>1. CASE UNCHANGED todo
  BY <1>1 DEF TodoInv
<1>2. CASE PeerSends
  <2>1. PICK q \in Seq(Octets) :
          /\ q # <<>> /\ q \in (IF todo = <<>> THEN NextFrames ELSE {todo})
          /\ todo' = Tail(q)
    BY <1>2, PeerSendsFrom
  <2>2. /\ Len(q) \in Nat \ {0} /\ DOMAIN Tail(q) = 1..Len(q) - 1
        /\ \A i \in 1..Len(q) - 1 : Tail(q)[i] = q[i + 1]
    BY <2>1, LenProperties, EmptySeq, HeadTailProperties
  <2>3. CASE todo # <<>>
    <3>1. q = todo /\ DOMAIN todo = 1..Len(q)
      BY <2>1, <2>3, LenProperties
    <3>2. \A i \in 1..Len(q) - 1 : ~IsHeader(Tail(q)[i])
      BY <2>2, <3>1 DEF TodoInv
    <3> QED
      BY <2>1, <2>2, <3>2 DEF TodoInv
  <2>4. CASE todo = <<>>
    <3>1. PICK data \in Seq(Octets) :
            /\ q = Frame(data) /\ Len(data) \in 1..MaxDgm
            /\ \A j \in DOMAIN data : ~IsHeader(data[j])
      BY <2>1, <2>4, NextFrameTypes
    <3> DEFINE n == Len(data)
               h == HdrLen(n)
    <3>2. /\ n \in Nat /\ h \in {1, 2} /\ Len(q) = h + n /\ q[h] = <<"last", n>>
          /\ \A i \in 1..n : q[h + i] = data[i]
      BY <3>1, OctetsAreTyped, FrameAt
    <3>3. \A i \in 1..n : ~IsHeader(q[h + i])
      BY <3>1, <3>2, LenProperties
    <3> HIDE DEF n
    <3>4. ASSUME NEW i \in 1..Len(q) - 1, IsHeader(Tail(q)[i])
          PROVE  i = 1 /\ h = 2 /\ Tail(q)[1] = <<"last", n>>
      <4>1. i + 1 \notin {h + j : j \in 1..n}
        BY <2>2, <3>3, <3>4
      <4>2. i + 1 = h
        <5>1. ~(i + 1 - h \in 1..n)
          <6>1. i + 1 = h + (i + 1 - h)
            BY <3>2
          <6> QED
            BY <4>1, <6>1
        <5> QED
          BY <3>2, <5>1
      <4> QED
        BY <2>2, <3>2, <4>2
    <3> QED
      BY <2>1, <2>2, <3>4 DEF TodoInv
  <2> QED
    BY <2>3, <2>4
<1>3. [Next]_vars => PeerSends \/ UNCHANGED todo
  BY DEF Next, Proxy, Select, DispatchPlain, DispatchDgm, DispatchDgmFlush, Flush, RelayNothing,
     RelayFin, RelayData, RelayTurns, Return, Exit, HostActs, Terminated, vars, hostVars
<1> QED
  BY <1>1, <1>2, <1>3

LEMMA TodoInitially == Init => TodoInv
<1>1. DOMAIN <<>> = {}
  OBVIOUS
<1> QED
  BY <1>1 DEF Init, TodoInv

\* The inductive invariant that TLC checks on small instances.
THEOREM InvariantHolds == Spec => []IndInv
<1>1. Init => IndInv
  BY TypesInitially, ControlInitially, StreamsInitially, TodoInitially DEF IndInv
<1>2. IndInv /\ [Next]_vars => IndInv'
  BY TypesInductive, ControlInductive, StreamsInductive, TodoInductive DEF IndInv, StreamInv, FrameInv
<1> QED
  BY <1>1, <1>2, PTL DEF Spec

\* None of the assert()s of the bridge and of the three kinds of pipe fires,
\* whatever the sizes of datagrams and buffers.
THEOREM NoAssertFails == Spec => []NoAbort
<1>1. IndInv => NoAbort
  BY DEF IndInv, ControlInv
<1> QED
  BY <1>1, InvariantHolds, PTL

\* The other proxy gets whole datagrams, however the sends of a frame were cut.
THEOREM DatagramsGoOutWhole == Spec => []FramesAreWhole
<1>1. IndInv => FramesAreWhole
  BY DEF IndInv, StreamInv, FrameInv
<1> QED
  BY <1>1, InvariantHolds, PTL

\* No octet is lost, duplicated or reordered by framing and unframing.
THEOREM StreamsArriveIntact == Spec => []StreamIntact
<1>1. IndInv => StreamIntact
  BY DEF IndInv, StreamInv
<1> QED
  BY <1>1, InvariantHolds, PTL

\* At rest, what every stream that is not ended waits for is watched: its
\* source, or the room for what its source has; so is the room for octets that
\* are kept and for a datagram left in the receive buffer.
THEOREM NothingIsStranded == Spec => []NothingStranded
<1>1. IndInv => NothingStranded
  <2> SUFFICES ASSUME TypeOK, ControlInv, proc = "running", cb.at = "idle", Dispatched, ~Dead
               PROVE  /\ \A s \in Sides :
                           /\ ~("readable" \in flags[s] /\ "writable" \in flags[Peer(s)])
                           /\ pending[s] # <<>> => "writable" \in mask[s]
                           /\ Peer(s) \notin shut =>
                                IF "ready" \notin flags[s] THEN "writable" \in mask[s]
                                ELSE IF "readable" \notin flags[s] THEN "readable" \in mask[s]
                                ELSE "writable" \in mask[Peer(s)]
                      /\ pend # <<>> => "writable" \in mask[dgm]
                      /\ ProcessRx(rx).is = "dgm" => "readable" \in flags[dgm] /\ "writable" \in mask[Plain]
    BY DEF IndInv, NothingStranded
  <2>1. \A s \in Sides : ~("readable" \in flags[s] /\ "writable" \in flags[Peer(s)])
    BY DEF ControlInv, AwakeInv
  <2>2. /\ dgm \in Sides /\ Plain \in Sides /\ Peer(dgm) = Plain /\ Peer(Plain) = dgm
        /\ \A s \in Sides : s = dgm \/ s = Plain
    BY PeerFacts, TwoSides DEF TypeOK, Plain
  <2>3. flags[Plain] = tcp[Plain] /\ flags[dgm] = tcp[dgm]
    BY FlagsAreBits
  <2>4. \A s \in Sides : "broken" \notin tcp[s]
    BY DEF ControlInv, BrokenInv
  <2>5. ASSUME NEW s \in Sides, {"writable", "fin_sent"} \cap tcp[s] = {}
        PROVE  "writable" \in mask[s]
    <3>1. mask[s] = IF tcp[s] = {} THEN InitialMask ELSE EventMask(tcp[s])
      BY DEF ControlInv, MaskInv
    <3>2. tcp[s] # {} => "ready" \in tcp[s]
      BY <2>4 DEF ControlInv, FlagsInv
    <3> QED
      BY <2>4, <2>5, <3>1, <3>2, EventMaskBits DEF InitialMask
  <2>6. ASSUME NEW s \in Sides, pending[s] # <<>>
        PROVE  "writable" \in mask[s]
    <3>1. "writable" \notin flags[s]
      BY <2>6 DEF ControlInv, PendingInv
    <3>2. "fin_sent" \notin tcp[s]
      BY <2>6 DEF ControlInv, FinInv
    <3> QED
      BY <2>2, <2>3, <2>5, <3>1, <3>2
  <2>7. pend # <<>> => "writable" \in mask[dgm]
    BY <2>2, <2>5 DEF ControlInv, LinkInv
  <2>8. ASSUME ProcessRx(rx).is = "dgm"
        PROVE  "readable" \in flags[dgm] /\ "writable" \in mask[Plain]
    <3>1. "readable" \in tcp[dgm]
      BY <2>2, <2>4, <2>8 DEF ControlInv, LeftOverInv, LeftOver
    <3>2. "writable" \notin tcp[Plain]
      BY <2>1, <2>2, <2>3, <3>1
    <3>3. "fin_sent" \notin tcp[Plain]
      BY <2>2, <3>1 DEF ControlInv, FinInv, FlagsInv
    <3> QED
      BY <2>2, <2>3, <2>5, <3>1, <3>2, <3>3
  <2>9. ASSUME NEW s \in Sides, Peer(s) \notin shut
        PROVE  IF "ready" \notin flags[s] THEN "writable" \in mask[s]
               ELSE IF "readable" \notin flags[s] THEN "readable" \in mask[s]
               ELSE "writable" \in mask[Peer(s)]
    <3>1. Peer(s) \in Sides /\ flags = tcp
      BY PeerFacts, FlagsAreBits
    <3>2. "fin_sent" \notin tcp[Peer(s)] /\ "fin_rcvd" \notin tcp[s]
      BY <2>9, <3>1 DEF ControlInv, FinInv
    <3>3. CASE "ready" \notin tcp[s]
      <4>1. tcp[s] = {}
        BY <2>4, <3>3 DEF ControlInv, FlagsInv
      <4>2. mask[s] = InitialMask
        BY <4>1 DEF ControlInv, MaskInv
      <4> QED
        BY <3>1, <3>3, <4>2 DEF InitialMask
    <3>4. CASE "ready" \in tcp[s] /\ "readable" \notin tcp[s]
      <4>1. mask[s] = EventMask(tcp[s])
        BY <3>4 DEF ControlInv, MaskInv
      <4> QED
        BY <2>4, <3>1, <3>2, <3>4, <4>1, EventMaskBits
    <3>5. CASE "ready" \in tcp[s] /\ "readable" \in tcp[s]
      <4>1. "writable" \notin tcp[Peer(s)]
        BY <2>1, <3>1, <3>5
      <4> QED
        BY <2>5, <3>1, <3>2, <3>5, <4>1
    <3> QED
      BY <3>3, <3>4, <3>5
  <2> QED
    BY <2>1, <2>6, <2>7, <2>8, <2>9
<1> QED
  BY <1>1, InvariantHolds, PTL

-----------------------------------------------------------------------------
(* What the two ends of a proxy can observe: with the frames left out,     *)
(* every step of TcpProxy is a step of StreamRelay, or none.  So the proxy *)
(* promises what tcp-relay does.                                           *)

Closed == IF Torn THEN eof \ {dgm} ELSE eof
Fwd == [d \in Sides |-> Passed(d)]
Delivered == [d \in Sides |-> Payload(got[d])]
Lost == {s \in Sides : Failed(s) \/ (s = dgm /\ Torn)}

\* StreamRelay has its own copies of what it takes from IoPipe.
LEMMA SameNames ==
  /\ Streams!Sides = Sides
  /\ \A s : Streams!Peer(s) = Peer(s)
  /\ \A q, n : Streams!Taken(q, n) = Taken(q, n)
  /\ \A p, q : Streams!IsPrefix(p, q) <=> IsPrefix(p, q)
BY DEF Streams!Sides, Sides, Streams!Peer, Peer, Streams!Taken, Taken, Streams!IsPrefix, IsPrefix

\* What depends on the hosts and the network alone.
LEMMA HostsRest ==
  ASSUME UNCHANGED <<conn, eof, got, todo, dgm>>
  PROVE  UNCHANGED <<Closed, Delivered, Lost>>
BY DEF Closed, Delivered, Lost, Torn, Failed

LEMMA FwdRests ==
  ASSUME \A d \in Sides : Passed(d)' = Passed(d)
  PROVE  UNCHANGED Fwd
BY DEF Fwd

LEMMA StreamsStutter ==
  ASSUME UNCHANGED <<sent, Closed, Fwd, Delivered, shut, Lost, reports>>
  PROVE  UNCHANGED Streams!vars
BY DEF Streams!vars, Closed, Fwd, Delivered, Lost

-----------------------------------------------------------------------------
(* The report.                                                             *)

\* The only reports ever made, and when.
ReportStep ==
  \/ reports' = reports
  \/ reports = <<>> /\ reports' = <<"graceful">> /\ shut = Sides
  \/ reports = <<>> /\ reports' = <<"failed">> /\ Lost # {}

\* A step that makes a report, or none, and passes nothing on.
LEMMA StreamsFinish ==
  ASSUME ReportStep, UNCHANGED <<sent, conn, eof, got, todo, dgm, shut>>,
         \A d \in Sides : Passed(d)' = Passed(d)
  PROVE  [Streams!Next]_(Streams!vars)
<1>1. UNCHANGED <<Closed, Fwd, Delivered, Lost>>
  BY HostsRest, FwdRests
<1>2. CASE reports' = reports
  BY <1>1, <1>2, StreamsStutter
<1>3. CASE reports' # reports
  <2>1. Streams!Finish
    BY <1>1, <1>3, SameNames DEF Streams!Finish, ReportStep, Closed, Fwd, Delivered, Lost
  <2> QED
    BY <2>1 DEF Streams!Next
<1> QED
  BY <1>2, <1>3

LEMMA ReportMade ==
  ASSUME reports = <<>>, NEW stage, NEW b \in BOOLEAN, Proceed(stage, b), b => Lost # {}
  PROVE  ReportStep /\ (~b => reports' = reports)
BY DEF Proceed, GoTo, Shutdown, ReportStep

\* The end of the stream within a datagram can only be the end of one that was
\* cut off, and no other datagram is malformed.
LEMMA RecvBreaks ==
  ASSUME TypeOK, ControlInv, InStepInv, TodoInv, cb.at # "idle",
         NEW s \in Sides, "readable" \in flags[s], NEW r \in Recvs(s), "broken" \in r.up
  PROVE  s \in Lost
<1>1. /\ flags = tcp /\ ~Dead /\ "broken" \notin tcp[s] /\ tcp[s] \in SUBSET Flag
      /\ rx \in Seq(Octets) /\ in[s] \in Seq(Octets) /\ todo \in Seq(Octets)
  BY InCallback, SeqTypes DEF TypeOK
<1>2. ASSUME NEW q \in Seq(Octets), NEW rest \in Seq(Octets), s = dgm, Cat(q, rest) = Cat(rx, in[s])
      PROVE  ProcessRx(q).is # "bad"
  <2> DEFINE i == in[s]
  <2>1. InStep(Cat(Cat(q, rest), todo))
    BY <1>1, <1>2 DEF InStepInv, Cat
  <2>2. Cat(rest, todo) \in Seq(Octets) /\ Cat(Cat(q, rest), todo) = Cat(q, Cat(rest, todo))
    BY <1>1, CatType, CatAssoc
  <2>3. InStep(Cat(q, Cat(rest, todo)))
    BY <2>1, <2>2
  <2> DEFINE later == Cat(rest, todo)
  <2> HIDE DEF later
  <2>4. later \in Seq(Octets) /\ InStep(q \o later)
    BY <2>2, <2>3 DEF later, Cat
  <2> QED
    BY <2>4, OctetsAreTyped, ProcessRxFacts
<1>3. ASSUME NEW f, NEW q \in Seq(Octets), ProcessRx(q).is # "bad", "broken" \notin f
      PROVE  "broken" \notin DgmTaken(f, pend, flags[s], q).up
  BY <1>3 DEF DgmTaken, DgmPassed, AtxClone
<1>4. CASE s # dgm
  <2>1. PICK t \in RecvResults(s, RecvSize) : r.up = FlagsAfterRecv(tcp[s], t.is)
    BY <1>4 DEF Recvs, PlainRecvs
  <2>2. t.is = "fatal"
    BY <1>1, <2>1 DEF FlagsAfterRecv, RecvResults, RecvOutcome
  <2> QED
    BY <2>2 DEF RecvResults, Lost
<1>5. CASE s = dgm /\ LeftOver(rx)
  <2> DEFINE d == DgmTaken(tcp[s], pend, flags[s], rx)
  <2>1. r.up = d.up
    BY <1>5 DEF Recvs, DgmRecvs, WithRead
  <2>2. ProcessRx(rx).is # "bad"
    BY <1>1, <1>2, <1>5
  <2>3. "broken" \notin d.up
    BY <1>1, <1>3, <2>2
  <2> QED
    BY <2>1, <2>3
<1>6. CASE s = dgm /\ ~LeftOver(rx)
  <2> DEFINE D(t) == DgmReceived(tcp[s], pend, flags[s], rx, t.is, Taken(in[s], t.n))
  <2>1. PICK t \in RecvResults(s, RxSpace(rx, RecvSize)) : r = WithRead(D(t), t.n)
    BY <1>6 DEF Recvs, DgmRecvs
  <2> DEFINE d == D(t)
             f == FlagsAfterRecv(tcp[s], t.is)
  <2>2. r.up = d.up
    BY <2>1 DEF WithRead
  <2>3. CASE t.is = "data"
    <3> DEFINE now == Taken(in[s], t.n)
               q == Cat(rx, now)
               rest == Rest(in[s], t.n)
    <3>1. now \in Seq(Octets) /\ rest \in Seq(Octets) /\ in[s] = Cat(now, rest)
      BY <1>1, SocketRecvTypes, CutFacts DEF Cat
    <3>2. d = DgmTaken(f, pend, flags[s], q) /\ "broken" \notin f
      BY <1>1, <2>3 DEF DgmReceived, Cat, FlagsAfterRecv
    <3> HIDE DEF now, rest, d, f
    <3>3. q \in Seq(Octets) /\ Cat(q, rest) = Cat(rx, in[s])
      BY <1>1, <3>1, CatType, CatAssoc
    <3> HIDE DEF q
    <3>4. ProcessRx(q).is # "bad"
      BY <1>2, <1>6, <3>1, <3>3
    <3> QED
      BY <1>3, <2>2, <3>2, <3>3, <3>4
  <2>4. CASE t.is = "fin" /\ rx # <<>>
    <3>1. s \in eof /\ in[s] = <<>>
      BY <2>4 DEF RecvResults
    <3>2. todo # <<>>
      <4>1. InStep(Cat(Cat(rx, <<>>), todo))
        BY <1>1, <1>6, <3>1 DEF InStepInv, Cat
      <4>2. Cat(rx, <<>>) = rx
        BY <1>1, CatEmpty
      <4>3. todo = <<>> => InStep(rx)
        BY <4>1, <4>2
      <4>4. ~InStep(rx)
        BY <1>1, <1>6, <2>4, OctetsAreTyped, WholeStreamIsLeftOver DEF LeftOver
      <4> QED
        BY <4>3, <4>4
    <3> QED
      BY <1>6, <3>1, <3>2 DEF Lost, Torn
  <2>5. CASE t.is \in {"fin", "again", "fatal"} /\ ~(t.is = "fin" /\ rx # <<>>)
    <3>1. d.up = AtxClone(f, pend)
      BY <2>5 DEF DgmReceived, DgmPassed
    <3>2. "broken" \in f
      BY <2>2, <3>1 DEF AtxClone
    <3>3. t.is = "fatal"
      BY <1>1, <2>5, <3>2 DEF FlagsAfterRecv
    <3> QED
      BY <3>3 DEF RecvResults, Lost
  <2> QED
    BY <2>3, <2>4, <2>5 DEF RecvResults, RecvOutcome
<1> QED
  BY <1>4, <1>5, <1>6

LEMMA ReportOfReturn == TypeOK /\ ControlInv /\ Return => ReportStep
<1> SUFFICES ASSUME TypeOK, ControlInv, Return
             PROVE  ReportStep
  OBVIOUS
<1> DEFINE s == cb.self
<1>1. /\ cb.at = "relay_out" /\ s \in Sides /\ ~Dead /\ reports = <<>> /\ Peer(s) \in Sides
      /\ flags = tcp
  BY InCallback, PeerFacts DEF Return, CallbackEnds
<1>2. CASE "broken" \in cb.events
  <2>1. Failed(s)
    BY <1>1, <1>2 DEF ControlInv, StageInv, BrokenInv
  <2> QED
    BY <1>1, <1>2, <2>1 DEF Return, CallbackEnds, Shutdown, ReportStep, Lost
<1>3. CASE "broken" \notin cb.events /\ {"fin_sent", "fin_rcvd"} \subseteq flags[Peer(s)]
  <2>1. "fin_sent" \in tcp[Peer(s)] /\ "fin_sent" \in tcp[s]
    BY <1>1, <1>3, PeerFacts DEF ControlInv, FinInv
  <2>2. shut = Sides
    BY <1>1, <2>1, TwoSides DEF ControlInv, FinInv
  <2> QED
    BY <1>1, <1>3, <2>2 DEF Return, CallbackEnds, Shutdown, ReportStep
<1>4. CASE "broken" \notin cb.events /\ ~({"fin_sent", "fin_rcvd"} \subseteq flags[Peer(s)])
  BY <1>4 DEF Return, CallbackEnds, ReportStep
<1> QED
  BY <1>2, <1>3, <1>4

-----------------------------------------------------------------------------
(* What the steps of TcpProxy are to an observer.                          *)

\* Octets that a pipe takes are the next ones of their stream.
LEMMA StreamsForward ==
  ASSUME TypeOK, PlainInv, StreamIntact', reports = <<>>, NEW d \in Sides, NEW t \in Seq(Item),
         Passed(d)' = Cat(Passed(d), t), \A e \in Sides : e # d => Passed(e)' = Passed(e),
         UNCHANGED <<sent, conn, eof, got, todo, dgm, shut, reports>>
  PROVE  Streams!Next
<1> DEFINE f == Passed(d)
           g == Cat(f, t)
           q == sent[Peer(d)]
<1>1. f \in Seq(Item) /\ g \in Seq(Item) /\ q \in Seq(Item) /\ Passed(d)' = g
  BY PassedTypes, PeerFacts, CatType
<1>2. IsPrefix(g, q)
  BY <1>1 DEF StreamIntact
<1>3. Fwd[d] = f /\ Fwd' = [Fwd EXCEPT ![d] = g]
  <2>1. Fwd' = [e \in Sides |-> Passed(e)']
    BY DEF Fwd
  <2>2. \A e \in Sides : Passed(e)' = IF e = d THEN g ELSE Fwd[e]
    BY <1>1 DEF Fwd
  <2>3. Fwd = [e \in Sides |-> Fwd[e]] /\ Fwd[d] = f
    BY DEF Fwd
  <2> HIDE DEF g, f
  <2> QED
    BY <2>1, <2>2, <2>3
<1> HIDE DEF f
<1>4. IsPrefix(f, g)
  BY <1>1, CatPrefix
<1> HIDE DEF g
<1>5. Len(g) \in 0..Len(q) /\ Taken(q, Len(g)) = g
  BY <1>1, <1>2, LenProperties DEF IsPrefix
<1>6. \E k \in 0..Len(q) : /\ IsPrefix(Fwd[d], Taken(q, k))
                           /\ Fwd' = [Fwd EXCEPT ![d] = Taken(q, k)]
  BY <1>3, <1>4, <1>5
<1>7. UNCHANGED <<Closed, Delivered, Lost>>
  BY HostsRest
<1>8. Streams!Forward(d)
  BY <1>6, <1>7, SameNames DEF Streams!Forward, Closed, Fwd, Delivered, Lost
<1> QED
  BY <1>8, SameNames DEF Streams!Next

LEMMA StreamsForwardFin ==
  ASSUME reports = <<>>, NEW d \in Sides, Peer(d) \in Closed, Passed(d) = sent[Peer(d)],
         shut' = shut \cup {d}, \A e \in Sides : Passed(e)' = Passed(e),
         UNCHANGED <<sent, conn, eof, got, todo, dgm, reports>>
  PROVE  Streams!Next
<1>1. UNCHANGED <<Closed, Fwd, Delivered, Lost>> /\ Fwd[d] = sent[Peer(d)]
  BY HostsRest, FwdRests DEF Fwd
<1>2. Streams!ForwardFin(d)
  BY <1>1, SameNames DEF Streams!ForwardFin, Closed, Fwd, Delivered, Lost
<1> QED
  BY <1>2, SameNames DEF Streams!Next

LEMMA StreamsSend ==
  ASSUME NEW s \in Sides, s \notin Closed, NEW o \in Item, sent' = [sent EXCEPT ![s] = Append(@, o)],
         UNCHANGED <<Closed, Fwd, Delivered, shut, Lost, reports>>
  PROVE  Streams!Next
<1>1. Streams!Send(s)
  BY DEF Streams!Send, Closed, Fwd, Delivered, Lost
<1> QED
  BY <1>1, SameNames DEF Streams!Next

LEMMA StreamsClose ==
  ASSUME NEW s \in Sides, Closed' = Closed \cup {s},
         UNCHANGED <<sent, Fwd, Delivered, shut, Lost, reports>>
  PROVE  Streams!Next
<1>1. Streams!Close(s)
  BY DEF Streams!Close, Closed, Fwd, Delivered, Lost
<1> QED
  BY <1>1, SameNames DEF Streams!Next

LEMMA StreamsLose ==
  ASSUME Lost \subseteq Lost', UNCHANGED <<sent, Closed, Fwd, Delivered, shut, reports>>
  PROVE  Streams!Next
<1>1. Lost' \in SUBSET Sides
  BY DEF Lost
<1>2. Streams!Lose
  BY <1>1, SameNames DEF Streams!Lose, Closed, Fwd, Delivered, Lost
<1> QED
  BY <1>2 DEF Streams!Next

\* The host of d takes the octet h that follows what it has heard.
LEMMA StreamsRead ==
  ASSUME NEW d \in Sides, NEW h \in Item, NEW later \in Seq(Item), Delivered[d] \in Seq(Item),
         Passed(d) = Cat(Append(Delivered[d], h), later),
         Delivered' = [Delivered EXCEPT ![d] = Append(@, h)],
         UNCHANGED <<sent, Closed, Fwd, shut, Lost, reports>>
  PROVE  Streams!Next
<1> DEFINE g == Delivered[d]
           f == Passed(d)
           p == Append(g, h)
<1>1. /\ Len(g) \in Nat /\ Len(later) \in Nat /\ p \in Seq(Item)
      /\ Len(p) = Len(g) + 1 /\ p[Len(g) + 1] = h
  BY LenProperties, AppendProperties
<1> HIDE DEF g, p
<1>2. Len(Cat(p, later)) = Len(p) + Len(later) /\ Cat(p, later)[Len(g) + 1] = p[Len(g) + 1]
  <2>1. Len(g) + 1 \in 1..Len(p)
    BY <1>1
  <2>2. Len(Cat(p, later)) = Len(p) + Len(later) /\ \A i \in 1..Len(p) : Cat(p, later)[i] = p[i]
    BY <1>1, CatAt
  <2> QED
    BY <2>1, <2>2
<1>3. f = Cat(p, later)
  BY DEF f, p, g
<1> HIDE DEF f
<1>4. Len(g) < Len(f) /\ f[Len(g) + 1] = h
  BY <1>1, <1>2, <1>3
<1>5. Fwd[d] = f
  BY DEF Fwd, f
<1>6. /\ Len(Delivered[d]) < Len(Fwd[d])
      /\ Delivered' = [Delivered EXCEPT ![d] = Append(@, Fwd[d][Len(Delivered[d]) + 1])]
  BY <1>4, <1>5 DEF g
<1>7. Streams!Read(d)
  BY <1>6 DEF Streams!Read, Closed, Fwd, Delivered, Lost
<1> QED
  BY <1>7, SameNames DEF Streams!Next

\* A host that goes on, or a connection that fails.
LEMMA StreamsOfNetwork ==
  ASSUME \A s \in Sides : Failed(s) => Failed(s)', \A s \in Sides : Passed(s)' = Passed(s),
         UNCHANGED <<sent, eof, got, todo, dgm, shut, reports>>
  PROVE  Streams!Next
<1>1. Lost \subseteq Lost' /\ UNCHANGED <<Closed, Fwd, Delivered>>
  BY FwdRests DEF Lost, Closed, Delivered, Torn
<1> QED
  BY <1>1, StreamsLose

LEMMA StreamsOfHostSending ==
  ASSUME TypeOK, HostSends(Plain), UNCHANGED <<todo, dgm, pend, reports>>
  PROVE  Streams!Next
<1>1. PICK s \in Sides : s = Plain /\ s # dgm
  BY PeerFacts DEF TypeOK, Plain
<1> DEFINE o == <<s, Len(sent[s]) + 1>>
<1>2. o \in Item
  <2>1. Len(sent[s]) \in Nat /\ MaxOctets[s] \in Nat /\ Len(sent[s]) < MaxOctets[s]
    BY <1>1, SocketAssumption, SeqTypes, LenProperties DEF HostSends
  <2>2. MaxOctets["l"] \in Nat /\ MaxOctets["r"] \in Nat
    BY SocketAssumption DEF Sides
  <2>3. Len(sent[s]) + 1 \in 1..(MaxOctets["l"] + MaxOctets["r"])
    BY <2>1, <2>2 DEF Sides
  <2> QED
    BY <2>3 DEF Item
<1>3. /\ sent' = [sent EXCEPT ![s] = Append(@, o)] /\ s \notin eof
      /\ UNCHANGED <<conn, eof, out, shut, got>>
  BY <1>1 DEF HostSends
<1> HIDE DEF o
<1>4. UNCHANGED <<Closed, Delivered, Lost>> /\ s \notin Closed
  BY <1>3, HostsRest DEF Closed
<1>5. UNCHANGED Fwd
  BY <1>3, FwdRests DEF Passed
<1> QED
  BY <1>2, <1>3, <1>4, <1>5, StreamsSend

\* A header octet from the other proxy goes unnoticed.
LEMMA StreamsOfPeerSending ==
  ASSUME TypeOK, PeerSends, UNCHANGED <<dgm, pend, reports>>
  PROVE  [Streams!Next]_(Streams!vars)
<1>1. PICK s \in Sides : s = dgm
  BY DEF TypeOK
<1>2. PICK q \in Seq(Octets) :
        Head(q) \in Octets /\ sent' = [sent EXCEPT ![s] = @ \o Payload(<<Head(q)>>)]
  BY <1>1, PeerSendsFrom
<1>3. dgm \notin eof /\ UNCHANGED <<conn, eof, out, shut, got>>
  BY DEF PeerSends
<1>4. s \notin Closed /\ UNCHANGED <<Closed, Delivered, Lost, Fwd>>
  <2>1. ~Torn /\ ~Torn'
    BY <1>3 DEF Torn
  <2>2. UNCHANGED Fwd
    BY <1>3, FwdRests DEF Passed
  <2> QED
    BY <1>1, <1>3, <2>1, <2>2 DEF Closed, Delivered, Lost, Failed
<1> DEFINE e == Head(q)
<1>5. Payload(<<e>>) = IF IsHeader(e) THEN <<>> ELSE <<e>>
  <2>1. e \in Octets /\ <<>> \in Seq(Octets)
    BY <1>2, EmptySeq
  <2>2. Append(<<>>, e) = <<e>>
    BY <2>1
  <2> HIDE DEF e
  <2>3. Payload(Append(<<>>, e)) = IF IsHeader(e) THEN Payload(<<>>) ELSE Append(Payload(<<>>), e)
    BY <2>1, PayloadAppend
  <2> QED
    BY <2>2, <2>3, PayloadEmpty
<1>6. sent[s] \in Seq(Octets) /\ sent \in [Sides -> Seq(Octets)]
  BY SeqTypes DEF TypeOK
<1>7. CASE IsHeader(e)
  <2>1. sent[s] \o <<>> = sent[s]
    BY <1>6, ConcatEmptySeq
  <2>2. sent' = sent
    BY <1>2, <1>5, <1>6, <1>7, <2>1
  <2> QED
    BY <1>3, <1>4, <2>2, StreamsStutter
<1>8. CASE ~IsHeader(e)
  <2>1. e \in Item
    BY <1>2, <1>8, ItemsAreCarried
  <2>2. sent[s] \o <<e>> = Append(sent[s], e)
    <3>1. e \in Octets
      BY <1>2
    <3> QED
      BY <1>6, <3>1, AppendIsConcat
  <2> HIDE DEF e
  <2>3. sent' = [sent EXCEPT ![s] = @ \o Payload(<<e>>)]
    BY <1>2 DEF e
  <2>4. sent' = [sent EXCEPT ![s] = Append(@, e)]
    BY <1>5, <1>6, <1>8, <2>2, <2>3
  <2> QED
    BY <1>3, <1>4, <2>1, <2>4, StreamsSend
<1> QED
  BY <1>7, <1>8

\* The other proxy that ends in the middle of a datagram counts as lost.
LEMMA StreamsOfClosing ==
  ASSUME TypeOK, NEW s \in Sides, HostCloses(s), UNCHANGED <<todo, dgm, pend, reports>>
  PROVE  Streams!Next
<1>1. s \notin eof /\ eof' = eof \cup {s} /\ UNCHANGED <<conn, out, shut, sent, got>>
  BY DEF HostCloses
<1>2. UNCHANGED <<Fwd, Delivered>>
  BY <1>1, FwdRests DEF Passed, Delivered
<1>3. CASE s = dgm /\ todo # <<>>
  <2>1. ~Torn /\ Torn'
    BY <1>1, <1>3 DEF Torn
  <2>2. Closed' = Closed /\ Lost \subseteq Lost'
    BY <1>1, <1>3, <2>1 DEF Closed, Lost, Failed
  <2> QED
    BY <1>1, <1>2, <2>2, StreamsLose
<1>4. CASE s # dgm \/ todo = <<>>
  <2>1. Torn' <=> Torn
    BY <1>1, <1>4 DEF Torn
  <2>2. Torn => s # dgm
    BY <1>4 DEF Torn
  <2>3. Closed' = Closed \cup {s} /\ Lost' = Lost
    BY <1>1, <2>1, <2>2 DEF Closed, Lost, Failed
  <2> QED
    BY <1>1, <1>2, <2>3, StreamsClose
<1> QED
  BY <1>3, <1>4

\* What has been heard, and what comes next.
LEMMA NextHeard ==
  ASSUME TypeOK, PlainInv, NEW s \in Sides, NEW h \in Octets, NEW rest \in Seq(Octets),
         Cat(<<h>>, rest) = out[s]
  PROVE  /\ Delivered[s] \in Seq(Item)
         /\ Payload(Append(got[s], h)) = IF IsHeader(h) THEN Delivered[s] ELSE Append(Delivered[s], h)
         /\ ~IsHeader(h) => \E later \in Seq(Item) : Passed(s) = Cat(Append(Delivered[s], h), later)
<1> DEFINE g == got[s]
           o == out[s]
<1>1. g \in Seq(Octets) /\ o \in Seq(Octets) /\ Delivered[s] = Payload(g) /\ pend \in Seq(Octets)
  BY SeqTypes DEF Delivered
<1>2. Payload(Append(g, h)) = IF IsHeader(h) THEN Payload(g) ELSE Append(Payload(g), h)
  <2> HIDE DEF g
  <2> QED
    BY <1>1, PayloadAppend
<1>3. Payload(g) \in Seq(Item)
  BY <1>1, PayloadIsItems
<1>4. ASSUME ~IsHeader(h), NEW k \in Seq(Octets), Passed(s) = Payload(Cat(Cat(g, o), k))
      PROVE  \E later \in Seq(Item) : Passed(s) = Cat(Append(Payload(g), h), later)
  <2> DEFINE p == Append(g, h)
             q == Cat(rest, k)
             later == Payload(q)
             f == Passed(s)
  <2>1. p \in Seq(Octets) /\ q \in Seq(Octets) /\ later \in Seq(Item)
    BY <1>1, AppendProperties, CatType, PayloadIsItems
  <2>2. Cat(Cat(g, o), k) = Cat(p, q)
    <3> DEFINE one == <<h>>
    <3>1. one \in Seq(Octets) /\ p = Cat(g, one) /\ Cat(one, rest) = o
      BY <1>1, AppendIsConcat DEF Cat
    <3> HIDE DEF one, g, o, p
    <3>2. Cat(Cat(g, one), rest) = Cat(g, Cat(one, rest))
      BY <1>1, <3>1, CatAssoc
    <3>3. Cat(Cat(p, rest), k) = Cat(p, Cat(rest, k))
      BY <1>4, <2>1, CatAssoc
    <3> QED
      BY <3>1, <3>2, <3>3
  <2>3. f = Payload(Cat(Cat(g, o), k))
    BY <1>4
  <2> HIDE DEF f, g, o
  <2>4. f = Payload(Cat(p, q))
    BY <2>2, <2>3
  <2>5. Payload(p) = Append(Payload(g), h)
    BY <1>2, <1>4
  <2> HIDE DEF p, q
  <2>6. Payload(Cat(p, q)) = Cat(Payload(p), Payload(q))
    BY <2>1, PayloadCat DEF Cat
  <2>7. f = Cat(Append(Payload(g), h), later)
    BY <2>4, <2>5, <2>6
  <2> HIDE DEF later
  <2>8. \E l \in Seq(Item) : f = Cat(Append(Payload(g), h), l)
    BY <2>1, <2>7
  <2> QED
    BY <2>8 DEF f
<1>5. \E k \in Seq(Octets) : Passed(s) = Payload(Cat(Cat(g, o), k))
  <2>1. CASE s = dgm
    BY <1>1, <2>1 DEF Passed, Cat
  <2>2. CASE s # dgm
    <3>1. g \in Seq(Item) /\ o \in Seq(Item) /\ Passed(s) = Cat(g, o)
      <4>1. s = Plain
        BY <2>2, PassedTypes
      <4> QED
        BY <2>2, <4>1 DEF PlainInv, Passed, Cat
    <3> DEFINE f == Passed(s)
               c == Cat(g, o)
    <3> HIDE DEF g, o
    <3>2. c \in Seq(Item) /\ c \in Seq(Octets) /\ <<>> \in Seq(Octets)
      BY <1>1, <3>1, CatType, ItemsAreCarried
    <3>3. f = c
      BY <3>1
    <3> HIDE DEF c, f
    <3>4. Cat(c, <<>>) = c /\ Payload(c) = c
      BY <3>2, CatEmpty, PlainStream, PayloadOfPlain
    <3>5. f = Payload(Cat(c, <<>>))
      BY <3>3, <3>4
    <3>6. \E k \in Seq(Octets) : f = Payload(Cat(c, k))
      BY <3>2, <3>5
    <3> QED
      BY <3>6 DEF f, c
  <2> QED
    BY <2>1, <2>2
<1> HIDE DEF g, o
<1>6. ~IsHeader(h) => \E later \in Seq(Item) : Passed(s) = Cat(Append(Payload(g), h), later)
  BY <1>4, <1>5
<1>7. Delivered[s] = Payload(g)
  BY <1>1
<1>8. ~IsHeader(h) => \E later \in Seq(Item) : Passed(s) = Cat(Append(Delivered[s], h), later)
  BY <1>6, <1>7
<1> QED
  BY <1>2, <1>3, <1>7, <1>8 DEF g

LEMMA StreamsOfReading ==
  ASSUME TypeOK, PlainInv, NEW s \in Sides, HostReads(s), UNCHANGED <<todo, dgm, pend, reports>>
  PROVE  [Streams!Next]_(Streams!vars)
<1> DEFINE h == Head(out[s])
           rest == Tail(out[s])
<1>1. /\ out[s] \in Seq(Octets) /\ out[s] # <<>>
      /\ got' = [got EXCEPT ![s] = Append(@, h)] /\ got \in [Sides -> Seq(Octets)]
      /\ UNCHANGED <<conn, in, eof, shut, sent>>
  BY DEF HostReads, TypeOK
<1>2. h \in Octets /\ rest \in Seq(Octets) /\ Cat(<<h>>, rest) = out[s]
  <2>1. Len(out[s]) \in Nat \ {0}
    BY <1>1, EmptySeq
  <2> QED
    BY <1>1, <2>1, HeadTailProperties DEF Cat
<1> HIDE DEF h, rest
<1>3. UNCHANGED <<Closed, Lost, Fwd>>
  <2>1. UNCHANGED Fwd
    BY FwdRests, HostReadsPassed
  <2> QED
    BY <1>1, <2>1 DEF Closed, Lost, Torn, Failed
<1>4. /\ Delivered[s] \in Seq(Item)
      /\ Payload(Append(got[s], h)) = IF IsHeader(h) THEN Delivered[s] ELSE Append(Delivered[s], h)
      /\ ~IsHeader(h) => \E later \in Seq(Item) : Passed(s) = Cat(Append(Delivered[s], h), later)
  BY <1>2, NextHeard
<1>5. Delivered' = [Delivered EXCEPT ![s] = Payload(Append(got[s], h))]
  <2>1. Delivered' = [d \in Sides |-> Payload(got'[d])]
    BY DEF Delivered
  <2>2. \A d \in Sides : got'[d] = IF d = s THEN Append(got[s], h) ELSE got[d]
    BY <1>1
  <2> QED
    BY <2>1, <2>2 DEF Delivered
<1>6. CASE IsHeader(h)
  <2>1. Delivered' = Delivered
    BY <1>4, <1>5, <1>6 DEF Delivered
  <2> QED
    BY <1>1, <1>3, <2>1, StreamsStutter
<1>7. CASE ~IsHeader(h)
  <2>1. h \in Item
    BY <1>2, <1>7, ItemsAreCarried
  <2>2. Delivered' = [Delivered EXCEPT ![s] = Append(@, h)]
    BY <1>4, <1>5, <1>7
  <2>3. PICK later \in Seq(Item) : Passed(s) = Cat(Append(Delivered[s], h), later)
    BY <1>4, <1>7
  <2> QED
    BY <1>1, <1>3, <1>4, <2>1, <2>2, <2>3, StreamsRead
<1> QED
  BY <1>6, <1>7

-----------------------------------------------------------------------------
(* The steps.                                                              *)

\* A pipe that is broken by send() has taken nothing.
LEMMA StreamsOfPassing ==
  ASSUME TypeOK, ControlInv, StreamInv, StreamInv', cb.at # "idle",
         NEW d \in Sides, "writable" \in flags[d], NEW data \in Seq(Item), NEW w \in Sends(d, data),
         out' = [out EXCEPT ![d] = @ \o w.put], pend' = w.pend,
         NEW stage, NEW b \in BOOLEAN, b => "broken" \in w.up, Proceed(stage, b),
         UNCHANGED <<sent, conn, eof, got, todo, dgm, shut>>
  PROVE  [Streams!Next]_(Streams!vars)
<1>1. reports = <<>> /\ flags = tcp /\ "broken" \notin tcp[d] /\ data \in Seq(Octets)
  BY InCallback, ItemsAreCarried
<1>2. PlainInv /\ FramesAreWhole /\ StreamIntact'
  BY DEF StreamInv, FrameInv
<1>3. /\ Passed(d)' = Cat(Passed(d), Taken(data, w.n))
      /\ \A e \in Sides : e # d => Passed(e)' = Passed(e)
      /\ w.n \in 0..Len(data)
  BY <1>2, SendPasses
<1>4. "broken" \in w.up => Failed(d) /\ w.n = 0
  BY <1>1, SendBits
<1>5. CASE "broken" \in w.up
  <2>1. Lost # {} /\ w.n = 0
    BY <1>4, <1>5 DEF Lost
  <2>2. ReportStep
    BY <1>1, <2>1, ReportMade
  <2>3. Passed(d) \in Seq(Item) /\ Taken(data, 0) = <<>>
    BY <1>2, PassedTypes, CutAtEnds
  <2>4. Passed(d)' = Passed(d)
    <3>1. \A x \in Seq(Item) : Cat(x, <<>>) = x
      BY CatEmpty
    <3> QED
      BY <1>3, <2>1, <2>3, <3>1
  <2>5. \A e \in Sides : Passed(e)' = Passed(e)
    BY <1>3, <2>4
  <2> QED
    BY <2>2, <2>5, StreamsFinish
<1>6. CASE "broken" \notin w.up
  <2> DEFINE t == Taken(data, w.n)
  <2>1. t \in Seq(Item)
    BY <1>3, CutFacts
  <2>2. reports' = reports
    BY <1>6 DEF Proceed, GoTo
  <2>3. Passed(d)' = Cat(Passed(d), t)
    BY <1>3
  <2> HIDE DEF t
  <2> QED
    BY <1>1, <1>2, <1>3, <2>1, <2>2, <2>3, StreamsForward
<1> QED
  BY <1>5, <1>6

LEMMA StreamsOfFlushing ==
  TypeOK /\ ControlInv /\ StreamInv /\ StreamInv' /\ Flush => [Streams!Next]_(Streams!vars)
<1> SUFFICES ASSUME TypeOK, ControlInv, StreamInv, StreamInv', Flush
             PROVE  [Streams!Next]_(Streams!vars)
  OBVIOUS
<1>1. PICK d \in Sides : d = cb.self
  BY DEF TypeOK, Activation
<1> DEFINE q == pending[d]
<1>2. PICK w \in Sends(d, q) :
        /\ out' = [out EXCEPT ![d] = @ \o w.put]
        /\ pend' = w.pend
        /\ Flushed(w.n, w.up)
  BY <1>1 DEF Flush
<1>3. UNCHANGED <<sent, conn, eof, got, todo, dgm, shut>> /\ cb.at # "idle"
  BY DEF Flush
<1>4. "writable" \in flags[d] /\ q \in Seq(Item)
  BY <1>1 DEF Flush, ControlInv, StageInv, StreamInv, FrameInv, PlainInv
<1> HIDE DEF q
<1>5. Proceed("relay_in", "broken" \in w.up)
  BY <1>2 DEF Flushed
<1> DEFINE b == "broken" \in w.up
<1>6. Proceed("relay_in", b) /\ b \in BOOLEAN /\ (b => "broken" \in w.up)
  BY <1>5
<1> HIDE DEF b
<1> QED
  BY <1>2, <1>3, <1>4, <1>6, StreamsOfPassing

LEMMA StreamsOfRelayingData ==
  TypeOK /\ ControlInv /\ StreamInv /\ StreamInv' /\ RelayData => [Streams!Next]_(Streams!vars)
<1> SUFFICES ASSUME TypeOK, ControlInv, StreamInv, StreamInv', RelayData
             PROVE  [Streams!Next]_(Streams!vars)
  OBVIOUS
<1>1. PICK s \in Sides, d \in Sides : s = Src /\ d = Dst
  BY SrcDst DEF TypeOK
<1>2. PICK r \in Recvs(s) :
        /\ r.is = "data"
        /\ \E w \in Sends(d, r.data) :
             /\ in' = [in EXCEPT ![s] = Rest(@, r.read)]
             /\ out' = [out EXCEPT ![d] = @ \o w.put]
             /\ rx' = r.rx /\ pend' = w.pend
             /\ RelayedData(r.data, w.n, w.up)
  BY <1>1 DEF RelayData
<1>3. PICK w \in Sends(d, r.data) :
        /\ in' = [in EXCEPT ![s] = Rest(@, r.read)]
        /\ out' = [out EXCEPT ![d] = @ \o w.put]
        /\ rx' = r.rx /\ pend' = w.pend
        /\ RelayedData(r.data, w.n, w.up)
  BY <1>2
<1>4. InRelay /\ Relaying /\ UNCHANGED <<sent, conn, eof, got, todo, dgm, shut>>
  BY DEF RelayData
<1>5. /\ cb.at # "idle" /\ ~Dead /\ "readable" \in flags[s] /\ "writable" \in flags[d]
      /\ flags = tcp /\ "broken" \notin tcp[s]
  BY <1>1, <1>4, RelayPass
<1>6. "broken" \notin r.up /\ (s # dgm => r.rx = rx)
  BY <1>2, <1>5, RecvBits
<1>7. r.data \in Seq(Item)
  BY <1>3, <1>4, <1>5, <1>6, RecvTakes DEF StreamInv, FrameInv
<1> DEFINE b == w.n < Len(r.data) /\ "broken" \in w.up
<1>8. Proceed(cb.at, b) /\ b \in BOOLEAN /\ (b => "broken" \in w.up)
  BY <1>3 DEF RelayedData
<1> HIDE DEF b
<1> QED
  BY <1>3, <1>4, <1>5, <1>7, <1>8, StreamsOfPassing

LEMMA StreamsOfRelayingNothing ==
  TypeOK /\ ControlInv /\ StreamInv /\ TodoInv /\ RelayNothing => [Streams!Next]_(Streams!vars)
<1> SUFFICES ASSUME TypeOK, ControlInv, StreamInv, TodoInv, RelayNothing
             PROVE  [Streams!Next]_(Streams!vars)
  OBVIOUS
<1>1. PICK s \in Sides, d \in Sides : s = Src /\ d = Dst
  BY SrcDst DEF TypeOK
<1>2. PICK r \in Recvs(s) : r.is = "nothing" /\ RelayedNothing(r.up)
  BY <1>1 DEF RelayNothing
<1>3. InRelay /\ Relaying /\ UNCHANGED <<sent, conn, eof, got, todo, dgm, shut, out, pend>>
  BY DEF RelayNothing
<1>4. cb.at # "idle" /\ reports = <<>> /\ "readable" \in flags[s]
  BY <1>1, <1>3, RelayPass
<1>5. "broken" \in r.up => s \in Lost
  BY <1>2, <1>4, RecvBreaks DEF StreamInv, FrameInv
<1> DEFINE b == "broken" \in r.up
<1>6. Proceed(cb.at, b) /\ b \in BOOLEAN /\ (b => Lost # {})
  BY <1>2, <1>5 DEF RelayedNothing
<1> HIDE DEF b
<1>7. ReportStep
  BY <1>4, <1>6, ReportMade
<1>8. \A e \in Sides : Passed(e)' = Passed(e)
  BY <1>3 DEF Passed
<1> QED
  BY <1>3, <1>7, <1>8, StreamsFinish

\* The octets of the other proxy are in step, so that what is missing of a
\* datagram cannot begin one.
LEMMA NotTorn ==
  ASSUME TypeOK, TodoInv, InStep(todo)
  PROVE  todo = <<>>
<1> SUFFICES ASSUME todo # <<>>
             PROVE  FALSE
  OBVIOUS
<1>1. todo \in Seq(Octets) /\ 1 \in DOMAIN todo
  <2>1. todo \in Seq(Octets)
    BY DEF TypeOK
  <2> QED
    BY <2>1, EmptySeq, LenProperties
<1>2. IsHeader(todo[1])
  BY <1>1 DEF InStep, WellFramed
<1>3. todo[1][1] = "last" /\ HdrLen(todo[1][2]) = 2
  BY <1>1, <1>2 DEF TodoInv
<1> QED
  BY <1>1, <1>3 DEF InStep

\* FIN follows the last octet of a stream, and no datagram that was cut off.
LEMMA StreamsOfRelayingFin ==
  TypeOK /\ ControlInv /\ StreamInv /\ TodoInv /\ RelayFin => [Streams!Next]_(Streams!vars)
<1> SUFFICES ASSUME TypeOK, ControlInv, StreamInv, TodoInv, RelayFin
             PROVE  [Streams!Next]_(Streams!vars)
  OBVIOUS
<1>1. PICK s \in Sides, d \in Sides : s = Src /\ d = Dst
  BY SrcDst DEF TypeOK
<1>2. PICK r \in Recvs(s) : r.is = "fin" /\ RelayedFin(Fin(d).up)
  BY <1>1 DEF RelayFin
<1>3. /\ InRelay /\ Relaying /\ UNCHANGED <<sent, conn, eof, got, todo, dgm, out, pend>>
      /\ shut' = IF "fin_sent" \in Fin(d).tcp THEN shut \cup {d} ELSE shut
  BY <1>1 DEF RelayFin
<1>4. /\ cb.at # "idle" /\ reports = <<>> /\ "readable" \in flags[s] /\ "writable" \in flags[d]
      /\ Peer(d) = s /\ "broken" \notin tcp[d] /\ "fin_sent" \notin tcp[d]
      /\ pending[d] = <<>> /\ ~Dead
  BY <1>1, <1>3, RelayPass
<1>5. /\ Fin(d).tcp = IF Failed(d) THEN TagBroken(tcp[d])
                      ELSE (tcp[d] \ {"writable"}) \cup {"fin_sent"}
      /\ Fin(d).up = Fin(d).tcp
  BY <1>4, FinBits
<1>6. \A e \in Sides : Passed(e)' = Passed(e)
  BY <1>3 DEF Passed
<1>7. CASE Failed(d)
  <2>1. "fin_sent" \notin Fin(d).tcp
    BY <1>4, <1>5, <1>7 DEF TagBroken
  <2> DEFINE b == "broken" \in Fin(d).up
  <2>2. Proceed(cb.at, b) /\ b \in BOOLEAN /\ (b => Lost # {})
    BY <1>2, <1>7 DEF RelayedFin, Lost
  <2> HIDE DEF b
  <2>3. ReportStep
    BY <1>4, <2>2, ReportMade
  <2> QED
    BY <1>3, <1>6, <2>1, <2>3, StreamsFinish
<1>8. CASE ~Failed(d)
  <2>1. shut' = shut \cup {d} /\ "broken" \notin Fin(d).up
    BY <1>3, <1>4, <1>5, <1>8
  <2>2. reports' = reports
    BY <1>2, <2>1 DEF RelayedFin, Proceed, GoTo
  <2>3. s \in eof /\ in[s] = <<>> /\ (s = dgm => rx = <<>>)
    BY <1>2, <1>4, RecvBits
  <2>4. <<>> \in Seq(Octets) /\ <<>> \o <<>> = <<>>
    BY EmptySeq, CatEmpty DEF Cat
  <2>5. s \in Closed
    <3>1. CASE s = dgm
      <4>1. InStep(<<>> \o <<>> \o todo) /\ todo \in Seq(Octets)
        BY <1>4, <2>3, <3>1 DEF StreamInv, FrameInv, InStepInv, TypeOK
      <4>2. <<>> \o todo = todo
        BY <4>1, CatEmpty DEF Cat
      <4>3. InStep(todo)
        BY <2>4, <4>1, <4>2
      <4>4. ~Torn
        BY <4>3, NotTorn DEF Torn
      <4> QED
        BY <2>3, <4>4 DEF Closed
    <3> QED
      BY <2>3, <3>1 DEF Closed
  <2>6. Received(s) = <<>>
    BY <2>3, <2>4, PayloadEmpty DEF Received
  <2>7. Passed(d) = sent[s]
    <3>1. Passed(d) \o <<>> \o <<>> = sent[s]
      BY <1>4, <2>6 DEF StreamInv, StreamIntact
    <3>2. Passed(d) \in Seq(Item)
      BY PassedTypes DEF StreamInv, FrameInv
    <3> DEFINE p == Passed(d)
    <3> HIDE DEF p
    <3>3. ASSUME p \in Seq(Item) PROVE p \o <<>> = p
      BY <3>3, CatEmpty DEF Cat
    <3> QED
      BY <3>1, <3>2, <3>3 DEF p
  <2> QED
    BY <1>3, <1>4, <1>6, <2>1, <2>2, <2>5, <2>7, StreamsForwardFin
<1> QED
  BY <1>7, <1>8

\* Steps that move no octets.
LEMMA StreamsOfWaiting ==
  ASSUME TypeOK, ControlInv,
         Select \/ DispatchPlain \/ DispatchDgm \/ RelayTurns \/ Return \/ UNCHANGED vars
  PROVE  [Streams!Next]_(Streams!vars)
<1>1. UNCHANGED <<sent, conn, eof, got, todo, dgm, shut, out, pend>>
  BY DEF Select, DispatchPlain, DispatchDgm, AtxCalls, AtxNothingToFlush, RelayTurns, Return,
     vars, hostVars, sockVars, pipeVars
<1>2. ReportStep
  <2>1. CASE Return
    BY <2>1, ReportOfReturn
  <2>2. CASE Select \/ DispatchPlain \/ DispatchDgm \/ RelayTurns \/ UNCHANGED vars
    <3>1. reports' = reports
      BY <2>2 DEF Select, DispatchPlain, DispatchDgm, AtxCalls, BridgeCalled, RelayTurns,
         RelayInEnds, GoTo, vars, bridgeVars
    <3> QED
      BY <3>1 DEF ReportStep
  <2> QED
    BY <2>1, <2>2
<1>3. \A e \in Sides : Passed(e)' = Passed(e)
  BY <1>1 DEF Passed
<1> QED
  BY <1>1, <1>2, <1>3, StreamsFinish

\* What the atx_pipe sends by itself it has accepted before.
LEMMA StreamsOfKept ==
  ASSUME TypeOK, ControlInv, DispatchDgmFlush
  PROVE  [Streams!Next]_(Streams!vars)
<1>1. shut' = shut
  BY DEF DispatchDgmFlush, ControlInv, LinkInv
<1>2. UNCHANGED <<sent, conn, eof, got, todo, dgm, reports>> /\ \A e \in Sides : Passed(e)' = Passed(e)
  BY KeptIsPassed
<1>3. ReportStep
  BY <1>2 DEF ReportStep
<1> QED
  BY <1>1, <1>2, <1>3, StreamsFinish

LEMMA StreamsOfHostMoves ==
  ASSUME TypeOK, PlainInv, HostActs
  PROVE  [Streams!Next]_(Streams!vars)
<1>1. UNCHANGED <<dgm, pend, reports, shut>>
  BY HostsGoOn DEF pipeVars, bridgeVars
<1>2. ASSUME NEW s \in Sides, Connected(s) \/ Refused(s) \/ ConnectionLost(s), todo' = todo
      PROVE  Streams!Next
  <2>1. UNCHANGED <<sent, eof, got, out>>
    BY <1>2 DEF Connected, Refused, ConnectionLost
  <2>2. \A e \in Sides : Passed(e)' = Passed(e)
    BY <1>1, <2>1 DEF Passed
  <2>3. \A e \in Sides : Failed(e) => Failed(e)'
    BY HostsGoOn
  <2> QED
    BY <1>1, <1>2, <2>1, <2>2, <2>3, StreamsOfNetwork
<1>3. ASSUME NEW s \in Sides, HostReads(s), todo' = todo
      PROVE  [Streams!Next]_(Streams!vars)
  BY <1>1, <1>3, StreamsOfReading
<1>4. CASE HostSends(Plain) /\ todo' = todo
  BY <1>1, <1>4, StreamsOfHostSending
<1>5. ASSUME NEW s \in Sides, HostCloses(s), todo' = todo
      PROVE  Streams!Next
  BY <1>1, <1>5, StreamsOfClosing
<1>6. CASE PeerSends
  BY <1>1, <1>6, StreamsOfPeerSending
<1> QED
  BY <1>2, <1>3, <1>4, <1>5, <1>6 DEF HostActs

LEMMA StreamsOfExit ==
  ASSUME TypeOK, Exit
  PROVE  Streams!Next
<1>1. UNCHANGED <<sent, eof, got, todo, dgm, shut, reports, out, pend>>
  BY DEF Exit, pipeVars, bridgeVars
<1>2. \A e \in Sides : Failed(e) => Failed(e)'
  BY DEF Exit, Failed, TypeOK
<1>3. \A e \in Sides : Passed(e)' = Passed(e)
  BY <1>1 DEF Passed
<1> QED
  BY <1>1, <1>2, <1>3, StreamsOfNetwork

LEMMA StreamsOfStep ==
  ASSUME IndInv, IndInv', [Next]_vars
  PROVE  [Streams!Next]_(Streams!vars)
<1>1. TypeOK /\ ControlInv /\ StreamInv /\ StreamInv' /\ TodoInv /\ PlainInv
  BY DEF IndInv, StreamInv, FrameInv
<1>2. CASE Select \/ DispatchPlain \/ DispatchDgm \/ RelayTurns \/ Return \/ UNCHANGED vars
  BY <1>1, <1>2, StreamsOfWaiting
<1>3. CASE DispatchDgmFlush \/ HostActs \/ Exit
  BY <1>1, <1>3, StreamsOfKept, StreamsOfHostMoves, StreamsOfExit
<1>4. CASE Flush \/ RelayNothing \/ RelayFin \/ RelayData
  BY <1>1, <1>4, StreamsOfFlushing, StreamsOfRelayingNothing, StreamsOfRelayingFin,
     StreamsOfRelayingData
<1> QED
  BY <1>2, <1>3, <1>4 DEF Next, Proxy, Terminated

\* Every behaviour of the proxy, with its frames, its three pipes on one side
\* and datagrams that come in pieces, is a behaviour of the pair of streams
\* that StreamRelay describes, and that tcp-relay implements too.
THEOREM ProxyImplementsStreams == Spec => ImplementsStreams
<1>1. Init => Streams!Init
  <2> SUFFICES ASSUME Init
               PROVE  Streams!Init
    OBVIOUS
  <2>1. \A d \in Sides : Passed(d) = <<>> /\ Payload(got[d]) = <<>>
    <3>1. <<>> \o <<>> = <<>>
      BY EmptySeq, CatEmpty DEF Cat
    <3> QED
      BY <3>1, PayloadEmpty DEF Init, SocketsInit, Passed
  <2>2. Fwd = [s \in Sides |-> <<>>] /\ Delivered = [s \in Sides |-> <<>>]
    BY <2>1 DEF Fwd, Delivered
  <2>3. Lost = {} /\ Closed = {}
    BY DEF Init, SocketsInit, Lost, Closed, Failed, Torn
  <2> QED
    BY <2>2, <2>3, SameNames DEF Streams!Init, Init, SocketsInit, BridgeInit, Fwd, Delivered, Lost, Closed
<1>2. IndInv /\ IndInv' /\ [Next]_vars => [Streams!Next]_(Streams!vars)
  BY StreamsOfStep
<1> QED
  BY <1>1, <1>2, InvariantHolds, PTL DEF Spec, ImplementsStreams, Streams!Spec

-----------------------------------------------------------------------------
(* How it ends, as an observer sees it: first of StreamRelay.              *)

LEMMA StreamsHoldItems ==
  Streams!Spec => [](/\ sent \in [Sides -> Seq(Item)]
                     /\ Fwd \in [Sides -> Seq(Item)])
<1> DEFINE Typed == sent \in [Sides -> Seq(Item)] /\ Fwd \in [Sides -> Seq(Item)]
<1>1. Streams!Init => Typed
  <2>1. <<>> \in Seq(Item)
    BY EmptySeq
  <2> QED
    BY <2>1, SameNames DEF Streams!Init, Fwd
<1>2. Typed /\ [Streams!Next]_(Streams!vars) => Typed'
  <2> SUFFICES ASSUME Typed, [Streams!Next]_(Streams!vars)
               PROVE  Typed'
    OBVIOUS
  <2>1. CASE UNCHANGED <<sent, Fwd>>
    BY <2>1
  <2>2. ASSUME NEW s \in Sides, Streams!Send(s)
        PROVE  Typed'
    <3>1. PICK o \in Item : sent' = [sent EXCEPT ![s] = Append(@, o)]
      BY <2>2 DEF Streams!Send
    <3>2. Append(sent[s], o) \in Seq(Item) /\ Fwd' = Fwd
      BY <2>2, AppendProperties DEF Streams!Send, Fwd
    <3> QED
      BY <3>1, <3>2
  <2>3. ASSUME NEW d \in Sides, Streams!Forward(d)
        PROVE  Typed'
    <3>1. PICK k \in 0..Len(sent[Peer(d)]) :
            Fwd' = [Fwd EXCEPT ![d] = Taken(sent[Peer(d)], k)] /\ sent' = sent
      BY <2>3, SameNames DEF Streams!Forward, Fwd
    <3>2. Taken(sent[Peer(d)], k) \in Seq(Item)
      BY PeerFacts, CutFacts
    <3> QED
      BY <3>1, <3>2
  <2>4. ASSUME NEW s \in Sides, Streams!Close(s) \/ Streams!ForwardFin(s) \/ Streams!Read(s)
        PROVE  UNCHANGED <<sent, Fwd>>
    BY <2>4 DEF Streams!Close, Streams!ForwardFin, Streams!Read, Fwd
  <2>5. ASSUME Streams!Lose \/ Streams!Finish \/ UNCHANGED Streams!vars
        PROVE  UNCHANGED <<sent, Fwd>>
    BY <2>5 DEF Streams!Lose, Streams!Finish, Streams!vars, Fwd
  <2> QED
    BY <2>1, <2>2, <2>3, <2>4, <2>5, SameNames DEF Streams!Next
<1> QED
  BY <1>1, <1>2, PTL DEF Streams!Spec

\* Whatever relays in this way never ends a stream early, never adds to one
\* that has ended, and reports what has happened.
THEOREM StreamsEndProperly == Streams!Spec => []Streams!EndsProperly
<1> DEFINE Typed == sent \in [Sides -> Seq(Item)] /\ Fwd \in [Sides -> Seq(Item)]
           Ends == /\ reports \in {<<>>, <<"graceful">>, <<"failed">>}
                   /\ reports = <<"graceful">> => shut = Sides
                   /\ reports = <<"failed">> => Lost # {}
                   /\ shut \subseteq Sides
                   /\ \A d \in shut : Peer(d) \in Closed /\ Fwd[d] = sent[Peer(d)]
<1>1. Streams!EndsProperly <=> Ends
  BY SameNames DEF Streams!EndsProperly, Closed, Fwd, Lost
<1>2. Streams!Init => Ends
  BY DEF Streams!Init
<1>3. Typed /\ Ends /\ [Streams!Next]_(Streams!vars) => Ends'
  <2> SUFFICES ASSUME Typed, Ends, [Streams!Next]_(Streams!vars)
               PROVE  Ends'
    OBVIOUS
  <2>1. CASE UNCHANGED Streams!vars
    BY <2>1 DEF Streams!vars, Closed, Fwd, Lost
  <2>2. ASSUME NEW s \in Sides, Streams!Send(s)
        PROVE  Ends'
    <3>1. UNCHANGED <<Closed, Fwd, shut, Lost, reports>> /\ s \notin Closed
      BY <2>2 DEF Streams!Send, Closed, Fwd, Lost
    <3>2. \A t \in Sides : t # s => sent'[t] = sent[t]
      BY <2>2 DEF Streams!Send
    <3>3. \A d \in shut : sent'[Peer(d)] = sent[Peer(d)]
      BY <3>1, <3>2, PeerFacts
    <3> QED
      BY <3>1, <3>3
  <2>3. ASSUME NEW s \in Sides, Streams!Close(s)
        PROVE  Ends'
    <3>1. UNCHANGED <<sent, Fwd, shut, Lost, reports>> /\ Closed' = Closed \cup {s}
      BY <2>3 DEF Streams!Close, Closed, Fwd, Lost
    <3> QED
      BY <3>1
  <2>4. ASSUME NEW d \in Sides, Streams!Forward(d)
        PROVE  Ends'
    <3>1. PICK k \in 0..Len(sent[Peer(d)]) :
            /\ IsPrefix(Fwd[d], Taken(sent[Peer(d)], k))
            /\ Fwd' = [Fwd EXCEPT ![d] = Taken(sent[Peer(d)], k)]
      BY <2>4, SameNames DEF Streams!Forward, Fwd
    <3>2. UNCHANGED <<sent, Closed, shut, Lost, reports>>
      BY <2>4 DEF Streams!Forward, Closed, Lost
    <3>3. d \in shut => Fwd'[d] = sent[Peer(d)]
      <4> SUFFICES ASSUME d \in shut
                   PROVE  Fwd'[d] = sent[Peer(d)]
        OBVIOUS
      <4> DEFINE q == sent[Peer(d)]
      <4>1. q \in Seq(Item) /\ IsPrefix(q, Taken(q, k)) /\ Len(q) \in Nat
        BY <3>1, PeerFacts, LenProperties
      <4> HIDE DEF q
      <4>2. Len(Taken(q, k)) = k
        BY <3>1, <4>1, CutFacts DEF q
      <4>3. k = Len(q)
        BY <3>1, <4>1, <4>2 DEF IsPrefix, q
      <4>4. Taken(q, k) = q
        BY <4>1, <4>3, CutAtEnds
      <4> QED
        BY <3>1, <4>4 DEF q
    <3>4. \A e \in Sides : e # d => Fwd'[e] = Fwd[e]
      BY <3>1
    <3> QED
      BY <3>2, <3>3, <3>4
  <2>5. ASSUME NEW d \in Sides, Streams!ForwardFin(d)
        PROVE  Ends'
    <3>1. /\ reports = <<>> /\ Peer(d) \in Closed /\ Fwd[d] = sent[Peer(d)]
          /\ shut' = shut \cup {d} /\ UNCHANGED <<sent, Closed, Fwd, Lost, reports>>
      BY <2>5, SameNames DEF Streams!ForwardFin, Closed, Fwd, Lost
    <3> QED
      BY <3>1
  <2>6. ASSUME NEW d \in Sides, Streams!Read(d)
        PROVE  Ends'
    BY <2>6 DEF Streams!Read, Closed, Fwd, Lost
  <2>7. CASE Streams!Lose
    <3>1. UNCHANGED <<sent, Closed, Fwd, shut, reports>> /\ Lost \subseteq Lost'
      BY <2>7 DEF Streams!Lose, Closed, Fwd, Lost
    <3> QED
      BY <3>1
  <2>8. CASE Streams!Finish
    <3>1. /\ UNCHANGED <<sent, Closed, Fwd, shut, Lost>> /\ reports = <<>>
          /\ \/ shut = Sides /\ reports' = <<"graceful">>
             \/ Lost # {} /\ reports' = <<"failed">>
      BY <2>8, SameNames DEF Streams!Finish, Closed, Fwd, Lost
    <3> QED
      BY <3>1
  <2> QED
    BY <2>1, <2>2, <2>3, <2>4, <2>5, <2>6, <2>7, <2>8, SameNames DEF Streams!Next
<1> QED
  BY <1>1, <1>2, <1>3, StreamsHoldItems, PTL DEF Streams!Spec

\* The same of the proxy: FIN follows the last octet and no datagram that was
\* cut off, and the report tells whether a connection was lost.
THEOREM ReportsAreTrue == Spec => []ReportsInv
<1>1. Streams!EndsProperly => ReportsInv
  <2> SUFFICES ASSUME Streams!EndsProperly
               PROVE  ReportsInv
    OBVIOUS
  <2>1. /\ reports \in {<<>>, <<"graceful">>, <<"failed">>}
        /\ reports = <<"graceful">> => shut = Sides
        /\ reports = <<"failed">> => Lost # {}
        /\ shut \subseteq Sides
        /\ \A d \in shut : Peer(d) \in Closed /\ Fwd[d] = sent[Peer(d)]
    BY SameNames DEF Streams!EndsProperly, Closed, Fwd, Lost
  <2>2. Lost # {} => Torn \/ \E s \in Sides : Failed(s)
    BY DEF Lost
  <2>3. ASSUME NEW d \in shut
        PROVE  /\ d \in Sides /\ Peer(d) \in eof /\ ~(Torn /\ Peer(d) = dgm)
               /\ Passed(d) = sent[Peer(d)]
    <3>1. d \in Sides /\ Peer(d) \in Closed /\ Fwd[d] = sent[Peer(d)] /\ Fwd[d] = Passed(d)
      BY <2>1 DEF Fwd
    <3> QED
      BY <3>1 DEF Closed
  <2> QED
    BY <2>1, <2>2, <2>3 DEF ReportsInv
<1> QED
  BY <1>1, ProxyImplementsStreams, StreamsEndProperly, PTL DEF ImplementsStreams

-----------------------------------------------------------------------------
(* What a program at the other end of the datagram side can rely on.       *)

LEMMA EndsInitially == Init => EndInv
BY DEF Init, BridgeInit, EndInv

LEMMA ReportedOnce ==
  ASSUME NEW report \in Report, reports = <<>>, Shutdown(report)
  PROVE  reports' = <<report>>
BY DEF Shutdown

\* A graceful end comes from Return alone, when the datagram side is at its end.
LEMMA EndsInductive == TypeOK /\ ControlInv /\ EndInv /\ [Next]_vars => EndInv'
<1> SUFFICES ASSUME TypeOK, ControlInv, EndInv, [Next]_vars
             PROVE  EndInv'
  OBVIOUS
<1>1. proc' = "exited" => Dead'
  <2>1. CASE UNCHANGED <<proc, reports>>
    BY <2>1 DEF EndInv, Dead
  <2>2. CASE Exit
    BY <2>2 DEF Exit, bridgeVars, Dead
  <2>3. CASE Select \/ DispatchPlain \/ DispatchDgm \/ DispatchDgmFlush \/ Flush
               \/ RelayNothing \/ RelayFin \/ RelayData \/ RelayTurns \/ Return
    <3>1. proc = "running"
      BY <2>3 DEF Select, DispatchPlain, DispatchDgm, DispatchDgmFlush, Dispatching, Flush,
         RelayNothing, RelayFin, RelayData, RelayTurns, Return
    <3>2. CASE Select \/ RelayTurns \/ Return
      BY <3>1, <3>2 DEF Select, RelayTurns, Return
    <3>3. CASE DispatchPlain
      BY <3>3 DEF DispatchPlain, Survives
    <3>4. CASE DispatchDgm \/ DispatchDgmFlush
      <4>1. PICK a : AtxCalls(a)
        BY <3>4 DEF DispatchDgm, DispatchDgmFlush
      <4> QED
        BY <4>1 DEF AtxCalls, Survives
    <3>5. CASE Flush
      BY <3>5 DEF Flush, Survives
    <3>6. CASE RelayNothing
      BY <3>6 DEF RelayNothing, Survives
    <3>7. CASE RelayFin
      BY <3>7 DEF RelayFin, Survives
    <3>8. CASE RelayData
      <4>1. proc' \in {"running", "aborted"}
        BY <3>8 DEF RelayData, Survives
      <4> QED
        BY <4>1
    <3> QED
      BY <2>3, <3>2, <3>3, <3>4, <3>5, <3>6, <3>7, <3>8
  <2> QED
    BY <2>1, <2>2, <2>3 DEF Next, Proxy, HostActs, Terminated, vars, bridgeVars
<1>2. CASE UNCHANGED <<rx, reports>>
  BY <1>1, <1>2 DEF EndInv
<1>3. CASE Flush \/ RelayNothing \/ RelayFin \/ RelayData
  <2>1. cb.at # "idle" /\ reports = <<>>
    <3>1. cb.at # "idle"
      BY <1>3 DEF Flush, RelayNothing, RelayFin, RelayData, InRelay
    <3> QED
      BY <3>1, InCallback
  <2>2. reports' = reports \/ reports' = <<"failed">>
    <3>1. \A stage, b : Proceed(stage, b) => reports' = reports \/ reports' = <<"failed">>
      BY <2>1, ReportedOnce DEF Proceed, GoTo, Report
    <3>2. \E stage, b : Proceed(stage, b)
      <4>1. CASE Flush
        BY <4>1 DEF Flush, Flushed
      <4>2. CASE RelayNothing
        BY <4>2 DEF RelayNothing, RelayedNothing
      <4>3. CASE RelayFin
        BY <4>3 DEF RelayFin, RelayedFin
      <4>4. CASE RelayData
        BY <4>4 DEF RelayData, RelayedData
      <4> QED
        BY <1>3, <4>1, <4>2, <4>3, <4>4
    <3> QED
      BY <3>1, <3>2
  <2>3. reports' # <<"graceful">>
    BY <2>1, <2>2
  <2> QED
    BY <1>1, <2>3 DEF EndInv
<1>4. CASE Return
  <2> DEFINE s == cb.self
  <2>1. /\ cb.at = "relay_out" /\ s \in Sides /\ ~Dead /\ reports = <<>> /\ Peer(s) \in Sides
        /\ flags = tcp /\ rx' = rx
    BY <1>4, InCallback, PeerFacts DEF Return, CallbackEnds, pipeVars
  <2>2. CASE "broken" \notin cb.events /\ {"fin_sent", "fin_rcvd"} \subseteq flags[Peer(s)]
    <3>1. "fin_rcvd" \in tcp[s] /\ "fin_rcvd" \in tcp[Peer(s)]
      BY <2>1, <2>2, PeerFacts DEF ControlInv, FinInv
    <3>2. "fin_rcvd" \in tcp[dgm]
      BY <2>1, <3>1, TwoSides DEF TypeOK
    <3>3. rx = <<>>
      BY <2>1, <3>2 DEF ControlInv, FinInv
    <3> QED
      BY <1>1, <2>1, <3>3 DEF EndInv
  <2>3. CASE ~("broken" \notin cb.events /\ {"fin_sent", "fin_rcvd"} \subseteq flags[Peer(s)])
    <3>1. reports' = reports \/ reports' = <<"failed">>
      BY <1>4, <2>1, <2>3, ReportedOnce DEF Return, CallbackEnds, Report
    <3> QED
      BY <1>1, <2>1, <3>1 DEF EndInv
  <2> QED
    BY <2>2, <2>3
<1>5. CASE Select \/ DispatchPlain \/ DispatchDgm \/ DispatchDgmFlush \/ RelayTurns \/ Exit \/ UNCHANGED vars
  BY <1>2, <1>5 DEF Select, DispatchPlain, DispatchDgm, DispatchDgmFlush, AtxCalls, AtxNothingToFlush, BridgeCalled,
     RelayTurns, RelayInEnds, GoTo, Exit, vars, pipeVars, bridgeVars
<1>6. CASE HostActs \/ Terminated
  BY <1>2, <1>6 DEF HostActs, Terminated, vars, pipeVars, bridgeVars
<1> QED
  BY <1>3, <1>4, <1>5, <1>6 DEF Next, Proxy

\* Octets that are added to the wire and to what the atx_pipe keeps.
Wire == out[dgm] \o pend
WireGrows == /\ got' = got /\ dgm' = dgm
             /\ \E more \in Seq(Octets) : Wire' = Cat(Wire, more)
             /\ dgm \in shut => out'[dgm] = out[dgm]

\* To the other proxy send() begins a frame, or nothing, and the atx_pipe keeps
\* the end of one that was begun.
LEMMA WhatIsSent ==
  ASSUME TypeOK, ControlInv, cb.at # "idle", "writable" \in flags[dgm],
         NEW data \in Seq(Octets), NEW w \in Sends(dgm, data)
  PROVE  /\ pend = <<>>
         /\ \E k \in 0..Len(Frame(data)) :
              /\ w.put = Taken(Frame(data), k)
              /\ \/ w.pend = <<>> /\ k \in {0, Len(Frame(data))}
                 \/ w.pend = Rest(Frame(data), k) /\ k \in 1..(Len(Frame(data)) - 1)
<1> DEFINE q == Frame(data)
<1>1. flags = tcp /\ "writable" \in tcp[dgm] /\ dgm \in Sides
  BY InCallback DEF TypeOK
<1>2. pend = <<>>
  BY <1>1 DEF ControlInv, LinkInv
<1>3. PICK t \in SendResults(dgm, Len(q)) : w = DgmSent(tcp[dgm], data, t)
  BY <1>1, <1>2 DEF Sends, DgmSends, MaySend
<1>4. /\ w.put = Taken(q, t.n)
      /\ w.pend = IF t.is = "some" THEN Rest(q, t.n) ELSE <<>>
  BY <1>3 DEF DgmSent, AtxSent
<1>5. q \in Seq(Octets) /\ Len(q) \in Nat
  BY OctetsAreTyped, FrameAt, LenProperties
<1> HIDE DEF q
<1>6. /\ t.n \in 0..Len(q)
      /\ t.is = "some" => t.n # 0 /\ t.n < Len(q)
      /\ t.is # "some" => t.n \in {0, Len(q)}
  <2>1. /\ t.n \in 0..Len(q) /\ t.is \in SendOutcome
    BY <1>5, SocketSendTypes
  <2>2. /\ t.is = "some" => t.n \in 1..Free(dgm) /\ t.n < Len(q)
        /\ t.is = "all" => t.n = Len(q)
        /\ t.is \in {"again", "fatal", "epipe"} => t.n = 0
    BY DEF SendResults
  <2> QED
    BY <2>1, <2>2 DEF SendOutcome
<1>7. CASE t.is = "some"
  <2>1. t.n \in 1..(Len(q) - 1)
    BY <1>5, <1>6, <1>7
  <2> QED
    BY <1>2, <1>4, <1>6, <1>7, <2>1 DEF q
<1>8. CASE t.is # "some"
  BY <1>2, <1>4, <1>6, <1>8 DEF q
<1> QED
  BY <1>7, <1>8

\* What that does to a wire that ended with a whole datagram.
LEMMA WireExtended ==
  ASSUME NEW g \in Seq(Octets), NEW o \in Seq(Octets), NEW data \in Seq(Octets),
         \A i \in DOMAIN data : ~IsHeader(data[i]),
         NEW k \in 0..Len(Frame(data)), NEW put, NEW keep,
         put = Taken(Frame(data), k),
         \/ keep = <<>> /\ k \in {0, Len(Frame(data))}
         \/ keep = Rest(Frame(data), k) /\ k \in 1..(Len(Frame(data)) - 1)
  PROVE  /\ \E more \in Seq(Octets) : Cat(Cat(o, put), keep) = Cat(o, more)
         /\ Len(data) \in 1..MaxDgm /\ InStep(Cat(g, o)) => InStep(Cat(Cat(g, Cat(o, put)), keep))
         /\ \A n \in 0..(Len(keep) - 1) : ~InStep(Cat(Cat(g, Cat(o, put)), Taken(keep, n)))
<1> DEFINE q == Frame(data)
           before == Cat(g, o)
           r == Rest(q, k)
<1>1. q \in Seq(Octets) /\ Len(q) \in Nat
  BY OctetsAreTyped, FrameAt, LenProperties
<1>2. /\ put = Taken(q, k) /\ k \in 0..Len(q)
      /\ \/ keep = <<>> /\ k \in {0, Len(q)}
         \/ keep = r /\ k \in 1..(Len(q) - 1)
  OBVIOUS
<1>3. Len(data) \in 1..MaxDgm /\ InStep(before) => InStep(Cat(before, q))
  <2>1. before \in Seq(Octets)
    BY CatType
  <2> HIDE DEF before
  <2> QED
    BY <2>1, OctetsAreTyped, JoinInStep DEF Cat
<1>4. \A m \in 1..(Len(q) - 1) : ~InStep(Cat(before, Taken(q, m)))
  <2>1. before \in Seq(Octets)
    BY CatType
  <2> HIDE DEF before
  <2> QED
    BY <2>1, OctetsAreTyped, CutFrame
<1> HIDE DEF q
<1>5. put \in Seq(Octets) /\ r \in Seq(Octets) /\ Cat(put, r) = q /\ Len(r) = Len(q) - k
  BY <1>1, <1>2, CutFacts DEF Cat
<1>6. <<>> \in Seq(Octets) /\ keep \in Seq(Octets) /\ Len(<<>>) = 0
  BY <1>2, <1>5, EmptySeq
<1>7. /\ before \in Seq(Octets) /\ Cat(o, put) \in Seq(Octets)
      /\ \A x \in Seq(Octets) : Cat(Cat(g, Cat(o, put)), x) = Cat(before, Cat(put, x))
  <2>1. Cat(g, o) \in Seq(Octets) /\ Cat(o, put) \in Seq(Octets)
    BY <1>5, CatType
  <2>2. Cat(g, Cat(o, put)) = Cat(Cat(g, o), put)
    BY <1>5, CatAssoc
  <2>3. \A x \in Seq(Octets) : Cat(Cat(Cat(g, o), put), x) = Cat(Cat(g, o), Cat(put, x))
    BY <1>5, <2>1, CatAssoc
  <2> QED
    BY <2>1, <2>2, <2>3
<1>8. Cat(put, keep) \in {<<>>, q}
  <2>1. CASE keep = r
    BY <1>5, <2>1
  <2>2. CASE keep = <<>> /\ k = 0
    <3>1. Taken(q, 0) = <<>> /\ Cat(<<>>, <<>>) = <<>>
      BY <1>1, <1>6, CutAtEnds, CatEmpty
    <3> QED
      BY <1>2, <2>2, <3>1
  <2>3. CASE keep = <<>> /\ k = Len(q)
    <3>1. Taken(q, Len(q)) = q /\ Cat(q, <<>>) = q
      BY <1>1, CutAtEnds, CatEmpty
    <3> QED
      BY <1>2, <2>3, <3>1
  <2> QED
    BY <1>2, <2>1, <2>2, <2>3
<1>9. \E more \in Seq(Octets) : Cat(Cat(o, put), keep) = Cat(o, more)
  <2>1. Cat(put, keep) \in Seq(Octets) /\ Cat(Cat(o, put), keep) = Cat(o, Cat(put, keep))
    BY <1>5, <1>6, CatAssoc, CatType
  <2> QED
    BY <2>1
<1>10. Len(data) \in 1..MaxDgm /\ InStep(before) => InStep(Cat(Cat(g, Cat(o, put)), keep))
  <2> SUFFICES ASSUME Len(data) \in 1..MaxDgm, InStep(before)
               PROVE  InStep(Cat(before, Cat(put, keep)))
    BY <1>6, <1>7
  <2>1. Cat(before, <<>>) = before
    BY <1>7, CatEmpty
  <2> HIDE DEF before
  <2> QED
    BY <1>3, <1>8, <2>1
<1>11. ASSUME NEW n \in 0..(Len(keep) - 1)
       PROVE  ~InStep(Cat(Cat(g, Cat(o, put)), Taken(keep, n)))
  <2>1. keep = r /\ k \in 1..(Len(q) - 1)
    BY <1>2, <1>6
  <2>2. n \in 0..(Len(q) - k) /\ k + n \in 1..(Len(q) - 1) /\ n \in 0..Len(keep)
    BY <1>1, <1>5, <2>1
  <2>3. Cat(put, Taken(keep, n)) = Taken(q, k + n)
    BY <1>1, <1>2, <2>1, <2>2, TakenTwice
  <2>4. Taken(keep, n) \in Seq(Octets)
    BY <1>6, <2>2, CutFacts
  <2>5. Cat(Cat(g, Cat(o, put)), Taken(keep, n)) = Cat(before, Taken(q, k + n))
    BY <1>7, <2>3, <2>4
  <2> QED
    BY <1>4, <2>2, <2>5
<1> QED
  BY <1>9, <1>10, <1>11 DEF before

\* The second and the third part of WireInv.
WireInStep ==
  /\ RecvSize <= MaxDgm => InStep(got[dgm] \o out[dgm] \o pend)
  /\ \A n \in 0..(Len(pend) - 1) : ~InStep(got[dgm] \o out[dgm] \o Taken(pend, n))

LEMMA WireRests ==
  ASSUME TypeOK, UNCHANGED <<got, dgm, pend>>, out'[dgm] = out[dgm]
  PROVE  WireGrows /\ (WireInStep => WireInStep')
<1>1. Wire' = Wire
  BY DEF Wire
<1>2. Wire \in Seq(Octets) /\ <<>> \in Seq(Octets)
  BY SeqTypes, EmptySeq, ConcatProperties DEF Wire, TypeOK
<1> HIDE DEF Wire
<1>3. Wire = Cat(Wire, <<>>)
  BY <1>2, CatEmpty
<1>4. WireGrows
  BY <1>1, <1>2, <1>3 DEF WireGrows
<1> QED
  BY <1>4 DEF WireInStep

\* A call of send() passes whole frames on, and no more than fits one.
LEMMA WireOfSend ==
  ASSUME TypeOK, ControlInv, WireInv, cb.at # "idle", NEW d \in Sides, "writable" \in flags[d],
         NEW data \in Seq(Item), Len(data) \in Nat \ {0}, d = dgm => Len(data) <= RecvSize,
         NEW w \in Sends(d, data),
         out' = [out EXCEPT ![d] = @ \o w.put], pend' = w.pend, UNCHANGED <<got, dgm>>
  PROVE  WireGrows /\ WireInStep'
<1>1. dgm \in Sides /\ out \in [Sides -> Seq(Octets)]
  BY DEF TypeOK
<1>2. CASE d # dgm
  <2>1. pend' = pend
    BY <1>2, SendBits, ItemsAreCarried
  <2>2. out'[dgm] = out[dgm]
    BY <1>1, <1>2
  <2> QED
    BY <2>1, <2>2, WireRests DEF WireInv, WireInStep
<1>3. CASE d = dgm
  <2>1. data \in Seq(Octets) /\ \A i \in DOMAIN data : ~IsHeader(data[i])
    BY ItemsAreCarried, PlainStream
  <2>2. "writable" \in flags[dgm] /\ w \in Sends(dgm, data)
    BY <1>3
  <2>3. /\ pend = <<>>
        /\ \E k \in 0..Len(Frame(data)) :
             /\ w.put = Taken(Frame(data), k)
             /\ \/ w.pend = <<>> /\ k \in {0, Len(Frame(data))}
                \/ w.pend = Rest(Frame(data), k) /\ k \in 1..(Len(Frame(data)) - 1)
    BY <2>1, <2>2, WhatIsSent
  <2>4. PICK k \in 0..Len(Frame(data)) :
          /\ w.put = Taken(Frame(data), k)
          /\ \/ w.pend = <<>> /\ k \in {0, Len(Frame(data))}
             \/ w.pend = Rest(Frame(data), k) /\ k \in 1..(Len(Frame(data)) - 1)
    BY <2>3
  <2> DEFINE g == got[dgm]
             o == out[dgm]
             put == w.put
             keep == w.pend
  <2>5. g \in Seq(Octets) /\ o \in Seq(Octets) /\ put \in Seq(Octets) /\ keep \in Seq(Octets)
    BY <1>1, <1>3, <2>1, SeqTypes, SendTypes
  <2>6. /\ pend' = keep /\ out'[dgm] = Cat(o, put) /\ got'[dgm] = g /\ dgm' = dgm
        /\ pend = <<>>
    BY <1>1, <1>3, <2>3 DEF Cat
  <2>7. Cat(o, <<>>) = o /\ Cat(Cat(g, o), <<>>) = Cat(g, o)
    BY <2>5, CatType, CatEmpty
  <2>8. RecvSize <= MaxDgm => Len(data) \in 1..MaxDgm /\ InStep(Cat(g, o))
    <3>1. RecvSize <= MaxDgm => Len(data) \in 1..MaxDgm
      BY <1>3, ProxyAssumption, DgmAssumption
    <3>2. RecvSize <= MaxDgm => InStep(Cat(Cat(g, o), <<>>))
      BY <2>6 DEF WireInv, Cat
    <3> QED
      BY <2>7, <3>1, <3>2
  <2>9. Wire = o /\ Wire' = Cat(Cat(o, put), keep)
    BY <2>6, <2>7 DEF Wire, Cat
  <2>10. /\ (got[dgm] \o out[dgm] \o pend)' = Cat(Cat(g, Cat(o, put)), keep)
         /\ \A n : (got[dgm] \o out[dgm])' \o Taken(keep, n) = Cat(Cat(g, Cat(o, put)), Taken(keep, n))
    BY <2>6 DEF Cat
  <2>14. /\ k \in 0..Len(Frame(data)) /\ put = Taken(Frame(data), k)
         /\ \/ keep = <<>> /\ k \in {0, Len(Frame(data))}
            \/ keep = Rest(Frame(data), k) /\ k \in 1..(Len(Frame(data)) - 1)
    BY <2>4
  <2> HIDE DEF g, o, put, keep
  <2>11. /\ \E more \in Seq(Octets) : Cat(Cat(o, put), keep) = Cat(o, more)
         /\ Len(data) \in 1..MaxDgm /\ InStep(Cat(g, o)) => InStep(Cat(Cat(g, Cat(o, put)), keep))
         /\ \A n \in 0..(Len(keep) - 1) : ~InStep(Cat(Cat(g, Cat(o, put)), Taken(keep, n)))
    <3>1. data \in Seq(Octets) /\ k \in 0..Len(Frame(data)) /\ put = Taken(Frame(data), k)
      BY <2>1, <2>14
    <3>2. CASE keep = <<>> /\ k \in {0, Len(Frame(data))}
      BY <2>1, <2>5, <3>1, <3>2, WireExtended
    <3>3. CASE keep = Rest(Frame(data), k) /\ k \in 1..(Len(Frame(data)) - 1)
      BY SMTT(30), <2>1, <2>5, <3>1, <3>3, WireExtended
    <3> QED
      BY <2>14, <3>2, <3>3
  <2> DEFINE next == Cat(Cat(g, Cat(o, put)), keep)
             part(n) == Cat(Cat(g, Cat(o, put)), Taken(keep, n))
  <2>15. /\ RecvSize <= MaxDgm => InStep(next)
         /\ \A n \in 0..(Len(keep) - 1) : ~InStep(part(n))
    BY <2>8, <2>11
  <2>12. WireInStep'
    <3>1. (RecvSize <= MaxDgm => InStep(got[dgm] \o out[dgm] \o pend))'
      BY <2>10, <2>15
    <3>2. (\A n \in 0..(Len(pend) - 1) : ~InStep(got[dgm] \o out[dgm] \o Taken(pend, n)))'
      BY <2>6, <2>10, <2>15
    <3> QED
      BY <3>1, <3>2 DEF WireInStep
  <2>13. dgm \notin shut
    BY <1>1, <2>2, InCallback DEF ControlInv, FlagsInv, FinInv
  <2> QED
    BY <2>9, <2>11, <2>12, <2>13 DEF WireGrows
<1> QED
  BY <1>2, <1>3
\* A step that leaves the wire alone.
LEMMA WireOfOthers ==
  ASSUME TypeOK, WireInv, UNCHANGED <<got, dgm, pend>>, out'[dgm] = out[dgm],
         pending'[dgm] = pending[dgm]
  PROVE  WireGrows /\ WireInv'
<1>1. WireInStep
  BY DEF WireInv, WireInStep
<1>2. WireGrows /\ WireInStep'
  BY <1>1, WireRests
<1> QED
  BY <1>2 DEF WireInv, WireInStep

LEMMA WireOfFlush == TypeOK /\ ControlInv /\ StreamInv /\ WireInv /\ Flush => WireGrows /\ WireInv'
<1> SUFFICES ASSUME TypeOK, ControlInv, StreamInv, WireInv, Flush
             PROVE  WireGrows /\ WireInv'
  OBVIOUS
<1> DEFINE d == cb.self
           data == pending[cb.self]
<1>1. PICK w \in Sends(d, data) :
        /\ out' = [out EXCEPT ![d] = @ \o w.put] /\ pend' = w.pend
        /\ pending' = [pending EXCEPT ![d] = Rest(@, w.n)]
  BY DEF Flush, Flushed
<1>2. UNCHANGED <<got, dgm>> /\ cb.at # "idle"
  BY DEF Flush
<1>3. d \in Sides /\ "writable" \in flags[d] /\ data # <<>> /\ dgm \in Sides
  BY InCallback, <1>2 DEF Flush, ControlInv, StageInv, TypeOK
<1>4. data \in Seq(Item) /\ pending \in [Sides -> Seq(Item)]
  BY <1>3 DEF StreamInv, FrameInv, PlainInv
<1>5. Len(data) \in Nat \ {0}
  <2>1. data \in Seq(Item)
    BY <1>4
  <2> QED
    BY <2>1, <1>3, EmptySeq, LenProperties
<1>6. d = dgm => Len(data) <= RecvSize
  BY DEF WireInv
<1> HIDE DEF data
<1>7. WireGrows /\ WireInStep'
  BY <1>1, <1>2, <1>3, <1>4, <1>5, <1>6, WireOfSend
<1>8. Len(pending'[dgm]) <= RecvSize
  <2>1. CASE d = dgm
    <3>1. data \in Seq(Octets)
      BY <1>4, ItemsAreCarried
    <3>2. w.n \in 0..Len(data)
      BY <1>3, <3>1, SendTypes
    <3>3. Len(Rest(data, w.n)) = Len(data) - w.n
      BY <3>1, <3>2, CutFacts
    <3>4. pending'[dgm] = Rest(data, w.n)
      BY <1>1, <1>3, <1>4, <2>1 DEF data
    <3>5. Len(data) - w.n <= RecvSize
      BY <1>5, <1>6, <2>1, <3>2, ProxyAssumption
    <3> QED
      BY <3>3, <3>4, <3>5
  <2>2. CASE d # dgm
    BY <1>1, <1>3, <1>4, <2>2 DEF WireInv
  <2> QED
    BY <2>1, <2>2
<1> QED
  BY <1>7, <1>8, <1>2 DEF WireInv, WireInStep

\* What recv() of the plain side returns fits one datagram.
LEMMA ReadFits ==
  ASSUME TypeOK, NEW s \in Sides, s # dgm, NEW r \in Recvs(s), r.is = "data"
  PROVE  Len(r.data) <= RecvSize
<1>1. PICK t \in RecvResults(s, RecvSize) : r.data = Taken(in[s], t.n)
  BY DEF Recvs, PlainRecvs
<1>2. in[s] \in Seq(Octets) /\ RecvSize \in Nat
  BY SeqTypes, ProxyAssumption, DgmAssumption
<1>3. t.n \in 0..Len(in[s]) /\ t.n <= RecvSize
  BY <1>2, SocketRecvTypes DEF RecvResults
<1>4. Len(Taken(in[s], t.n)) = t.n
  BY <1>2, <1>3, CutFacts
<1> QED
  BY <1>1, <1>3, <1>4

LEMMA WireOfRelayData == TypeOK /\ ControlInv /\ StreamInv /\ WireInv /\ RelayData => WireGrows /\ WireInv'
<1> SUFFICES ASSUME TypeOK, ControlInv, StreamInv, WireInv, RelayData
             PROVE  WireGrows /\ WireInv'
  OBVIOUS
<1>0. PICK s \in Sides, d \in Sides : s = Src /\ d = Dst
  BY SrcDst DEF TypeOK
<1>1. PICK r \in Recvs(s) :
       /\ r.is = "data"
       /\ \E w \in Sends(d, r.data) :
            /\ in' = [in EXCEPT ![s] = Rest(@, r.read)]
            /\ out' = [out EXCEPT ![d] = @ \o w.put]
            /\ rx' = r.rx /\ pend' = w.pend
            /\ RelayedData(r.data, w.n, w.up)
  BY <1>0 DEF RelayData
<1>2. PICK w \in Sends(d, r.data) :
       /\ in' = [in EXCEPT ![s] = Rest(@, r.read)]
       /\ out' = [out EXCEPT ![d] = @ \o w.put]
       /\ rx' = r.rx /\ pend' = w.pend
       /\ RelayedData(r.data, w.n, w.up)
  BY <1>1
<1>3. /\ InRelay /\ Relaying
      /\ UNCHANGED <<sent, got, todo, dgm>>
  BY DEF RelayData
<1>4. /\ s # d /\ Peer(d) = s /\ cb.at # "idle" /\ ~Dead /\ flags = tcp
      /\ "readable" \in flags[s] /\ "writable" \in flags[d]
      /\ "broken" \notin tcp[s] /\ pending[d] = <<>>
  BY <1>0, <1>3, RelayPass
<1>5. PlainInv /\ FramesAreWhole /\ InStepInv
  BY DEF StreamInv, FrameInv
<1>6. "broken" \notin r.up /\ (s # dgm => r.rx = rx)
  BY <1>1, <1>4, RecvBits
<1>7. r.data \in Seq(Item)
  BY <1>2, <1>3, <1>4, <1>5, <1>6, RecvTakes
<1>8. Len(r.data) \in Nat \ {0}
  BY <1>1, <1>4, <1>5, DataIsNotEmpty
<1>9. d = dgm => Len(r.data) <= RecvSize
  <2>1. d = dgm => s # dgm
    BY <1>4
  <2> QED
    BY <1>1, <2>1, ReadFits
<1>10. WireGrows /\ WireInStep'
  <2> DEFINE data == r.data
  <2>1. data \in Seq(Item) /\ Len(data) \in Nat \ {0} /\ (d = dgm => Len(data) <= RecvSize)
    BY <1>7, <1>8, <1>9
  <2>2. w \in Sends(d, data)
    OBVIOUS
  <2> HIDE DEF data
  <2> QED
    BY <1>2, <1>3, <1>4, <2>1, <2>2, WireOfSend
<1>11. Len(pending'[dgm]) <= RecvSize
  <2>1. Len(pending[dgm]) <= RecvSize
    BY DEF WireInv
  <2>2. pending' = pending \/ pending' = [pending EXCEPT ![d] = Rest(r.data, w.n)]
    BY <1>0, <1>2 DEF RelayedData
  <2>3. CASE pending' = pending \/ d # dgm
    <3>1. pending \in [Sides -> Seq(Item)] /\ dgm \in Sides
      BY <1>5 DEF PlainInv, TypeOK
    <3>2. pending'[dgm] = pending[dgm]
      BY <2>2, <2>3, <3>1
    <3> QED
      BY <2>1, <3>2
  <2>4. CASE pending' = [pending EXCEPT ![d] = Rest(r.data, w.n)] /\ d = dgm
    <3>1. r.data \in Seq(Octets)
      BY <1>7, ItemsAreCarried
    <3>2. w.n \in 0..Len(r.data)
      BY <3>1, SendTypes
    <3>3. Len(Rest(r.data, w.n)) = Len(r.data) - w.n
      BY <3>1, <3>2, CutFacts
    <3>4. pending'[dgm] = Rest(r.data, w.n)
      BY <2>4 DEF TypeOK
    <3>5. Len(r.data) - w.n <= RecvSize
      BY <1>8, <1>9, <2>4, <3>2, ProxyAssumption, DgmAssumption
    <3> QED
      BY <3>3, <3>4, <3>5
  <2> QED
    BY <2>2, <2>3, <2>4
<1> QED
  BY <1>10, <1>11, <1>3 DEF WireInv, WireInStep

\* The atx_pipe sends from the front of what it has kept.
LEMMA WireOfKept ==
  TypeOK /\ ControlInv /\ StreamInv /\ WireInv /\ DispatchDgmFlush => WireGrows /\ WireInv'
<1> SUFFICES ASSUME TypeOK, ControlInv, StreamInv, WireInv, DispatchDgmFlush
             PROVE  WireGrows /\ WireInv'
  OBVIOUS
<1>1. PICK w \in SendResults(dgm, Len(pend)) :
       /\ AtxCalls(AtxFlushed(TcpFlags(dgm), TcpEvents(dgm), pend, wantFin, w, ~Failed(dgm)))
       /\ out' = [out EXCEPT ![dgm] = @ \o Taken(pend, w.n)]
  BY DEF DispatchDgmFlush
<1>2. /\ pend' = Rest(pend, w.n) /\ UNCHANGED <<pending, got, dgm>> /\ pend # <<>>
  BY <1>1 DEF DispatchDgmFlush, AtxCalls, AtxFlushed, BridgeCalled
<1>3. dgm \in Sides /\ dgm \notin shut
  BY <1>2 DEF TypeOK, ControlInv, LinkInv, FinInv
<1> DEFINE g == got[dgm]
           o == out[dgm]
           k == w.n
           t == Taken(pend, k)
           r == Rest(pend, k)
<1>4. /\ g \in Seq(Octets) /\ o \in Seq(Octets) /\ pend \in Seq(Octets) /\ k \in 0..Len(pend)
      /\ Len(pend) \in Nat
  <2>1. g \in Seq(Octets) /\ o \in Seq(Octets) /\ pend \in Seq(Octets)
    BY <1>3, SeqTypes
  <2>2. Len(pend) \in Nat
    BY <2>1, LenProperties
  <2>3. k \in 0..Len(pend)
    BY <2>1, <2>2, SocketSendTypes
  <2> QED
    BY <2>1, <2>2, <2>3
<1>5. t \in Seq(Octets) /\ r \in Seq(Octets) /\ Len(r) = Len(pend) - k /\ Cat(t, r) = pend
  BY <1>4, CutFacts DEF Cat
<1>6. out'[dgm] = Cat(o, t) /\ pend' = r /\ got'[dgm] = g
  BY <1>1, <1>2, <1>3 DEF TypeOK, Cat
<1>7. /\ \A n \in 0..(Len(pend) - 1) : ~InStep(Cat(Cat(g, o), Taken(pend, n)))
      /\ Len(pending[dgm]) <= RecvSize
      /\ RecvSize <= MaxDgm => InStep(got[dgm] \o out[dgm] \o pend)
  BY DEF WireInv, Cat
<1>8. \A n : (got[dgm] \o out[dgm])' \o Taken(r, n) = Cat(Cat(g, Cat(o, t)), Taken(r, n))
  BY <1>2, <1>6 DEF Cat
<1>9. Wire = Cat(o, pend) /\ Wire' = Cat(Cat(o, t), r)
  BY <1>2, <1>6 DEF Wire, Cat
<1>10. (got[dgm] \o out[dgm] \o pend)' = got[dgm] \o out[dgm] \o pend
  BY KeptIsPassed
<1> HIDE DEF g, o, t, r, k
<1>11. WireGrows
  <2>1. Cat(Cat(o, t), r) = Cat(o, pend)
    BY <1>4, <1>5, CatAssoc
  <2>2. Cat(o, pend) \in Seq(Octets) /\ <<>> \in Seq(Octets)
    BY <1>4, CatType, EmptySeq
  <2>3. Wire' = Cat(Wire, <<>>)
    BY <1>9, <2>1, <2>2, CatEmpty
  <2> QED
    BY <1>2, <1>3, <2>2, <2>3 DEF WireGrows
<1>12. ASSUME NEW n \in 0..(Len(r) - 1)
       PROVE  ~InStep(Cat(Cat(g, Cat(o, t)), Taken(r, n)))
  <2>1. n \in 0..(Len(pend) - k) /\ k + n \in 0..(Len(pend) - 1) /\ n \in 0..Len(r)
    BY <1>4, <1>5
  <2>2. Cat(t, Taken(r, n)) = Taken(pend, k + n)
    BY <1>4, <2>1, TakenTwice DEF t, r
  <2>3. Taken(r, n) \in Seq(Octets) /\ Cat(g, o) \in Seq(Octets)
    BY <1>4, <1>5, <2>1, CutFacts, CatType
  <2>4. Cat(Cat(g, Cat(o, t)), Taken(r, n)) = Cat(Cat(g, o), Cat(t, Taken(r, n)))
    <3>1. Cat(g, Cat(o, t)) = Cat(Cat(g, o), t)
      BY <1>4, <1>5, CatAssoc
    <3> QED
      BY <1>5, <2>3, <3>1, CatAssoc
  <2> QED
    BY <1>7, <2>1, <2>2, <2>4
<1>13. (\A n \in 0..(Len(pend) - 1) : ~InStep(got[dgm] \o out[dgm] \o Taken(pend, n)))'
  BY <1>6, <1>8, <1>12
<1>14. (Len(pending[dgm]) <= RecvSize)'
  BY <1>2, <1>7
<1>15. (RecvSize <= MaxDgm => InStep(got[dgm] \o out[dgm] \o pend))'
  BY <1>7, <1>10
<1> QED
  BY <1>11, <1>13, <1>14, <1>15 DEF WireInv

\* What the other proxy reads was on the wire before.
LEMMA WireOfReads ==
  ASSUME TypeOK, WireInv, NEW s \in Sides, HostReads(s), UNCHANGED <<dgm, pend, pending>>
  PROVE  WireInv'
<1>1. /\ out[s] \in Seq(Octets) /\ out[s] # <<>> /\ got[s] \in Seq(Octets) /\ dgm \in Sides
      /\ out'[s] = Tail(out[s]) /\ got'[s] = Append(got[s], Head(out[s]))
      /\ \A t \in Sides : t # s => out'[t] = out[t] /\ got'[t] = got[t]
  BY DEF HostReads, TypeOK
<1>2. Cat(Append(got[s], Head(out[s])), Tail(out[s])) = Cat(got[s], out[s])
  BY <1>1, ReadOne
<1>3. Cat(got'[dgm], out'[dgm]) = Cat(got[dgm], out[dgm])
  BY <1>1, <1>2
<1>4. (got[dgm] \o out[dgm])' = got[dgm] \o out[dgm]
  BY <1>3 DEF Cat
<1> QED
  BY <1>4 DEF WireInv

\* Whatever the proxy does, it adds to the wire, and nothing after FIN.
LEMMA WireOfProxy ==
  TypeOK /\ ControlInv /\ StreamInv /\ WireInv /\ Proxy => WireGrows /\ WireInv'
<1> SUFFICES ASSUME TypeOK, ControlInv, StreamInv, WireInv, Proxy
             PROVE  WireGrows /\ WireInv'
  OBVIOUS
<1>1. CASE DispatchDgmFlush
  BY <1>1, WireOfKept
<1>2. CASE Flush
  BY <1>2, WireOfFlush
<1>3. CASE RelayData
  BY <1>3, WireOfRelayData
<1>4. CASE Select \/ RelayTurns \/ Return \/ Exit
  <2>1. UNCHANGED <<got, dgm, pend, out, pending>>
    BY <1>4 DEF Select, RelayTurns, RelayInEnds, Return, CallbackEnds, Exit, hostVars, sockVars,
                pipeVars, bridgeVars
  <2> QED
    BY <2>1, WireOfOthers
<1>5. CASE DispatchPlain \/ DispatchDgm
  <2>1. UNCHANGED <<got, dgm, pend, out, pending>>
    BY <1>5 DEF DispatchPlain, DispatchDgm, AtxCalls, AtxNothingToFlush, BridgeCalled, hostVars, sockVars
  <2> QED
    BY <2>1, WireOfOthers
<1>6. CASE RelayNothing \/ RelayFin
  <2>1. UNCHANGED <<got, dgm, pend, out, pending>>
    BY <1>6 DEF RelayNothing, RelayedNothing, RelayFin, RelayedFin
  <2> QED
    BY <2>1, WireOfOthers
<1> QED
  BY <1>1, <1>2, <1>3, <1>4, <1>5, <1>6 DEF Proxy

LEMMA WireInductive == TypeOK /\ ControlInv /\ StreamInv /\ WireInv /\ [Next]_vars => WireInv'
<1> SUFFICES ASSUME TypeOK, ControlInv, StreamInv, WireInv, [Next]_vars
             PROVE  WireInv'
  OBVIOUS
<1>1. CASE Proxy
  BY <1>1, WireOfProxy
<1>2. CASE HostActs
  <2>1. UNCHANGED <<dgm, pend, pending>>
    BY <1>2 DEF HostActs, pipeVars, bridgeVars
  <2>2. (\E s \in Sides : HostReads(s)) \/ UNCHANGED <<out, got>>
    BY <1>2 DEF HostActs, Connected, Refused, ConnectionLost, HostSends, HostCloses, PeerSends
  <2>3. CASE \E s \in Sides : HostReads(s)
    BY <2>1, <2>3, WireOfReads
  <2>4. CASE UNCHANGED <<out, got>>
    BY <2>1, <2>4, WireOfOthers
  <2> QED
    BY <2>2, <2>3, <2>4
<1>3. CASE Terminated \/ UNCHANGED vars
  BY <1>3, WireOfOthers DEF Terminated, vars, hostVars, sockVars, pipeVars, bridgeVars
<1> QED
  BY <1>1, <1>2, <1>3 DEF Next

LEMMA WireInitially == Init => WireInv
<1> SUFFICES ASSUME Init
             PROVE  WireInv
  OBVIOUS
<1>1. dgm \in Sides /\ pend = <<>> /\ got[dgm] = <<>> /\ out[dgm] = <<>> /\ pending[dgm] = <<>>
  BY DEF Init, SocketsInit, BridgeInit
<1>2. <<>> \o <<>> = <<>> /\ Len(<<>>) = 0 /\ RecvSize \in Nat
  BY ProxyAssumption, DgmAssumption
<1>3. InStep(<<>>)
  <2>1. DOMAIN <<>> = {}
    OBVIOUS
  <2> QED
    BY <2>1 DEF WellFramed, InStep
<1> QED
  BY <1>1, <1>2, <1>3 DEF WireInv

\* What is on its way to the other proxy, with what it has read already, are
\* datagrams that it accepts, and what the atx_pipe keeps is the end of one that
\* was begun: the stream is cut off inside a frame as long as anything is kept.
THEOREM FramesAreFinished == Spec => []WireInv
<1>1. Init => WireInv
  BY WireInitially
<1>2. IndInv /\ WireInv /\ [Next]_vars => WireInv'
  BY WireInductive DEF IndInv
<1> QED
  BY <1>1, <1>2, InvariantHolds, PTL DEF Spec

\* The process ends only after the report, and a graceful one leaves nothing in
\* the receive buffer of the dgm_pipe.
THEOREM NothingIsLeftBehind == Spec => []EndInv
<1>1. Init => EndInv
  BY EndsInitially
<1>2. IndInv /\ EndInv /\ [Next]_vars => EndInv'
  BY EndsInductive DEF IndInv
<1> QED
  BY <1>1, <1>2, InvariantHolds, PTL DEF Spec

\* Unless the bridge has given up, every octet that was sent to the proxy was
\* passed on, is set aside, or has yet to be received, also when it has ended.
LEMMA AllAccounted ==
  ASSUME IndInv, EndInv, ReportsInv, reports # <<"failed">>, NEW d \in Sides
  PROVE  Passed(d) \o pending[d] \o Received(Peer(d)) = sent[Peer(d)]
<1>1. CASE ~Dead
  BY <1>1 DEF IndInv, StreamInv, StreamIntact
<1>2. CASE Dead
  <2>1. reports = <<"graceful">>
    BY <1>2 DEF Dead, ReportsInv
  <2>2. d \in shut /\ rx = <<>> /\ Passed(d) = sent[Peer(d)]
    BY <2>1 DEF EndInv, ReportsInv
  <2>3. pending[d] = <<>> /\ "fin_rcvd" \in tcp[Peer(d)] /\ Peer(d) \in Sides
    BY <2>2, PeerFacts DEF IndInv, ControlInv, FinInv
  <2>4. in[Peer(d)] = <<>>
    BY <2>3 DEF IndInv, ControlInv, FinInv
  <2>5. Received(Peer(d)) = <<>>
    BY <2>2, <2>4, ConcatEmptySeq, PayloadEmpty, EmptySeq DEF Received
  <2>6. sent[Peer(d)] \in Seq(Octets)
    BY <2>3, SeqTypes DEF IndInv
  <2> DEFINE q == sent[Peer(d)]
  <2> HIDE DEF q
  <2>7. Cat(Cat(q, <<>>), <<>>) = q
    BY <2>6, CatEmpty DEF q
  <2> QED
    BY <2>2, <2>3, <2>5, <2>7 DEF Cat, q
<1> QED
  BY <1>1, <1>2

\* A report is made once, and failure is reported only after one has happened.
LEMMA StepReports ==
  ASSUME IndInv, IndInv', [Next]_vars
  PROVE  ReportStep
<1>1. [Streams!Next]_(Streams!vars)
  BY StreamsOfStep
<1>2. CASE Streams!Finish
  BY <1>2, SameNames DEF Streams!Finish, ReportStep, Lost
<1>3. CASE reports' = reports
  BY <1>3 DEF ReportStep
<1> QED
  BY <1>1, <1>2, <1>3 DEF Streams!Next, Streams!vars, Streams!Send, Streams!Close, Streams!Forward,
       Streams!ForwardFin, Streams!Read, Streams!Lose

\* No failure is taken back.
LEMMA FailedStays ==
  ASSUME TypeOK, [Next]_vars, NEW s \in Sides, Failed(s)
  PROVE  Failed(s)'
<1>1. CASE UNCHANGED conn
  BY <1>1 DEF Failed
<1>2. CASE Exit
  BY <1>2 DEF Exit, Failed
<1>3. CASE HostActs
  BY <1>3 DEF HostActs, Connected, Refused, ConnectionLost, HostReads, HostSends, HostCloses,
       PeerSends, Failed, TypeOK
<1>4. CASE Proxy /\ ~Exit
  <2>1. UNCHANGED conn
    BY <1>4 DEF Proxy, Select, DispatchPlain, DispatchDgm, DispatchDgmFlush, Flush, RelayNothing,
         RelayFin, RelayData, RelayTurns, Return, hostVars, sockVars
  <2> QED
    BY <2>1, <1>1
<1> QED
  BY <1>1, <1>2, <1>3, <1>4 DEF Next, Terminated, vars, hostVars, sockVars

\* What of the hosts and of the connections the proxy leaves alone.
LEMMA ProxyKeeps == Proxy => proc = "running" /\ shut \subseteq shut' /\ UNCHANGED <<sent, eof, got, dgm>>
<1> DEFINE Kept == proc = "running" /\ shut \subseteq shut' /\ UNCHANGED <<sent, eof, got, dgm>>
<1>1. Select => Kept
  BY DEF Select, hostVars, sockVars
<1>2. DispatchPlain => Kept
  BY DEF DispatchPlain, hostVars, sockVars, Dispatching
<1>3. DispatchDgm => Kept
  BY DEF DispatchDgm, hostVars, sockVars, Dispatching
<1>4. DispatchDgmFlush => Kept
  BY DEF DispatchDgmFlush, Dispatching, hostVars, sockVars
<1>5. Flush => Kept
  BY DEF Flush, hostVars
<1>6. RelayNothing => Kept
  BY DEF RelayNothing, hostVars, sockVars
<1>7. RelayFin => Kept
  BY DEF RelayFin
<1>8. RelayData => Kept
  BY DEF RelayData
<1>9. RelayTurns => Kept
  BY DEF RelayTurns, hostVars, sockVars
<1>10. Return => Kept
  BY DEF Return, hostVars, sockVars
<1>11. Exit => Kept
  BY DEF Exit
<1> HIDE DEF Kept
<1>12. Proxy => Kept
  BY <1>1, <1>2, <1>3, <1>4, <1>5, <1>6, <1>7, <1>8, <1>9, <1>10, <1>11 DEF Proxy
<1> QED
  BY <1>12 DEF Kept

=============================================================================
