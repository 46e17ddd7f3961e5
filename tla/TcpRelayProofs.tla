--------------------------- MODULE TcpRelayProofs ---------------------------
(***************************************************************************)
(* Proofs about TcpRelay for all values of its constants: any buffer and   *)
(* chunk sizes, any number of octets, with and without error events,       *)
(* spurious failures and SIGPIPE.  First types, bits and stages, then the  *)
(* streams, then what the hosts and the caller of the bridge can observe:  *)
(* on_shutdown() tells the truth, the relay is quiet after it, a slow host *)
(* holds a fast one back, and every step of TcpRelay is a step of          *)
(* StreamRelay, or none.                                                   *)
(***************************************************************************)
EXTENDS TcpRelayInv, FrameFacts

LEMMA OneReport ==
  ASSUME NEW r \in {<<"graceful">>, <<"failed">>}
  PROVE  Len(r) <= 1
OBVIOUS

USE SocketAssumption, RelayAssumption

-----------------------------------------------------------------------------
(* Types.                                                                  *)

\* Every operation of a TCP pipe yields state bits, and a mask.
LEMMA PipeTypes ==
  ASSUME NEW f \in SUBSET Flag
  PROVE  /\ EventMask(f) \in SUBSET SkEvent
         /\ \A o \in RecvOutcome : FlagsAfterRecv(f, o) \in SUBSET Flag
         /\ \A o \in SendOutcome : FlagsAfterSend(f, o) \in SUBSET Flag
         /\ FlagsAfterFin(f, TRUE) \in SUBSET Flag
         /\ FlagsAfterFin(f, FALSE) \in SUBSET Flag
<1>1. EventMask(f) \in SUBSET SkEvent
  BY DEF EventMask, SkEvent
<1>3. \A o \in RecvOutcome : FlagsAfterRecv(f, o) \in SUBSET Flag
  BY DEF FlagsAfterRecv, RecvOutcome, TagBroken, Flag
<1>4. \A o \in SendOutcome : FlagsAfterSend(f, o) \in SUBSET Flag
  BY DEF FlagsAfterSend, SendOutcome, TagBroken, Flag
<1>5. FlagsAfterFin(f, TRUE) \in SUBSET Flag /\ FlagsAfterFin(f, FALSE) \in SUBSET Flag
  BY DEF FlagsAfterFin, TagBroken, Flag
<1> QED
  BY <1>1, <1>3, <1>4, <1>5

\* Both ways a stage of the callback can end.
LEMMA ReportTypes ==
  ASSUME reports \in Seq(Report), cb \in Activation,
         NEW stage \in Stage, NEW report \in Report,
         Shutdown(report) \/ GoTo(stage)
  PROVE  reports' \in Seq(Report) /\ cb' \in Activation
<1>1. CASE Shutdown(report)
  <2>1. reports' \in Seq(Report)
    BY <1>1, AppendProperties DEF Shutdown
  <2> QED
    BY <1>1, <2>1 DEF Shutdown, Idle, Activation, Stage, Sides
<1>2. CASE GoTo(stage)
  BY <1>2 DEF GoTo, Activation, Stage
<1> QED
  BY <1>1, <1>2

\* on_shutdown() marks the bridge dead, going on does not.
LEMMA LifeAndDeath ==
  ASSUME reports \in Seq(Report), NEW stage, NEW report \in Report
  PROVE  /\ Shutdown(report) => Dead' /\ reports' = Append(reports, report)
         /\ GoTo(stage) => (Dead' <=> Dead) /\ reports' = reports
<1>1. Append(reports, report) # <<>>
  BY AppendProperties
<1> QED
  BY <1>1 DEF Shutdown, GoTo, Dead

LEMMA SrcDst ==
  ASSUME cb \in Activation
  PROVE  Src \in Sides /\ Dst \in Sides /\ Dst = Peer(Src) /\ Src = Peer(Dst)
BY PeerFacts DEF Src, Dst, Activation, Sides, Peer

LEMMA TypesInitially == Init => TypeOK
BY EmptySeq DEF Init, SocketsInit, BridgeInit, TypeOK, SocketsTypeOK, ConnState, InitialFlags,
  InitialMask, Flag, SkEvent, Idle, Activation, Stage, Sides, IoEvent, ProcState

LEMMA TypesOfSelect == TypeOK /\ Select => TypeOK'
BY DEF Select, TypeOK, SocketsTypeOK, sockVars, bridgeVars, ReadyEvents, SkEvent

LEMMA TypesOfDispatch ==
  ASSUME TypeOK, NEW s \in Sides, Dispatch(s)
  PROVE  TypeOK'
<1> DEFINE f == FlagsOnActivity(flags[s], have[s], Failed(s))
           ev == EventsOnActivity(flags[s], have[s], Failed(s))
<1>1. f \in SUBSET Flag /\ ev \in SUBSET IoEvent /\ EventMask(f) \in SUBSET SkEvent
  <2>1. flags[s] \in SUBSET Flag /\ have[s] \in SUBSET SkEvent
    BY DEF TypeOK
  <2>2. f \in SUBSET Flag /\ ev \in SUBSET IoEvent
    BY <2>1 DEF FlagsOnActivity, EventsOnActivity, TagBroken, Flag, IoEvent
  <2> QED
    BY <2>2, PipeTypes
<1>2. flags' = [flags EXCEPT ![s] = f] /\ mask' = [mask EXCEPT ![s] = EventMask(f)]
  BY DEF Dispatch, SetFlags
<1>3. have' \in [Sides -> SUBSET SkEvent]
  BY DEF Dispatch, TypeOK
<1>4. cb' \in Activation
  BY <1>1 DEF Dispatch, BridgeCalled, TypeOK, Activation, Idle, Stage, Sides, IoEvent
<1>5. proc' \in ProcState
  BY DEF Dispatch, Survives, ProcState
<1>6. UNCHANGED <<sockVars, pending, reports>>
  BY DEF Dispatch, BridgeCalled
<1> HIDE DEF f
<1> QED
  BY <1>1, <1>2, <1>3, <1>4, <1>5, <1>6 DEF TypeOK, SocketsTypeOK, sockVars

LEMMA TypesOfFlush == TypeOK /\ Flush => TypeOK'
<1> SUFFICES ASSUME TypeOK, Flush
             PROVE  TypeOK'
  OBVIOUS
<1> DEFINE d == cb.self
           q == pending[d]
<1>1. PICK w \in SendResults(d, Len(q)) :
        LET fd == FlagsAfterSend(flags[d], w.is)
        IN /\ out' = [out EXCEPT ![d] = @ \o Taken(q, w.n)]
           /\ SetFlags(d, fd)
           /\ Flushed(w.n, fd)
           /\ SurvivesSend(FlushedAsserts(w.n, fd), w.is)
  BY DEF Flush
<1> DEFINE fd == FlagsAfterSend(flags[d], w.is)
<1>2. d \in Sides /\ q \in Seq(Octet) /\ out[d] \in Seq(Octet)
  BY DEF TypeOK, SocketsTypeOK, Activation
<1>3. w.is \in SendOutcome /\ w.n \in 0..Len(q)
  BY DEF SendResults
<1>4. fd \in SUBSET Flag /\ EventMask(fd) \in SUBSET SkEvent
  BY <1>2, <1>3, PipeTypes DEF TypeOK
<1>5. Taken(q, w.n) \in Seq(Octet) /\ Rest(q, w.n) \in Seq(Octet)
  BY <1>2, <1>3, CutFacts
<1>6. out[d] \o Taken(q, w.n) \in Seq(Octet)
  BY <1>2, <1>5, ConcatProperties
<1>7. out' \in [Sides -> Seq(Octet)] /\ pending' \in [Sides -> Seq(Octet)]
  BY <1>1, <1>5, <1>6 DEF Flushed, TypeOK, SocketsTypeOK
<1>8. reports' \in Seq(Report) /\ cb' \in Activation
  BY <1>1, ReportTypes DEF Flushed, Proceed, TypeOK, Stage, Report
<1>9. flags' \in [Sides -> SUBSET Flag] /\ mask' \in [Sides -> SUBSET SkEvent]
  BY <1>1, <1>4 DEF SetFlags, TypeOK
<1>10. proc' \in ProcState
  BY <1>1 DEF SurvivesSend, ProcState
<1> QED
  BY <1>7, <1>8, <1>9, <1>10 DEF Flush, TypeOK, SocketsTypeOK

LEMMA TypesOfRelayNothing == TypeOK /\ RelayNothing => TypeOK'
<1> SUFFICES ASSUME TypeOK, RelayNothing
             PROVE  TypeOK'
  OBVIOUS
<1>1. PICK r \in RecvResults(Src, RecvSize[Src]) :
        LET fs == FlagsAfterRecv(flags[Src], r.is)
        IN SetFlags(Src, fs) /\ RelayedNothing(fs)
  BY DEF RelayNothing
<1> DEFINE fs == FlagsAfterRecv(flags[Src], r.is)
<1>2. Src \in Sides /\ r.is \in RecvOutcome
  BY SrcDst DEF TypeOK, RecvResults
<1>3. fs \in SUBSET Flag /\ EventMask(fs) \in SUBSET SkEvent
  BY <1>2, PipeTypes DEF TypeOK
<1>4. flags' \in [Sides -> SUBSET Flag] /\ mask' \in [Sides -> SUBSET SkEvent]
  BY <1>1, <1>3 DEF SetFlags, TypeOK
<1>5. reports' \in Seq(Report) /\ cb' \in Activation
  BY <1>1, ReportTypes DEF RelayedNothing, Proceed, TypeOK, Activation, Report
<1>6. pending' = pending /\ proc' \in ProcState
  BY <1>1 DEF RelayedNothing, RelayNothing, Survives, ProcState
<1> QED
  BY <1>4, <1>5, <1>6 DEF RelayNothing, TypeOK, SocketsTypeOK, sockVars

LEMMA TypesOfRelayFin == TypeOK /\ RelayFin => TypeOK'
<1> SUFFICES ASSUME TypeOK, RelayFin
             PROVE  TypeOK'
  OBVIOUS
<1> DEFINE fs == FlagsAfterRecv(flags[Src], "fin")
           fd == FlagsAfterFin(flags[Dst], ~Failed(Dst))
<1>1. SetBothFlags(Src, fs, Dst, fd) /\ RelayedFin(fd)
  BY DEF RelayFin
<1>2. Src \in Sides /\ Dst \in Sides
  BY SrcDst DEF TypeOK
<1>3. /\ fs \in SUBSET Flag /\ EventMask(fs) \in SUBSET SkEvent
      /\ fd \in SUBSET Flag /\ EventMask(fd) \in SUBSET SkEvent
  BY <1>2, PipeTypes DEF TypeOK, RecvOutcome, FlagsAfterFin
<1>4. flags' \in [Sides -> SUBSET Flag] /\ mask' \in [Sides -> SUBSET SkEvent]
  BY <1>1, <1>3 DEF SetBothFlags, TypeOK
<1>5. reports' \in Seq(Report) /\ cb' \in Activation
  BY <1>1, ReportTypes DEF RelayedFin, Proceed, TypeOK, Activation, Report
<1>6. pending' = pending /\ proc' \in ProcState /\ shut' \subseteq Sides
  BY <1>1, <1>2 DEF RelayedFin, RelayFin, Survives, ProcState, TypeOK, SocketsTypeOK
<1> QED
  BY <1>4, <1>5, <1>6 DEF RelayFin, TypeOK, SocketsTypeOK

LEMMA TypesOfRelayData == TypeOK /\ RelayData => TypeOK'
<1> SUFFICES ASSUME TypeOK, RelayData
             PROVE  TypeOK'
  OBVIOUS
<1> DEFINE fs == FlagsAfterRecv(flags[Src], "data")
           FD(w) == FlagsAfterSend(flags[Dst], w.is)
           Data(r) == Taken(in[Src], r.n)
<1>1. PICK r \in RecvResults(Src, RecvSize[Src]) :
        /\ r.is = "data"
        /\ \E w \in SendResults(Dst, r.n) :
             /\ in' = [in EXCEPT ![Src] = Rest(@, r.n)]
             /\ out' = [out EXCEPT ![Dst] = @ \o Taken(Data(r), w.n)]
             /\ SetBothFlags(Src, fs, Dst, FD(w))
             /\ RelayedData(Data(r), w.n, FD(w))
             /\ SurvivesSend(RelayAsserts /\ RelayedDataAsserts(Data(r), w.n, FD(w)), w.is)
  BY DEF RelayData
<1>2. PICK w \in SendResults(Dst, r.n) :
        /\ in' = [in EXCEPT ![Src] = Rest(@, r.n)]
        /\ out' = [out EXCEPT ![Dst] = @ \o Taken(Data(r), w.n)]
        /\ SetBothFlags(Src, fs, Dst, FD(w))
        /\ RelayedData(Data(r), w.n, FD(w))
        /\ SurvivesSend(RelayAsserts /\ RelayedDataAsserts(Data(r), w.n, FD(w)), w.is)
  BY <1>1
<1> DEFINE data == Data(r)
           fd == FD(w)
<1>3. Src \in Sides /\ Dst \in Sides
  BY SrcDst DEF TypeOK
<1>4. /\ in[Src] \in Seq(Octet) /\ r.n \in 0..Len(in[Src])
      /\ w.n \in 0..r.n /\ w.is \in SendOutcome
  <2>1. in[Src] \in Seq(Octet) /\ r.n \in 1..Len(in[Src])
    BY <1>1, <1>3 DEF TypeOK, SocketsTypeOK, RecvResults
  <2>2. r.n \in 0..Len(in[Src])
    BY <2>1, LenProperties
  <2> QED
    BY <2>1, <2>2 DEF SendResults
<1>5. /\ data \in Seq(Octet) /\ Len(data) = r.n
      /\ Rest(in[Src], r.n) \in Seq(Octet)
  BY <1>4, CutFacts
<1>6. Taken(data, w.n) \in Seq(Octet) /\ Rest(data, w.n) \in Seq(Octet)
  BY <1>4, <1>5, CutFacts
<1>7. in' \in [Sides -> Seq(Octet)]
  BY <1>2, <1>5 DEF TypeOK, SocketsTypeOK
<1>8. out' \in [Sides -> Seq(Octet)]
  <2>1. out[Dst] \o Taken(data, w.n) \in Seq(Octet)
    BY <1>3, <1>6, ConcatProperties DEF TypeOK, SocketsTypeOK
  <2> QED
    BY <1>2, <2>1 DEF TypeOK, SocketsTypeOK
<1>9. pending' \in [Sides -> Seq(Octet)]
  BY <1>2, <1>6 DEF RelayedData, TypeOK
<1>10. flags' \in [Sides -> SUBSET Flag] /\ mask' \in [Sides -> SUBSET SkEvent]
  <2>1. /\ fs \in SUBSET Flag /\ EventMask(fs) \in SUBSET SkEvent
        /\ fd \in SUBSET Flag /\ EventMask(fd) \in SUBSET SkEvent
    BY <1>3, <1>4, PipeTypes DEF TypeOK, RecvOutcome
  <2> QED
    BY <1>2, <2>1 DEF SetBothFlags, TypeOK
<1>11. reports' \in Seq(Report) /\ cb' \in Activation
  BY <1>2, ReportTypes DEF RelayedData, Proceed, TypeOK, Activation, Report
<1>12. proc' \in ProcState
  BY <1>2 DEF SurvivesSend, ProcState
<1> QED
  BY <1>7, <1>8, <1>9, <1>10, <1>11, <1>12 DEF RelayData, TypeOK, SocketsTypeOK

LEMMA TypesOfRelayTurns == TypeOK /\ RelayTurns => TypeOK'
<1> SUFFICES ASSUME TypeOK, RelayTurns
             PROVE  TypeOK'
  OBVIOUS
<1>1. reports' \in Seq(Report) /\ cb' \in Activation
  BY ReportTypes DEF RelayTurns, RelayInEnds, TypeOK, Stage, Report
<1> QED
  BY <1>1 DEF RelayTurns, RelayInEnds, TypeOK, SocketsTypeOK, sockVars

LEMMA TypesOfReturn == TypeOK /\ Return => TypeOK'
<1> SUFFICES ASSUME TypeOK, Return
             PROVE  TypeOK'
  OBVIOUS
<1>1. reports' \in Seq(Report) /\ cb' \in Activation
  <2>1. CASE Shutdown("failed")
    BY <2>1, ReportTypes DEF TypeOK, Stage, Report
  <2>2. CASE Shutdown("graceful")
    BY <2>2, ReportTypes DEF TypeOK, Stage, Report
  <2>3. CASE cb' = Idle /\ UNCHANGED reports
    BY <2>3 DEF TypeOK, Idle, Activation, Stage, Sides
  <2> QED
    BY <2>1, <2>2, <2>3 DEF Return, CallbackEnds
<1> QED
  BY <1>1 DEF Return, CallbackEnds, TypeOK, SocketsTypeOK, sockVars

LEMMA TypesOfExit == TypeOK /\ Exit => TypeOK'
BY DEF Exit, TypeOK, SocketsTypeOK, bridgeVars, ConnState, ProcState

LEMMA TypesOfHosts ==
  ASSUME TypeOK, NEW s \in Sides, HostActs(s)
  PROVE  TypeOK'
<1> USE DEF HostActs, bridgeVars
<1>1. CASE HostSends(s)
  <2> DEFINE o == <<s, Len(sent[s]) + 1>>
  <2>1. o \in Octet
    <3>1. Len(sent[s]) \in Nat /\ MaxOctets[s] \in Nat /\ Len(sent[s]) < MaxOctets[s]
      BY <1>1, LenProperties DEF HostSends, TypeOK, SocketsTypeOK, SocketAssumption
    <3>2. Len(sent[s]) + 1 \in 1..MaxOctets[s]
      BY <3>1
    <3> QED
      BY <3>2 DEF Octet
  <2>2. Append(in[s], o) \in Seq(Octet) /\ Append(sent[s], o) \in Seq(Octet)
    BY <2>1, AppendProperties DEF TypeOK, SocketsTypeOK
  <2> QED
    BY <1>1, <2>2 DEF HostSends, TypeOK, SocketsTypeOK
<1>2. CASE HostReads(s)
  <2>1. Head(out[s]) \in Octet /\ Tail(out[s]) \in Seq(Octet)
    BY <1>2, HeadTailProperties DEF HostReads, TypeOK, SocketsTypeOK
  <2>2. Append(got[s], Head(out[s])) \in Seq(Octet)
    BY <2>1, AppendProperties DEF TypeOK, SocketsTypeOK
  <2> QED
    BY <1>2, <2>1, <2>2 DEF HostReads, TypeOK, SocketsTypeOK
<1>3. CASE Connected(s) \/ Refused(s) \/ ConnectionLost(s) \/ HostCloses(s)
  BY <1>3 DEF Connected, Refused, ConnectionLost, HostCloses, TypeOK, SocketsTypeOK, ConnState
<1> QED
  BY <1>1, <1>2, <1>3

LEMMA TypesInductive == TypeOK /\ [Next]_vars => TypeOK'
<1>1. TypeOK /\ UNCHANGED vars => TypeOK'
  BY DEF vars, sockVars, bridgeVars, TypeOK, SocketsTypeOK
<1> QED
  BY <1>1, TypesOfSelect, TypesOfDispatch, TypesOfFlush, TypesOfRelayNothing, TypesOfRelayFin,
     TypesOfRelayData, TypesOfRelayTurns, TypesOfReturn, TypesOfExit, TypesOfHosts
     DEF Next, Relay, Terminated

\* Every variable keeps its type, whatever the buffers, chunks and octets.
THEOREM TypeCorrect == Spec => []TypeOK
<1>1. Init => TypeOK
  BY TypesInitially
<1>2. TypeOK /\ [Next]_vars => TypeOK'
  BY TypesInductive
<1> QED
  BY <1>1, <1>2, PTL DEF Spec

-----------------------------------------------------------------------------
(* Control: the bits, the masks, the undispatched events and the stages of *)
(* the callback fit together, so no assertion fails and no wakeup is lost. *)

LEMMA ControlInitially == Init => ControlInv
BY DEF Init, SocketsInit, BridgeInit, InitialFlags, InitialMask, Idle, ControlInv, FlagsInv, MaskInv,
  EventsInv, BrokenInv, StageInv, PendingInv, AwakeInv, FinInv, NoAbort, Dead

\* The mask of a pipe bit by bit.
LEMMA EventMaskBits ==
  ASSUME NEW f
  PROVE  /\ "readable" \in EventMask(f) <=>
              "ready" \in f /\ "broken" \notin f /\ "readable" \notin f /\ "fin_rcvd" \notin f
         /\ "writable" \in EventMask(f) <=>
              "ready" \in f /\ "broken" \notin f /\ "writable" \notin f /\ "fin_sent" \notin f
         /\ "error" \notin EventMask(f)
BY DEF EventMask

LEMMA ControlOfSelect == TypeOK /\ ControlInv /\ Select => ControlInv'
<1> SUFFICES ASSUME TypeOK, ControlInv, Select
             PROVE  ControlInv'
  OBVIOUS
<1>1. UNCHANGED <<sockVars, bridgeVars, proc>> /\ cb.at = "idle" /\ ~Dead
  BY DEF Select
<1>2. \A s \in Sides : have'[s] = ReadyEvents(s) \cap (mask[s] \cup {"error"})
  BY DEF Select
<1>3. EventsInv'
  <2> SUFFICES ASSUME NEW s \in Sides
               PROVE  /\ have'[s] \subseteq mask[s] \cup {"error"}
                      /\ "readable" \in have'[s] => "ready" \in flags[s] /\ "fin_rcvd" \notin flags[s]
                      /\ "writable" \in have'[s] => "fin_sent" \notin flags[s]
                      /\ "error" \in have'[s] => Failed(s)
    BY <1>1 DEF EventsInv, bridgeVars, sockVars, Failed
  <2>1. "error" \in ReadyEvents(s) => Failed(s)
    BY DEF ReadyEvents
  <2>2. mask[s] = IF flags[s] = {} THEN InitialMask ELSE EventMask(flags[s])
    BY DEF ControlInv, MaskInv
  <2>3. "error" \notin mask[s]
    BY <2>2 DEF InitialMask, EventMask
  <2>4. "readable" \in mask[s] => "ready" \in flags[s] /\ "fin_rcvd" \notin flags[s]
    BY <2>2, EventMaskBits DEF InitialMask
  <2>5. "writable" \in mask[s] => "fin_sent" \notin flags[s]
    BY <2>2, EventMaskBits DEF InitialMask
  <2> QED
    BY <1>2, <2>1, <2>3, <2>4, <2>5
<1> QED
  BY <1>1, <1>3 DEF ControlInv, FlagsInv, MaskInv, BrokenInv, StageInv, PendingInv, AwakeInv, FinInv,
     NoAbort, bridgeVars, sockVars, Dead, Failed

LEMMA ControlOfDispatch ==
  ASSUME TypeOK, ControlInv, NEW s \in Sides, Dispatch(s)
  PROVE  ControlInv'
<1> DEFINE f == FlagsOnActivity(flags[s], have[s], Failed(s))
           ev == EventsOnActivity(flags[s], have[s], Failed(s))
<1>1. /\ flags' = [flags EXCEPT ![s] = f]
      /\ mask' = [mask EXCEPT ![s] = EventMask(f)]
      /\ have' = [have EXCEPT ![s] = {}]
      /\ BridgeCalled(s, ev)
      /\ proc = "running" /\ cb.at = "idle" /\ have[s] # {}
      /\ UNCHANGED sockVars
  BY DEF Dispatch, SetFlags
<1>2. UNCHANGED <<pending, reports>>
  BY <1>1 DEF BridgeCalled
<1>3. /\ f = IF ConnectFailed(flags[s], have[s], Failed(s)) THEN TagBroken(flags[s])
             ELSE flags[s] \cup {"ready"} \cup (have[s] \cap {"readable", "writable"})
      /\ ev = IF ConnectFailed(flags[s], have[s], Failed(s)) THEN {"broken"}
              ELSE ({"ready"} \ flags[s]) \cup (have[s] \cap {"readable", "writable"})
  BY DEF FlagsOnActivity, EventsOnActivity
<1>4. ConnectFailed(flags[s], have[s], Failed(s)) => "ready" \notin flags[s] /\ Failed(s)
  BY DEF ConnectFailed, ControlInv, EventsInv
<1>5. flags[s] \in SUBSET Flag /\ have[s] \in SUBSET SkEvent /\ f # {}
  BY <1>3 DEF TypeOK, TagBroken
<1>6. OnActivityAsserts(flags[s], have[s], Failed(s))
  BY <1>1, <1>5 DEF OnActivityAsserts, ControlInv, EventsInv, SkEvent
<1>7. BridgeCalledAsserts(s, ev, f)
  BY <1>3 DEF BridgeCalledAsserts
<1>8. NoAbort'
  BY <1>6, <1>7 DEF Dispatch, Survives, NoAbort
<1> HIDE DEF f, ev
<1>9. FlagsInv'
  BY <1>1, <1>3, <1>4, <1>5 DEF ControlInv, FlagsInv, EventsInv, TagBroken, TypeOK
<1>10. MaskInv'
  BY <1>1, <1>5 DEF ControlInv, MaskInv, TypeOK
<1>11. cb' = IF Dead THEN Idle
             ELSE [at |-> CASE "writable" \in ev /\ pending[s] # <<>> -> "flush"
                            [] "writable" \in ev /\ pending[s] = <<>> -> "relay_in"
                            [] OTHER -> "relay_out",
                   self |-> s, events |-> ev]
  BY <1>1 DEF BridgeCalled
<1>12. EventsInv'
  BY <1>1, <1>2, <1>11 DEF ControlInv, EventsInv, TypeOK, Dead, Idle, sockVars, Failed
<1>13. BrokenInv'
  BY <1>1, <1>2, <1>3, <1>4, <1>11 DEF ControlInv, BrokenInv, FlagsInv, TypeOK, Dead, TagBroken, sockVars, Failed
<1>14. StageInv'
  BY <1>1, <1>2, <1>3, <1>11 DEF ControlInv, StageInv, TypeOK, Dead, Idle, TagBroken
<1>15. PendingInv'
  BY <1>1, <1>2, <1>3, <1>11 DEF ControlInv, PendingInv, TypeOK, Dead, TagBroken
<1>16. AwakeInv'
  BY <1>1, <1>2, <1>3, <1>11, PeerFacts DEF ControlInv, AwakeInv, TypeOK, Dead, TagBroken
<1>17. FinInv'
  <2>1. \A e \in {"fin_sent", "fin_rcvd"} : \A t \in Sides : e \in flags'[t] <=> e \in flags[t]
    BY <1>1, <1>3 DEF TagBroken, TypeOK
  <2> QED
    BY <1>1, <1>2, <2>1, PeerFacts DEF ControlInv, FinInv, Dead, sockVars
<1> QED
  BY <1>8, <1>9, <1>10, <1>12, <1>13, <1>14, <1>15, <1>16, <1>17 DEF ControlInv

\* While the callback runs the bridge lives, and a pipe with a raised
\* readable or writable bit is not broken and was called back before.
LEMMA InCallback ==
  ASSUME TypeOK, ControlInv, cb.at # "idle"
  PROVE  /\ ~Dead /\ reports = <<>>
         /\ cb.self \in Sides /\ have[cb.self] = {}
         /\ \A s \in Sides : {"readable", "writable"} \cap flags[s] # {} =>
              "broken" \notin flags[s] /\ mask[s] = EventMask(flags[s])
BY DEF TypeOK, Activation, ControlInv, EventsInv, StageInv, BrokenInv, MaskInv, Dead

LEMMA ControlOfFlush == TypeOK /\ ControlInv /\ Flush => ControlInv'
<1> SUFFICES ASSUME TypeOK, ControlInv, Flush
             PROVE  ControlInv'
  OBVIOUS
<1> DEFINE d == cb.self
           FD(w) == FlagsAfterSend(flags[d], w.is)
<1>1. PICK w \in SendResults(d, Len(pending[d])) :
        /\ SetFlags(d, FD(w))
        /\ Flushed(w.n, FD(w))
        /\ SurvivesSend(FlushedAsserts(w.n, FD(w)), w.is)
  BY DEF Flush
<1> DEFINE fd == FD(w)
<1>2. cb.at = "flush" /\ proc = "running" /\ UNCHANGED <<conn, in, eof, shut, have>>
  BY DEF Flush
<1>3. d \in Sides /\ "writable" \in flags[d] /\ have[d] = {} /\ ~Dead /\ reports = <<>>
      /\ "broken" \notin flags[d] /\ pending[d] # <<>> /\ flags[d] \in SUBSET Flag
  BY <1>2, InCallback DEF TypeOK, ControlInv, StageInv
<1>4. /\ flags' = [flags EXCEPT ![d] = fd]
      /\ mask' = [mask EXCEPT ![d] = EventMask(fd)]
      /\ pending' = [pending EXCEPT ![d] = Rest(@, w.n)]
      /\ ("broken" \in fd /\ Shutdown("failed")) \/ ("broken" \notin fd /\ GoTo("relay_in"))
  BY <1>1 DEF SetFlags, Flushed, Proceed
<1>5. \/ w.is = "all" /\ fd = flags[d] /\ w.n = Len(pending[d])
      \/ w.is \in {"some", "again"} /\ fd = flags[d] \ {"writable"}
      \/ w.is \in {"fatal", "epipe"} /\ fd = TagBroken(flags[d]) /\ Failed(d)
  BY <1>1, <1>3 DEF SendResults, SendOutcome, FlagsAfterSend
<1>6. Rest(pending[d], Len(pending[d])) = <<>>
  BY <1>3, CutAtEnds DEF TypeOK
<1> HIDE DEF fd
<1>7. "ready" \in fd /\ fd # {} /\ fd \in SUBSET Flag
  BY <1>3, <1>5 DEF TagBroken, ControlInv, FlagsInv, Flag
<1>8. Dead' <=> "broken" \in fd
  BY <1>3, <1>4, LifeAndDeath DEF TypeOK, Report
<1>9. /\ cb'.at # "idle" => cb'.at = "relay_in" /\ cb'.self = d /\ cb'.events = cb.events
      /\ cb'.at # "idle" <=> "broken" \notin fd
  BY <1>4 DEF Shutdown, GoTo, Idle, TypeOK, Activation
<1>10. NoAbort'
  <2>1. w.n < Len(pending[d]) => "writable" \notin fd
    BY <1>3, <1>5, LenProperties DEF TypeOK, TagBroken
  <2> QED
    BY <1>1, <1>3, <2>1 DEF SurvivesSend, FlushedAsserts, NoAbort, fd
<1>11. FlagsInv'
  BY <1>3, <1>4, <1>5, <1>7 DEF ControlInv, FlagsInv, TypeOK, TagBroken
<1>12. MaskInv'
  BY <1>3, <1>4, <1>7 DEF ControlInv, MaskInv, TypeOK
<1>13. EventsInv'
  BY <1>2, <1>3, <1>4, <1>8, <1>9 DEF ControlInv, EventsInv, TypeOK, Failed
<1>14. BrokenInv'
  BY <1>2, <1>3, <1>4, <1>5, <1>8, <1>9 DEF ControlInv, BrokenInv, TypeOK, Failed, TagBroken
<1>15. StageInv'
  BY <1>2, <1>3, <1>4, <1>8, <1>9 DEF ControlInv, StageInv
<1>16. PendingInv'
  BY <1>2, <1>3, <1>4, <1>5, <1>6, <1>8 DEF ControlInv, PendingInv, TypeOK, TagBroken
<1>17. AwakeInv'
  BY <1>2, <1>3, <1>4, <1>5, <1>8, <1>9, PeerFacts DEF ControlInv, AwakeInv, TypeOK, TagBroken
<1>18. FinInv'
  <2>1. \A e \in {"fin_sent", "fin_rcvd"} : \A t \in Sides : e \in flags'[t] <=> e \in flags[t]
    BY <1>3, <1>4, <1>5 DEF TagBroken, TypeOK
  <2>2. "fin_sent" \notin flags[d]
    BY <1>3 DEF ControlInv, FlagsInv
  <2> QED
    BY <1>2, <1>3, <1>4, <2>1, <2>2, PeerFacts DEF ControlInv, FinInv, TypeOK
<1> QED
  BY <1>10, <1>11, <1>12, <1>13, <1>14, <1>15, <1>16, <1>17, <1>18 DEF ControlInv

\* What holds whenever the bridge passes over a pair of pipe calls.
LEMMA RelayPass ==
  ASSUME TypeOK, ControlInv, InRelay, Relaying
  PROVE  /\ Src \in Sides /\ Dst \in Sides /\ Dst = Peer(Src) /\ Src = Peer(Dst) /\ Src # Dst
         /\ cb.at \in {"relay_in", "relay_out"} /\ ~Dead /\ reports = <<>>
         /\ "readable" \in flags[Src] /\ "broken" \notin flags[Src]
         /\ "writable" \in flags[Dst] /\ "broken" \notin flags[Dst]
         /\ "ready" \in flags[Src] /\ "ready" \in flags[Dst]
         /\ "fin_rcvd" \notin flags[Src] /\ "fin_sent" \notin flags[Dst]
         /\ flags[Src] \in SUBSET Flag /\ flags[Dst] \in SUBSET Flag
         /\ pending[Dst] = <<>>
         /\ "readable" \notin have[Src] /\ "writable" \notin have[Dst]
         /\ have[cb.self] = {} /\ cb.self \in {Src, Dst}
<1>1. cb.at \in {"relay_in", "relay_out"}
  BY DEF InRelay
<1>2. /\ Src \in Sides /\ Dst \in Sides /\ Dst = Peer(Src) /\ Src = Peer(Dst) /\ Src # Dst
      /\ cb.self \in {Src, Dst}
  BY SrcDst, PeerFacts DEF TypeOK, Src, Dst, Activation
<1>3. /\ ~Dead /\ reports = <<>> /\ have[cb.self] = {}
      /\ "broken" \notin flags[Src] /\ mask[Src] = EventMask(flags[Src])
      /\ "broken" \notin flags[Dst] /\ mask[Dst] = EventMask(flags[Dst])
  BY <1>1, <1>2, InCallback DEF Relaying
<1>4. /\ "ready" \in flags[Src] /\ "ready" \in flags[Dst]
      /\ "fin_rcvd" \notin flags[Src] /\ "fin_sent" \notin flags[Dst]
  BY <1>2 DEF Relaying, ControlInv, FlagsInv
<1>5. pending[Dst] = <<>>
  BY <1>1, <1>2, <1>3 DEF Relaying, ControlInv, PendingInv
<1>6. "readable" \notin have[Src] /\ "writable" \notin have[Dst]
  BY <1>2, <1>3, EventMaskBits DEF Relaying, ControlInv, EventsInv
<1> QED
  BY <1>1, <1>2, <1>3, <1>4, <1>5, <1>6 DEF Relaying, TypeOK

LEMMA ControlOfRelayNothing == TypeOK /\ ControlInv /\ RelayNothing => ControlInv'
<1> SUFFICES ASSUME TypeOK, ControlInv, RelayNothing
             PROVE  ControlInv'
  OBVIOUS
<1> DEFINE FS(r) == FlagsAfterRecv(flags[Src], r.is)
<1>1. PICK r \in RecvResults(Src, RecvSize[Src]) :
        /\ r.is \in {"again", "fatal"}
        /\ SetFlags(Src, FS(r)) /\ RelayedNothing(FS(r))
  BY DEF RelayNothing
<1> DEFINE fs == FS(r)
           src == Src
           dst == Dst
<1>2. /\ src \in Sides /\ dst \in Sides /\ dst = Peer(src) /\ src = Peer(dst) /\ src # dst
      /\ cb.at \in {"relay_in", "relay_out"} /\ ~Dead /\ reports = <<>>
      /\ "readable" \in flags[src] /\ "broken" \notin flags[src] /\ "ready" \in flags[src]
      /\ flags[src] \in SUBSET Flag
      /\ "readable" \notin have[src] /\ have[cb.self] = {}
  BY RelayPass DEF RelayNothing
<1>3. RelayAsserts
  BY RelayPass DEF RelayNothing, RelayAsserts
<1>4. UNCHANGED <<sockVars, have, pending>> /\ proc' = "running"
  BY <1>1, <1>3 DEF RelayNothing, RelayedNothing, Survives
<1>5. \/ fs = flags[src] \ {"readable"}
      \/ fs = TagBroken(flags[src]) /\ Failed(src)
  BY <1>1 DEF RecvResults, RecvOutcome, FlagsAfterRecv
<1>6. /\ flags' = [flags EXCEPT ![src] = fs]
      /\ mask' = [mask EXCEPT ![src] = EventMask(fs)]
      /\ ("broken" \in fs /\ Shutdown("failed")) \/ ("broken" \notin fs /\ GoTo(cb.at))
  BY <1>1 DEF SetFlags, RelayedNothing, Proceed
<1> HIDE DEF fs, src, dst
<1>7. "ready" \in fs /\ fs # {}
  BY <1>2, <1>5 DEF TagBroken
<1>8. Dead' <=> "broken" \in fs
  BY <1>2, <1>6, LifeAndDeath DEF TypeOK, Report
<1>9. /\ "broken" \in fs => cb' = Idle
      /\ "broken" \notin fs => cb' = cb
  BY <1>6 DEF Shutdown, GoTo, TypeOK, Activation
<1>10. NoAbort'
  BY <1>4 DEF NoAbort
<1>11. FlagsInv'
  BY <1>2, <1>5, <1>6, <1>7 DEF ControlInv, FlagsInv, TypeOK, TagBroken
<1>12. MaskInv'
  BY <1>2, <1>6, <1>7 DEF ControlInv, MaskInv, TypeOK
<1>13. EventsInv'
  <2>1. have' = have /\ \A t \in Sides : Failed(t)' <=> Failed(t)
    BY <1>4 DEF sockVars, Failed
  <2>2. "writable" \in mask[src] /\ "broken" \notin fs => "writable" \in mask'[src]
    <3>1. mask[src] = EventMask(flags[src]) /\ mask'[src] = EventMask(fs)
      BY <1>2, <1>6 DEF ControlInv, MaskInv, TypeOK
    <3> QED
      BY <1>2, <1>5, <3>1, EventMaskBits DEF TagBroken
  <2>3. have[src] \subseteq SkEvent /\ (~Dead' => have[src] \subseteq mask'[src] \cup {"error"})
    <3>1. have[src] \subseteq SkEvent
      BY <1>2 DEF TypeOK
    <3>2. have[src] \subseteq mask[src] \cup {"error"}
      BY <1>2 DEF ControlInv, EventsInv
    <3>3. ~Dead' => have[src] \subseteq mask'[src] \cup {"error"}
      BY <1>2, <1>8, <2>2, <3>1, <3>2 DEF SkEvent
    <3> QED
      BY <3>1, <3>3
  <2>4. "fin_rcvd" \in fs <=> "fin_rcvd" \in flags[src]
    BY <1>5 DEF TagBroken
  <2>5. "fin_sent" \in fs <=> "fin_sent" \in flags[src]
    BY <1>5 DEF TagBroken
  <2>6. cb'.at # "idle" => have[cb'.self] = {}
    BY <1>2, <1>9 DEF Idle
  <2> SUFFICES ASSUME NEW t \in Sides
               PROVE  /\ ~Dead' => have[t] \subseteq mask'[t] \cup {"error"}
                      /\ "readable" \in have[t] => "ready" \in flags'[t] /\ "fin_rcvd" \notin flags'[t]
                      /\ "writable" \in have[t] => "fin_sent" \notin flags'[t]
                      /\ "error" \in have[t] => Failed(t)
    BY <2>1, <2>6 DEF EventsInv
  <2>7. CASE t = src
    BY <1>2, <1>6, <1>7, <2>3, <2>4, <2>5, <2>7 DEF ControlInv, EventsInv, TypeOK
  <2>8. CASE t # src
    BY <1>2, <1>6, <2>8 DEF ControlInv, EventsInv, TypeOK
  <2> QED
    BY <2>7, <2>8
<1>14. BrokenInv'
  BY <1>2, <1>4, <1>5, <1>6, <1>8, <1>9 DEF ControlInv, BrokenInv, TypeOK, Failed, TagBroken, sockVars
<1>15. StageInv'
  BY <1>2, <1>5, <1>6, <1>8, <1>9 DEF ControlInv, StageInv, BrokenInv, TypeOK, Idle, TagBroken, Activation
<1>16. PendingInv'
  BY <1>2, <1>4, <1>5, <1>6, <1>8, <1>9 DEF ControlInv, PendingInv, TypeOK, TagBroken
<1>17. AwakeInv'
  BY <1>2, <1>4, <1>5, <1>6, <1>8, <1>9, PeerFacts DEF ControlInv, AwakeInv, TypeOK, TagBroken
<1>18. FinInv'
  <2>1. \A e \in {"fin_sent", "fin_rcvd"} : \A t \in Sides : e \in flags'[t] <=> e \in flags[t]
    BY <1>2, <1>5, <1>6 DEF TagBroken, TypeOK
  <2> QED
    BY <1>2, <1>4, <2>1, PeerFacts DEF ControlInv, FinInv, TypeOK, sockVars
<1> QED
  BY <1>10, <1>11, <1>12, <1>13, <1>14, <1>15, <1>16, <1>17, <1>18 DEF ControlInv

\* Receiving FIN and passing it on.  Both pipes change at once.
LEMMA ControlOfRelayFin == TypeOK /\ ControlInv /\ RelayFin => ControlInv'
<1> SUFFICES ASSUME TypeOK, ControlInv, RelayFin
             PROVE  ControlInv'
  OBVIOUS
<1> DEFINE src == Src
           dst == Dst
           fs == FlagsAfterRecv(flags[Src], "fin")
           fd == FlagsAfterFin(flags[Dst], ~Failed(Dst))
<1>1. PICK r \in RecvResults(Src, RecvSize[Src]) :
        /\ r.is = "fin"
        /\ SetBothFlags(Src, fs, Dst, fd)
        /\ RelayedFin(fd)
        /\ Survives(RelayAsserts /\ RelayedFinAsserts(fs))
  BY DEF RelayFin
<1>2. /\ src \in Sides /\ dst \in Sides /\ dst = Peer(src) /\ src = Peer(dst) /\ src # dst
      /\ cb.at \in {"relay_in", "relay_out"} /\ ~Dead /\ reports = <<>>
      /\ "readable" \in flags[src] /\ "broken" \notin flags[src]
      /\ "writable" \in flags[dst] /\ "broken" \notin flags[dst]
      /\ "ready" \in flags[src] /\ "ready" \in flags[dst]
      /\ "fin_rcvd" \notin flags[src] /\ "fin_sent" \notin flags[dst]
      /\ pending[dst] = <<>>
      /\ "readable" \notin have[src] /\ "writable" \notin have[dst]
      /\ have[cb.self] = {} /\ cb.self \in {src, dst}
  BY RelayPass DEF RelayFin
<1>3. src \in eof /\ in[src] = <<>>
  BY <1>1 DEF RecvResults
<1>4. RelayAsserts /\ RelayedFinAsserts(fs)
  BY <1>2 DEF RelayAsserts, RelayedFinAsserts, FlagsAfterRecv
<1>5. /\ UNCHANGED <<conn, in, eof, have, pending>> /\ proc' = "running"
      /\ shut' = IF Failed(dst) THEN shut ELSE shut \cup {dst}
  BY <1>1, <1>4 DEF RelayFin, RelayedFin, Survives
<1>6. /\ fs = (flags[src] \ {"readable"}) \cup {"fin_rcvd"}
      /\ fd = IF Failed(dst) THEN TagBroken(flags[dst])
              ELSE (flags[dst] \ {"writable"}) \cup {"fin_sent"}
  BY DEF FlagsAfterRecv, FlagsAfterFin
<1>7. /\ flags' = [flags EXCEPT ![src] = fs, ![dst] = fd]
      /\ mask' = [mask EXCEPT ![src] = EventMask(fs), ![dst] = EventMask(fd)]
      /\ ("broken" \in fd /\ Shutdown("failed")) \/ ("broken" \notin fd /\ GoTo(cb.at))
  BY <1>1 DEF SetBothFlags, RelayedFin, Proceed
<1> HIDE DEF fs, fd, src, dst
<1>8. /\ flags'[src] = fs /\ flags'[dst] = fd
      /\ mask'[src] = EventMask(fs) /\ mask'[dst] = EventMask(fd)
      /\ \A t \in Sides : t = src \/ t = dst
  BY ZenonT(60), <1>2, <1>7, TwoSides DEF TypeOK
<1>9. "ready" \in fs /\ "ready" \in fd
  BY <1>2, <1>6 DEF TagBroken
<1>10. (Dead' <=> "broken" \in fd) /\ (Failed(dst) <=> "broken" \in fd)
  <2>1. Failed(dst) <=> "broken" \in fd
    BY <1>2, <1>6 DEF TagBroken
  <2>2. Dead' <=> "broken" \in fd
    BY <1>2, <1>7, LifeAndDeath DEF TypeOK, Report
  <2> QED
    BY <2>1, <2>2
<1>11. /\ "broken" \in fd => cb' = Idle
       /\ "broken" \notin fd => cb' = cb
  BY <1>7 DEF Shutdown, GoTo, TypeOK, Activation
<1>12. \A t \in Sides : Failed(t)' <=> Failed(t)
  BY <1>5 DEF Failed
<1>13. NoAbort'
  BY <1>5 DEF NoAbort
<1>14. FlagsInv'
  <2>1. /\ ~({"writable", "fin_sent"} \subseteq flags[src])
        /\ ~({"readable", "fin_rcvd"} \subseteq flags[dst])
    BY <1>2 DEF ControlInv, FlagsInv
  <2>2. /\ ~({"readable", "fin_rcvd"} \subseteq fs)
        /\ ~({"writable", "fin_sent"} \subseteq fs)
    BY <1>6, <2>1
  <2>3. /\ ~({"readable", "fin_rcvd"} \subseteq fd)
        /\ ~({"writable", "fin_sent"} \subseteq fd)
    BY <1>6, <2>1 DEF TagBroken
  <2> QED
    BY <1>8, <1>9, <2>2, <2>3 DEF FlagsInv
<1>15. MaskInv'
  BY <1>8, <1>9 DEF MaskInv
<1>16. EventsInv'
  <2>1. cb'.at # "idle" => have[cb'.self] = {}
    BY <1>2, <1>11 DEF Idle
  <2>2. mask[src] = EventMask(flags[src]) /\ mask[dst] = EventMask(flags[dst])
    BY <1>2 DEF ControlInv, MaskInv
  <2>3. /\ "writable" \in have[src] => "writable" \in EventMask(fs) /\ "fin_sent" \notin fs
    <3>1. have[src] \subseteq EventMask(flags[src]) \cup {"error"}
      BY <1>2, <2>2 DEF ControlInv, EventsInv
    <3>2. "writable" \in have[src] => "writable" \in EventMask(flags[src])
      BY <3>1
    <3>3. "writable" \in EventMask(flags[src]) => "writable" \in EventMask(fs) /\ "fin_sent" \notin fs
      BY SMTT(30), <1>2, <1>6, EventMaskBits
    <3> QED
      BY <3>2, <3>3
  <2>4. /\ "readable" \in have[dst] => "fin_rcvd" \notin fd
        /\ "readable" \in have[dst] /\ "broken" \notin fd => "readable" \in EventMask(fd)
    <3>1. have[dst] \subseteq EventMask(flags[dst]) \cup {"error"}
      BY <1>2, <2>2 DEF ControlInv, EventsInv
    <3>2. "readable" \in have[dst] => "readable" \in EventMask(flags[dst])
      BY <3>1
    <3>3. "readable" \in EventMask(flags[dst]) => "fin_rcvd" \notin fd
      BY <1>6, EventMaskBits DEF TagBroken
    <3>4. "readable" \in EventMask(flags[dst]) /\ "broken" \notin fd => "readable" \in EventMask(fd)
      BY <1>6, <1>9, EventMaskBits DEF TagBroken
    <3> QED
      BY <3>2, <3>3, <3>4
  <2>5. have[src] \subseteq SkEvent /\ have[dst] \subseteq SkEvent
    BY <1>2 DEF TypeOK
  <2>6. \A t \in Sides : "error" \in have[t] => Failed(t)
    BY DEF ControlInv, EventsInv
  <2>7. "writable" \notin have[dst]
    BY <1>2
  <2> QED
    <3>1. have' = have
      BY <1>5
    <3>2. ~Dead' => have[src] \subseteq mask'[src] \cup {"error"}
      BY <1>2, <1>8, <2>3, <2>5 DEF SkEvent
    <3>3. ~Dead' => have[dst] \subseteq mask'[dst] \cup {"error"}
      BY <1>2, <1>8, <1>10, <2>4, <2>5, <2>7 DEF SkEvent
    <3>4. /\ "readable" \in have[src] => "ready" \in flags'[src] /\ "fin_rcvd" \notin flags'[src]
          /\ "readable" \in have[dst] => "ready" \in flags'[dst] /\ "fin_rcvd" \notin flags'[dst]
          /\ "writable" \in have[src] => "fin_sent" \notin flags'[src]
          /\ "writable" \in have[dst] => "fin_sent" \notin flags'[dst]
      BY <1>2, <1>8, <1>9, <2>3, <2>4
    <3>5. \A t \in Sides :
            /\ ~Dead' => have'[t] \subseteq mask'[t] \cup {"error"}
            /\ "readable" \in have'[t] => "ready" \in flags'[t] /\ "fin_rcvd" \notin flags'[t]
            /\ "writable" \in have'[t] => "fin_sent" \notin flags'[t]
      BY <1>8, <3>1, <3>2, <3>3, <3>4
    <3>6. \A t \in Sides : "error" \in have'[t] => Failed(t)'
      BY <1>12, <2>6, <3>1
    <3>7. cb'.at # "idle" => have'[cb'.self] = {}
      BY <2>1, <3>1
    <3> QED
      BY <3>5, <3>6, <3>7, Zenon DEF EventsInv
<1>17. BrokenInv'
  <2>1. "broken" \notin fs
    BY <1>2, <1>6
  <2>2. \A t \in Sides : "broken" \in flags'[t] => t = dst /\ "broken" \in fd
    BY <1>8, <2>1
  <2>3. \A t \in Sides : "broken" \in flags'[t] => Failed(t)' /\ Dead'
    BY <1>2, <1>10, <1>12, <2>2
  <2> QED
    BY <2>3 DEF BrokenInv
<1>18. StageInv'
  <2>1. ~("broken" \in cb.events)
    BY <1>2 DEF ControlInv, StageInv
  <2> QED
    BY <1>2, <1>10, <1>11, <2>1 DEF StageInv, Idle
<1>19. PendingInv'
  BY <1>2, <1>5, <1>6, <1>8, <1>10, <1>11 DEF ControlInv, PendingInv, TagBroken
<1>20. AwakeInv'
  <2>1. "readable" \notin fs
    BY <1>6
  <2>2. ("readable" \in fd => "readable" \in flags[dst]) /\ ("writable" \in fs => "writable" \in flags[src])
    BY <1>6 DEF TagBroken
  <2>3. "readable" \in flags[dst] /\ "writable" \in flags[src] =>
           \/ cb.self = src /\ cb.at \in {"flush", "relay_in"}
           \/ cb.self = dst /\ cb.at # "idle" /\ "readable" \in cb.events
    BY <1>2 DEF ControlInv, AwakeInv
  <2> QED
    BY <1>2, <1>8, <1>10, <1>11, <2>1, <2>2, <2>3 DEF AwakeInv
<1>21. FinInv'
  <2>1. /\ "fin_rcvd" \in fs
        /\ "fin_sent" \in fs <=> "fin_sent" \in flags[src]
        /\ "fin_rcvd" \in fd <=> "fin_rcvd" \in flags[dst]
        /\ "fin_sent" \in fd <=> ~Failed(dst)
    BY <1>2, <1>6 DEF TagBroken
  <2>2. shut' = {d \in Sides : "fin_sent" \in flags'[d]}
    BY <1>2, <1>5, <1>8, <2>1 DEF ControlInv, FinInv
  <2>3. "fin_rcvd" \in flags[dst] => "fin_sent" \in flags[src]
    BY <1>2 DEF ControlInv, FinInv
  <2>4. "fin_rcvd" \in flags[dst] => dst \in eof /\ in[dst] = <<>>
    BY <1>2 DEF ControlInv, FinInv
  <2>5. "fin_sent" \in flags[src] => "fin_rcvd" \in flags[dst] /\ pending[src] = <<>>
    BY <1>2 DEF ControlInv, FinInv
  <2> QED
    BY <1>2, <1>3, <1>5, <1>8, <1>10, <2>1, <2>2, <2>3, <2>4, <2>5 DEF FinInv
<1> QED
  BY <1>13, <1>14, <1>15, <1>16, <1>17, <1>18, <1>19, <1>20, <1>21 DEF ControlInv

\* Receiving data and sending what the other pipe takes of it.
LEMMA ControlOfRelayData == TypeOK /\ ControlInv /\ RelayData => ControlInv'
<1> SUFFICES ASSUME TypeOK, ControlInv, RelayData
             PROVE  ControlInv'
  OBVIOUS
<1> DEFINE src == Src
           dst == Dst
           fs == FlagsAfterRecv(flags[Src], "data")
           FD(w) == FlagsAfterSend(flags[Dst], w.is)
           Data(r) == Taken(in[Src], r.n)
<1>1. PICK r \in RecvResults(Src, RecvSize[Src]) :
        /\ r.is = "data"
        /\ \E w \in SendResults(Dst, r.n) :
             /\ in' = [in EXCEPT ![Src] = Rest(@, r.n)]
             /\ SetBothFlags(Src, fs, Dst, FD(w))
             /\ RelayedData(Data(r), w.n, FD(w))
             /\ SurvivesSend(RelayAsserts /\ RelayedDataAsserts(Data(r), w.n, FD(w)), w.is)
  BY DEF RelayData
<1>2. PICK w \in SendResults(Dst, r.n) :
        /\ in' = [in EXCEPT ![Src] = Rest(@, r.n)]
        /\ SetBothFlags(Src, fs, Dst, FD(w))
        /\ RelayedData(Data(r), w.n, FD(w))
        /\ SurvivesSend(RelayAsserts /\ RelayedDataAsserts(Data(r), w.n, FD(w)), w.is)
  BY <1>1
<1> DEFINE data == Data(r)
           fd == FD(w)
<1>3. /\ src \in Sides /\ dst \in Sides /\ dst = Peer(src) /\ src = Peer(dst) /\ src # dst
      /\ cb.at \in {"relay_in", "relay_out"} /\ ~Dead /\ reports = <<>>
      /\ "readable" \in flags[src] /\ "broken" \notin flags[src]
      /\ "writable" \in flags[dst] /\ "broken" \notin flags[dst]
      /\ "ready" \in flags[src] /\ "ready" \in flags[dst]
      /\ "fin_rcvd" \notin flags[src] /\ "fin_sent" \notin flags[dst]
      /\ pending[dst] = <<>>
      /\ "readable" \notin have[src] /\ "writable" \notin have[dst]
      /\ have[cb.self] = {} /\ cb.self \in {src, dst}
  BY RelayPass DEF RelayData
<1>4. /\ in[src] \in Seq(Octet) /\ r.n \in 1..Len(in[src]) /\ Len(in[src]) \in Nat
      /\ w.n \in 0..r.n
  BY <1>1, <1>3, LenProperties DEF RecvResults, SendResults, TypeOK, SocketsTypeOK
<1>5. data \in Seq(Octet) /\ Len(data) = r.n
  <2>1. r.n \in 0..Len(in[src])
    BY <1>4
  <2> QED
    BY <1>4, <2>1, CutFacts
<1>6. fs = flags[src]
  BY <1>3 DEF FlagsAfterRecv
<1>7. \/ fd = flags[dst] /\ w.n = r.n
      \/ fd = flags[dst] \ {"writable"}
      \/ fd = TagBroken(flags[dst]) /\ Failed(dst) /\ w.n = 0
  BY ZenonT(60), <1>3 DEF SendResults, SendOutcome, FlagsAfterSend
<1>8. RelayAsserts /\ RelayedDataAsserts(data, w.n, fd)
  BY <1>3, <1>4, <1>5, <1>7 DEF RelayAsserts, RelayedDataAsserts, TagBroken
<1>9. UNCHANGED <<conn, eof, shut, have>> /\ proc' # "aborted"
  BY <1>2, <1>8 DEF RelayData, SurvivesSend
<1>10. /\ flags' = [flags EXCEPT ![src] = fs, ![dst] = fd]
       /\ mask' = [mask EXCEPT ![src] = EventMask(fs), ![dst] = EventMask(fd)]
       /\ ("broken" \in fd /\ Shutdown("failed")) \/ ("broken" \notin fd /\ GoTo(cb.at))
  <2>1. "broken" \in fd => w.n < Len(data)
    BY <1>3, <1>4, <1>5, <1>7
  <2> QED
    BY <1>2, <2>1 DEF SetBothFlags, RelayedData, Proceed
<1>11. /\ pending'[src] = pending[src]
       /\ pending'[dst] # <<>> => "writable" \notin fd
  BY <1>2, <1>3, <1>4, <1>5, <1>7 DEF RelayedData, TypeOK, TagBroken
<1> HIDE DEF fs, fd, src, dst, data
<1>12. /\ flags'[src] = flags[src] /\ flags'[dst] = fd
       /\ mask'[src] = EventMask(flags[src]) /\ mask'[dst] = EventMask(fd)
       /\ \A t \in Sides : t = src \/ t = dst
  BY ZenonT(60), <1>3, <1>6, <1>10, TwoSides DEF TypeOK
<1>13. "ready" \in fd
  BY <1>3, <1>7 DEF TagBroken
<1>14. (Dead' <=> "broken" \in fd) /\ ("broken" \in fd => Failed(dst))
  <2>1. "broken" \in fd => Failed(dst)
    BY <1>3, <1>7 DEF TagBroken
  <2>2. Dead' <=> "broken" \in fd
    BY <1>3, <1>10, LifeAndDeath DEF TypeOK, Report
  <2> QED
    BY <2>1, <2>2
<1>15. /\ "broken" \in fd => cb' = Idle
       /\ "broken" \notin fd => cb' = cb
  BY <1>10 DEF Shutdown, GoTo, TypeOK, Activation
<1>16. \A t \in Sides : Failed(t)' <=> Failed(t)
  BY <1>9 DEF Failed
<1>17. NoAbort'
  BY <1>9 DEF NoAbort
<1>18. FlagsInv'
  BY SMTT(30), <1>3, <1>7, <1>12, <1>13 DEF ControlInv, FlagsInv, TagBroken
<1>19. MaskInv'
  BY <1>3, <1>12, <1>13 DEF MaskInv
<1>20. EventsInv'
  <2>1. cb'.at # "idle" => have[cb'.self] = {}
    BY <1>3, <1>15 DEF Idle
  <2>2. mask[src] = EventMask(flags[src]) /\ mask[dst] = EventMask(flags[dst])
    BY SMTT(30), <1>3 DEF ControlInv, MaskInv
  <2>3. /\ "readable" \in have[dst] => "fin_rcvd" \notin fd
        /\ "readable" \in have[dst] /\ "broken" \notin fd => "readable" \in EventMask(fd)
    BY <1>3, <1>7, <2>2, EventMaskBits DEF ControlInv, EventsInv, TagBroken
  <2>4. have[dst] \subseteq SkEvent
    BY <1>3 DEF TypeOK
  <2> QED
    BY <1>3, <1>9, <1>12, <1>13, <1>14, <1>16, <2>1, <2>2, <2>3, <2>4 DEF ControlInv, EventsInv, SkEvent
<1>21. BrokenInv'
  BY <1>3, <1>12, <1>14, <1>16 DEF BrokenInv
<1>22. StageInv'
  <2>1. ~("broken" \in cb.events)
    BY <1>3 DEF ControlInv, StageInv
  <2> QED
    BY <1>3, <1>14, <1>15, <2>1 DEF StageInv, Idle
<1>23. PendingInv'
  BY <1>3, <1>11, <1>12 DEF ControlInv, PendingInv
<1>24. AwakeInv'
  BY <1>3, <1>7, <1>12, <1>14, <1>15 DEF ControlInv, AwakeInv, TagBroken
<1>25. FinInv'
  <2>1. \A e \in {"fin_sent", "fin_rcvd"} : \A t \in Sides : e \in flags'[t] <=> e \in flags[t]
    BY <1>7, <1>12 DEF TagBroken
  <2>2. in'[dst] = in[dst]
    BY <1>2, <1>3 DEF TypeOK, SocketsTypeOK, dst, src
  <2> QED
    BY ZenonT(60), <1>3, <1>9, <1>11, <1>12, <2>1, <2>2 DEF ControlInv, FinInv
<1> QED
  BY <1>17, <1>18, <1>19, <1>20, <1>21, <1>22, <1>23, <1>24, <1>25 DEF ControlInv

LEMMA ControlOfRelayTurns == TypeOK /\ ControlInv /\ RelayTurns => ControlInv'
<1> SUFFICES ASSUME TypeOK, ControlInv, RelayTurns
             PROVE  ControlInv'
  OBVIOUS
<1>1. /\ cb.at = "relay_in" /\ ~Relaying /\ cb' = [cb EXCEPT !.at = "relay_out"]
      /\ UNCHANGED <<sockVars, flags, mask, pending, reports, have, proc>>
  BY DEF RelayTurns, RelayInEnds, GoTo
<1>2. cb'.at = "relay_out" /\ cb'.self = cb.self /\ cb'.events = cb.events
  BY <1>1 DEF TypeOK, Activation
<1>3. ~("readable" \in flags[Peer(cb.self)] /\ "writable" \in flags[cb.self])
  BY <1>1, PeerFacts DEF Relaying, Src, Dst, TypeOK, Activation
<1>4. AwakeInv'
  BY <1>1, <1>2, <1>3, PeerFacts DEF ControlInv, AwakeInv, Dead, TypeOK, Activation
<1>5. PendingInv'
  BY <1>1, <1>2 DEF ControlInv, PendingInv, Dead
<1>6. BrokenInv' /\ StageInv' /\ EventsInv'
  BY <1>1, <1>2 DEF ControlInv, BrokenInv, StageInv, EventsInv, Dead, Failed, sockVars
<1>7. FlagsInv' /\ MaskInv' /\ FinInv' /\ NoAbort'
  BY <1>1 DEF ControlInv, FlagsInv, MaskInv, FinInv, NoAbort, Dead, sockVars
<1> QED
  BY <1>4, <1>5, <1>6, <1>7 DEF ControlInv

LEMMA ControlOfReturn == TypeOK /\ ControlInv /\ Return => ControlInv'
<1> SUFFICES ASSUME TypeOK, ControlInv, Return
             PROVE  ControlInv'
  OBVIOUS
<1>1. /\ cb.at = "relay_out" /\ ~("readable" \in cb.events /\ Relaying)
      /\ UNCHANGED <<sockVars, flags, mask, pending, have, proc>>
  BY DEF Return, CallbackEnds
<1>2. cb' = Idle
  BY DEF Return, CallbackEnds, Shutdown
<1>3. /\ Dead' \/ (reports' = reports /\ "broken" \notin cb.events)
      /\ ~Dead
  BY <1>1, LifeAndDeath DEF Return, CallbackEnds, TypeOK, Report, ControlInv, StageInv
<1>4. ~Dead' => ~Dead /\ "broken" \notin cb.events
  BY <1>3 DEF Dead
<1>5. AwakeInv'
  <2>1. "readable" \in cb.events =>
          ~("readable" \in flags[cb.self] /\ "writable" \in flags[Peer(cb.self)])
    BY <1>1, PeerFacts DEF Relaying, Src, Dst, TypeOK, Activation
  <2> QED
    BY <1>1, <1>4, <2>1 DEF ControlInv, AwakeInv
<1>6. PendingInv'
  BY <1>1, <1>4 DEF ControlInv, PendingInv
<1>7. BrokenInv'
  BY <1>1, <1>4 DEF ControlInv, BrokenInv, Failed, sockVars
<1>8. StageInv' /\ EventsInv'
  BY <1>1, <1>2, <1>4 DEF ControlInv, StageInv, EventsInv, Failed, sockVars, Idle
<1>9. FlagsInv' /\ MaskInv' /\ NoAbort'
  BY <1>1 DEF ControlInv, FlagsInv, MaskInv, NoAbort
<1>10. FinInv'
  BY <1>1, <1>4 DEF ControlInv, FinInv, sockVars
<1> QED
  BY <1>5, <1>6, <1>7, <1>8, <1>9, <1>10 DEF ControlInv

\* The exit of the process and the moves of the hosts leave the bridge alone,
\* and nothing arrives at a side that has closed.
LEMMA ControlOfOthers ==
  ASSUME TypeOK, ControlInv,
         UNCHANGED <<bridgeVars, have, shut>>, proc' # "aborted",
         \A s \in Sides : /\ Failed(s) => Failed(s)'
                          /\ s \in eof => s \in eof' /\ in'[s] = in[s]
  PROVE  ControlInv'
<1> USE DEF bridgeVars
<1>1. FlagsInv' /\ MaskInv' /\ NoAbort'
  BY DEF ControlInv, FlagsInv, MaskInv, NoAbort
<1>2. StageInv' /\ PendingInv' /\ AwakeInv'
  BY DEF ControlInv, StageInv, PendingInv, AwakeInv, Dead
<1>3. EventsInv' /\ BrokenInv'
  BY DEF ControlInv, EventsInv, BrokenInv, Dead
<1>4. FinInv'
  BY DEF ControlInv, FinInv, Dead
<1> QED
  BY <1>1, <1>2, <1>3, <1>4 DEF ControlInv

LEMMA ControlOfExit == TypeOK /\ ControlInv /\ Exit => ControlInv'
<1> SUFFICES ASSUME TypeOK, ControlInv, Exit
             PROVE  ControlInv'
  OBVIOUS
<1>1. \A s \in Sides : Failed(s) => Failed(s)'
  BY DEF Exit, Failed, TypeOK, SocketsTypeOK
<1> QED
  BY <1>1, ControlOfOthers DEF Exit

LEMMA ControlOfHosts ==
  ASSUME TypeOK, ControlInv, NEW s \in Sides, HostActs(s)
  PROVE  ControlInv'
<1> USE DEF Connected, Refused, HostSends, HostCloses, HostReads, ConnectionLost
<1>1. UNCHANGED <<bridgeVars, have, shut>> /\ proc' # "aborted"
  BY DEF HostActs, ControlInv, NoAbort
<1>2. \A t \in Sides : Failed(t) => Failed(t)'
  BY DEF HostActs, Failed, TypeOK, SocketsTypeOK
<1>3. \A t \in Sides : t \in eof => t \in eof' /\ in'[t] = in[t]
  BY DEF HostActs, TypeOK, SocketsTypeOK
<1> QED
  BY <1>1, <1>2, <1>3, ControlOfOthers

LEMMA ControlInductive == TypeOK /\ ControlInv /\ [Next]_vars => ControlInv'
<1>1. TypeOK /\ ControlInv /\ UNCHANGED vars => ControlInv'
  BY ControlOfOthers DEF vars, sockVars, Failed, ControlInv, NoAbort
<1> QED
  BY <1>1, ControlOfSelect, ControlOfDispatch, ControlOfFlush, ControlOfRelayNothing,
     ControlOfRelayFin, ControlOfRelayData, ControlOfRelayTurns, ControlOfReturn, ControlOfExit,
     ControlOfHosts DEF Next, Relay, Terminated

LEMMA ControlInvariant == Spec => [](TypeOK /\ ControlInv)
<1>1. Init => TypeOK /\ ControlInv
  BY TypesInitially, ControlInitially
<1>2. TypeOK /\ ControlInv /\ [Next]_vars => TypeOK' /\ ControlInv'
  BY TypesInductive, ControlInductive
<1> QED
  BY <1>1, <1>2, PTL DEF Spec

\* None of the assert()s of io_bridge.c and io_pipe_tcp.c can fail.
THEOREM NoAssertFails == Spec => []NoAbort
<1>1. ControlInv => NoAbort
  BY DEF ControlInv
<1> QED
  BY <1>1, ControlInvariant, PTL

\* Whenever the process is about to block in select(), the events that let
\* every unfinished stream go on are watched.
THEOREM NoWakeupIsLost == Spec => []NoLostWakeup
<1>1. TypeOK /\ ControlInv => NoLostWakeup
  <2> SUFFICES ASSUME TypeOK, ControlInv, cb.at = "idle", ~Dead, NEW s \in Sides
               PROVE  /\ ~("readable" \in flags[s] /\ "writable" \in flags[Peer(s)])
                      /\ pending[s] # <<>> => "writable" \in mask[s]
                      /\ Peer(s) \notin shut =>
                           \/ "readable" \in mask[s]
                           \/ "writable" \in mask[Peer(s)]
                           \/ "ready" \notin flags[s] /\ "writable" \in mask[s]
    BY DEF NoLostWakeup
  <2> DEFINE d == Peer(s)
  <2>1. d \in Sides /\ Peer(d) = s
    BY PeerFacts
  <2>2. ~("readable" \in flags[s] /\ "writable" \in flags[d])
    BY DEF ControlInv, AwakeInv
  <2>3. \A t \in Sides : flags[t] = {} \/ ("ready" \in flags[t] /\ "broken" \notin flags[t])
    BY DEF ControlInv, FlagsInv, BrokenInv
  <2>4. \A t \in Sides : flags[t] = {} => mask[t] = {"writable"} /\ "ready" \notin flags[t]
    BY DEF ControlInv, MaskInv, InitialMask
  <2>5. \A t \in Sides : flags[t] # {} =>
          /\ "readable" \in mask[t] <=> "readable" \notin flags[t] /\ "fin_rcvd" \notin flags[t]
          /\ "writable" \in mask[t] <=> "writable" \notin flags[t] /\ "fin_sent" \notin flags[t]
    <3> SUFFICES ASSUME NEW t \in Sides, flags[t] # {}
                 PROVE  /\ "readable" \in mask[t] <=>
                             "readable" \notin flags[t] /\ "fin_rcvd" \notin flags[t]
                        /\ "writable" \in mask[t] <=>
                             "writable" \notin flags[t] /\ "fin_sent" \notin flags[t]
      OBVIOUS
    <3>1. mask[t] = EventMask(flags[t])
      BY DEF ControlInv, MaskInv
    <3> QED
      BY <2>3, <3>1, EventMaskBits
  <2>6. pending[s] # <<>> => "writable" \notin flags[s] /\ "fin_sent" \notin flags[s]
    BY DEF ControlInv, PendingInv, FinInv
  <2>7. d \notin shut => "fin_sent" \notin flags[d] /\ "fin_rcvd" \notin flags[s]
    BY <2>1 DEF ControlInv, FinInv
  <2> QED
    BY <2>1, <2>2, <2>4, <2>5, <2>6, <2>7
<1> QED
  BY <1>1, ControlInvariant, PTL

\* Events left over from one select() are still wanted when dispatched.
THEOREM NoEventIsStale == Spec => []NoStaleEvent
<1>1. ControlInv => NoStaleEvent
  BY DEF ControlInv, EventsInv, NoStaleEvent
<1> QED
  BY <1>1, ControlInvariant, PTL

-----------------------------------------------------------------------------
(* Streams: nothing is lost, duplicated or reordered, and FIN comes last.  *)

\* A step that leaves the buffers alone leaves the streams alone.
LEMMA StreamsOfOthers ==
  ASSUME StreamInv, UNCHANGED <<in, out, pending, sent, got, shut>>, eof \subseteq eof', Dead => Dead'
  PROVE  StreamInv'
BY DEF StreamInv, StreamIntact, FinIsLast, Conserved

LEMMA StreamsOfDispatch ==
  ASSUME StreamInv, NEW s \in Sides, Dispatch(s)
  PROVE  StreamInv'
BY StreamsOfOthers DEF Dispatch, BridgeCalled, sockVars, Dead

LEMMA StreamsOfRelayNothing == TypeOK /\ ControlInv /\ StreamInv /\ RelayNothing => StreamInv'
<1> SUFFICES ASSUME TypeOK, ControlInv, StreamInv, RelayNothing
             PROVE  StreamInv'
  OBVIOUS
<1>1. ~Dead
  BY RelayPass DEF RelayNothing
<1> QED
  BY <1>1, StreamsOfOthers DEF RelayNothing, RelayedNothing, sockVars

\* FIN is received when everything before it was, and forwarded when the
\* destination has nothing set aside.
LEMMA StreamsOfRelayFin == TypeOK /\ ControlInv /\ StreamInv /\ RelayFin => StreamInv'
<1> SUFFICES ASSUME TypeOK, ControlInv, StreamInv, RelayFin
             PROVE  StreamInv'
  OBVIOUS
<1>1. /\ UNCHANGED <<in, eof, out, sent, got, pending>>
      /\ shut' \subseteq shut \cup {Dst}
      /\ Src \in eof /\ in[Src] = <<>>
  BY DEF RelayFin, RelayedFin, RecvResults
<1>2. Src \in Sides /\ Dst \in Sides /\ Src = Peer(Dst) /\ ~Dead /\ pending[Dst] = <<>>
  BY RelayPass DEF RelayFin
<1>3. got[Dst] \in Seq(Octet) /\ out[Dst] \in Seq(Octet) /\ got[Dst] \o out[Dst] \in Seq(Octet)
  BY <1>2, ConcatProperties DEF TypeOK, SocketsTypeOK
<1>4. got[Dst] \o out[Dst] = sent[Src]
  <2>1. got[Dst] \o out[Dst] \o <<>> \o <<>> = sent[Src]
    BY <1>1, <1>2 DEF StreamInv, StreamIntact, Conserved
  <2> QED
    BY <1>3, <2>1, ConcatEmptySeq
<1>5. StreamIntact'
  BY <1>1, <1>2 DEF StreamInv, StreamIntact, Conserved
<1>6. FinIsLast'
  BY <1>1, <1>2, <1>4 DEF StreamInv, FinIsLast
<1> QED
  BY <1>5, <1>6 DEF StreamInv

\* A direction whose octets are as before, in the terms of StreamInv.
LEMMA OtherDirection ==
  ASSUME StreamInv, ~Dead, NEW d \in Sides,
         got'[d] = got[d], out'[d] = out[d], pending'[d] = pending[d],
         in'[Peer(d)] = in[Peer(d)], sent'[Peer(d)] = sent[Peer(d)]
  PROVE  IsPrefix(got'[d] \o out'[d], sent'[Peer(d)]) /\ Conserved(d)'
BY DEF StreamInv, StreamIntact, Conserved

\* FIN was the last thing sent to a side, so nothing is sent to it later.
LEMMA FinStaysLast ==
  ASSUME ControlInv, StreamInv, NEW d \in Sides, "fin_sent" \notin flags[d],
         \A t \in Sides : t # d => got'[t] = got[t] /\ out'[t] = out[t],
         UNCHANGED <<shut, eof, sent>>
  PROVE  FinIsLast'
<1>1. d \notin shut /\ shut \subseteq Sides
  BY DEF ControlInv, FinInv
<1> QED
  BY <1>1 DEF StreamInv, FinIsLast

LEMMA StreamsOfFlush == TypeOK /\ ControlInv /\ StreamInv /\ Flush => StreamInv'
<1> SUFFICES ASSUME TypeOK, ControlInv, StreamInv, Flush
             PROVE  StreamInv'
  OBVIOUS
<1> DEFINE d == cb.self
           s == Peer(d)
           p == pending[d]
<1>1. PICK w \in SendResults(d, Len(p)) :
        /\ out' = [out EXCEPT ![d] = @ \o Taken(p, w.n)]
        /\ pending' = [pending EXCEPT ![d] = Rest(@, w.n)]
  BY DEF Flush, Flushed
<1>2. UNCHANGED <<conn, in, eof, shut, sent, got>> /\ cb.at = "flush"
  BY DEF Flush
<1>3. d \in Sides /\ s \in Sides /\ ~Dead /\ "fin_sent" \notin flags[d]
  BY <1>2, InCallback, PeerFacts DEF ControlInv, StageInv, FlagsInv
<1> DEFINE t == Taken(p, w.n)
           r == Rest(p, w.n)
<1>4. /\ got[d] \in Seq(Octet) /\ out[d] \in Seq(Octet) /\ p \in Seq(Octet) /\ in[s] \in Seq(Octet)
  BY <1>3 DEF TypeOK, SocketsTypeOK
<1>5. t \in Seq(Octet) /\ r \in Seq(Octet) /\ t \o r = p
  BY <1>1, <1>4, CutFacts DEF SendResults
<1>6. out'[d] = out[d] \o t /\ pending'[d] = r
  BY <1>1, <1>3 DEF TypeOK, SocketsTypeOK
<1>7. got[d] \o out[d] \o p \o in[s] = sent[s]
  BY <1>3 DEF StreamInv, StreamIntact, Conserved
<1> HIDE DEF t, r, p
<1> DEFINE g == got[d]
           o == out[d]
           i == in[s]
<1>8. /\ got[d] \o (out[d] \o t) \o r \o in[s] = sent[s]
      /\ IsPrefix(got[d] \o (out[d] \o t), sent[s])
  <2>1. g \in Seq(Octet) /\ o \in Seq(Octet) /\ i \in Seq(Octet)
    BY <1>4
  <2>2. Cat(Cat(Cat(g, o), p), i) = sent[s] /\ Cat(t, r) = p
    BY <1>5, <1>7 DEF Cat
  <2> HIDE DEF g, o, i
  <2>3. /\ Cat(Cat(Cat(g, Cat(o, t)), r), i) = sent[s]
        /\ IsPrefix(Cat(g, Cat(o, t)), sent[s])
    BY <1>5, <2>1, <2>2, Moved
  <2> QED
    BY <2>3 DEF g, o, i, Cat
<1>9. /\ IsPrefix(got'[d] \o out'[d], sent'[s])
      /\ got'[d] \o out'[d] \o pending'[d] \o in'[s] = sent'[s]
  <2>1. got' = got /\ sent' = sent /\ in' = in
    BY <1>2
  <2> QED
    BY <1>6, <1>8, <2>1
<1>10. \A e \in Sides : e # d => out'[e] = out[e] /\ pending'[e] = pending[e]
  BY <1>1, <1>3 DEF TypeOK, SocketsTypeOK
<1>11. StreamIntact'
  <2> SUFFICES ASSUME NEW e \in Sides
               PROVE  IsPrefix(got'[e] \o out'[e], sent'[Peer(e)]) /\ Conserved(e)'
    BY DEF StreamIntact
  <2>1. CASE e = d
    BY <1>9, <2>1 DEF Conserved
  <2>2. CASE e # d
    BY <1>2, <1>3, <1>10, <2>2, OtherDirection
  <2> QED
    BY <2>1, <2>2
<1>12. FinIsLast'
  BY <1>2, <1>3, <1>10, FinStaysLast
<1> QED
  BY <1>11, <1>12 DEF StreamInv

LEMMA StreamsOfRelayData == TypeOK /\ ControlInv /\ StreamInv /\ RelayData => StreamInv'
<1> SUFFICES ASSUME TypeOK, ControlInv, StreamInv, RelayData
             PROVE  StreamInv'
  OBVIOUS
<1> DEFINE s == Src
           d == Dst
           FD(w) == FlagsAfterSend(flags[Dst], w.is)
           Data(r) == Taken(in[Src], r.n)
<1>1. PICK r \in RecvResults(Src, RecvSize[Src]) :
        /\ r.is = "data"
        /\ \E w \in SendResults(Dst, r.n) :
             /\ in' = [in EXCEPT ![Src] = Rest(@, r.n)]
             /\ out' = [out EXCEPT ![Dst] = @ \o Taken(Data(r), w.n)]
             /\ RelayedData(Data(r), w.n, FD(w))
  BY DEF RelayData
<1>2. PICK w \in SendResults(Dst, r.n) :
        /\ in' = [in EXCEPT ![Src] = Rest(@, r.n)]
        /\ out' = [out EXCEPT ![Dst] = @ \o Taken(Data(r), w.n)]
        /\ RelayedData(Data(r), w.n, FD(w))
  BY <1>1
<1> DEFINE data == Data(r)
           t == Taken(data, w.n)
           u == Rest(data, w.n)
           i == Rest(in[Src], r.n)
<1>3. /\ s \in Sides /\ d \in Sides /\ d = Peer(s) /\ s = Peer(d) /\ s # d
      /\ ~Dead /\ pending[d] = <<>> /\ "fin_sent" \notin flags[d] /\ reports = <<>>
  BY RelayPass DEF RelayData
<1>4. UNCHANGED <<conn, eof, shut, sent, got>>
  BY DEF RelayData
<1>5. /\ in[s] \in Seq(Octet) /\ got[d] \in Seq(Octet) /\ out[d] \in Seq(Octet)
      /\ r.n \in 0..Len(in[s]) /\ w.n \in 0..r.n
  <2>1. in[s] \in Seq(Octet) /\ r.n \in 1..Len(in[s]) /\ got[d] \in Seq(Octet) /\ out[d] \in Seq(Octet)
    BY <1>1, <1>3 DEF TypeOK, SocketsTypeOK, RecvResults
  <2>2. r.n \in 0..Len(in[s])
    BY <2>1, LenProperties
  <2> QED
    BY <2>1, <2>2 DEF SendResults
<1>6. data \in Seq(Octet) /\ Len(data) = r.n /\ i \in Seq(Octet) /\ data \o i = in[s]
  BY <1>5, CutFacts
<1>7. t \in Seq(Octet) /\ u \in Seq(Octet) /\ t \o u = data /\ (w.n = Len(data) => u = <<>>)
  <2>1. t \in Seq(Octet) /\ u \in Seq(Octet) /\ t \o u = data
    BY <1>5, <1>6, CutFacts
  <2>2. w.n = Len(data) => u = <<>>
    BY <1>6, CutAtEnds
  <2> QED
    BY <2>1, <2>2
<1>8. in'[s] = i /\ out'[d] = out[d] \o t
  BY <1>2, <1>3 DEF TypeOK, SocketsTypeOK
<1>9. ~Dead' => pending'[d] = u
  <2>1. "broken" \in FD(w) /\ w.n < Len(data) => Dead'
    BY <1>2, LifeAndDeath DEF RelayedData, Proceed, TypeOK, Report
  <2>2. w.n = Len(data) \/ w.n < Len(data)
    BY <1>5, <1>6
  <2>3. CASE w.n = Len(data)
    BY <1>2, <1>3, <1>7, <2>3 DEF RelayedData
  <2>4. CASE w.n < Len(data)
    BY <1>2, <1>3, <2>1, <2>4 DEF RelayedData, TypeOK
  <2> QED
    BY <2>2, <2>3, <2>4
<1>10. got[d] \o out[d] \o <<>> \o in[s] = sent[s]
  BY <1>3 DEF StreamInv, StreamIntact, Conserved
<1>11. \A e \in Sides : e # d => /\ out'[e] = out[e] /\ pending'[e] = pending[e]
                                 /\ in'[Peer(e)] = in[Peer(e)]
  BY <1>2, <1>3, TwoSides, PeerFacts DEF RelayedData, TypeOK, SocketsTypeOK
<1> HIDE DEF t, u, i, data, s, d
<1>12. /\ got[d] \o (out[d] \o t) \o u \o i = sent[s]
       /\ IsPrefix(got[d] \o (out[d] \o t), sent[s])
  <2> DEFINE g == got[d]
             o == out[d]
             q == in[s]
  <2>1. g \in Seq(Octet) /\ o \in Seq(Octet) /\ i \in Seq(Octet)
    BY <1>5, <1>6
  <2>2. Cat(Cat(Cat(g, o), <<>>), q) = sent[s] /\ Cat(data, i) = q /\ Cat(t, u) = data
    BY <1>6, <1>7, <1>10 DEF Cat
  <2> HIDE DEF g, o, q
  <2>3. Cat(Cat(Cat(g, o), data), i) = sent[s]
    BY <1>6, <2>1, <2>2, MovedThrough
  <2>4. /\ Cat(Cat(Cat(g, Cat(o, t)), u), i) = sent[s]
        /\ IsPrefix(Cat(g, Cat(o, t)), sent[s])
    BY <1>7, <2>1, <2>2, <2>3, Moved
  <2> QED
    BY <2>4 DEF g, o, Cat
<1>13. /\ IsPrefix(got'[d] \o out'[d], sent'[s])
       /\ ~Dead' => got'[d] \o out'[d] \o pending'[d] \o in'[s] = sent'[s]
  <2>1. got' = got /\ sent' = sent
    BY <1>4
  <2> QED
    BY <1>8, <1>9, <1>12, <2>1
<1>14. StreamIntact'
  <2> SUFFICES ASSUME NEW e \in Sides
               PROVE  /\ IsPrefix(got'[e] \o out'[e], sent'[Peer(e)])
                      /\ ~Dead' => Conserved(e)'
    BY DEF StreamIntact
  <2>1. CASE e = d
    BY <1>3, <1>13, <2>1 DEF Conserved
  <2>2. CASE e # d
    BY <1>3, <1>4, <1>11, <2>2, OtherDirection
  <2> QED
    BY <2>1, <2>2
<1>15. FinIsLast'
  BY <1>3, <1>4, <1>11, FinStaysLast
<1> QED
  BY <1>14, <1>15 DEF StreamInv

LEMMA StreamsOfExit == StreamInv /\ Exit => StreamInv'
BY StreamsOfOthers DEF Exit, bridgeVars, Dead

LEMMA StreamsOfHostSends ==
  ASSUME TypeOK, ControlInv, StreamInv, NEW s \in Sides, HostSends(s), UNCHANGED <<pending, reports>>, TypeOK'
  PROVE  StreamInv'
<1> DEFINE d == Peer(s)
           e == <<s, Len(sent[s]) + 1>>
           G == got[d] \o out[d]
           A == G \o pending[d]
<1>1. d \in Sides /\ Peer(d) = s /\ d # s
  BY PeerFacts
<1>2. /\ in'[s] = Append(in[s], e) /\ sent'[s] = Append(sent[s], e)
      /\ \A t \in Sides : t # s => in'[t] = in[t] /\ sent'[t] = sent[t]
      /\ UNCHANGED <<conn, eof, out, shut, got>> /\ s \notin eof
  BY DEF HostSends, TypeOK, SocketsTypeOK
<1>3. e \in Octet
  <2> HIDE DEF e
  <2>0. sent'[s] \in Seq(Octet) /\ sent[s] \in Seq(Octet)
    BY DEF TypeOK, SocketsTypeOK
  <2>1. Append(sent[s], e) \in Seq(Octet) /\ sent[s] \in Seq(Octet)
    BY <1>2, <2>0
  <2>2. Len(sent[s]) \in Nat /\ Len(Append(sent[s], e)) = Len(sent[s]) + 1
        /\ Append(sent[s], e)[Len(sent[s]) + 1] = e
    BY <2>1, LenProperties
  <2> QED
    BY <2>1, <2>2, ElementOfSeq
<1>4. /\ in[s] \in Seq(Octet) /\ sent[s] \in Seq(Octet) /\ pending[d] \in Seq(Octet)
      /\ got[d] \in Seq(Octet) /\ out[d] \in Seq(Octet)
  BY <1>1 DEF TypeOK, SocketsTypeOK
<1>5. G \in Seq(Octet) /\ A \in Seq(Octet)
  <2>1. G \in Seq(Octet)
    BY <1>4, ConcatProperties
  <2> QED
    BY <1>4, <2>1, ConcatProperties
<1>6. IsPrefix(G, sent[s]) /\ (~Dead => A \o in[s] = sent[s])
  BY <1>1 DEF StreamInv, StreamIntact, Conserved
<1> HIDE DEF e, G, A
<1>7. IsPrefix(G, Append(sent[s], e))
  BY <1>3, <1>4, <1>5, <1>6, PrefixOfAppend
<1>8. ~Dead => A \o Append(in[s], e) = Append(sent[s], e)
  <2> DEFINE i == in[s]
  <2>0. A \in Seq(Octet) /\ i \in Seq(Octet) /\ e \in Octet
    BY <1>3, <1>4, <1>5
  <2> HIDE DEF i
  <2>1. Cat(A, Append(i, e)) = Append(Cat(A, i), e)
    BY <2>0, AppendLast
  <2> QED
    BY <1>6, <2>1 DEF Cat, i
<1>9. StreamIntact'
  <2> SUFFICES ASSUME NEW t \in Sides
               PROVE  /\ IsPrefix(got'[t] \o out'[t], sent'[Peer(t)])
                      /\ ~Dead' => Conserved(t)'
    BY DEF StreamIntact
  <2>1. Dead' <=> Dead
    BY DEF Dead
  <2>2. CASE t = d
    <3>1. got' = got /\ out' = out /\ pending' = pending
      BY <1>2
    <3>2. G = got[d] \o out[d] /\ A = got[d] \o out[d] \o pending[d]
      BY DEF G, A
    <3> QED
      BY <1>1, <1>2, <1>7, <1>8, <2>1, <2>2, <3>1, <3>2 DEF Conserved
  <2>3. CASE t # d
    <3>1. t = s /\ Peer(t) # s
      BY <1>1, <2>3, TwoSides
    <3>2. in'[Peer(t)] = in[Peer(t)] /\ sent'[Peer(t)] = sent[Peer(t)]
      BY <1>2, <3>1, PeerFacts
    <3> QED
      BY <1>2, <2>1, <3>2 DEF StreamInv, StreamIntact, Conserved
  <2> QED
    BY <2>2, <2>3
<1>10. FinIsLast'
  <2> SUFFICES ASSUME NEW t \in shut
               PROVE  Peer(t) \in eof /\ got[t] \o out[t] = sent'[Peer(t)]
    BY <1>2 DEF FinIsLast
  <2>1. Peer(t) \in eof /\ got[t] \o out[t] = sent[Peer(t)] /\ t \in Sides
    BY DEF StreamInv, FinIsLast, TypeOK, SocketsTypeOK
  <2>2. Peer(t) # s /\ Peer(t) \in Sides
    BY <1>2, <2>1, PeerFacts
  <2> QED
    BY <1>2, <2>1, <2>2
<1> QED
  BY <1>9, <1>10 DEF StreamInv

LEMMA StreamsOfHostReads ==
  ASSUME TypeOK, StreamInv, NEW s \in Sides, HostReads(s), UNCHANGED <<pending, reports>>
  PROVE  StreamInv'
<1>1. /\ out[s] \in Seq(Octet) /\ out[s] # <<>> /\ got[s] \in Seq(Octet)
      /\ out'[s] = Tail(out[s]) /\ got'[s] = Append(got[s], Head(out[s]))
      /\ \A t \in Sides : t # s => out'[t] = out[t] /\ got'[t] = got[t]
      /\ UNCHANGED <<conn, in, eof, shut, sent>>
  BY DEF HostReads, TypeOK, SocketsTypeOK
<1>2. Cat(Append(got[s], Head(out[s])), Tail(out[s])) = Cat(got[s], out[s])
  BY <1>1, ReadOne
<1>3. \A t \in Sides : Cat(got'[t], out'[t]) = Cat(got[t], out[t])
  BY <1>1, <1>2
<1>4. \A t \in Sides : got'[t] \o out'[t] = got[t] \o out[t]
  BY <1>3 DEF Cat
<1>5. StreamIntact'
  <2> SUFFICES ASSUME NEW t \in Sides
               PROVE  /\ IsPrefix(got'[t] \o out'[t], sent'[Peer(t)])
                      /\ ~Dead' => Conserved(t)'
    BY DEF StreamIntact
  <2>1. (Dead' <=> Dead) /\ pending' = pending
    BY DEF Dead
  <2> QED
    BY <1>1, <1>4, <2>1 DEF StreamInv, StreamIntact, Conserved
<1>6. FinIsLast'
  BY <1>1, <1>4 DEF StreamInv, FinIsLast, TypeOK, SocketsTypeOK
<1> QED
  BY <1>5, <1>6 DEF StreamInv

LEMMA StreamsOfHosts ==
  ASSUME TypeOK, ControlInv, StreamInv, NEW s \in Sides, HostActs(s), TypeOK'
  PROVE  StreamInv'
<1>1. UNCHANGED <<pending, reports>>
  BY DEF HostActs, bridgeVars
<1>2. CASE HostSends(s)
  BY <1>1, <1>2, StreamsOfHostSends
<1>3. CASE HostReads(s)
  BY <1>1, <1>3, StreamsOfHostReads
<1>4. CASE Connected(s) \/ Refused(s) \/ ConnectionLost(s) \/ HostCloses(s)
  BY <1>1, <1>4, StreamsOfOthers DEF Connected, Refused, ConnectionLost, HostCloses, Dead
<1> QED
  BY <1>2, <1>3, <1>4 DEF HostActs

LEMMA StreamsInductive == TypeOK /\ ControlInv /\ StreamInv /\ [Next]_vars /\ TypeOK' => StreamInv'
<1> SUFFICES ASSUME TypeOK, ControlInv, StreamInv, [Next]_vars, TypeOK'
             PROVE  StreamInv'
  OBVIOUS
<1>1. CASE Select
  BY <1>1, StreamsOfOthers DEF Select, sockVars, bridgeVars, Dead
<1>2. CASE RelayTurns
  BY <1>2, StreamsOfOthers DEF RelayTurns, RelayInEnds, GoTo, sockVars, Dead
<1>3. CASE Return
  <2>1. ~Dead /\ UNCHANGED <<sockVars, pending>>
    BY <1>3 DEF Return, CallbackEnds, ControlInv, StageInv
  <2> QED
    BY <2>1, StreamsOfOthers DEF sockVars
<1>4. CASE UNCHANGED vars
  BY <1>4, StreamsOfOthers DEF vars, sockVars, bridgeVars, Dead
<1> QED
  BY <1>1, <1>2, <1>3, <1>4, StreamsOfDispatch, StreamsOfFlush, StreamsOfRelayNothing,
     StreamsOfRelayFin, StreamsOfRelayData, StreamsOfExit, StreamsOfHosts
     DEF Next, Relay, Terminated

LEMMA StreamsInitially == Init => StreamInv
<1> SUFFICES ASSUME Init
             PROVE  StreamInv
  OBVIOUS
<1>1. \A t \in Sides : /\ got[t] = <<>> /\ out[t] = <<>> /\ pending[t] = <<>>
                       /\ in[Peer(t)] = <<>> /\ sent[Peer(t)] = <<>>
  BY PeerFacts DEF Init, SocketsInit, BridgeInit
<1>2. <<>> \o <<>> = <<>> /\ IsPrefix(<<>>, <<>>)
  BY DEF IsPrefix, Taken
<1> QED
  BY <1>1, <1>2 DEF StreamInv, StreamIntact, Conserved, FinIsLast, Init, SocketsInit

LEMMA StreamsInvariant == Spec => [](TypeOK /\ ControlInv /\ StreamInv)
<1>1. Init => TypeOK /\ ControlInv /\ StreamInv
  BY TypesInitially, ControlInitially, StreamsInitially
<1>2. TypeOK /\ ControlInv /\ StreamInv /\ [Next]_vars => TypeOK' /\ ControlInv' /\ StreamInv'
  BY TypesInductive, ControlInductive, StreamsInductive
<1> QED
  BY <1>1, <1>2, PTL DEF Spec

\* No octet is lost, duplicated or reordered between the two hosts while the
\* bridge lives, and what was passed on is always a prefix of what was sent.
THEOREM StreamsArriveIntact == Spec => []StreamIntact
<1>1. StreamInv => StreamIntact
  BY DEF StreamInv
<1> QED
  BY <1>1, StreamsInvariant, PTL

\* FIN is passed on only behind the last octet of a stream that has ended.
THEOREM FinComesLast == Spec => []FinIsLast
<1>1. StreamInv => FinIsLast
  BY DEF StreamInv
<1> QED
  BY <1>1, StreamsInvariant, PTL

-----------------------------------------------------------------------------
(* The report.                                                             *)

LEMMA ReportMade ==
  ASSUME reports = <<>>, NEW report, Shutdown(report)
  PROVE  reports' = <<report>>
BY DEF Shutdown

\* A pipe found broken by a call is the bit of a connection that has failed.
LEMMA BrokenReport ==
  ASSUME ControlInv', reports = <<>>, UNCHANGED conn, NEW s \in Sides,
         NEW stage, NEW b \in BOOLEAN, Proceed(stage, b), b => "broken" \in flags'[s]
  PROVE  reports' = reports \/ (reports' = <<"failed">> /\ Failed(s))
<1>1. b => Failed(s)
  BY DEF ControlInv, BrokenInv, Failed
<1> QED
  BY <1>1, ReportMade DEF Proceed, GoTo

\* The only reports ever made, and when.
ReportStep ==
  \/ reports' = reports
  \/ reports = <<>> /\ reports' = <<"graceful">> /\ shut = Sides
  \/ reports = <<>> /\ reports' = <<"failed">> /\ \E s \in Sides : Failed(s)

LEMMA ReportOfFlush == TypeOK /\ ControlInv /\ ControlInv' /\ Flush => ReportStep
<1> SUFFICES ASSUME TypeOK, ControlInv, ControlInv', Flush
             PROVE  ReportStep
  OBVIOUS
<1> DEFINE d == cb.self
<1>1. PICK w \in SendResults(d, Len(pending[d])) :
        /\ SetFlags(d, FlagsAfterSend(flags[d], w.is))
        /\ Flushed(w.n, FlagsAfterSend(flags[d], w.is))
  BY DEF Flush
<1>2. d \in Sides /\ reports = <<>> /\ UNCHANGED conn
  BY InCallback DEF Flush
<1> DEFINE fd == FlagsAfterSend(flags[d], w.is)
           b == "broken" \in fd
<1>3. flags'[d] = fd /\ Proceed("relay_in", b) /\ b \in BOOLEAN
  BY <1>1, <1>2 DEF SetFlags, Flushed, TypeOK
<1>4. b => "broken" \in flags'[d]
  BY <1>3
<1> HIDE DEF fd, b
<1> QED
  BY <1>2, <1>3, <1>4, BrokenReport DEF ReportStep

LEMMA ReportOfRelayNothing == TypeOK /\ ControlInv /\ ControlInv' /\ RelayNothing => ReportStep
<1> SUFFICES ASSUME TypeOK, ControlInv, ControlInv', RelayNothing
             PROVE  ReportStep
  OBVIOUS
<1>1. PICK fs : SetFlags(Src, fs) /\ RelayedNothing(fs)
  BY DEF RelayNothing
<1>2. Src \in Sides /\ reports = <<>> /\ UNCHANGED conn
  BY RelayPass DEF RelayNothing, sockVars
<1> DEFINE b == "broken" \in fs
<1>3. flags'[Src] = fs /\ Proceed(cb.at, b) /\ b \in BOOLEAN
  BY <1>1, <1>2 DEF SetFlags, RelayedNothing, TypeOK
<1>4. b => "broken" \in flags'[Src]
  BY <1>3
<1> HIDE DEF b
<1> QED
  BY <1>2, <1>3, <1>4, BrokenReport DEF ReportStep

LEMMA ReportOfRelayFin == TypeOK /\ ControlInv /\ ControlInv' /\ RelayFin => ReportStep
<1> SUFFICES ASSUME TypeOK, ControlInv, ControlInv', RelayFin
             PROVE  ReportStep
  OBVIOUS
<1>1. PICK fs, fd : SetBothFlags(Src, fs, Dst, fd) /\ RelayedFin(fd)
  BY DEF RelayFin
<1>2. Dst \in Sides /\ reports = <<>> /\ UNCHANGED conn
  BY RelayPass DEF RelayFin
<1> DEFINE b == "broken" \in fd
<1>3. flags'[Dst] = fd /\ Proceed(cb.at, b) /\ b \in BOOLEAN
  BY <1>1, <1>2 DEF SetBothFlags, RelayedFin, TypeOK
<1>4. b => "broken" \in flags'[Dst]
  BY <1>3
<1> HIDE DEF b
<1> QED
  BY <1>2, <1>3, <1>4, BrokenReport DEF ReportStep

LEMMA ReportOfRelayData == TypeOK /\ ControlInv /\ ControlInv' /\ RelayData => ReportStep
<1> SUFFICES ASSUME TypeOK, ControlInv, ControlInv', RelayData
             PROVE  ReportStep
  OBVIOUS
<1>1. PICK fs, fd, data, n : SetBothFlags(Src, fs, Dst, fd) /\ RelayedData(data, n, fd)
  BY DEF RelayData
<1>2. Dst \in Sides /\ reports = <<>> /\ UNCHANGED conn
  BY RelayPass DEF RelayData
<1> DEFINE b == n < Len(data) /\ "broken" \in fd
<1>3. flags'[Dst] = fd /\ Proceed(cb.at, b) /\ (b \in BOOLEAN)
  BY <1>1, <1>2 DEF SetBothFlags, RelayedData, TypeOK
<1>4. b => "broken" \in flags'[Dst]
  BY <1>3
<1> HIDE DEF b
<1> QED
  BY <1>2, <1>3, <1>4, BrokenReport DEF ReportStep

LEMMA ReportOfReturn == TypeOK /\ ControlInv /\ Return => ReportStep
<1> SUFFICES ASSUME TypeOK, ControlInv, Return
             PROVE  ReportStep
  OBVIOUS
<1> DEFINE s == cb.self
<1>1. cb.at = "relay_out" /\ s \in Sides /\ ~Dead /\ reports = <<>> /\ Peer(s) \in Sides
  BY InCallback, PeerFacts DEF Return, CallbackEnds
<1>2. CASE "broken" \in cb.events
  <2>1. Failed(s)
    BY <1>1, <1>2 DEF ControlInv, StageInv, BrokenInv
  <2> QED
    BY <1>1, <1>2, <2>1, ReportMade DEF Return, CallbackEnds, ReportStep
<1>3. CASE "broken" \notin cb.events /\ {"fin_sent", "fin_rcvd"} \subseteq flags[Peer(s)]
  <2>1. "fin_sent" \in flags[Peer(s)] /\ "fin_sent" \in flags[s]
    BY <1>1, <1>3, PeerFacts DEF ControlInv, FinInv
  <2>2. shut = Sides
    BY <1>1, <2>1, TwoSides DEF ControlInv, FinInv
  <2> QED
    BY <1>1, <1>3, <2>2, ReportMade DEF Return, CallbackEnds, ReportStep
<1>4. CASE "broken" \notin cb.events /\ ~({"fin_sent", "fin_rcvd"} \subseteq flags[Peer(s)])
  BY <1>4 DEF Return, CallbackEnds, ReportStep
<1> QED
  BY <1>2, <1>3, <1>4

LEMMA ReportOfStep == TypeOK /\ ControlInv /\ ControlInv' /\ [Next]_vars => ReportStep
<1>1. Select \/ (\E s \in Sides : Dispatch(s)) \/ RelayTurns \/ Exit
      \/ (\E s \in Sides : HostActs(s)) \/ UNCHANGED vars => reports' = reports
  BY DEF Select, Dispatch, BridgeCalled, RelayTurns, RelayInEnds, GoTo, Exit, HostActs,
         bridgeVars, vars
<1> QED
  BY <1>1, ReportOfFlush, ReportOfRelayNothing, ReportOfRelayFin, ReportOfRelayData,
     ReportOfReturn DEF Next, Relay, Terminated, ReportStep

\* A failed connection stays so, and FIN is not taken back.
LEMMA ForGood ==
  ASSUME TypeOK, [Next]_vars
  PROVE  /\ \A s \in Sides : Failed(s) => Failed(s)'
         /\ shut \subseteq shut'
<1> USE DEF Failed
<1>1. CASE Exit
  BY <1>1 DEF Exit, TypeOK, SocketsTypeOK
<1>2. CASE \E s \in Sides : HostActs(s)
  BY <1>2 DEF HostActs, Connected, Refused, HostSends, HostCloses, HostReads, ConnectionLost,
              TypeOK, SocketsTypeOK
<1>3. CASE RelayFin
  BY <1>3 DEF RelayFin
<1>4. CASE Select \/ (\E s \in Sides : Dispatch(s)) \/ Flush \/ RelayNothing \/ RelayData
           \/ RelayTurns \/ Return \/ Terminated \/ UNCHANGED vars
  BY <1>4 DEF Select, Dispatch, Flush, RelayNothing, RelayData, RelayTurns, Return, Terminated,
              vars, sockVars
<1> QED
  BY <1>1, <1>2, <1>3, <1>4 DEF Next, Relay

\* on_shutdown() is called at most once, and gracefully only when both
\* streams are complete and both FINs forwarded, not gracefully only when a
\* connection has failed.
THEOREM ReportsAreTrue == Spec => []ReportIsTrue
<1> DEFINE Inv == TypeOK /\ ControlInv /\ ReportIsTrue
<1>1. Init => Inv
  <2>1. Init => reports = <<>>
    BY DEF Init, BridgeInit
  <2> QED
    BY <2>1, TypesInitially, ControlInitially DEF ReportIsTrue
<1>2. Inv /\ [Next]_vars => Inv'
  <2> SUFFICES ASSUME Inv, [Next]_vars
               PROVE  Inv'
    OBVIOUS
  <2>1. TypeOK' /\ ControlInv'
    BY TypesInductive, ControlInductive
  <2>2. ReportStep /\ shut \subseteq shut' /\ shut' \subseteq Sides
        /\ \A s \in Sides : Failed(s) => Failed(s)'
    BY <2>1, ReportOfStep, ForGood DEF TypeOK, SocketsTypeOK
  <2>3. shut' = Sides => \A s \in Sides : in'[s] = <<>> /\ pending'[s] = <<>>
    BY <2>1, PeerFacts DEF ControlInv, FinInv
  <2>4. Len(reports') <= 1
    <3>1. CASE reports' = reports
      BY <3>1 DEF ReportIsTrue
    <3>2. CASE reports' \in {<<"graceful">>, <<"failed">>}
      BY <3>2, OneReport, Zenon
    <3> QED
      BY <2>2, <3>1, <3>2 DEF ReportStep
  <2>5. reports' = <<"graceful">> => shut' = Sides
    <3>1. CASE reports' = reports
      BY <2>2, <3>1 DEF ReportIsTrue
    <3>2. CASE reports' = <<"graceful">> /\ shut = Sides
      BY <2>2, <3>2
    <3>3. <<"failed">> # <<"graceful">>
      OBVIOUS
    <3> QED
      BY <2>2, <3>1, <3>2, <3>3 DEF ReportStep
  <2>6. reports' = <<"failed">> => \E s \in Sides : Failed(s)'
    BY <2>2 DEF ReportStep, ReportIsTrue
  <2> QED
    BY <2>1, <2>3, <2>4, <2>5, <2>6 DEF ReportIsTrue
<1> QED
  BY <1>1, <1>2, PTL DEF Spec

\* The whole inductive invariant: bits, masks, events and stages agree, the
\* streams are intact and the report is true.
THEOREM InvariantHolds == Spec => []IndInv
<1>1. ControlInv /\ StreamInv /\ ReportIsTrue => IndInv
  BY DEF IndInv
<1> QED
  BY <1>1, StreamsInvariant, ReportsAreTrue, PTL

\* A stream is a beginning of itself.
LEMMA PrefixOfItself ==
  ASSUME NEW S, NEW q \in Seq(S)
  PROVE  IsPrefix(q, q)
<1>1. <<>> \in Seq(S) /\ Cat(q, <<>>) = q
  BY EmptySeq, CatEmpty
<1>2. IsPrefix(q, Cat(q, <<>>))
  BY <1>1, CatPrefix
<1> QED
  BY <1>1, <1>2

\* What a host may do to the relay's sockets when the bridge is dead.
LEMMA QuietHosts ==
  ASSUME TypeOK, TypeOK', NEW t \in Sides, HostActs(t), NEW s \in Sides
  PROVE  IsPrefix(in[s], in'[s]) /\ Len(out'[s]) <= Len(out[s])
<1>1. /\ in[s] \in Seq(Octet) /\ out[s] \in Seq(Octet)
      /\ in'[s] \in Seq(Octet) /\ out'[s] \in Seq(Octet)
  BY DEF TypeOK, SocketsTypeOK
<1>2. IsPrefix(in[s], in[s]) /\ Len(out[s]) <= Len(out[s])
  BY <1>1, PrefixOfItself, LenProperties
<1>3. CASE HostSends(t)
  <2> DEFINE o == <<t, Len(sent[t]) + 1>>
  <2>1. UNCHANGED out /\ (s = t => in'[s] = Append(in[s], o)) /\ (s # t => in'[s] = in[s])
    BY <1>3 DEF HostSends, TypeOK, SocketsTypeOK
  <2> HIDE DEF o
  <2>2. CASE s = t
    <3>1. in[s] \in Seq(Octet \cup {o}) /\ o \in Octet \cup {o}
      BY <1>1, SeqMonotonic
    <3>2. IsPrefix(in[s], Append(in[s], o))
      BY <1>2, <3>1, PrefixOfAppend
    <3> QED
      BY <1>2, <2>1, <2>2, <3>2
  <2> QED
    BY <1>2, <2>1, <2>2
<1>4. CASE HostReads(t)
  <2>1. UNCHANGED in /\ (s # t => out'[s] = out[s])
        /\ (s = t => out[s] # <<>> /\ out'[s] = Tail(out[s]))
    BY <1>4 DEF HostReads, TypeOK, SocketsTypeOK
  <2>2. CASE s = t
    <3>1. Len(Tail(out[s])) = Len(out[s]) - 1 /\ Len(out[s]) \in Nat
      BY <1>1, <2>1, <2>2, HeadTailProperties, LenProperties
    <3>2. Len(Tail(out[s])) <= Len(out[s])
      BY <3>1
    <3> QED
      BY <1>2, <2>1, <2>2, <3>2, Zenon
  <2> QED
    BY <1>2, <2>1, <2>2
<1>5. CASE Connected(t) \/ Refused(t) \/ ConnectionLost(t) \/ HostCloses(t)
  BY <1>2, <1>5 DEF Connected, Refused, ConnectionLost, HostCloses
<1> QED
  BY <1>3, <1>4, <1>5 DEF HostActs

\* After on_shutdown() the relay makes no socket call and no further report,
\* though events of the last select() are still dispatched.
THEOREM DeadBridgeIsQuiet == Spec => QuietAfterShutdown
<1>1. TypeOK /\ ControlInv /\ [Next]_vars => [QuietStep]_vars
  <2> SUFFICES ASSUME TypeOK, ControlInv, [Next]_vars, Dead
               PROVE  QuietStep
    BY DEF QuietStep
  <2>1. cb.at = "idle"
    BY DEF ControlInv, StageInv
  <2>2. \A s \in Sides : IsPrefix(in[s], in[s]) /\ Len(out[s]) <= Len(out[s])
    BY PrefixOfItself, LenProperties DEF TypeOK, SocketsTypeOK
  <2>3. CASE \E s \in Sides : Dispatch(s)
    BY <2>2, <2>3 DEF QuietStep, Dispatch, BridgeCalled, sockVars
  <2>4. CASE Exit
    BY <2>2, <2>4 DEF QuietStep, Exit, bridgeVars
  <2>5. CASE \E s \in Sides : HostActs(s)
    <3>1. UNCHANGED <<pending, reports, shut>>
      BY <2>5 DEF HostActs, bridgeVars, Connected, Refused, HostSends, HostCloses, HostReads,
                  ConnectionLost
    <3> QED
      BY <2>5, <3>1, QuietHosts, TypesInductive DEF QuietStep
  <2>6. CASE Terminated \/ UNCHANGED vars
    BY <2>2, <2>6 DEF QuietStep, Terminated, vars, sockVars, bridgeVars
  <2>7. ~Select /\ ~Flush /\ ~RelayNothing /\ ~RelayFin /\ ~RelayData /\ ~RelayTurns /\ ~Return
    BY <2>1 DEF Select, Flush, RelayNothing, RelayFin, RelayData, RelayTurns, Return, InRelay,
                RelayInEnds, CallbackEnds
  <2> QED
    BY <2>3, <2>4, <2>5, <2>6, <2>7 DEF Next, Relay
<1> QED
  BY <1>1, ControlInvariant, PTL DEF Spec, QuietAfterShutdown

-----------------------------------------------------------------------------
(* Back-pressure.                                                          *)

\* What is set aside for a side came out of one recv() of the other.
ChunkInv == \A s \in Sides : Len(pending[s]) <= RecvSize[Peer(s)]

LEMMA ChunksOfFlush == TypeOK /\ ControlInv /\ ChunkInv /\ Flush => ChunkInv'
<1> SUFFICES ASSUME TypeOK, ControlInv, ChunkInv, Flush
             PROVE  ChunkInv'
  OBVIOUS
<1> DEFINE d == cb.self
<1>1. PICK w \in SendResults(d, Len(pending[d])) :
        pending' = [pending EXCEPT ![d] = Rest(@, w.n)]
  BY DEF Flush, Flushed
<1>2. d \in Sides /\ pending[d] \in Seq(Octet) /\ w.n \in 0..Len(pending[d])
  BY <1>1 DEF TypeOK, Activation, SendResults
<1>3. Len(Rest(pending[d], w.n)) = Len(pending[d]) - w.n /\ Len(pending[d]) \in Nat
  BY <1>2, CutFacts, LenProperties
<1>4. \A s \in Sides : Len(pending[s]) <= RecvSize[Peer(s)] /\ RecvSize[Peer(s)] \in Nat
  BY PeerFacts, RelayAssumption DEF ChunkInv
<1>5. Len(Rest(pending[d], w.n)) <= RecvSize[Peer(d)]
  BY <1>2, <1>3, <1>4
<1> QED
  BY <1>1, <1>2, <1>4, <1>5 DEF ChunkInv, TypeOK

LEMMA ChunksOfRelayData == TypeOK /\ ControlInv /\ ChunkInv /\ RelayData => ChunkInv'
<1> SUFFICES ASSUME TypeOK, ControlInv, ChunkInv, RelayData
             PROVE  ChunkInv'
  OBVIOUS
<1>1. PICK r \in RecvResults(Src, RecvSize[Src]) :
        /\ r.is = "data"
        /\ \E w \in SendResults(Dst, r.n) :
             RelayedData(Taken(in[Src], r.n), w.n, FlagsAfterSend(flags[Dst], w.is))
  BY DEF RelayData
<1> DEFINE data == Taken(in[Src], r.n)
<1>2. PICK w \in SendResults(Dst, r.n) : RelayedData(data, w.n, FlagsAfterSend(flags[Dst], w.is))
  BY <1>1
<1>3. Src \in Sides /\ Dst \in Sides /\ Src = Peer(Dst)
  BY RelayPass DEF RelayData
<1>4. in[Src] \in Seq(Octet) /\ r.n \in 0..Len(in[Src]) /\ r.n \in 0..RecvSize[Src] /\ w.n \in 0..r.n
  <2>1. in[Src] \in Seq(Octet) /\ r.n \in 1..Len(in[Src])
    BY <1>1, <1>3 DEF TypeOK, SocketsTypeOK, RecvResults
  <2>2. r.n \in 0..Len(in[Src])
    BY <2>1, LenProperties
  <2> QED
    BY <2>1, <2>2 DEF RecvResults, SendResults
<1>5. data \in Seq(Octet) /\ Len(data) = r.n
  BY <1>4, CutFacts
<1>6. Len(Rest(data, w.n)) = r.n - w.n
  <2> HIDE DEF data
  <2>1. w.n \in 0..Len(data)
    BY <1>4, <1>5
  <2>2. Len(Rest(data, w.n)) = Len(data) - w.n
    BY <1>5, <2>1, CutFacts
  <2> QED
    BY <1>5, <2>2
<1>7. RecvSize[Src] \in Nat
  BY <1>3, RelayAssumption
<1>8. Len(Rest(data, w.n)) <= RecvSize[Peer(Dst)]
  BY <1>3, <1>4, <1>6, <1>7
<1> HIDE DEF data
<1>9. pending' = pending \/ pending' = [pending EXCEPT ![Dst] = Rest(data, w.n)]
  BY <1>2 DEF RelayedData
<1> QED
  BY <1>3, <1>8, <1>9 DEF ChunkInv, TypeOK

\* Nothing else touches the octets set aside.
LEMMA ChunksOfOthers ==
  ASSUME [Next]_vars, ~Flush, ~RelayData
  PROVE  UNCHANGED pending
BY DEF Next, Relay, Select, Dispatch, BridgeCalled, RelayNothing, RelayedNothing, RelayFin, RelayedFin,
       RelayTurns, RelayInEnds, Return, CallbackEnds, Exit, HostActs, Terminated, vars, bridgeVars

\* Whatever is received by a step is received for a side with nothing set aside.
LEMMA PausedInput ==
  ASSUME TypeOK, TypeOK', ControlInv, [Next]_vars, NEW s \in Sides,
         in'[s] # in[s], pending[Peer(s)] # <<>>
  PROVE  IsPrefix(in[s], in'[s])
<1>1. CASE RelayData
  <2>1. PICK n : in' = [in EXCEPT ![Src] = Rest(@, n)]
    BY <1>1 DEF RelayData
  <2>2. pending[Dst] = <<>> /\ Dst = Peer(Src)
    BY <1>1, RelayPass DEF RelayData
  <2> QED
    BY <2>1, <2>2 DEF TypeOK, SocketsTypeOK
<1>2. CASE \E t \in Sides : HostActs(t)
  BY <1>2, QuietHosts
<1>3. CASE UNCHANGED in
  BY <1>3
<1> QED
  BY <1>1, <1>2, <1>3
  DEF Next, Relay, Select, Dispatch, Flush, RelayNothing, RelayFin, RelayTurns, Return, Exit,
      Terminated, vars, sockVars

\* While octets are set aside for a side nothing is received from the other,
\* and what is set aside is never more than one recv() returns.
THEOREM BackPressureHolds == Spec => BackPressure
<1>1. Init => ChunkInv
  BY PeerFacts, RelayAssumption DEF Init, BridgeInit, ChunkInv
<1>2. TypeOK /\ ControlInv /\ ChunkInv /\ [Next]_vars => ChunkInv'
  BY ChunksOfFlush, ChunksOfRelayData, ChunksOfOthers DEF ChunkInv
<1>3. TypeOK /\ TypeOK' /\ ControlInv /\ ChunkInv' /\ [Next]_vars =>
        [\A s \in Sides :
           /\ in'[s] # in[s] /\ pending[Peer(s)] # <<>> => IsPrefix(in[s], in'[s])
           /\ Len(pending'[s]) <= RecvSize[Peer(s)]]_vars
  BY PausedInput DEF ChunkInv
<1> QED
  BY <1>1, <1>2, <1>3, ControlInvariant, PTL DEF Spec, BackPressure

-----------------------------------------------------------------------------
(* The refinement.                                                         *)

Fwd == [d \in Sides |-> got[d] \o out[d]]
Lost == {s \in Sides : Failed(s)}

\* StreamRelay has its own copies of what it takes from IoPipe.
LEMMA SameNames ==
  /\ Streams!Sides = Sides
  /\ \A s : Streams!Peer(s) = Peer(s)
  /\ \A q, n : Streams!Taken(q, n) = Taken(q, n)
  /\ \A p, q : Streams!IsPrefix(p, q) <=> IsPrefix(p, q)
BY DEF Streams!Sides, Sides, Streams!Peer, Peer, Streams!Taken, Taken, Streams!IsPrefix, IsPrefix

LEMMA StreamsStutter ==
  ASSUME UNCHANGED <<sent, eof, got, out, shut, conn, reports>>
  PROVE  UNCHANGED Streams!vars
BY DEF Streams!vars, Failed

\* A report is made by a step that passes nothing on.
LEMMA StreamsFinish ==
  ASSUME ReportStep, UNCHANGED <<sent, eof, got, out, shut, conn>>
  PROVE  [Streams!Next]_(Streams!vars)
<1>1. CASE reports' = reports
  BY <1>1, StreamsStutter
<1>2. CASE reports' # reports
  <2>1. UNCHANGED <<sent, eof, Fwd, got, shut, Lost>>
    BY DEF Fwd, Lost, Failed
  <2>2. (\E s \in Sides : Failed(s)) => Lost # {}
    BY DEF Lost
  <2>3. Streams!Finish
    BY <1>2, <2>1, <2>2, SameNames DEF Streams!Finish, ReportStep, Fwd, Lost
  <2> QED
    BY <2>3 DEF Streams!Next
<1> QED
  BY <1>1, <1>2

\* Octets that send() accepts are the next ones of their stream.
LEMMA StreamsForward ==
  ASSUME TypeOK, TypeOK', StreamIntact', reports = <<>>, NEW d \in Sides, NEW t \in Seq(Octet),
         out' = [out EXCEPT ![d] = @ \o t],
         UNCHANGED <<sent, eof, got, shut, conn, reports>>
  PROVE  Streams!Next
<1> DEFINE g == got[d]
           o == out[d]
           q == sent[Peer(d)]
           f == Cat(Cat(g, o), t)
<1>1. g \in Seq(Octet) /\ o \in Seq(Octet) /\ q \in Seq(Octet)
  BY PeerFacts DEF TypeOK, SocketsTypeOK
<1>2. Fwd[d] = Cat(g, o) /\ Fwd'[d] = Cat(g, Cat(o, t))
      /\ \A x \in Sides : x # d => Fwd'[x] = Fwd[x]
  BY DEF Fwd, Cat, TypeOK, SocketsTypeOK
<1>3. Cat(g, Cat(o, t)) = f /\ IsPrefix(Cat(g, o), f)
  <2> HIDE DEF g, o
  <2>1. Cat(g, o) \in Seq(Octet)
    BY <1>1, CatType
  <2>2. Cat(g, Cat(o, t)) = Cat(Cat(g, o), t)
    BY <1>1, CatAssoc
  <2> QED
    BY <2>1, <2>2, CatPrefix
<1>4. IsPrefix(Fwd'[d], q)
  BY DEF StreamIntact, Fwd
<1> HIDE DEF f
<1>5. f \in Seq(Octet) /\ Fwd'[d] = f
  <2>1. Cat(o, t) \in Seq(Octet)
    BY <1>1, CatType
  <2>2. Cat(g, Cat(o, t)) \in Seq(Octet)
    BY <1>1, <2>1, CatType
  <2> QED
    BY <1>2, <1>3, <2>2
<1>6. Len(f) \in 0..Len(q) /\ Taken(q, Len(f)) = f
  BY <1>1, <1>4, <1>5, LenProperties DEF IsPrefix
<1>7. Fwd' = [Fwd EXCEPT ![d] = f]
  BY <1>2, <1>5 DEF Fwd
<1>8. \E k \in 0..Len(q) : /\ IsPrefix(Fwd[d], Taken(q, k))
                           /\ Fwd' = [Fwd EXCEPT ![d] = Taken(q, k)]
  BY <1>2, <1>3, <1>6, <1>7
<1>9. UNCHANGED Lost
  BY DEF Lost, Failed
<1>10. Streams!Forward(d)
  BY <1>8, <1>9, SameNames DEF Streams!Forward, Fwd, Lost
<1> QED
  BY <1>10, SameNames DEF Streams!Next

LEMMA StreamsForwardFin ==
  ASSUME TypeOK, FinIsLast', reports = <<>>, NEW d \in Sides, shut' = shut \cup {d},
         UNCHANGED <<sent, eof, got, out, conn, reports>>
  PROVE  Streams!Next
<1>1. Peer(d) \in eof /\ Fwd[d] = sent[Peer(d)]
  BY DEF FinIsLast, Fwd
<1>2. UNCHANGED <<Fwd, Lost>>
  BY DEF Fwd, Lost, Failed
<1>3. Streams!ForwardFin(d)
  BY <1>1, <1>2, SameNames DEF Streams!ForwardFin, Fwd, Lost
<1> QED
  BY <1>3, SameNames DEF Streams!Next

LEMMA StreamsSend ==
  ASSUME TypeOK, TypeOK', NEW s \in Sides, HostSends(s), UNCHANGED reports
  PROVE  Streams!Next
<1> DEFINE o == <<s, Len(sent[s]) + 1>>
<1>1. /\ s \notin eof /\ UNCHANGED <<eof, got, out, shut, conn>>
      /\ sent' = [sent EXCEPT ![s] = Append(@, o)]
  BY DEF HostSends
<1>2. o \in Octet
  <2> HIDE DEF o
  <2>1. sent[s] \in Seq(Octet) /\ Append(sent[s], o) \in Seq(Octet)
    BY <1>1 DEF TypeOK, SocketsTypeOK
  <2>2. Len(sent[s]) \in Nat /\ Len(Append(sent[s], o)) = Len(sent[s]) + 1
        /\ Append(sent[s], o)[Len(sent[s]) + 1] = o
    BY <2>1, LenProperties
  <2> QED
    BY <2>1, <2>2, ElementOfSeq
<1> HIDE DEF o
<1>3. UNCHANGED <<Fwd, Lost>>
  BY <1>1 DEF Fwd, Lost, Failed
<1>4. Streams!Send(s)
  BY <1>1, <1>2, <1>3 DEF Streams!Send, Fwd, Lost
<1> QED
  BY <1>4, SameNames DEF Streams!Next

LEMMA StreamsClose ==
  ASSUME NEW s \in Sides, HostCloses(s), UNCHANGED reports
  PROVE  Streams!Next
<1>1. eof' = eof \cup {s} /\ UNCHANGED <<sent, got, out, shut, conn>>
  BY DEF HostCloses
<1>2. UNCHANGED <<Fwd, Lost>>
  BY <1>1 DEF Fwd, Lost, Failed
<1>3. Streams!Close(s)
  BY <1>1, <1>2 DEF Streams!Close, Fwd, Lost
<1> QED
  BY <1>3, SameNames DEF Streams!Next

LEMMA StreamsRead ==
  ASSUME TypeOK, NEW d \in Sides, HostReads(d), UNCHANGED reports
  PROVE  Streams!Next
<1> DEFINE g == got[d]
           o == out[d]
           f == Cat(g, o)
<1>1. /\ o # <<>> /\ g \in Seq(Octet) /\ o \in Seq(Octet) /\ Fwd[d] = f
      /\ got' = [got EXCEPT ![d] = Append(g, Head(o))]
      /\ got'[d] = Append(g, Head(o)) /\ out'[d] = Tail(o)
      /\ \A x \in Sides : x # d => out'[x] = out[x] /\ got'[x] = got[x]
      /\ UNCHANGED <<sent, eof, shut, conn>>
  BY DEF HostReads, TypeOK, SocketsTypeOK, Cat, Fwd
<1>2. Cat(got'[d], out'[d]) = f
  <2> HIDE DEF g, o
  <2>1. Cat(Append(g, Head(o)), Tail(o)) = Cat(g, o)
    BY <1>1, ReadOne
  <2> QED
    BY <1>1, <2>1
<1>3. Len(f) = Len(g) + Len(o) /\ Len(g) \in Nat /\ Len(o) \in Nat \ {0}
      /\ f[Len(g) + 1] = Head(o)
  <2> HIDE DEF g, o
  <2>1. Len(g) \in Nat /\ Len(o) \in Nat \ {0} /\ Head(o) = o[1]
    BY <1>1, LenProperties, EmptySeq
  <2> QED
    BY <1>1, <2>1 DEF Cat
<1> HIDE DEF f
<1>4. UNCHANGED <<Fwd, Lost>>
  <2>1. \A x \in Sides : got'[x] \o out'[x] = got[x] \o out[x]
    BY <1>1, <1>2 DEF Cat, Fwd, f
  <2> QED
    BY <1>1, <2>1 DEF Fwd, Lost, Failed
<1>5. Len(g) < Len(Fwd[d]) /\ Fwd[d][Len(g) + 1] = Head(o)
  <2> HIDE DEF g, o
  <2>1. Fwd[d] = f
    BY <1>1
  <2>2. Len(g) < Len(f)
    BY <1>3
  <2> QED
    BY <1>3, <2>1, <2>2
<1>6. got' = [got EXCEPT ![d] = Append(@, Fwd[d][Len(got[d]) + 1])]
  BY <1>1, <1>5
<1>7. Streams!Read(d)
  BY <1>1, <1>4, <1>5, <1>6 DEF Streams!Read, Fwd, Lost
<1> QED
  BY <1>7, SameNames DEF Streams!Next

LEMMA StreamsLose ==
  ASSUME UNCHANGED <<sent, eof, got, out, shut, reports>>,
         \A s \in Sides : Failed(s) => Failed(s)'
  PROVE  Streams!Next
<1>1. Lost' \in SUBSET Sides /\ Lost \subseteq Lost' /\ UNCHANGED Fwd
  BY DEF Lost, Fwd
<1>2. Streams!Lose
  BY <1>1, SameNames DEF Streams!Lose, Fwd, Lost
<1> QED
  BY <1>2 DEF Streams!Next

\* What send() has accepted is the only thing a step of the relay adds to a
\* stream; its other steps are reports, FINs or nothing that can be observed.
LEMMA StreamsOfFlushing ==
  ASSUME TypeOK, TypeOK', ControlInv, ControlInv', StreamIntact', Flush
  PROVE  [Streams!Next]_(Streams!vars)
<1> DEFINE d == cb.self
           p == pending[d]
<1>1. PICK w \in SendResults(d, Len(p)) :
        /\ out' = [out EXCEPT ![d] = @ \o Taken(p, w.n)]
        /\ SetFlags(d, FlagsAfterSend(flags[d], w.is))
        /\ Flushed(w.n, FlagsAfterSend(flags[d], w.is))
  BY DEF Flush
<1>2. /\ UNCHANGED <<conn, eof, shut, sent, got>>
      /\ d \in Sides /\ reports = <<>> /\ p \in Seq(Octet) /\ "broken" \notin flags[d]
      /\ out[d] \in Seq(Octet)
  BY InCallback DEF Flush, ControlInv, StageInv, TypeOK, SocketsTypeOK
<1>3. CASE w.is \in {"fatal", "epipe"}
  <2>1. w.n = 0
    BY <1>1, <1>3 DEF SendResults
  <2>2. out[d] \o Taken(p, 0) = out[d]
    BY <1>2, TakenNone
  <2>3. out' = out
    BY <1>1, <1>2, <2>1, <2>2 DEF TypeOK, SocketsTypeOK
  <2> QED
    BY <1>2, <2>3, ReportOfFlush, StreamsFinish
<1>4. CASE w.is \in {"all", "some", "again"}
  <2>1. "broken" \notin FlagsAfterSend(flags[d], w.is)
    BY <1>2, <1>4 DEF FlagsAfterSend
  <2>2. reports' = reports
    BY <1>1, <2>1 DEF Flushed, Proceed, GoTo
  <2>3. Taken(p, w.n) \in Seq(Octet)
    BY <1>1, <1>2, CutFacts DEF SendResults
  <2> QED
    BY <1>1, <1>2, <2>2, <2>3, StreamsForward
<1> QED
  BY <1>1, <1>3, <1>4 DEF SendResults, SendOutcome

LEMMA StreamsOfRelayingData ==
  ASSUME TypeOK, TypeOK', ControlInv, ControlInv', StreamIntact', RelayData
  PROVE  [Streams!Next]_(Streams!vars)
<1> DEFINE s == Src
           d == Dst
           Data(r) == Taken(in[Src], r.n)
           FD(w) == FlagsAfterSend(flags[Dst], w.is)
<1>1. PICK r \in RecvResults(Src, RecvSize[Src]) :
        /\ r.is = "data"
        /\ \E w \in SendResults(Dst, r.n) :
             /\ out' = [out EXCEPT ![Dst] = @ \o Taken(Data(r), w.n)]
             /\ RelayedData(Data(r), w.n, FD(w))
  BY DEF RelayData
<1>2. PICK w \in SendResults(Dst, r.n) :
        /\ out' = [out EXCEPT ![Dst] = @ \o Taken(Data(r), w.n)]
        /\ RelayedData(Data(r), w.n, FD(w))
  BY <1>1
<1>3. /\ s \in Sides /\ d \in Sides /\ reports = <<>> /\ "broken" \notin flags[d]
      /\ UNCHANGED <<conn, eof, shut, sent, got>>
  BY RelayPass DEF RelayData
<1>4. in[s] \in Seq(Octet) /\ out[d] \in Seq(Octet) /\ r.n \in 0..Len(in[s]) /\ w.n \in 0..r.n
  <2>1. in[s] \in Seq(Octet) /\ out[d] \in Seq(Octet) /\ r.n \in 1..Len(in[s])
    BY <1>1, <1>3 DEF TypeOK, SocketsTypeOK, RecvResults
  <2>2. r.n \in 0..Len(in[s])
    BY <2>1, LenProperties
  <2> QED
    BY <2>1, <2>2 DEF SendResults
<1> DEFINE data == Data(r)
<1>5. data \in Seq(Octet) /\ Len(data) = r.n
  BY <1>4, CutFacts
<1>6. CASE w.is \in {"fatal", "epipe"}
  <2>1. w.n = 0
    BY <1>2, <1>6 DEF SendResults
  <2>2. out[d] \o Taken(data, 0) = out[d]
    BY <1>4, <1>5, TakenNone
  <2>3. out' = out
    BY <1>2, <1>3, <2>1, <2>2 DEF TypeOK, SocketsTypeOK
  <2> QED
    BY <1>3, <2>3, ReportOfRelayData, StreamsFinish
<1>7. CASE w.is \in {"all", "some", "again"}
  <2>1. "broken" \notin FlagsAfterSend(flags[d], w.is)
    BY <1>3, <1>7 DEF FlagsAfterSend
  <2>2. reports' = reports
    BY <1>2, <2>1 DEF RelayedData, Proceed, GoTo
  <2>3. Taken(data, w.n) \in Seq(Octet)
    BY <1>4, <1>5, CutFacts
  <2> HIDE DEF s, data
  <2>4. out' = [out EXCEPT ![d] = @ \o Taken(data, w.n)]
    BY <1>2 DEF data
  <2> HIDE DEF d
  <2> QED
    BY <1>3, <2>2, <2>3, <2>4, StreamsForward
<1> QED
  BY <1>2, <1>6, <1>7 DEF SendResults, SendOutcome

LEMMA StreamsOfRelayingFin ==
  ASSUME TypeOK, ControlInv, ControlInv', FinIsLast', RelayFin
  PROVE  [Streams!Next]_(Streams!vars)
<1>1. PICK fs : /\ SetBothFlags(Src, fs, Dst, FlagsAfterFin(flags[Dst], ~Failed(Dst)))
                /\ RelayedFin(FlagsAfterFin(flags[Dst], ~Failed(Dst)))
  BY DEF RelayFin
<1>2. /\ Dst \in Sides /\ reports = <<>> /\ "broken" \notin flags[Dst]
      /\ UNCHANGED <<conn, eof, out, sent, got>>
      /\ shut' = IF Failed(Dst) THEN shut ELSE shut \cup {Dst}
  BY RelayPass DEF RelayFin
<1>3. CASE Failed(Dst)
  BY <1>2, <1>3, ReportOfRelayFin, StreamsFinish
<1>4. CASE ~Failed(Dst)
  <2>1. "broken" \notin FlagsAfterFin(flags[Dst], ~Failed(Dst))
    BY <1>2, <1>4 DEF FlagsAfterFin
  <2>2. reports' = reports
    BY <1>1, <2>1 DEF RelayedFin, Proceed, GoTo
  <2> QED
    BY <1>2, <1>4, <2>2, StreamsForwardFin
<1> QED
  BY <1>3, <1>4

LEMMA StreamsOfHostMoves ==
  ASSUME TypeOK, TypeOK', [Next]_vars, NEW s \in Sides, HostActs(s)
  PROVE  [Streams!Next]_(Streams!vars)
<1>1. UNCHANGED reports
  BY DEF HostActs, bridgeVars
<1>2. CASE Connected(s) \/ Refused(s) \/ ConnectionLost(s)
  <2>1. UNCHANGED <<sent, eof, got, out, shut>>
    BY <1>2 DEF Connected, Refused, ConnectionLost
  <2> QED
    BY <1>1, <2>1, ForGood, StreamsLose
<1> QED
  BY <1>1, <1>2, StreamsSend, StreamsClose, StreamsRead DEF HostActs

LEMMA StreamsOfStep ==
  ASSUME TypeOK, TypeOK', ControlInv, ControlInv', StreamInv', [Next]_vars
  PROVE  [Streams!Next]_(Streams!vars)
<1>1. StreamIntact' /\ FinIsLast'
  BY DEF StreamInv
<1>2. CASE Exit
  <2>1. UNCHANGED <<sent, eof, got, out, shut, reports>>
    BY <1>2 DEF Exit, bridgeVars
  <2> QED
    BY <2>1, ForGood, StreamsLose
<1>3. CASE Return
  <2>1. UNCHANGED <<sent, eof, got, out, shut, conn>>
    BY <1>3 DEF Return, sockVars
  <2> QED
    BY <1>3, <2>1, ReportOfReturn, StreamsFinish
<1>4. CASE RelayNothing
  <2>1. UNCHANGED <<sent, eof, got, out, shut, conn>>
    BY <1>4 DEF RelayNothing, sockVars
  <2> QED
    BY <1>4, <2>1, ReportOfRelayNothing, StreamsFinish
<1>5. CASE Select \/ (\E s \in Sides : Dispatch(s)) \/ RelayTurns \/ UNCHANGED vars
  BY <1>5, StreamsStutter DEF Select, Dispatch, BridgeCalled, RelayTurns, RelayInEnds, GoTo,
     vars, sockVars, bridgeVars
<1> QED
  BY <1>1, <1>2, <1>3, <1>4, <1>5, StreamsOfFlushing, StreamsOfRelayingData,
     StreamsOfRelayingFin, StreamsOfHostMoves DEF Next, Relay, Terminated

\* Every behaviour of the relay, with its pipes, masks, events and partial
\* writes, is a behaviour of the pair of streams that StreamRelay describes.
THEOREM RelayImplementsStreams == Spec => ImplementsStreams
<1> DEFINE Inv == TypeOK /\ ControlInv /\ StreamInv
<1>1. Init => Streams!Init
  <2> SUFFICES ASSUME Init
               PROVE  Streams!Init
    OBVIOUS
  <2>1. Fwd = [s \in Sides |-> <<>>]
    BY DEF Init, SocketsInit, Fwd
  <2>2. Lost = {}
    BY DEF Init, SocketsInit, Lost, Failed
  <2> QED
    BY <2>1, <2>2, SameNames DEF Streams!Init, Init, SocketsInit, BridgeInit, Fwd, Lost
<1>2. Inv /\ Inv' /\ [Next]_vars => [Streams!Next]_(Streams!vars)
  BY StreamsOfStep
<1>3. Spec => []Inv
  BY StreamsInvariant
<1> QED
  BY <1>1, <1>2, <1>3, PTL DEF Spec, ImplementsStreams, Streams!Spec

=============================================================================
