------------------------------ MODULE TcpRelay ------------------------------
(***************************************************************************)
(* tcp-relay.c: one io_bridge between two tcp_pipes, driven by the         *)
(* select() loop.  One process, one thread; the hosts at both ends and the *)
(* network run concurrently with it.                                       *)
(*                                                                         *)
(* The relay is modelled from the moment br->init() has returned.  A step  *)
(* of the relay is one of: a call of select(), the dispatch of one socket  *)
(* event up to the bridge's callback, one pass of the bridge over a pair   *)
(* of pipe calls, the end of the callback, the exit of the process.        *)
(***************************************************************************)
EXTENDS Sockets, IoBridge

CONSTANTS
  RecvSize,      \* br_pipe.recv_size of each side
  SigPipeIgnored \* whether main() calls signal(SIGPIPE, SIG_IGN);
                 \*   the call is commented out in tcp-relay.c

ASSUME RelayAssumption ==
  /\ RecvSize \in [Sides -> Nat \ {0}]
  /\ SigPipeIgnored \in BOOLEAN

VARIABLES
  mask,  \* tcp_pipe.sk_mask, the events the loop watches for the pipe
  have,  \* select_sk.have, events of the last select() not yet dispatched
  proc   \* the process

ProcState == {"running", "exited", "aborted", "killed"}

bridgeVars == <<flags, mask, pending, cb, reports>>
vars == <<sockVars, bridgeVars, have, proc>>

TypeOK ==
  /\ SocketsTypeOK
  /\ flags \in [Sides -> SUBSET Flag]
  /\ mask \in [Sides -> SUBSET SkEvent]
  /\ have \in [Sides -> SUBSET SkEvent]
  /\ pending \in [Sides -> Seq(Octet)]
  /\ cb \in Activation
  /\ reports \in Seq(Report)
  /\ proc \in ProcState

Init ==
  /\ SocketsInit
  /\ BridgeInit
  /\ flags = [s \in Sides |-> InitialFlags]
  /\ mask = [s \in Sides |-> InitialMask]
  /\ have = [s \in Sides |-> {}]
  /\ proc = "running"

-----------------------------------------------------------------------------
(* assert() stays active in every build of the repository and ends the     *)
(* process; so does SIGPIPE, which send() raises for EPIPE.                *)

Survives(asserts) == proc' = IF asserts THEN "running" ELSE "aborted"

SurvivesSend(asserts, outcome) ==
  proc' = IF outcome = "epipe" /\ ~SigPipeIgnored THEN "killed"
          ELSE IF asserts THEN "running" ELSE "aborted"

\* Every pipe call ends with tcp_pipe_adjust_event_mask().
SetFlags(s, f) ==
  /\ flags' = [flags EXCEPT ![s] = f]
  /\ mask' = [mask EXCEPT ![s] = EventMask(f)]

SetBothFlags(s, fs, d, fd) ==
  /\ flags' = [flags EXCEPT ![s] = fs, ![d] = fd]
  /\ mask' = [mask EXCEPT ![s] = EventMask(fs), ![d] = EventMask(fd)]

Dispatched == \A s \in Sides : have[s] = {}

\* `while (! enough) evl->monitor()', up to the return of select().
Select ==
  /\ proc = "running" /\ cb.at = "idle" /\ Dispatched /\ ~Dead
  /\ have' = [s \in Sides |-> ReadyEvents(s) \cap (mask[s] \cup {"error"})]
  /\ \E s \in Sides : have'[s] # {}
  /\ UNCHANGED <<sockVars, bridgeVars, proc>>

\* The loop walks its sockets by descriptor, and the left one was accepted
\* before the right one was created.
Dispatch(s) ==
  /\ proc = "running" /\ cb.at = "idle" /\ have[s] # {}
  /\ s = "r" => have["l"] = {}
  /\ have' = [have EXCEPT ![s] = {}]
  /\ LET f == FlagsOnActivity(flags[s], have[s], Failed(s))
         ev == EventsOnActivity(flags[s], have[s], Failed(s))
     IN /\ SetFlags(s, f)
        /\ BridgeCalled(s, ev)
        /\ Survives(/\ OnActivityAsserts(flags[s], have[s], Failed(s))
                    /\ BridgeCalledAsserts(s, ev, f))
  /\ UNCHANGED sockVars

\* br_stream_flush()
Flush ==
  /\ proc = "running" /\ cb.at = "flush"
  /\ \E w \in SendResults(cb.self, Len(pending[cb.self])) :
       LET fd == FlagsAfterSend(flags[cb.self], w.is)
       IN /\ out' = [out EXCEPT ![cb.self] = @ \o Taken(pending[cb.self], w.n)]
          /\ SetFlags(cb.self, fd)
          /\ Flushed(w.n, fd)
          /\ SurvivesSend(FlushedAsserts(w.n, fd), w.is)
  /\ UNCHANGED <<conn, in, eof, shut, sent, got, have>>

\* br_bridge_rx_tx() when recv() returns -1
RelayNothing ==
  /\ proc = "running" /\ InRelay /\ Relaying
  /\ \E r \in RecvResults(Src, RecvSize[Src]) :
       /\ r.is \in {"again", "fatal"}
       /\ LET fs == FlagsAfterRecv(flags[Src], r.is)
          IN SetFlags(Src, fs) /\ RelayedNothing(fs)
  /\ Survives(RelayAsserts)
  /\ UNCHANGED <<sockVars, have>>

\* br_bridge_rx_tx() when recv() returns 0; shutdown() fails on a lost socket
RelayFin ==
  /\ proc = "running" /\ InRelay /\ Relaying
  /\ \E r \in RecvResults(Src, RecvSize[Src]) :
       /\ r.is = "fin"
       /\ LET fs == FlagsAfterRecv(flags[Src], "fin")
              fd == FlagsAfterFin(flags[Dst], ~Failed(Dst))
          IN /\ SetBothFlags(Src, fs, Dst, fd)
             /\ RelayedFin(fd)
             /\ Survives(RelayAsserts /\ RelayedFinAsserts(fs))
  /\ shut' = IF Failed(Dst) THEN shut ELSE shut \cup {Dst}
  /\ UNCHANGED <<conn, in, eof, out, sent, got, have>>

\* br_bridge_rx_tx() when recv() returns data
RelayData ==
  /\ proc = "running" /\ InRelay /\ Relaying
  /\ \E r \in RecvResults(Src, RecvSize[Src]) :
       /\ r.is = "data"
       /\ \E w \in SendResults(Dst, r.n) :
            LET data == Taken(in[Src], r.n)
                fd == FlagsAfterSend(flags[Dst], w.is)
            IN /\ in' = [in EXCEPT ![Src] = Rest(@, r.n)]
               /\ out' = [out EXCEPT ![Dst] = @ \o Taken(data, w.n)]
               /\ SetBothFlags(Src, FlagsAfterRecv(flags[Src], "data"), Dst, fd)
               /\ RelayedData(data, w.n, fd)
               /\ SurvivesSend(RelayAsserts /\ RelayedDataAsserts(data, w.n, fd),
                               w.is)
  /\ UNCHANGED <<conn, eof, shut, sent, got, have>>

RelayTurns ==
  /\ proc = "running" /\ RelayInEnds
  /\ UNCHANGED <<sockVars, mask, have, proc>>

Return ==
  /\ proc = "running" /\ CallbackEnds
  /\ UNCHANGED <<sockVars, mask, have, proc>>

\* on_bridge_down() has set `enough'; main() returns without discarding the
\* bridge, and the kernel closes the sockets: what send() has accepted still
\* goes out, unless unread input turns the close into a reset.
Exit ==
  /\ proc = "running" /\ cb.at = "idle" /\ Dispatched /\ Dead
  /\ proc' = "exited"
  /\ conn' = [s \in Sides |-> IF in[s] # <<>> \/ conn[s] = "connecting"
                              THEN "reset" ELSE conn[s]]
  /\ UNCHANGED <<in, eof, out, shut, sent, got, bridgeVars, have>>

Relay ==
  \/ Select \/ (\E s \in Sides : Dispatch(s))
  \/ Flush \/ RelayNothing \/ RelayFin \/ RelayData \/ RelayTurns
  \/ Return \/ Exit

-----------------------------------------------------------------------------
\* What a host sends to a relay that is gone is not of interest.
HostActs(s) ==
  /\ \/ Connected(s) \/ Refused(s) \/ HostReads(s) \/ ConnectionLost(s)
     \/ proc = "running" /\ (HostSends(s) \/ HostCloses(s))
  /\ UNCHANGED <<bridgeVars, have, proc>>

Terminated ==
  /\ proc # "running"
  /\ UNCHANGED vars

Next == Relay \/ (\E s \in Sides : HostActs(s)) \/ Terminated

Spec == Init /\ [][Next]_vars

\* The process keeps running, connect() is eventually answered, and a host
\* eventually reads what has reached it.
Fairness ==
  /\ WF_vars(Relay)
  /\ \A s \in Sides :
       /\ WF_vars((Connected(s) \/ Refused(s)) /\ UNCHANGED <<bridgeVars, have, proc>>)
       /\ WF_vars(HostReads(s) /\ UNCHANGED <<bridgeVars, have, proc>>)

FairSpec == Spec /\ Fairness

-----------------------------------------------------------------------------
(* Safety.                                                                 *)

\* None of the assert()s of the bridge and of the TCP pipes ever fires,
\* whatever the order of socket events, short writes, FINs and failures.
NoAbort == proc # "aborted"

\* What host d has read, followed by what the kernel holds for it, by what
\* the bridge has set aside because d was congested and by what waits to be
\* received, is exactly what the other host has sent: no octet is lost,
\* duplicated or reordered while the bridge lives, and what was passed on
\* remains a prefix of the stream after it died (br_bridge_rx_tx,
\* br_stream_flush; "reliable, ordered", io_pipe.h).
Conserved(d) == got[d] \o out[d] \o pending[d] \o in[Peer(d)] = sent[Peer(d)]

StreamIntact ==
  \A d \in Sides :
    /\ IsPrefix(got[d] \o out[d], sent[Peer(d)])
    /\ ~Dead => Conserved(d)

\* The bridge passes FIN on to a side only after the other host has closed,
\* and after every octet that host had sent was accepted by the socket.
FinIsLast ==
  \A d \in shut : Peer(d) \in eof /\ got[d] \o out[d] = sent[Peer(d)]

\* on_shutdown(graceful) is called only when both streams are complete and
\* both FINs were forwarded; on_shutdown(not graceful) only when a connection
\* has failed.  It is called at most once (br_stream_on_activity).
ReportIsTrue ==
  /\ Len(reports) <= 1
  /\ reports = <<"graceful">> =>
       shut = Sides /\ \A s \in Sides : in[s] = <<>> /\ pending[s] = <<>>
  /\ reports = <<"failed">> => \E s \in Sides : Failed(s)

\* Whenever the process is about to block in select(), no stream can be
\* relayed right away, and the event that lets each unfinished stream go on
\* is watched: data or FIN at its source, or room at its destination.  The
\* pipes stop watching what they believe to be raised, so one bit wrong in a
\* mask would stall the stream for ever (tcp_pipe_adjust_event_mask).
NoLostWakeup ==
  proc = "running" /\ cb.at = "idle" /\ Dispatched /\ ~Dead =>
    \A s \in Sides :
      /\ ~("readable" \in flags[s] /\ "writable" \in flags[Peer(s)])
      /\ pending[s] # <<>> => "writable" \in mask[s]
      /\ Peer(s) \notin shut =>
           \/ "readable" \in mask[s]
           \/ "writable" \in mask[Peer(s)]
           \/ "ready" \notin flags[s] /\ "writable" \in mask[s]

\* One select() may report both sockets.  The events of the second one are
\* dispatched after the callback of the first one has worked on both pipes,
\* and yet they are still events its pipe waits for (evl_select_monitor).
NoStaleEvent ==
  ~Dead => \A s \in Sides : have[s] \subseteq mask[s] \cup {"error"}

-----------------------------------------------------------------------------
(* What no step may do.                                                    *)

\* "it temporarily stops reading data from former until send() goes through"
\* (io_bridge.h): nothing is received from a side while octets for its peer
\* are set aside, so the relay holds at most one buffer per direction.
BackPressure ==
  [][\A s \in Sides :
       /\ in'[s] # in[s] /\ pending[Peer(s)] # <<>> => IsPrefix(in[s], in'[s])
       /\ Len(pending'[s]) <= RecvSize[Peer(s)]]_vars

\* A step that leaves alone what a dead bridge has no business with: the hosts
\* may still send to the relay's sockets and read from them.
QuietStep ==
  Dead => /\ UNCHANGED <<pending, reports, shut>>
          /\ \A s \in Sides : IsPrefix(in[s], in'[s]) /\ Len(out'[s]) <= Len(out[s])

\* After on_shutdown() the relay makes no further socket call and reports
\* nothing more, even if events of the last select() are still undispatched.
QuietAfterShutdown == [][QuietStep]_vars

\* "If this happens while executing recv/send/send_fin call, it simply sets
\* 'broken' flag and returns -1" (io_pipe.h): a failed send() is reported to
\* the bridge, it does not end the process.
SendFailureReturns == proc # "killed"

-----------------------------------------------------------------------------
(* What must happen, unless a connection fails.                            *)

SomeFailed == \E s \in Sides : Failed(s)

\* Every octet a host has sent is eventually read by the other host.
EverythingArrives ==
  \A s \in Sides : \A n \in 1..MaxOctets[s] :
    Len(sent[s]) >= n ~> Len(got[Peer(s)]) >= n \/ SomeFailed

\* A host that closes its direction is eventually seen to do so by the other.
FinArrives ==
  \A s \in Sides : s \in eof ~> Peer(s) \in shut \/ SomeFailed

\* When both have closed, the program eventually ends, and says so.
ShutdownFollows ==
  eof = Sides ~> (proc = "exited" /\ reports = <<"graceful">>) \/ SomeFailed

\* A lost connection may go unnoticed while nothing is asked of its socket,
\* but not for ever once the other host has closed: the FIN cannot be passed
\* on, and the program ends.
FailureIsNoticed ==
  \A s \in Sides : Failed(s) /\ Peer(s) \in eof ~> proc # "running"

-----------------------------------------------------------------------------
\* The relay is a pair of reliable, ordered streams: every behaviour of this
\* module is one of StreamRelay, where what send() has accepted counts as
\* passed on and on_shutdown() is the report.
Streams ==
  INSTANCE StreamRelay WITH
    Item <- Octet,
    closed <- eof,
    fwd <- [d \in Sides |-> got[d] \o out[d]],
    finned <- shut,
    lost <- {s \in Sides : Failed(s)}

ImplementsStreams == Streams!Spec

=============================================================================
