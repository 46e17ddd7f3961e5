------------------------------ MODULE IoBridge ------------------------------
(***************************************************************************)
(* io_bridge.c: the callback that relays between two pipes.                *)
(*                                                                         *)
(* The actions here are what the bridge does with the results of the pipe  *)
(* calls it makes; a module that composes the bridge with actual pipes     *)
(* supplies those results: `n' octets accepted by send(), `fs' and `fd'    *)
(* the bits that the call has left in the source and destination pipe.     *)
(*                                                                         *)
(* br_stream_on_activity() runs to completion before the event loop gets   *)
(* control back, but the hosts and the network run beside it, so it is     *)
(* cut at every pipe call.  `cb' is its activation: the stage it is at,    *)
(* the stream it was called for and the events it was called with.         *)
(***************************************************************************)
EXTENDS IoPipe

VARIABLES
  flags,    \* state bits of each pipe, as the bridge sees them
  pending,  \* br_stream.pending: octets the pipe did not accept, <<>> for NULL
  cb,       \* the running activation of br_stream_on_activity()
  reports   \* arguments of the on_shutdown() calls made so far

Stage == {"idle", "flush", "relay_in", "relay_out"}

Activation == [at : Stage, self : Sides, events : SUBSET IoEvent]

Report == {"graceful", "failed"}

\* Between callbacks; self and events are of no interest then.
Idle == [at |-> "idle", self |-> "l", events |-> {}]

\* br_bridge.dead is raised together with the call of on_shutdown().
Dead == reports # <<>>

BridgeInit ==
  /\ pending = [s \in Sides |-> <<>>]
  /\ cb = Idle
  /\ reports = <<>>

\* The pipes of the relay loop the activation is in.
Src == IF cb.at = "relay_in" THEN Peer(cb.self) ELSE cb.self
Dst == Peer(Src)

\* Mutant: the loop goes on reading while the destination is congested.
RelayingWhileCongested == "readable" \in flags[Src]

\* The condition of the while loop in br_bridge_relay(), which also covers
\* the tests its two callers make before the call.
Relaying == "readable" \in flags[Src] /\ "writable" \in flags[Dst]

InRelay ==
  \/ cb.at = "relay_in"
  \/ cb.at = "relay_out" /\ "readable" \in cb.events

-----------------------------------------------------------------------------
Shutdown(report) ==
  /\ reports' = Append(reports, report)
  /\ cb' = Idle

GoTo(stage) ==
  /\ cb' = [cb EXCEPT !.at = stage]
  /\ UNCHANGED reports

\* The bridge gives up as soon as a pipe it has just called is broken.
Proceed(stage, broken) ==
  IF broken THEN Shutdown("failed") ELSE GoTo(stage)

\* Mutant: a dead bridge still works on late events.
BridgeCalledThoughDead(s, ev) ==
  /\ cb' = [at |-> CASE "writable" \in ev /\ pending[s] # <<>> -> "flush"
                     [] "writable" \in ev /\ pending[s] = <<>> -> "relay_in"
                     [] OTHER -> "relay_out",
            self |-> s, events |-> ev]
  /\ UNCHANGED <<pending, reports>>

\* Mutant: octets set aside are not flushed first.
BridgeCalledNoFlush(s, ev) ==
  /\ cb' = IF Dead THEN Idle
           ELSE [at |-> IF "writable" \in ev THEN "relay_in" ELSE "relay_out",
                 self |-> s, events |-> ev]
  /\ UNCHANGED <<pending, reports>>

\* Entry of br_stream_on_activity(context = s, events = ev).
BridgeCalled(s, ev) ==
  /\ cb' = IF Dead THEN Idle
           ELSE [at |-> CASE "writable" \in ev /\ pending[s] # <<>> -> "flush"
                          [] "writable" \in ev /\ pending[s] = <<>> -> "relay_in"
                          [] OTHER -> "relay_out",
                 self |-> s, events |-> ev]
  /\ UNCHANGED <<pending, reports>>

BridgeCalledAsserts(s, ev, f) == ~Dead /\ "writable" \in ev => "writable" \in f

\* Mutant: a short write drops the rest of the octets set aside.
FlushedAll(n, fd) ==
  /\ pending' = [pending EXCEPT ![cb.self] = <<>>]
  /\ Proceed("relay_in", "broken" \in fd)

\* br_stream_flush() of cb.self: send(pending) accepted n octets.
Flushed(n, fd) ==
  /\ pending' = [pending EXCEPT ![cb.self] = Rest(@, n)]
  /\ Proceed("relay_in", "broken" \in fd)

FlushedAsserts(n, fd) ==
  /\ "writable" \in flags[cb.self]
  /\ n < Len(pending[cb.self]) => "writable" \notin fd

-----------------------------------------------------------------------------
(* One round of br_bridge_rx_tx(Src, Dst).                                 *)

RelayAsserts ==
  /\ "readable" \in flags[Src] /\ "writable" \in flags[Dst]
  /\ pending[Dst] = <<>>

\* Mutant: a pipe that recv() has found broken is not reported.
RelayedNothingQuietly(fs) ==
  /\ GoTo(cb.at)
  /\ UNCHANGED pending

\* recv() had nothing to give or failed.
RelayedNothing(fs) ==
  /\ Proceed(cb.at, "broken" \in fs)
  /\ UNCHANGED pending

\* recv() returned FIN and send_fin() was called on Dst.
RelayedFin(fd) ==
  /\ Proceed(cb.at, "broken" \in fd)
  /\ UNCHANGED pending

RelayedFinAsserts(fs) == "fin_rcvd" \in fs /\ "fin_sent" \notin flags[Dst]

\* Mutant: what send() does not accept is lost.
RelayedDataDropped(data, n, fd) ==
  /\ UNCHANGED pending
  /\ Proceed(cb.at, n < Len(data) /\ "broken" \in fd)

\* recv() returned data, send() accepted its first n octets.  A failed send
\* drops the data: the bridge is dead by then.
RelayedData(data, n, fd) ==
  /\ pending' = IF n = Len(data) \/ "broken" \in fd THEN pending
                ELSE [pending EXCEPT ![Dst] = Rest(data, n)]
  /\ Proceed(cb.at, n < Len(data) /\ "broken" \in fd)

RelayedDataAsserts(data, n, fd) ==
  n < Len(data) /\ "broken" \notin fd => "writable" \notin fd

-----------------------------------------------------------------------------
\* Mutant: the callback ends after the first of its two relay loops.
RelayInEndsCallback ==
  /\ cb.at = "relay_in" /\ ~Relaying
  /\ cb' = Idle
  /\ UNCHANGED <<flags, pending, reports>>

\* Both tests fail that guard the second half of the callback.
RelayInEnds ==
  /\ cb.at = "relay_in" /\ ~Relaying
  /\ GoTo("relay_out")
  /\ UNCHANGED <<flags, pending>>

\* Mutant: one FIN is taken for the end of both streams.
CallbackEndsEarly ==
  /\ cb.at = "relay_out"
  /\ ~("readable" \in cb.events /\ Relaying)
  /\ CASE "broken" \in cb.events -> Shutdown("failed")
       [] "broken" \notin cb.events /\ "fin_rcvd" \in flags[Peer(cb.self)] -> Shutdown("graceful")
       [] OTHER -> cb' = Idle /\ UNCHANGED reports
  /\ UNCHANGED <<flags, pending>>

\* Mutant: the end of both streams is looked for after a write only.
CallbackEndsOnWrite ==
  /\ cb.at = "relay_out"
  /\ ~("readable" \in cb.events /\ Relaying)
  /\ CASE "broken" \in cb.events -> Shutdown("failed")
       [] "writable" \in cb.events /\ {"fin_sent", "fin_rcvd"} \subseteq flags[Peer(cb.self)]
            -> Shutdown("graceful")
       [] OTHER -> cb' = Idle /\ UNCHANGED reports
  /\ UNCHANGED <<flags, pending>>

\* From the test for IO_EV_broken to the end of the callback.
CallbackEnds ==
  /\ cb.at = "relay_out"
  /\ ~("readable" \in cb.events /\ Relaying)
  /\ CASE "broken" \in cb.events -> Shutdown("failed")
       [] "broken" \notin cb.events /\ {"fin_sent", "fin_rcvd"} \subseteq flags[Peer(cb.self)]
            -> Shutdown("graceful")
       [] OTHER -> cb' = Idle /\ UNCHANGED reports
  /\ UNCHANGED <<flags, pending>>

=============================================================================
