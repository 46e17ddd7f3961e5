------------------------------ MODULE TcpPipe -------------------------------
(***************************************************************************)
(* io_pipe_tcp.c: a pipe over one non-blocking TCP socket.                 *)
(*                                                                         *)
(* Every operation of a tcp_pipe turns the outcome of one socket call into *)
(* new state bits and then re-arms the event mask from them.  The          *)
(* operators below are those transformations: `f' is the set of raised     *)
(* bits before the operation; what the socket call may return, and the     *)
(* variables that hold the bits, belong to the modules that compose the    *)
(* pipe with sockets and with its user.                                    *)
(***************************************************************************)
EXTENDS IoPipe

RecvOutcome == {"data", "fin", "again", "fatal"}
SendOutcome == {"all", "some", "again", "fatal", "epipe"}

\* Mutant: "writable" stays watched after FIN was sent.
EventMaskAfterFin(f) ==
  {e \in {"readable", "writable"} :
     /\ "ready" \in f /\ "broken" \notin f
     /\ e = "readable" => {"readable", "fin_rcvd"} \cap f = {}
     /\ e = "writable" => "writable" \notin f}

\* Mutant: the pipe waits for one event at a time.
EventMaskOneAtATime(f) ==
  IF "ready" \notin f \/ "broken" \in f THEN {}
  ELSE IF {"readable", "fin_rcvd"} \cap f = {} THEN {"readable"}
  ELSE IF {"writable", "fin_sent"} \cap f = {} THEN {"writable"} ELSE {}

\* Mutant: the complement of the bits is taken for a set of events.
EventMaskInverted(f) ==
  IF "ready" \notin f \/ "broken" \in f THEN {} ELSE Flag \ f

\* tcp_pipe_adjust_event_mask(): the events the pipe wants to hear about.
EventMask(f) ==
  {e \in {"readable", "writable"} :
     /\ "ready" \in f /\ "broken" \notin f
     /\ e = "readable" => {"readable", "fin_rcvd"} \cap f = {}
     /\ e = "writable" => {"writable", "fin_sent"} \cap f = {}}

\* tcp_pipe_init() leaves the bits clear and waits for the connection.
InitialFlags == {}
InitialMask == {"writable"}

-----------------------------------------------------------------------------
(***************************************************************************)
(* tcp_pipe_on_activity(sk_events): `ev' is the event set, `err' says that *)
(* SO_ERROR is not zero.                                                   *)
(***************************************************************************)
ConnectFailed(f, ev, err) ==
  /\ "ready" \notin f
  /\ "error" \in ev \/ ("writable" \in ev /\ err)

\* Mutant: the socket's events are or-ed into the state bits as they are.
FlagsOnActivityRaw(f, ev, err) ==
  IF ConnectFailed(f, ev, err) THEN TagBroken(f) ELSE f \cup {"ready"} \cup ev

FlagsOnActivity(f, ev, err) ==
  IF ConnectFailed(f, ev, err)
    THEN TagBroken(f)
    ELSE f \cup {"ready"} \cup (ev \cap {"readable", "writable"})

EventsOnActivity(f, ev, err) ==
  IF ConnectFailed(f, ev, err)
    THEN {"broken"}
    ELSE ({"ready"} \ f) \cup (ev \cap {"readable", "writable"})

\* The three assert()s of the callback.
OnActivityAsserts(f, ev, err) ==
  /\ "ready" \notin f => ev \cap {"error", "writable"} # {}
  /\ ~ConnectFailed(f, ev, err) =>
        /\ "readable" \in ev => "fin_rcvd" \notin f
        /\ "writable" \in ev => "fin_sent" \notin f

-----------------------------------------------------------------------------
\* tcp_pipe_recv()
FlagsAfterRecv(f, outcome) ==
  CASE outcome = "data"  -> f \cup {"readable"}
    [] outcome = "again" -> f \ {"readable"}
    [] outcome = "fatal" -> TagBroken(f)
    [] outcome = "fin"   -> (f \ {"readable"}) \cup {"fin_rcvd"}

\* tcp_pipe_send()
FlagsAfterSend(f, outcome) ==
  CASE outcome = "all" -> f \cup {"writable"}
    [] outcome \in {"some", "again"} -> f \ {"writable"}
    [] outcome \in {"fatal", "epipe"} -> TagBroken(f)

\* tcp_pipe_send_fin(), `ok' when shutdown() succeeds
FlagsAfterFin(f, ok) ==
  IF ok THEN (f \ {"writable"}) \cup {"fin_sent"} ELSE TagBroken(f)

\* tcp_pipe_discard() leaves the event loop and closes the socket: what the
\* peer gets if `unread' is what was received and not read.
ClosedWith(unread) == IF unread = <<>> THEN "fin" ELSE "reset"

=============================================================================
