------------------------------ MODULE AtxPipe -------------------------------
(***************************************************************************)
(* io_pipe_atx.c: a pipe that sends everything or nothing.  What the pipe  *)
(* below it does not accept is kept and sent later, and meanwhile this     *)
(* pipe is not writable.                                                   *)
(*                                                                         *)
(* The pipe below is a tcp_pipe with bits f; `pend' is atx_pipe.pending,   *)
(* <<>> for NULL.  Every operation ends with atx_pipe_clone_state(), so    *)
(* the bits of this pipe are AtxClone() of those below at all times and    *)
(* need no variable of their own.                                          *)
(***************************************************************************)
EXTENDS TcpPipe

\* atx_pipe_clone_state()
AtxClone(f, pend) == IF pend = <<>> THEN f ELSE f \ {"writable"}

\* Mutant: what is not accepted is forgotten.
AtxSentNoKeep(f, q, w) ==
  [ok |-> w.is \in {"all", "some"}, tcp |-> FlagsAfterSend(f, w.is), pend |-> <<>>]

\* atx_pipe_send(q) with nothing pending, where w is the socket's answer.
AtxSent(f, q, w) ==
  [ok |-> w.is \in {"all", "some"},
   tcp |-> FlagsAfterSend(f, w.is),
   pend |-> IF w.is = "some" THEN Rest(q, w.n) ELSE <<>>]

\* Mutant: FIN does not wait for the octets that are pending.
AtxFinAtOnce(f, pend, wantFin, ok) ==
  [tcp |-> FlagsAfterFin(f, ok), wantFin |-> wantFin]

\* atx_pipe_send_fin(), `ok' when shutdown() succeeds: put off if octets are
\* pending.
AtxFin(f, pend, wantFin, ok) ==
  IF pend # <<>> THEN [tcp |-> f, wantFin |-> TRUE]
  ELSE [tcp |-> FlagsAfterFin(f, ok), wantFin |-> wantFin]

AtxFinAsserts(f, pend, wantFin) == "fin_sent" \notin AtxClone(f, pend) /\ ~wantFin

\* atx_pipe_discard() frees the pending octets, so the stream ends without them.
AtxDiscardCuts(pend) == pend # <<>>

-----------------------------------------------------------------------------
(* atx_pipe_on_activity(ev): the bits below, the octets still pending, and *)
(* the events that are passed on to the user of this pipe, if any.         *)

AtxNothingToFlush(f, ev, pend) ==
  [tcp |-> f, pend |-> pend, events |-> ev]

\* Mutant: the user hears of the room that the pending octets have taken.
AtxFlushedLoud(f, ev, pend, wantFin, w, ok) ==
  [tcp |-> FlagsAfterSend(f, w.is), pend |-> Rest(pend, w.n), events |-> ev]

\* Mutant: FIN that was put off is forgotten.
AtxFlushedNoFin(f, ev, pend, wantFin, w, ok) ==
  LET sent == FlagsAfterSend(f, w.is)
  IN [tcp |-> sent,
      pend |-> Rest(pend, w.n),
      events |-> {e \in ev : e = "writable" => w.is = "all"} \cup (sent \cap {"broken"})]

\* The pipe below has become writable and its answer to the pending octets
\* is w; shutdown(), if it is due, succeeds when `ok'.
AtxFlushed(f, ev, pend, wantFin, w, ok) ==
  LET sent == FlagsAfterSend(f, w.is)
      fin == wantFin /\ w.is = "all"
      after == IF fin THEN FlagsAfterFin(sent, ok) ELSE sent
  IN [tcp |-> after,
      pend |-> Rest(pend, w.n),
      events |-> {e \in ev : e = "writable" => w.is = "all" /\ ~fin}
                   \cup (after \cap {"broken"})]

=============================================================================
