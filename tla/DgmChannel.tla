----------------------------- MODULE DgmChannel -----------------------------
(***************************************************************************)
(* What two datagram pipes promise over one connection (readme, 26/09/14;  *)
(* io_pipe.h 55-61, 86-95), with no octets, headers, buffers or events: in *)
(* each direction a FIFO of datagrams that arrive one by one as they were  *)
(* sent, ended by a FIN that comes after the last one.                     *)
(***************************************************************************)
EXTENDS IoPipe

CONSTANTS
  Datagram,  \* what may be sent
  MaxSize    \* how long a datagram may be for the receiver to take it

VARIABLES
  sent,    \* datagrams accepted from the user of each end
  closed,  \* ends whose user has sent FIN
  gone,    \* ends whose user has discarded the pipe
  got,     \* datagrams handed to the user of each end
  ended,   \* ends whose user was told of the peer's FIN
  failed,  \* ends whose user was told that the pipe is broken and still has it
  lost     \* the connection has failed or was cut off

vars == <<sent, closed, gone, got, ended, failed, lost>>

Init ==
  /\ sent = [e \in Sides |-> <<>>]
  /\ got = [e \in Sides |-> <<>>]
  /\ closed = {} /\ gone = {} /\ ended = {} /\ failed = {}
  /\ lost = FALSE

Usable(e) == e \notin gone \cup failed

Send(e) ==
  /\ Usable(e) /\ e \notin closed
  /\ \E d \in Datagram : sent' = [sent EXCEPT ![e] = Append(@, d)]
  /\ UNCHANGED <<closed, gone, got, ended, failed, lost>>

Close(e) ==
  /\ Usable(e)
  /\ closed' = closed \cup {e}
  /\ UNCHANGED <<sent, gone, got, ended, failed, lost>>

\* To go away may cut off what is still on its way.
Discard(e) ==
  /\ gone' = gone \cup {e}
  /\ failed' = failed \ {e}
  /\ lost' \in {lost, TRUE}
  /\ UNCHANGED <<sent, closed, got, ended>>

Awaited(e) == sent[Peer(e)][Len(got[e]) + 1]

Receive(e) ==
  /\ Usable(e) /\ e \notin ended
  /\ Len(got[e]) < Len(sent[Peer(e)])
  /\ Len(Awaited(e)) <= MaxSize
  /\ got' = [got EXCEPT ![e] = Append(@, Awaited(e))]
  /\ UNCHANGED <<sent, closed, gone, ended, failed, lost>>

\* FIN says that everything that was sent has arrived.
End(e) ==
  /\ Usable(e)
  /\ Peer(e) \in closed \cup gone /\ got[e] = sent[Peer(e)]
  /\ ended' = ended \cup {e}
  /\ UNCHANGED <<sent, closed, gone, got, failed, lost>>

Lose ==
  /\ lost' = TRUE
  /\ UNCHANGED <<sent, closed, gone, got, ended, failed>>

\* A pipe breaks for a reason: the connection, or the datagram that comes next
\* is one that it does not take, after everything before it has arrived.
Fail(e) ==
  /\ lost \/ (Len(got[e]) < Len(sent[Peer(e)]) /\ Len(Awaited(e)) > MaxSize)
  /\ failed' = failed \cup {e}
  /\ UNCHANGED <<sent, closed, gone, got, ended, lost>>

Next ==
  \/ \E e \in Sides :
       Send(e) \/ Close(e) \/ Discard(e) \/ Receive(e) \/ End(e) \/ Fail(e)
  \/ Lose

Spec == Init /\ [][Next]_vars

=============================================================================
