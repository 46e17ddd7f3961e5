---------------------------- MODULE StreamRelay -----------------------------
(***************************************************************************)
(* What a relay between two duplex streams promises (readme; io_bridge.h   *)
(* 12-21; io_pipe.h 15-16), with no pipes, buffers, flags or events: two   *)
(* FIFO streams, each ended by a FIN that follows its last octet, and one  *)
(* report of how it all ended.                                             *)
(*                                                                         *)
(* The octet streams are histories, so the abstract state says everything  *)
(* that the two hosts can observe.                                         *)
(***************************************************************************)
EXTENDS IoPipe

CONSTANTS Item  \* what streams are made of

VARIABLES
  sent,    \* what the host of a side has sent
  closed,  \* sides whose host has sent FIN
  fwd,     \* what the relay has passed on towards the host of a side
  got,     \* what that host has read, a prefix of the above
  finned,  \* sides FIN was passed on to
  lost,    \* sides whose connection has failed
  reports  \* how the relay says it ended

vars == <<sent, closed, fwd, got, finned, lost, reports>>

Init ==
  /\ sent = [s \in Sides |-> <<>>]
  /\ fwd = [s \in Sides |-> <<>>]
  /\ got = [s \in Sides |-> <<>>]
  /\ closed = {} /\ finned = {} /\ lost = {}
  /\ reports = <<>>

Send(s) ==
  /\ s \notin closed
  /\ \E o \in Item : sent' = [sent EXCEPT ![s] = Append(@, o)]
  /\ UNCHANGED <<closed, fwd, got, finned, lost, reports>>

Close(s) ==
  /\ closed' = closed \cup {s}
  /\ UNCHANGED <<sent, fwd, got, finned, lost, reports>>

\* The relay passes on the next k octets for the host of d.
Forward(d) ==
  /\ reports = <<>>
  /\ \E k \in 0..Len(sent[Peer(d)]) :
       /\ IsPrefix(fwd[d], Taken(sent[Peer(d)], k))
       /\ fwd' = [fwd EXCEPT ![d] = Taken(sent[Peer(d)], k)]
  /\ UNCHANGED <<sent, closed, got, finned, lost, reports>>

\* FIN comes last, and only if the other host has closed.
ForwardFin(d) ==
  /\ reports = <<>>
  /\ Peer(d) \in closed /\ fwd[d] = sent[Peer(d)]
  /\ finned' = finned \cup {d}
  /\ UNCHANGED <<sent, closed, fwd, got, lost, reports>>

Read(d) ==
  /\ Len(got[d]) < Len(fwd[d])
  /\ got' = [got EXCEPT ![d] = Append(@, fwd[d][Len(got[d]) + 1])]
  /\ UNCHANGED <<sent, closed, fwd, finned, lost, reports>>

Lose ==
  /\ lost' \in SUBSET Sides
  /\ lost \subseteq lost'
  /\ UNCHANGED <<sent, closed, fwd, got, finned, reports>>

\* Graceful when both streams have ended, failed when a connection was lost.
Finish ==
  /\ reports = <<>>
  /\ \/ finned = Sides /\ reports' = <<"graceful">>
     \/ lost # {} /\ reports' = <<"failed">>
  /\ UNCHANGED <<sent, closed, fwd, got, finned, lost>>

Next ==
  \/ \E s \in Sides : Send(s) \/ Close(s) \/ Forward(s) \/ ForwardFin(s) \/ Read(s)
  \/ Lose \/ Finish

Spec == Init /\ [][Next]_vars

-----------------------------------------------------------------------------
\* What the two hosts can rely on: FIN comes when the other one has closed and
\* after everything it has sent, and nothing is added to a stream that has
\* ended; and what is reported has happened.
EndsProperly ==
  /\ reports \in {<<>>, <<"graceful">>, <<"failed">>}
  /\ reports = <<"graceful">> => finned = Sides
  /\ reports = <<"failed">> => lost # {}
  /\ finned \subseteq Sides
  /\ \A d \in finned : Peer(d) \in closed /\ fwd[d] = sent[Peer(d)]

=============================================================================
