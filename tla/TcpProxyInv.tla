---------------------------- MODULE TcpProxyInv -----------------------------
(***************************************************************************)
(* The inductive strengthening of the safety properties of TcpProxy.  It   *)
(* is that of TcpRelayInv, stated of the bits of the tcp_pipes, with what  *)
(* the framing adds: how the bits the bridge sees follow from those below, *)
(* what a datagram left in the receive buffer implies, and that the octets *)
(* from the other proxy are in step with their headers.  TLC has checked   *)
(* it on small instances; TcpProxyProofs proves it.                        *)
(***************************************************************************)
EXTENDS TcpProxy

\* What the bridge sees is a function of the tcp_pipe and of the octets the
\* atx_pipe keeps; it keeps them only while its pipe is congested and open.
\* The bridge asks for FIN only when there is room, so it is never put off.
LinkInv ==
  /\ flags[Plain] = tcp[Plain]
  /\ ~Dead => flags[dgm] = AtxClone(tcp[dgm], pend)
  /\ pend # <<>> => "ready" \in tcp[dgm] /\ {"writable", "fin_sent"} \cap tcp[dgm] = {}
  /\ ~wantFin

\* As in TcpRelayInv.
FlagsInv ==
  \A s \in Sides :
    /\ tcp[s] \subseteq {"broken"} \/ "ready" \in tcp[s]
    /\ ~({"readable", "fin_rcvd"} \subseteq tcp[s])
    /\ ~({"writable", "fin_sent"} \subseteq tcp[s])

MaskInv ==
  \A s \in Sides :
    mask[s] = IF tcp[s] = {} THEN InitialMask ELSE EventMask(tcp[s])

EventsInv ==
  \A s \in Sides :
    /\ ~Dead => have[s] \subseteq mask[s] \cup {"error"}
    /\ "readable" \in have[s] => "ready" \in tcp[s] /\ "fin_rcvd" \notin tcp[s]
    /\ "writable" \in have[s] => "fin_sent" \notin tcp[s]
    /\ "error" \in have[s] => Failed(s)
    /\ cb.at # "idle" => have[cb.self] = {}

\* While the bridge lives a pipe is broken only on the way to on_shutdown().
BrokenInv ==
  /\ \A s \in Sides : "broken" \in tcp[s] => Failed(s)
  /\ ~Dead => \A s \in Sides : "broken" \in tcp[s] =>
       /\ {"readable", "writable"} \cap tcp[s] = {}
       /\ cb.at = "relay_out" /\ "broken" \in cb.events /\ cb.self = s

StageInv ==
  /\ cb.at # "idle" => ~Dead
  /\ cb.at = "flush" => "writable" \in flags[cb.self] /\ pending[cb.self] # <<>>
  /\ cb.at # "idle" /\ "broken" \in cb.events => "broken" \in tcp[cb.self]

PendingInv ==
  ~Dead => \A s \in Sides :
    pending[s] # <<>> /\ "writable" \in flags[s] => cb.at = "flush" /\ cb.self = s

AwakeInv ==
  ~Dead => \A s \in Sides :
    "readable" \in flags[s] /\ "writable" \in flags[Peer(s)] =>
      \/ cb.self = Peer(s) /\ cb.at \in {"flush", "relay_in"}
      \/ cb.self = s /\ cb.at # "idle" /\ "readable" \in cb.events

FinInv ==
  /\ shut = {d \in Sides : "fin_sent" \in tcp[d]}
  /\ \A s \in Sides : "fin_rcvd" \in tcp[s] => s \in eof /\ in[s] = <<>>
  /\ \A d \in Sides : "fin_sent" \in tcp[d] => "fin_rcvd" \in tcp[Peer(d)] /\ pending[d] = <<>>
  /\ ~Dead => \A s \in Sides : "fin_rcvd" \in tcp[s] => "fin_sent" \in tcp[Peer(s)]
  /\ ~Dead /\ "fin_rcvd" \in tcp[dgm] => rx = <<>>

\* A datagram is left in the receive buffer only for want of room on the
\* plain side: the bit readable stays up until the buffer was emptied.
LeftOverInv ==
  ~Dead /\ LeftOver(rx) => {"readable", "broken"} \cap tcp[dgm] # {}

ControlInv ==
  /\ LinkInv /\ FlagsInv /\ MaskInv /\ EventsInv /\ BrokenInv
  /\ StageInv /\ PendingInv /\ AwakeInv /\ FinInv /\ LeftOverInv
  /\ NoAbort

-----------------------------------------------------------------------------
\* What the receive buffer begins with is the beginning of a datagram.
InStepInv == ~Dead => InStep(rx \o in[dgm] \o todo)

\* No header gets past the dgm_pipe.
PlainInv ==
  /\ sent \in [Sides -> Seq(Item)] /\ pending \in [Sides -> Seq(Item)]
  /\ {in[Plain], out[Plain], got[Plain]} \subseteq Seq(Item)

\* What the other proxy has yet to send of a datagram is the end of one: a
\* header octet is in it at most as the first, and then the second of two.
TodoInv ==
  \A i \in DOMAIN todo :
    IsHeader(todo[i]) => i = 1 /\ todo[1][1] = "last" /\ HdrLen(todo[1][2]) = 2

FrameInv == FramesAreWhole /\ InStepInv /\ PlainInv

StreamInv == FrameInv /\ StreamIntact

\* What the bridge has set aside for the other proxy fits one datagram.  What
\* was sent to it are datagrams that it accepts, and what the atx_pipe keeps is
\* the end of one that was begun: before its last octet the stream is cut.
WireInv ==
  /\ Len(pending[dgm]) <= RecvSize
  /\ RecvSize <= MaxDgm => InStep(got[dgm] \o out[dgm] \o pend)
  /\ \A n \in 0..(Len(pend) - 1) : ~InStep(got[dgm] \o out[dgm] \o Taken(pend, n))

\* The process exits after the report, and a graceful one leaves nothing in
\* the receive buffer.
EndInv ==
  /\ proc = "exited" => Dead
  /\ reports = <<"graceful">> => rx = <<>>

\* EndsProperly of StreamRelay, said of the sockets.
ReportsInv ==
  /\ reports \in {<<>>, <<"graceful">>, <<"failed">>}
  /\ reports = <<"graceful">> => shut = Sides
  /\ reports = <<"failed">> => Torn \/ \E s \in Sides : Failed(s)
  /\ \A d \in shut : /\ d \in Sides /\ Peer(d) \in eof /\ ~(Torn /\ Peer(d) = dgm)
                     /\ Passed(d) = sent[Peer(d)]

IndInv == TypeOK /\ ControlInv /\ StreamInv /\ TodoInv

=============================================================================
