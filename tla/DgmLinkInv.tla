----------------------------- MODULE DgmLinkInv -----------------------------
(***************************************************************************)
(* The inductive strengthening of the safety properties of DgmLink: how    *)
(* the bits of the two upper pipes follow from those of the tcp_pipe, when *)
(* octets are still pending, and that the octets on their way to a user    *)
(* are the frames of the datagrams it has not received yet, up to what the *)
(* sender still keeps or has thrown away.  TLC has checked it on small     *)
(* instances; DgmLinkProofs proves it.                                     *)
(***************************************************************************)
EXTENDS DgmLink

\* Datagrams one after another, as a stream carries them.
Frames(ds) ==
  LET upTo[n \in 0..Len(ds)] == IF n = 0 THEN <<>> ELSE upTo[n - 1] \o Frame(ds[n])
  IN upTo[Len(ds)]

\* The datagrams that e has sent and its peer's user has not received, and
\* the octets on their way there.
Ahead(e) == Rest(sent[e], Len(got[Peer(e)]))
Coming(e) == rx[Peer(e)] \o wire[e]

\* What the octets on their way lack of these datagrams.
Missing(e) == Rest(Frames(Ahead(e)), Len(Coming(e)))

-----------------------------------------------------------------------------
\* The bits and the mask of a tcp_pipe, as in TcpRelayInv.
BitsInv ==
  \A e \in Sides :
    /\ tcp[e] \subseteq {"broken"} \/ "ready" \in tcp[e]
    /\ ~({"readable", "fin_rcvd"} \subseteq tcp[e])
    /\ mask[e] = IF tcp[e] = {} THEN InitialMask ELSE EventMask(tcp[e])

\* A user sees the bits below, as the atx_pipe changes them, but for the bit
\* fin_sent, which it may learn late; it gives up a pipe that is broken.
UserInv ==
  \A e \in Sides :
    /\ user[e] = "using" =>
         /\ "broken" \notin tcp[e]
         /\ flags[e] \ {"fin_sent"} = AtxClone(tcp[e], pend[e]) \ {"fin_sent"}
    /\ e \in cut => user[e] = "discarded"

\* Octets are kept only while the tcp_pipe is congested and open, and a FIN is
\* sent after the last of them; a user gets no datagram after a FIN.
FinInv ==
  \A e \in Sides :
    /\ pend[e] # <<>> => {"writable", "fin_sent"} \cap tcp[e] = {}
    /\ "fin_sent" \in tcp[e] => e \in finned
    /\ wantFin[e] => e \in finned
    /\ e \in shut => pend[e] = <<>> /\ (e \in finned \/ user[e] = "discarded")
    /\ e \in ended => "fin_rcvd" \in tcp[e]

\* Datagrams arrive in order, unchanged.
DeliveryInv == \A e \in Sides : IsPrefix(got[Peer(e)], sent[e])

\* Only the last datagram can be incomplete, and something of it has gone out.
OctetsInv ==
  \A e \in Sides : user[Peer(e)] = "using" =>
    /\ Coming(e) \o Missing(e) = Frames(Ahead(e))
    /\ e \notin cut => Missing(e) = pend[e]
    /\ Missing(e) # <<>> => Len(Missing(e)) < Len(Frame(sent[e][Len(sent[e])]))

ControlInv == BitsInv /\ UserInv /\ FinInv /\ NoAbort

IndInv == TypeOK /\ ControlInv /\ DeliveryInv /\ OctetsInv

=============================================================================
