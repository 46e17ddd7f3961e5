---------------------------- MODULE TcpRelayInv -----------------------------
(***************************************************************************)
(* The inductive strengthening of the safety properties of TcpRelay: why   *)
(* no assert() fires, why no wakeup is lost, and why the streams arrive    *)
(* intact.  TLC checks it on small instances; TcpRelayProofs proves it.    *)
(***************************************************************************)
EXTENDS TcpRelay

\* A pipe is used only after it became ready, and the bits of a direction
\* that has ended stay clear.
FlagsInv ==
  \A s \in Sides :
    /\ flags[s] \subseteq {"broken"} \/ "ready" \in flags[s]
    /\ ~({"readable", "fin_rcvd"} \subseteq flags[s])
    /\ ~({"writable", "fin_sent"} \subseteq flags[s])

\* The mask follows the bits; only a pipe not yet called back differs.
MaskInv ==
  \A s \in Sides :
    mask[s] = IF flags[s] = {} THEN InitialMask ELSE EventMask(flags[s])

\* Undispatched events match the bits as they are now, not only as they were
\* when select() returned: the callback of one pipe receives from and sends
\* to the other only where that other is not waiting for an event.
EventsInv ==
  \A s \in Sides :
    /\ ~Dead => have[s] \subseteq mask[s] \cup {"error"}
    /\ "readable" \in have[s] => "ready" \in flags[s] /\ "fin_rcvd" \notin flags[s]
    /\ "writable" \in have[s] => "fin_sent" \notin flags[s]
    /\ "error" \in have[s] => Failed(s)
    /\ cb.at # "idle" => have[cb.self] = {}

\* While the bridge lives a pipe is broken only on the way to on_shutdown().
BrokenInv ==
  /\ \A s \in Sides : "broken" \in flags[s] => Failed(s)
  /\ ~Dead => \A s \in Sides : "broken" \in flags[s] =>
       /\ {"readable", "writable"} \cap flags[s] = {}
       /\ cb.at = "relay_out" /\ cb.events = {"broken"} /\ cb.self = s

\* The stages of the callback.
StageInv ==
  /\ cb.at # "idle" => ~Dead
  /\ cb.at = "flush" => "writable" \in flags[cb.self] /\ pending[cb.self] # <<>>
  /\ cb.at # "idle" /\ "broken" \in cb.events => "broken" \in flags[cb.self]

\* A pipe with octets set aside is congested, until its callback flushes them.
PendingInv ==
  ~Dead => \A s \in Sides :
    pending[s] # <<>> /\ "writable" \in flags[s] => cb.at = "flush" /\ cb.self = s

\* A stream that can be relayed right away is one the callback will get to.
AwakeInv ==
  ~Dead => \A s \in Sides :
    "readable" \in flags[s] /\ "writable" \in flags[Peer(s)] =>
      \/ cb.self = Peer(s) /\ cb.at \in {"flush", "relay_in"}
      \/ cb.self = s /\ cb.at # "idle" /\ "readable" \in cb.events

\* FIN is received after the last octet and forwarded at once.
FinInv ==
  /\ shut = {d \in Sides : "fin_sent" \in flags[d]}
  /\ \A s \in Sides : "fin_rcvd" \in flags[s] => s \in eof /\ in[s] = <<>>
  /\ \A d \in Sides : "fin_sent" \in flags[d] =>
       "fin_rcvd" \in flags[Peer(d)] /\ pending[d] = <<>>
  /\ ~Dead => \A s \in Sides : "fin_rcvd" \in flags[s] => "fin_sent" \in flags[Peer(s)]

ControlInv ==
  /\ FlagsInv /\ MaskInv /\ EventsInv /\ BrokenInv
  /\ StageInv /\ PendingInv /\ AwakeInv /\ FinInv
  /\ NoAbort

StreamInv == StreamIntact /\ FinIsLast

IndInv == ControlInv /\ StreamInv /\ ReportIsTrue

=============================================================================
