------------------------------- MODULE IoPipe -------------------------------
(***************************************************************************)
(* The state bits of an io_pipe (io/inc/libp/io_pipe.h), kept as the set   *)
(* of the bits that are raised, and the two helpers of pipe_misc.h that    *)
(* every pipe type uses.  The sides are the two pipes of an io_bridge.     *)
(***************************************************************************)
EXTENDS Naturals, Sequences

Flag == {"ready", "broken", "readable", "writable", "fin_sent", "fin_rcvd"}

\* enum io_event: the argument of on_activity() is a set of these.
\* No pipe of the repository raises IO_EV_fin_sent.
IoEvent == {"ready", "broken", "readable", "writable"}

\* enum socket_event: what a pipe may ask the event loop for, and get from it.
SkEvent == {"readable", "writable", "error"}

Sides == {"l", "r"}

Peer(s) == IF s = "l" THEN "r" ELSE "l"

\* tag_pipe_as_broken()
TagBroken(f) == (f \cup {"broken"}) \ {"readable", "writable"}

\* Streams of octets: the first n, the rest, and "p is how q begins".
Taken(q, n) == SubSeq(q, 1, n)
Rest(q, n) == SubSeq(q, n + 1, Len(q))
IsPrefix(p, q) == Len(p) <= Len(q) /\ p = Taken(q, Len(p))

=============================================================================
