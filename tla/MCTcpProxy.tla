----------------------------- MODULE MCTcpProxy -----------------------------
(***************************************************************************)
(* Values for the function-valued constants of TcpProxy.                   *)
(***************************************************************************)
EXTENDS TcpProxy

\* Two octets each way: one datagram with a long header or two with a short
\* one.
TwoEach == [s \in Sides |-> 2]

=============================================================================
