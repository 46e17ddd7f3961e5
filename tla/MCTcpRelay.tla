----------------------------- MODULE MCTcpRelay -----------------------------
(***************************************************************************)
(* Values for the function-valued constants of TcpRelay.                   *)
(***************************************************************************)
EXTENDS TcpRelayInv

\* Three octets one way and one the other: enough for a send buffer of one
\* octet to cut a received chunk and to congest the relay again while it
\* flushes, with traffic in both directions.
ThreeAndOne == [s \in Sides |-> IF s = "l" THEN 3 ELSE 1]
TwoEach == [s \in Sides |-> 2]

=============================================================================
