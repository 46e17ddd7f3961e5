---------------------------- MODULE MCProxyPair -----------------------------
(***************************************************************************)
(* Values for the function-valued constants of ProxyPair.                  *)
(***************************************************************************)
EXTENDS ProxyPair

\* Either host sends one octet, and FIN.
OneEach == [s \in Sides |-> 1]

=============================================================================
