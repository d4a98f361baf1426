------------------------- MODULE MCBoundPunkGateway -------------------------
(***************************************************************************)
(* BoundPunkGateway for TLC.                                               *)
(***************************************************************************)
EXTENDS BoundPunkGateway

\* The proxies the wrapper made for its callers.
UserProxies == [u \in Callers |-> <<"UserProxy", u>>]
=============================================================================
