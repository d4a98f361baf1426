--------------------------- MODULE MCBNFTRegistry ---------------------------
(***************************************************************************)
(* BNFTRegistry for TLC.                                                   *)
(***************************************************************************)
EXTENDS BNFTRegistry, TLC

\* Proxy addresses are compared for equality only.
ProxySymmetry == Permutations(Proxies)
=============================================================================
