---------------------------- MODULE MCDeployment ----------------------------
(***************************************************************************)
(* Deployment for TLC: two collections, one of which is handed over, as on *)
(* sepolia nine of thirteen are.                                           *)
(***************************************************************************)
EXTENDS Deployment

CONSTANTS wpunks, doodle

Collections  == <<wpunks, doodle>>
HandOverList == <<wpunks>>
=============================================================================
