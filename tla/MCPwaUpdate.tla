---------------------------- MODULE MCPwaUpdate ----------------------------
(***************************************************************************)
(* Two pages of a browser and three releases.                              *)
(***************************************************************************)
EXTENDS PwaUpdate

CONSTANTS p1, p2
=============================================================================
