---------------------------- MODULE MCCatalogue ----------------------------
(***************************************************************************)
(* The stores 1 and 2 are branches of one name.  The names 2 and 3 differ  *)
(* in (REC) and (MED) alone, and the stores 1 and 3 carry them at one      *)
(* address: both are listed, or one after the other.  The name 1 is a      *)
(* sibling's that only menus have.  One store has known prices, one a      *)
(* single one and one none.                                                *)
(***************************************************************************)
EXTENDS Catalogue

MCNameOf == [s \in Store |-> IF s = 3 THEN 3 ELSE 2]
MCNameScore == [p \in Name \X Name |-> IF p[1] = 1 <=> p[2] = 1 THEN 3 ELSE 2]
MCAddressScore ==
    [p \in Store \X Store |-> IF p[1] = 2 <=> p[2] = 2 THEN 2 ELSE 0]
MCKnown ==
    [l \in Listing |-> IF l[1] = 2 \/ (l[1] = 3 /\ l[2] = "haze") THEN 0 ELSE 1]
=============================================================================
