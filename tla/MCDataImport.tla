---------------------------- MODULE MCDataImport ----------------------------
(***************************************************************************)
(* Instances of DataImport for TLC: two releases of two and three files in *)
(* two stores.  Release 2 drops a row and adds one, so that an upsert over *)
(* release 1 leaves rows too many, has an empty file, and no longer has    *)
(* f2; f1 has more chunks than fit between two checkpoints, and f2 has     *)
(* chunks of several transactions.  The song release 2 adds has the slug   *)
(* of the one it drops, which clashes unless that row was never stored.    *)
(***************************************************************************)
EXTENDS DataImport

MCStore == {"songs", "shows"}
MCFile == {"f1", "f2", "f3", "f4"}
MCKey == 1..4
MCStoreOf == [f \in MCFile |-> IF f = "f1" THEN "songs" ELSE "shows"]
MCClearOrder == <<"songs", "shows">>

MCWork == [v \in Version |-> IF v = 1 THEN <<"f2", "f1">> ELSE <<"f1", "f4", "f3">>]

MCRows == [v \in Version |->
    [f \in MCFile |-> CASE f = "f1" -> IF v = 1 THEN <<1, 2, 3>> ELSE <<3, 1, 4>>
                         [] f = "f2" -> <<1, 2>>
                         [] f = "f3" -> <<1>>
                         [] f = "f4" -> << >>]]

MCIndex == [v \in Version |->
    [s \in MCStore |-> [k \in MCKey |->
        IF s = "songs" /\ v = 2 /\ k = 4 THEN 2 ELSE k]]]
=============================================================================
