-------------------------- MODULE MCStoreMigration --------------------------
(***************************************************************************)
(* Instances of StoreMigration for TLC: a seed store and the attended      *)
(* shows, batches of three.  The previous database holds up to two shows,  *)
(* and of songs either two rows, one of which the release lacks or gives a *)
(* new number, or a full batch.                                            *)
(***************************************************************************)
EXTENDS StoreMigration

MCOrder == <<"songs", "attended">>
MCSeed == {"songs"}
MCKey == 0..4
MCRelease == [s \in MCSeed |-> {1, 2}]
MCShow == {"s1", "s2"}

\* Song 4 of the previous application is song 2 of the release.
MCIndex ==
    [s \in {"songs", "attended"} |->
        [row \in MCShow \cup {Old, New, NoRow} |->
            [k \in MCKey |-> IF s = "attended" THEN row
                             ELSE IF row = Old /\ k = 4 THEN 2 ELSE k]]]

Rows(songs, shows) ==
    [s \in {"songs", "attended"} |->
        [k \in MCKey |-> IF s = "songs"
                         THEN IF k \in songs THEN Old ELSE NoRow
                         ELSE IF k \in DOMAIN shows THEN shows[k] ELSE NoRow]]

MCPrevious == {Rows({1, 3}, <<"s1", "s2">>), Rows({1, 3}, <<"s1">>),
               Rows({1, 4}, <<"s1">>), Rows({1, 2, 3}, <<"s1">>)}
=============================================================================
