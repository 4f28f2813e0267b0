------------------------------ MODULE Cutover -------------------------------
(***************************************************************************)
(* What the move from the previous application to the current one promises *)
(* for the shows a user attended.  They are copied, in whatever portions   *)
(* and as often as it takes; the previous application's are dropped in one *)
(* step, when every show the user still wants has been copied; and no      *)
(* copy, import or save takes a copied show away.  StoreMigration does     *)
(* this row by row, from several pages at once, each of which may fail or  *)
(* be closed between any two of its requests.                              *)
(*                                                                         *)
(* The current application keeps one show of its own: every save goes      *)
(* under the same key.  A removed show comes back with the next copy.      *)
(***************************************************************************)
CONSTANT Show   \* shows a user can have attended

VARIABLES
    old,      \* the shows of the previous application
    copied,   \* those of the current one that came from there
    saved,    \* the show the current application has saved, if any
    owed      \* the shows of the previous application the user still wants

Init ==
    /\ old \subseteq Show
    /\ owed = old /\ copied = {} /\ saved = {}

\* A portion is copied, unless it holds what has been saved.
Copy(part) ==
    /\ part \subseteq old /\ part \cap saved = {}
    /\ copied' = copied \cup part
    /\ UNCHANGED <<old, saved, owed>>

Drop ==
    /\ owed \subseteq copied
    /\ old' = {}
    /\ UNCHANGED <<copied, saved, owed>>

Save(show) ==
    /\ show \notin copied
    /\ saved' = {show}
    /\ UNCHANGED <<old, copied, owed>>

Remove(show) ==
    /\ show \in copied \cup saved
    /\ copied' = copied \ {show} /\ saved' = saved \ {show} /\ owed' = owed \ {show}
    /\ UNCHANGED old

Reset ==
    /\ copied' = {} /\ saved' = {} /\ owed' = {}
    /\ UNCHANGED old

Next ==
    \/ \E part \in SUBSET old : Copy(part)
    \/ Drop \/ Reset
    \/ \E show \in Show : Save(show) \/ Remove(show)

Spec == Init /\ [][Next]_<<old, copied, saved, owed>>
=============================================================================
