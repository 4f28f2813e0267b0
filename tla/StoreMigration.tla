--------------------------- MODULE StoreMigration ---------------------------
(***************************************************************************)
(* The one-time copy of the previous application's IndexedDB into the      *)
(* current one, migrate_previous_db of dmb_idb, as every page load of the  *)
(* DMB Almanac runs it before the seed import, beside what else writes the *)
(* stores: the seed import itself, the user's attended shows and the       *)
(* user's reset.                                                           *)
(*                                                                         *)
(* One action is one awaited request and the code up to the next one; ok   *)
(* answers and failures are different actions.  A cursor over the previous *)
(* store is one transaction for as long as nothing but its own requests is *)
(* awaited, so a store with fewer rows than a batch is read in one step.   *)
(***************************************************************************)
EXTENDS Naturals, Sequences, FiniteSets

CONSTANTS
    Tab,        \* pages of the profile
    Order,      \* the stores, in the order of SCHEMA_V12_REFERENCE
    Seed,       \* the stores the seed import fills
    Attended,   \* userAttendedShows, whose index showId is unique
    Key,        \* primary keys
    Show,       \* shows a user can have attended
    Old, New,   \* seed rows of the previous application and of the release
    NoRow,
    Index,      \* Index[s][row][k]: the show, slug or songId that a unique index
                \* of store s has for row under key k, k itself without one
    Batch,      \* MIGRATION_BATCH_SIZE, 500
    Previous,   \* what the previous database may hold: [Store -> [Key -> Value]]
    Release,    \* the keys of the release's rows: [Seed -> SUBSET Key]
    Faults      \* the faults that occur: "fail", "crash"

Store == {Order[i] : i \in DOMAIN Order}

Value == Show \cup {Old, New, NoRow}

Table == [Key -> Value]

\* The key every app-added attended show is put under (UserAttendedShow.id).
AppKey == 0

ASSUME NameAssumption ==
    /\ Seed \subseteq Store /\ Attended \in Store \ Seed
    /\ NoRow \notin Show \cup {Old, New}
    /\ Order \in Seq(Store)
    /\ Key \subseteq Nat /\ IsFiniteSet(Key) /\ AppKey \in Key
    /\ Batch \in Nat \ {0}
    /\ Release \in [Seed -> SUBSET Key]
    /\ \A show \in Show, k \in Key : Index[Attended][show][k] = show
    /\ Faults \subseteq {"fail", "crash"}

\* The previous application numbered its rows from one, and had the same unique
\* indexes.
ASSUME PreviousAssumption ==
    \A p \in Previous :
        /\ p \in [Store -> Table]
        /\ p[Attended][AppKey] = NoRow
        /\ \A k \in Key : p[Attended][k] \in Show \cup {NoRow}
        /\ \A s \in Store : \A k, l \in Key :
               k # l /\ p[s][k] # NoRow /\ p[s][l] # NoRow
                  => Index[s][p[s][k]][k] # Index[s][p[s][l]][l]

VARIABLES
    prev,      \* the previous database: whether it exists, its stores, their rows
    db,        \* the current database: the rows of a store
    marker,    \* the record previous_migration_v1
    imported,  \* the record data_import_v1 is there
    tab,       \* where a page is in ensure_seed_data
    owed       \* shows of the previous database the user has not taken back

vars == <<prev, db, marker, imported, tab, owed>>

-----------------------------------------------------------------------------
Empty == [k \in Key |-> NoRow]

Present(table) == {k \in Key : table[k] # NoRow}

ShowsOf(table) == {table[k] : k \in Present(table)}

Count(table) == Cardinality(Present(table))

\* The first n keys of a store, as a cursor meets them.
First(n, keys) == {k \in keys : Cardinality({l \in keys : l < k}) < n}

\* A store the cursor cannot get through: after its first full batch the read
\* transaction has committed, and the next step of the cursor throws.
Big(s) == Count(prev.rows[s]) >= Batch

Put(table, keys, from) == [k \in Key |-> IF k \in keys THEN from[k] ELSE table[k]]

\* A transaction that puts the rows keys of from into table, one after the other,
\* violates a unique index of store s: another key's row has the same show, slug
\* or songId at that moment.
Clash(s, table, keys, from) ==
    \E k \in keys : \E l \in Key \ {k} :
        LET other == IF l \in keys /\ l < k THEN from[l] ELSE table[l]
        IN other # NoRow /\ Index[s][other][l] = Index[s][from[k]][k]

\* The page has the previous database open.
Holding(t) == tab[t].pc \in {"read", "write", "count"}

\* The stores of the previous database from the i-th on.
Rest(i) == {j \in DOMAIN Order : j >= i /\ Order[j] \in prev.stores}

At(t, label) == [tab EXCEPT ![t].pc = label]

\* Fault: the next store is not looked for among those the database has.
AdvanceBlind(t, i, off) ==
    tab' = [tab EXCEPT ![t] = [pc |-> "read", at |-> i, keys |-> {}, off |-> off]]

\* The page goes to the next store of the previous database, or closes the
\* handle and goes to its marker.
Advance(t, i, off) ==
    \/ /\ Rest(i) = {}
       /\ tab' = [tab EXCEPT ![t] = [pc |-> "mark", at |-> 0, keys |-> {}, off |-> off]]
    \/ \E j \in Rest(i) :
          /\ \A l \in Rest(i) : j <= l
          /\ tab' = [tab EXCEPT ![t] = [pc |-> "read", at |-> j, keys |-> {}, off |-> off]]

Start == [pc |-> "check", at |-> 0, keys |-> {}, off |-> FALSE]
Leave(label) == [pc |-> label, at |-> 0, keys |-> {}, off |-> FALSE]

NoPrevious == [exists |-> FALSE, stores |-> {}, rows |-> [s \in Store |-> Empty]]

Init ==
    /\ \E p \in Previous :
        /\ prev = [exists |-> TRUE, rows |-> p,
                   stores |-> {s \in Store : s = Attended \/ Present(p[s]) # {}}]
        /\ owed = ShowsOf(p[Attended])
    /\ db = [s \in Store |-> Empty]
    /\ marker = "none" /\ imported = FALSE
    /\ tab = [t \in Tab |-> Leave("closed")]

\* A page is opened, or loaded again.
Load(t) ==
    /\ tab[t].pc \in {"closed", "ready", "failed"}
    /\ tab' = [tab EXCEPT ![t] = Start]
    /\ UNCHANGED <<prev, db, marker, imported, owed>>

\* previous_db_exists.
FindPrevious(t) ==
    /\ tab[t].pc = "check"
    /\ tab' = At(t, IF prev.exists THEN "marker" ELSE "import")
    /\ UNCHANGED <<prev, db, marker, imported, owed>>

\* Fault: only a verified migration is not tried again.
ReadMarkerVerified(t) ==
    /\ tab[t].pc = "marker"
    /\ tab' = At(t, IF marker # "verified" THEN "open" ELSE "import")
    /\ UNCHANGED <<prev, db, marker, imported, owed>>

\* migration_marker_exists: any marker, verified or not, ends it.
ReadMarker(t) ==
    /\ tab[t].pc = "marker"
    /\ tab' = At(t, IF marker = "none" THEN "open" ELSE "import")
    /\ UNCHANGED <<prev, db, marker, imported, owed>>

\* The previous database is opened without a version: where another page has
\* deleted it meanwhile, that creates an empty one.  The request waits for a
\* deletion in progress.
OpenPrevious(t) ==
    /\ tab[t].pc = "open"
    /\ \A u \in Tab : tab[u].pc # "delete"
    /\ prev' = [prev EXCEPT !.exists = TRUE]
    /\ Advance(t, 1, FALSE)
    /\ UNCHANGED <<db, marker, imported, owed>>

\* copy_store: the cursor runs up to the first full batch.
ReadRows(t) ==
    /\ tab[t].pc = "read"
    /\ tab' = [tab EXCEPT ![t].pc = "write",
                          ![t].keys = First(Batch, Present(prev.rows[Order[tab[t].at]]))]
    /\ UNCHANGED <<prev, db, marker, imported, owed>>

\* Fault: the end of the cursor after a full batch is no error.
WriteRowsInPart(t) ==
    LET s == Order[tab[t].at] IN
    /\ tab[t].pc = "write"
    /\ ~Clash(s, db[s], tab[t].keys, prev.rows[s])
    /\ db' = [db EXCEPT ![s] = Put(db[s], tab[t].keys, prev.rows[s])]
    /\ tab' = At(t, "count")
    /\ UNCHANGED <<prev, marker, imported, owed>>

\* write_batch: one transaction.  After a full batch the cursor is dead, and the
\* migration fails with what it has copied.
WriteRows(t) ==
    LET s == Order[tab[t].at] IN
    /\ tab[t].pc = "write"
    /\ ~Clash(s, db[s], tab[t].keys, prev.rows[s])
    /\ db' = [db EXCEPT ![s] = Put(db[s], tab[t].keys, prev.rows[s])]
    /\ tab' = IF Big(s) THEN [tab EXCEPT ![t] = Leave("import")] ELSE At(t, "count")
    /\ UNCHANGED <<prev, marker, imported, owed>>

\* Fault: the abort is swallowed and the next step taken.
ClashIgnored(t) ==
    /\ tab[t].pc = "write"
    /\ LET s == Order[tab[t].at] IN Clash(s, db[s], tab[t].keys, prev.rows[s])
    /\ tab' = At(t, "count")
    /\ UNCHANGED <<prev, db, marker, imported, owed>>

\* The transaction aborts: a row clashes with one of the current database.
WriteClashes(t) ==
    /\ tab[t].pc = "write"
    /\ LET s == Order[tab[t].at] IN Clash(s, db[s], tab[t].keys, prev.rows[s])
    /\ tab' = [tab EXCEPT ![t] = Leave("import")]
    /\ UNCHANGED <<prev, db, marker, imported, owed>>

\* count_store_in_db against the rows copied.
CountRows(t) ==
    LET s == Order[tab[t].at] IN
    /\ tab[t].pc = "count"
    /\ Advance(t, tab[t].at + 1, tab[t].off \/ Count(db[s]) # Count(prev.rows[s]))
    /\ UNCHANGED <<prev, db, marker, imported, owed>>

\* A count that fails counts as zero.
CountFails(t) ==
    LET s == Order[tab[t].at] IN
    /\ "fail" \in Faults
    /\ tab[t].pc = "count"
    /\ Advance(t, tab[t].at + 1, tab[t].off \/ Count(prev.rows[s]) # 0)
    /\ UNCHANGED <<prev, db, marker, imported, owed>>

\* write_migration_marker; the previous database is deleted only by a page whose
\* own counts agreed.
WriteMarker(t) ==
    /\ tab[t].pc = "mark"
    /\ marker' = IF tab[t].off THEN "unverified" ELSE "verified"
    /\ tab' = [tab EXCEPT ![t] = Leave(IF tab[t].off THEN "import" ELSE "delete")]
    /\ UNCHANGED <<prev, db, imported, owed>>

\* Fault: no handle holds the deletion back.
DeleteAtOnce(t) ==
    /\ tab[t].pc = "delete"
    /\ prev' = NoPrevious
    /\ tab' = At(t, "import")
    /\ UNCHANGED <<db, marker, imported, owed>>

\* deleteDatabase: blocked while another page has the previous database open.
DeletePrevious(t) ==
    /\ tab[t].pc = "delete"
    /\ \A u \in Tab : ~Holding(u)
    /\ prev' = NoPrevious
    /\ tab' = At(t, "import")
    /\ UNCHANGED <<db, marker, imported, owed>>

\* A request of the migration fails: the error is logged and the import goes on.
Fail(t) ==
    /\ "fail" \in Faults
    /\ tab[t].pc \in {"check", "marker", "open", "read", "write", "mark", "delete"}
    /\ tab' = [tab EXCEPT ![t] = Leave("import")]
    /\ UNCHANGED <<prev, db, marker, imported, owed>>

Exact(d) == \A s \in Seed : Count(d[s]) = Cardinality(Release[s])

\* clear_seed_stores_for_repair, where an import had finished.
Cleared == [s \in Store |-> IF imported /\ s \in Seed THEN Empty ELSE db[s]]

NewRows == [k \in Key |-> New]

\* The stores once the rows done[s] of the release are put into each seed store s.
Seeded(done) ==
    [s \in Store |-> IF s \in Seed THEN Put(Cleared[s], done[s], NewRows) ELSE Cleared[s]]

SeedClash(s) == Clash(s, Cleared[s], Release[s], NewRows)

\* The rest of ensure_seed_data, of which DataImport has the steps: stores whose
\* counts are the release's are taken as they are, others are emptied where an
\* import had finished, and the rows of the release are put.
Import(t) ==
    /\ tab[t].pc = "import"
    /\ IF imported /\ Exact(db)
       THEN /\ tab' = At(t, "ready")
            /\ UNCHANGED <<db, imported>>
       ELSE /\ \A s \in Seed : ~SeedClash(s)
            /\ db' = Seeded(Release) /\ imported' = TRUE
            /\ tab' = At(t, IF Exact(Seeded(Release)) THEN "ready" ELSE "failed")
    /\ UNCHANGED <<prev, marker, owed>>

\* A row of the release clashes with one that is there, a migrated one say: the
\* import fails with what it has put by then.
ImportClashes(t) ==
    /\ tab[t].pc = "import" /\ ~(imported /\ Exact(db))
    /\ \E s \in Seed : SeedClash(s)
    /\ \E done \in [Seed -> SUBSET Key] :
          /\ \A s \in Seed : /\ done[s] \subseteq Release[s]
                              /\ ~Clash(s, Cleared[s], done[s], NewRows)
          /\ db' = Seeded(done)
    /\ imported' = FALSE
    /\ tab' = At(t, "failed")
    /\ UNCHANGED <<prev, marker, owed>>

\* add_user_attended_show: the page says "Saved show".  A show that is there under
\* another key violates the index and changes nothing.
AddShow(t, show) ==
    /\ tab[t].pc # "closed"
    /\ ~Clash(Attended, db[Attended], {AppKey}, [k \in Key |-> show])
    /\ db' = [db EXCEPT ![Attended][AppKey] = show]
    /\ UNCHANGED <<prev, marker, imported, tab, owed>>

\* remove_user_attended_show.
RemoveShow(t, show) ==
    /\ tab[t].pc # "closed" /\ show \in ShowsOf(db[Attended])
    /\ db' = [db EXCEPT ![Attended] =
                 [k \in Key |-> IF db[Attended][k] = show THEN NoRow ELSE db[Attended][k]]]
    /\ owed' = owed \ {show}
    /\ UNCHANGED <<prev, marker, imported, tab>>

\* action_reset_data: every connection to the current database is closed by
\* versionchange, so a migration under way fails at its next request.
Reset(t) ==
    /\ tab[t].pc \in {"ready", "failed"}
    /\ db' = [s \in Store |-> Empty] /\ marker' = "none" /\ imported' = FALSE
    /\ owed' = {}
    /\ tab' = [u \in Tab |->
                IF u = t THEN Start
                ELSE IF tab[u].pc \in {"marker", "open", "read", "write", "count", "mark"}
                     THEN Leave("import") ELSE tab[u]]
    /\ UNCHANGED prev

\* The page is closed at any point; its handles close with it.
Crash(t) ==
    /\ "crash" \in Faults
    /\ tab[t].pc # "closed"
    /\ tab' = [tab EXCEPT ![t] = Leave("closed")]
    /\ UNCHANGED <<prev, db, marker, imported, owed>>

-----------------------------------------------------------------------------
Migrate(t) ==
    \/ FindPrevious(t) \/ ReadMarker(t) \/ OpenPrevious(t) \/ ReadRows(t)
    \/ WriteRows(t) \/ WriteClashes(t) \/ CountRows(t) \/ WriteMarker(t)
    \/ DeletePrevious(t)

Edit(t) == \E show \in Show : AddShow(t, show) \/ RemoveShow(t, show)

Calm(t) == Load(t) \/ Migrate(t) \/ Import(t) \/ ImportClashes(t)

CalmNext == \E t \in Tab : Calm(t)

Next == \E t \in Tab : Calm(t) \/ Edit(t) \/ CountFails(t) \/ Fail(t) \/ Reset(t) \/ Crash(t)

Spec == Init /\ [][Next]_vars

\* The event loop runs a page's continuations, and users come back.
LiveSpec ==
    /\ Spec
    /\ \A t \in Tab : /\ WF_vars(Load(t)) /\ WF_vars(Migrate(t))
                       /\ WF_vars(Import(t) \/ ImportClashes(t))

-----------------------------------------------------------------------------
Label == {"closed", "check", "marker", "open", "read", "write", "count", "mark",
          "delete", "import", "ready", "failed"}

TypeOK ==
    /\ prev \in [exists: BOOLEAN, stores: SUBSET Store, rows: [Store -> Table]]
    /\ db \in [Store -> Table]
    /\ marker \in {"none", "unverified", "verified"}
    /\ imported \in BOOLEAN
    /\ tab \in [Tab -> [pc: Label, at: 0..Len(Order), keys: SUBSET Key, off: BOOLEAN]]
    /\ owed \subseteq Show

(***************************************************************************)
(* No page, and no two pages together, lose an attended show of the        *)
(* previous application: until the user removes it or resets, it is in the *)
(* current database or still in the previous one (CUTOVER_RUNBOOK.md 129:  *)
(* the old database is not deleted unless verified).                       *)
(***************************************************************************)
OldShowsKept == owed \subseteq ShowsOf(db[Attended]) \cup ShowsOf(prev.rows[Attended])

(***************************************************************************)
(* A migration that has ended leaves nothing behind: once the marker is    *)
(* written, whether the counts agreed or not, the user's shows have all    *)
(* been copied, because a count that differs does not stop the copy        *)
(* (lib.rs 1615-1633) and an error that stops it leaves no marker.         *)
(***************************************************************************)
MarkerMeansCopied == marker # "none" => owed \subseteq ShowsOf(db[Attended])

\* The keys of migrated rows: the application puts its own under AppKey.
Others == Key \ {AppKey}

CopiedShows == {db[Attended][k] : k \in Others} \ {NoRow}

SavedShows == {db[Attended][AppKey]} \ {NoRow}

Moving == INSTANCE Cutover WITH
              old <- ShowsOf(prev.rows[Attended]), copied <- CopiedShows, saved <- SavedShows

(***************************************************************************)
(* The migration implements the move: whatever pages do at once, a copied  *)
(* show goes only when the user removes it or resets, and the previous     *)
(* database goes in one step, when all shows that are owed have been       *)
(* copied (CUTOVER_RUNBOOK.md 129, lib.rs 1560-1670).                      *)
(***************************************************************************)
ImplementsCutover == Moving!Spec

\* What a migration cannot get past, however often it is tried: a store of a
\* batch of rows or more, and a row that clashes with one of the current database.
Blocked ==
    \E s \in Store :
        Big(s) \/ Clash(s, db[s], Present(prev.rows[s]), prev.rows[s])

\* A page is at work on the previous database.
Migrating(t) == tab[t].pc \in {"open", "read", "write", "count", "mark", "delete"}

(***************************************************************************)
(* Once requests stop failing, the migration is over for good, however     *)
(* often pages are loaded - one whose counts differed is not tried again - *)
(* but for two things that stop it at every load: a store with a batch of  *)
(* rows or more, and a row a unique index refuses (lib.rs 1552-1670).      *)
(***************************************************************************)
OnlyBlocksRemain ==
    <>[][CalmNext]_vars => <>[](Blocked \/ \A t \in Tab : ~Migrating(t))

(***************************************************************************)
(* A previous database with a store of a batch of rows or more is never    *)
(* migrated: no load leaves a marker or deletes it, whatever the other     *)
(* stores hold, although "first-run migration completes and counts match"  *)
(* (rust/README.md 60; lib.rs 1551-1585, 1615-1653).                       *)
(***************************************************************************)
LargeStoresStay == (\E s \in Store : Big(s)) => marker = "none"
=============================================================================
