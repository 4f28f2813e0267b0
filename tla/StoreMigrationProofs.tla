----------------------- MODULE StoreMigrationProofs -----------------------
(***************************************************************************)
(* That the migration keeps the user's shows, for any number of pages,     *)
(* stores, rows and shows, and whatever fails.                             *)
(***************************************************************************)
EXTENDS StoreMigration, FiniteSetTheorems, TLAPS

PageState == [pc: Label, at: 0..Len(Order), keys: SUBSET Key, off: BOOLEAN]

\* A store of the list, by its number.
LEMMA OrderType ==
    /\ Len(Order) \in Nat /\ DOMAIN Order = 1..Len(Order)
    /\ \A i \in DOMAIN Order : Order[i] \in Store
    /\ Attended \in Store /\ NoRow \in Value /\ Empty \in Table
    /\ Attended \notin Seed /\ AppKey \in Key
BY NameAssumption DEF Store, Value, Empty, Table

\* Where Advance leads.
LEMMA AdvanceType ==
    ASSUME TypeOK, NEW t \in Tab, NEW i \in Nat, NEW off \in BOOLEAN, Advance(t, i, off)
    PROVE  tab' \in [Tab -> PageState]
<1>1. CASE Rest(i) = {} /\ tab' = [tab EXCEPT ![t] =
                 [pc |-> "mark", at |-> 0, keys |-> {}, off |-> off]]
    BY <1>1, OrderType DEF TypeOK, PageState, Label
<1>2. ASSUME NEW j \in Rest(i),
             tab' = [tab EXCEPT ![t] = [pc |-> "read", at |-> j, keys |-> {}, off |-> off]]
      PROVE  tab' \in [Tab -> PageState]
    <2>1. j \in 0..Len(Order)
        BY OrderType DEF Rest
    <2> QED BY <1>2, <2>1 DEF TypeOK, PageState, Label
<1> QED BY <1>1, <1>2 DEF Advance

LEMMA GoingType ==
    ASSUME TypeOK, NEW t \in Tab, NEW l \in Label
    PROVE  /\ At(t, l) \in [Tab -> PageState]
           /\ [tab EXCEPT ![t] = Leave(l)] \in [Tab -> PageState]
<1>1. Leave(l) \in PageState
    BY OrderType DEF Leave, PageState
<1>2. At(t, l) \in [Tab -> PageState]
    BY DEF At, TypeOK, PageState
<1> QED BY <1>1, <1>2 DEF TypeOK, PageState

LEMMA TypeInit == Init => TypeOK
<1> SUFFICES ASSUME Init PROVE TypeOK
    OBVIOUS
<1>1. PICK p \in Previous :
        /\ prev = [exists |-> TRUE, rows |-> p,
                   stores |-> {s \in Store : s = Attended \/ Present(p[s]) # {}}]
        /\ owed = ShowsOf(p[Attended])
    BY DEF Init
<1>2. p \in [Store -> Table] /\ \A k \in Key : p[Attended][k] \in Show \cup {NoRow}
    BY PreviousAssumption
<1>3. prev \in [exists: BOOLEAN, stores: SUBSET Store, rows: [Store -> Table]]
    BY <1>1, <1>2
<1>4. owed \subseteq Show
    BY <1>1, <1>2 DEF ShowsOf, Present
<1>5. db \in [Store -> Table]
    BY OrderType DEF Init
<1>6. Leave("closed") \in PageState
    BY OrderType DEF Leave, PageState, Label
<1>7. tab \in [Tab -> PageState]
    BY <1>6 DEF Init
<1> QED BY <1>3, <1>4, <1>5, <1>7 DEF Init, TypeOK, PageState

\* The tables a step may leave behind.
LEMMA PutType ==
    ASSUME NEW a \in Table, NEW b \in Table, NEW keys
    PROVE  Put(a, keys, b) \in Table
BY DEF Put, Table

\* An import, whatever it has put of the release, leaves the user's rows.
LEMMA SeededType ==
    ASSUME TypeOK, NEW done
    PROVE  Seeded(done) \in [Store -> Table] /\ Seeded(done)[Attended] = db[Attended]
<1>1. Cleared \in [Store -> Table] /\ Cleared[Attended] = db[Attended]
    BY OrderType DEF Cleared, TypeOK
<1>2. NewRows \in Table
    BY DEF NewRows, Table, Value
<1>3. \A s \in Seed : Put(Cleared[s], done[s], NewRows) \in Table
    BY <1>1, <1>2, PutType, NameAssumption
<1> QED BY <1>1, <1>3, OrderType DEF Seeded

LEMMA TypeStep == TypeOK /\ [Next]_vars => TypeOK'
<1> SUFFICES ASSUME TypeOK, [Next]_vars PROVE TypeOK'
    OBVIOUS
<1>0. TypeOK' <=>
        /\ prev' \in [exists: BOOLEAN, stores: SUBSET Store, rows: [Store -> Table]]
        /\ db' \in [Store -> Table]
        /\ marker' \in {"none", "unverified", "verified"}
        /\ imported' \in BOOLEAN
        /\ tab' \in [Tab -> PageState]
        /\ owed' \subseteq Show
    BY DEF TypeOK, PageState
<1>a. /\ prev \in [exists: BOOLEAN, stores: SUBSET Store, rows: [Store -> Table]]
      /\ db \in [Store -> Table] /\ marker \in {"none", "unverified", "verified"}
      /\ imported \in BOOLEAN /\ tab \in [Tab -> PageState] /\ owed \subseteq Show
    BY DEF TypeOK, PageState
<1>s. Start \in PageState
    BY OrderType DEF Start, PageState, Label
<1>1. ASSUME NEW t \in Tab, Load(t) PROVE TypeOK'
    BY <1>0, <1>a, <1>1, <1>s DEF Load
<1>2. ASSUME NEW t \in Tab, FindPrevious(t) PROVE TypeOK'
    <2>1. "marker" \in Label /\ "import" \in Label BY DEF Label
    <2> QED BY <1>0, <1>a, <1>2, <2>1, GoingType DEF FindPrevious
<1>3. ASSUME NEW t \in Tab, ReadMarker(t) PROVE TypeOK'
    <2>1. "open" \in Label /\ "import" \in Label BY DEF Label
    <2> QED BY <1>0, <1>a, <1>3, <2>1, GoingType DEF ReadMarker
<1>4. ASSUME NEW t \in Tab, OpenPrevious(t) PROVE TypeOK'
    <2>1. tab' \in [Tab -> PageState]
        BY <1>4, AdvanceType DEF OpenPrevious
    <2> QED BY <1>0, <1>a, <1>4, <2>1 DEF OpenPrevious
<1>5. ASSUME NEW t \in Tab, ReadRows(t) PROVE TypeOK'
    <2> DEFINE keys == First(Batch, Present(prev.rows[Order[tab[t].at]]))
    <2>1. keys \subseteq Key
        BY DEF First, Present
    <2> HIDE DEF keys
    <2>2. tab' = [tab EXCEPT ![t].pc = "write", ![t].keys = keys]
        BY <1>5 DEF ReadRows, keys
    <2>3. [tab[t] EXCEPT !.pc = "write", !.keys = keys] \in PageState
        BY <1>a, <2>1 DEF PageState, Label
    <2>4. tab' = [tab EXCEPT ![t] = [tab[t] EXCEPT !.pc = "write", !.keys = keys]]
        BY <1>a, <2>2
    <2> QED BY <1>0, <1>a, <1>5, <2>3, <2>4 DEF ReadRows
<1>6. ASSUME NEW t \in Tab, WriteRows(t) PROVE TypeOK'
    <2> DEFINE s == Order[tab[t].at]
               table == Put(db[s], tab[t].keys, prev.rows[s])
    <2>1. "import" \in Label /\ "count" \in Label BY DEF Label
    <2>2. tab' \in [Tab -> PageState]
        BY <1>6, <2>1, GoingType DEF WriteRows
    <2>3. s \in Store => table \in Table
        BY <1>a, PutType
    <2> HIDE DEF table
    <2>4. db' = [db EXCEPT ![s] = table]
        BY <1>6 DEF WriteRows, table
    <2>5. db' \in [Store -> Table]
        BY <1>a, <2>3, <2>4
    <2> QED BY <1>0, <1>a, <1>6, <2>2, <2>5 DEF WriteRows
<1>7. ASSUME NEW t \in Tab, WriteClashes(t) \/ Fail(t) PROVE TypeOK'
    <2>1. "import" \in Label BY DEF Label
    <2> QED BY <1>0, <1>a, <1>7, <2>1, GoingType DEF WriteClashes, Fail
<1>8. ASSUME NEW t \in Tab, CountRows(t) \/ CountFails(t) PROVE TypeOK'
    <2>1. tab[t].at \in Nat /\ tab[t].off \in BOOLEAN
        BY <1>a, OrderType DEF PageState
    <2>2. PICK off \in BOOLEAN : Advance(t, tab[t].at + 1, off)
        BY <1>8, <2>1 DEF CountRows, CountFails
    <2>3. tab' \in [Tab -> PageState]
        BY <2>1, <2>2, AdvanceType
    <2> QED BY <1>0, <1>a, <1>8, <2>3 DEF CountRows, CountFails
<1>9. ASSUME NEW t \in Tab, WriteMarker(t) PROVE TypeOK'
    <2>1. "import" \in Label /\ "delete" \in Label BY DEF Label
    <2> QED BY <1>0, <1>a, <1>9, <2>1, GoingType DEF WriteMarker
<1>10. ASSUME NEW t \in Tab, DeletePrevious(t) PROVE TypeOK'
    <2>1. "import" \in Label BY DEF Label
    <2>2. NoPrevious \in [exists: BOOLEAN, stores: SUBSET Store, rows: [Store -> Table]]
        BY OrderType DEF NoPrevious
    <2> QED BY <1>0, <1>a, <1>10, <2>1, <2>2, GoingType DEF DeletePrevious
<1>11. ASSUME NEW t \in Tab, Import(t) \/ ImportClashes(t) PROVE TypeOK'
    <2>1. PICK l \in {"ready", "failed"} : tab' = At(t, l)
        BY <1>11 DEF Import, ImportClashes
    <2>2. l \in Label
        BY DEF Label
    <2>3. tab' \in [Tab -> PageState]
        BY <2>1, <2>2, GoingType
    <2>4. db' = db \/ \E done : db' = Seeded(done)
        BY <1>11 DEF Import, ImportClashes
    <2>5. db' \in [Store -> Table]
        BY <1>a, <2>4, SeededType
    <2>6. imported' \in BOOLEAN
        BY <1>a, <1>11 DEF Import, ImportClashes
    <2> QED BY <1>0, <1>a, <1>11, <2>3, <2>5, <2>6 DEF Import, ImportClashes
<1>12. ASSUME NEW t \in Tab, NEW show \in Show, AddShow(t, show) PROVE TypeOK'
    <2>1. [db EXCEPT ![Attended][AppKey] = show] \in [Store -> Table]
        BY <1>a, OrderType DEF Table, Value
    <2> QED BY <1>0, <1>a, <1>12, <2>1 DEF AddShow
<1>13. ASSUME NEW t \in Tab, NEW show \in Show, RemoveShow(t, show) PROVE TypeOK'
    <2>1. [k \in Key |-> IF db[Attended][k] = show THEN NoRow ELSE db[Attended][k]] \in Table
        BY <1>a, OrderType DEF Table
    <2> QED BY <1>0, <1>a, <1>13, <2>1 DEF RemoveShow
<1>14. ASSUME NEW t \in Tab, Reset(t) PROVE TypeOK'
    <2>1. Leave("import") \in PageState
        BY OrderType DEF Leave, PageState, Label
    <2>2. tab' \in [Tab -> PageState]
        BY <1>14, <1>a, <1>s, <2>1 DEF Reset
    <2> QED BY <1>0, <1>a, <1>14, <2>2, OrderType DEF Reset
<1>15. ASSUME NEW t \in Tab, Crash(t) PROVE TypeOK'
    <2>1. "closed" \in Label BY DEF Label
    <2> QED BY <1>0, <1>a, <1>15, <2>1, GoingType DEF Crash
<1>16. CASE UNCHANGED vars
    BY <1>0, <1>a, <1>16 DEF vars
<1> QED
    BY <1>1, <1>2, <1>3, <1>4, <1>5, <1>6, <1>7, <1>8, <1>9, <1>10, <1>11, <1>12, <1>13,
       <1>14, <1>15, <1>16
    DEF Next, Calm, Migrate, Edit

(***************************************************************************)
(* Every state of the databases and the pages is well typed.               *)
(***************************************************************************)
THEOREM TypeCorrect == Spec => []TypeOK
<1> QED BY TypeInit, TypeStep, PTL DEF Spec

-----------------------------------------------------------------------------
(***************************************************************************)
(* The invariant.  A migrated show keeps the key it had, and the           *)
(* application itself only ever puts rows under AppKey, so what counts is  *)
(* which keys but that one hold the shows the user is owed.                *)
(***************************************************************************)
Copied == \A show \in owed : \E k \in Others : db[Attended][k] = show

\* While the previous database has its shows, the current one has copies of them or
\* nothing; when it has none any more, everything has been copied.
OldKeys == /\ prev.rows[Attended][AppKey] = NoRow
           /\ \A k \in Key : prev.rows[Attended][k] \in Show \cup {NoRow}
Mirror == Attended \in prev.stores =>
              \A k \in Others : db[Attended][k] \in {NoRow, prev.rows[Attended][k]}
Still == Attended \in prev.stores => owed \subseteq ShowsOf(prev.rows[Attended])
Gone == Attended \notin prev.stores => Copied /\ prev.rows[Attended] = Empty
Marked == marker # "none" => Copied

\* A page that has passed the attended shows has copied them.
Sound(r, stores, rows, copied) ==
    /\ r.pc \in {"read", "write", "count"} =>
          r.at \in DOMAIN Order /\ Order[r.at] \in stores
    /\ r.pc = "write" => r.keys = First(Batch, Present(rows[Order[r.at]]))
    /\ \/ r.pc \in {"mark", "delete"}
       \/ r.pc = "count" /\ Order[r.at] = Attended
       \/ /\ r.pc \in {"read", "write", "count"}
          /\ \E j \in DOMAIN Order : j < r.at /\ Order[j] = Attended
       => copied

PagesSound == \A t \in Tab : Sound(tab[t], prev.stores, prev.rows, Copied)

Tables == OldKeys /\ Mirror /\ Still /\ Gone /\ Marked

ShowsInv == TypeOK /\ Tables /\ PagesSound

\* A step of one page that leaves the previous database and what is copied.
LEMMA PagesStep ==
    ASSUME TypeOK, PagesSound, NEW t \in Tab, NEW r,
           prev'.stores = prev.stores, prev'.rows = prev.rows, Copied => Copied',
           tab' = [tab EXCEPT ![t] = r], Sound(r, prev.stores, prev.rows, Copied')
    PROVE  PagesSound'
<1> SUFFICES ASSUME NEW u \in Tab
             PROVE  Sound(tab'[u], prev.stores, prev.rows, Copied')
    BY DEF PagesSound
<1>1. CASE u = t
    BY <1>1 DEF TypeOK
<1>2. CASE u # t
    <2>1. tab'[u] = tab[u]
        BY <1>2 DEF TypeOK
    <2>2. Sound(tab[u], prev.stores, prev.rows, Copied)
        BY DEF PagesSound
    <2> QED BY <2>1, <2>2 DEF Sound
<1> QED BY <1>1, <1>2

\* A page that has left the migration has nothing to answer for.
LEMMA QuietSound ==
    ASSUME NEW r, NEW stores, NEW rows, NEW copied,
           r.pc \notin {"read", "write", "count", "mark", "delete"}
    PROVE  Sound(r, stores, rows, copied)
BY DEF Sound

LEMMA QuietStep ==
    ASSUME TypeOK, PagesSound, NEW t \in Tab, NEW l \in Label,
           l \notin {"read", "write", "count", "mark", "delete"},
           prev'.stores = prev.stores, prev'.rows = prev.rows, Copied => Copied',
           tab' = At(t, l) \/ tab' = [tab EXCEPT ![t] = Leave(l)]
    PROVE  PagesSound'
<1>1. CASE tab' = At(t, l)
    <2>1. tab' = [tab EXCEPT ![t] = [tab[t] EXCEPT !.pc = l]]
        BY <1>1 DEF At, TypeOK
    <2>2. [tab[t] EXCEPT !.pc = l].pc = l
        BY DEF TypeOK
    <2> QED BY <2>1, <2>2, QuietSound, PagesStep
<1>2. CASE tab' = [tab EXCEPT ![t] = Leave(l)]
    <2>1. Leave(l).pc = l
        BY DEF Leave
    <2> QED BY <1>2, <2>1, QuietSound, PagesStep
<1> QED BY <1>1, <1>2

\* The tables of a step that leaves the user's shows alone.
LEMMA TablesSame ==
    ASSUME Tables, prev'.stores = prev.stores, prev'.rows = prev.rows,
           db'[Attended] = db[Attended], owed' = owed, marker' = marker
    PROVE  Tables' /\ (Copied <=> Copied')
<1>1. Copied <=> Copied'
    BY DEF Copied
<1> QED BY <1>1 DEF Tables, OldKeys, Mirror, Still, Gone, Marked

\* Where Advance leads, everything before has been copied.
LEMMA AdvanceSound ==
    ASSUME TypeOK, Gone, NEW t \in Tab, NEW i \in Nat, NEW off, Advance(t, i, off),
           \A m \in DOMAIN Order : m < i /\ Order[m] = Attended => Copied
    PROVE  \E r : /\ tab' = [tab EXCEPT ![t] = r]
                  /\ Sound(r, prev.stores, prev.rows, Copied)
<1>1. PICK m \in DOMAIN Order : Order[m] = Attended
    BY OrderType DEF Store
<1>n. \A j \in DOMAIN Order : j \in Nat
    BY OrderType
<1>2. CASE Rest(i) = {} /\ tab' = [tab EXCEPT ![t] =
                 [pc |-> "mark", at |-> 0, keys |-> {}, off |-> off]]
    <2>1. m < i \/ Attended \notin prev.stores
        BY <1>1, <1>2, <1>n DEF Rest
    <2>2. Copied
        BY <1>1, <2>1 DEF Gone
    <2>3. Sound([pc |-> "mark", at |-> 0, keys |-> {}, off |-> off],
                prev.stores, prev.rows, Copied)
        BY <2>2 DEF Sound
    <2> QED BY <1>2, <2>3
<1>3. ASSUME NEW j \in Rest(i), \A l \in Rest(i) : j <= l,
             tab' = [tab EXCEPT ![t] = [pc |-> "read", at |-> j, keys |-> {}, off |-> off]]
      PROVE  \E r : /\ tab' = [tab EXCEPT ![t] = r]
                    /\ Sound(r, prev.stores, prev.rows, Copied)
    <2>1. j \in DOMAIN Order /\ Order[j] \in prev.stores
        BY DEF Rest
    <2>2. ASSUME NEW l \in DOMAIN Order, l < j, Order[l] = Attended PROVE Copied
        <3>1. l < i \/ Attended \notin prev.stores
            BY <1>3, <1>n, <2>1, <2>2 DEF Rest
        <3> QED BY <2>2, <3>1 DEF Gone
    <2>3. Sound([pc |-> "read", at |-> j, keys |-> {}, off |-> off],
                prev.stores, prev.rows, Copied)
        BY <2>1, <2>2 DEF Sound
    <2> QED BY <1>3, <2>3
<1> QED BY <1>2, <1>3 DEF Advance

\* A store that is smaller than a batch is read to its end.
LEMMA FirstIsAll ==
    ASSUME TypeOK, NEW s \in Store, ~Big(s)
    PROVE  First(Batch, Present(prev.rows[s])) = Present(prev.rows[s])
<1> DEFINE keys == Present(prev.rows[s])
<1>1. keys \subseteq Key /\ IsFiniteSet(Key) /\ Batch \in Nat
    BY NameAssumption DEF Present
<1>2. IsFiniteSet(keys)
    BY <1>1, FS_Subset
<1>3. Cardinality(keys) \in Nat /\ Cardinality(keys) < Batch
    <2>1. Cardinality(keys) \in Nat
        BY <1>2, FS_CardinalityType
    <2> QED BY <1>1, <2>1 DEF Big, Count
<1>4. ASSUME NEW k \in keys PROVE Cardinality({l \in keys : l < k}) < Batch
    <2>1. {l \in keys : l < k} \subseteq keys
        OBVIOUS
    <2>2. Cardinality({l \in keys : l < k}) <= Cardinality(keys)
        BY <1>2, <2>1, FS_Subset
    <2>3. Cardinality({l \in keys : l < k}) \in Nat
        BY <1>2, <2>1, FS_Subset, FS_CardinalityType
    <2> QED BY <1>1, <1>3, <2>2, <2>3
<1> QED BY <1>4 DEF First

LEMMA ShowsInit == Init => ShowsInv
<1> SUFFICES ASSUME Init PROVE ShowsInv
    OBVIOUS
<1>1. TypeOK
    BY TypeInit
<1>2. PICK p \in Previous :
        /\ prev = [exists |-> TRUE, rows |-> p,
                   stores |-> {s \in Store : s = Attended \/ Present(p[s]) # {}}]
        /\ owed = ShowsOf(p[Attended])
    BY DEF Init
<1>3. p[Attended][AppKey] = NoRow /\ \A k \in Key : p[Attended][k] \in Show \cup {NoRow}
    BY PreviousAssumption
<1>4. Attended \in prev.stores /\ prev.rows = p
    BY <1>2, OrderType
<1>5. \A k \in Key : db[Attended][k] = NoRow
    BY OrderType DEF Init, Empty
<1>6. Tables
    BY <1>2, <1>3, <1>4, <1>5
    DEF Tables, OldKeys, Mirror, Still, Gone, Marked, Others, Init
<1>7. PagesSound
    BY QuietSound DEF PagesSound, Init, Leave
<1> QED BY <1>1, <1>6, <1>7 DEF ShowsInv

\* The batch a page writes leaves what is copied, and completes it where the store
\* is the attended shows and smaller than a batch.
LEMMA WriteCopies ==
    ASSUME ShowsInv, NEW t \in Tab, WriteRows(t), Order[tab[t].at] = Attended
    PROVE  /\ Tables'
           /\ Copied => Copied'
           /\ ~Big(Attended) => Copied'
<1> DEFINE keys == tab[t].keys
           old == prev.rows[Attended]
<1>1. tab[t].pc = "write" /\ db' = [db EXCEPT ![Attended] = Put(db[Attended], keys, old)]
      /\ UNCHANGED <<prev, marker, owed>>
    BY DEF WriteRows
<1>2. Attended \in prev.stores /\ keys = First(Batch, Present(old))
    BY <1>1 DEF ShowsInv, PagesSound, Sound
<1>3. db'[Attended] = Put(db[Attended], keys, old)
    BY <1>1, OrderType DEF ShowsInv, TypeOK
<1> HIDE DEF old, keys
<1>4. keys \subseteq Present(old)
    BY <1>2 DEF First
<1>5. \A k \in Others : db[Attended][k] \in {NoRow, old[k]}
    BY <1>2 DEF ShowsInv, Tables, Mirror, old
<1>6. \A k \in Key : db'[Attended][k] = IF k \in keys THEN old[k] ELSE db[Attended][k]
    BY <1>3 DEF Put
<1>7. Mirror'
    BY <1>1, <1>5, <1>6 DEF Mirror, Others, old
<1>8. \A show \in owed : show # NoRow
    BY NameAssumption DEF ShowsInv, TypeOK
<1>9. ASSUME Copied PROVE Copied'
    BY <1>1, <1>5, <1>6, <1>8, <1>9 DEF Copied, Others
<1>10. ASSUME ~Big(Attended) PROVE Copied'
    <2>1. keys = Present(old)
        BY <1>2, <1>10, FirstIsAll, OrderType DEF ShowsInv, old
    <2>2. SUFFICES ASSUME NEW show \in owed
                   PROVE  \E k \in Others : db'[Attended][k] = show
        BY <1>1 DEF Copied
    <2>3. PICK k \in Present(old) : old[k] = show
        BY <1>2 DEF ShowsInv, Tables, Still, ShowsOf, old
    <2>4. k \in Others
        BY <1>8, <2>3 DEF ShowsInv, Tables, OldKeys, Others, Present, old
    <2> QED BY <1>6, <2>1, <2>3, <2>4 DEF Others
<1>11. Still' /\ OldKeys' /\ Gone'
    BY <1>1, <1>2 DEF ShowsInv, Tables, Still, OldKeys, Gone
<1>12. Marked'
    BY <1>1, <1>9 DEF ShowsInv, Tables, Marked
<1> QED BY <1>7, <1>9, <1>10, <1>11, <1>12 DEF Tables

LEMMA WriteStep ==
    ASSUME ShowsInv, NEW t \in Tab, WriteRows(t)
    PROVE  Tables' /\ PagesSound'
<1> DEFINE s == Order[tab[t].at]
           counting == [tab[t] EXCEPT !.pc = "count"]
<1>0. TypeOK /\ Tables /\ PagesSound
    BY DEF ShowsInv
<1>1. /\ tab[t].pc = "write" /\ UNCHANGED <<prev, marker, imported, owed>>
      /\ db' = [db EXCEPT ![s] = Put(db[s], tab[t].keys, prev.rows[s])]
      /\ IF Big(s) THEN tab' = [tab EXCEPT ![t] = Leave("import")]
                   ELSE tab' = At(t, "count")
    BY DEF WriteRows
<1>2. Sound(tab[t], prev.stores, prev.rows, Copied)
    BY DEF ShowsInv, PagesSound
<1>3. Tables' /\ (Copied => Copied') /\ (s = Attended /\ ~Big(s) => Copied')
    <2>1. CASE s = Attended
        BY <2>1, WriteCopies
    <2>2. CASE s # Attended
        <3>1. db'[Attended] = db[Attended]
            BY <1>1, <2>2, OrderType DEF ShowsInv, TypeOK
        <3> QED BY <1>0, <1>1, <2>2, <3>1, TablesSame
    <2> QED BY <2>1, <2>2
<1>4. CASE Big(s)
    <2>1. "import" \in Label BY DEF Label
    <2> QED BY <1>0, <1>1, <1>3, <1>4, <2>1, QuietStep
<1>5. CASE ~Big(s)
    <2>1. tab' = [tab EXCEPT ![t] = counting]
        BY <1>0, <1>1, <1>5 DEF At, TypeOK
    <2>2. counting.pc = "count" /\ counting.at = tab[t].at
        BY <1>0 DEF TypeOK
    <2> HIDE DEF counting
    <2>3. Sound(counting, prev.stores, prev.rows, Copied')
        BY <1>1, <1>2, <1>3, <1>5, <2>2 DEF Sound
    <2> QED BY <1>0, <1>1, <1>3, <2>1, <2>3, PagesStep
<1> QED BY <1>3, <1>4, <1>5

LEMMA DeleteStep ==
    ASSUME ShowsInv, NEW t \in Tab, DeletePrevious(t)
    PROVE  Tables' /\ PagesSound'
<1>1. tab[t].pc = "delete" /\ prev' = NoPrevious /\ UNCHANGED <<db, marker, owed>>
      /\ tab' = At(t, "import")
    BY DEF DeletePrevious
<1>2. Copied /\ Copied'
    <2>1. Copied
        BY <1>1 DEF ShowsInv, PagesSound, Sound
    <2> QED BY <1>1, <2>1 DEF Copied
<1>3. prev'.stores = {} /\ prev'.rows[Attended] = Empty
    BY <1>1, OrderType DEF NoPrevious
<1>4. Tables'
    <2>1. \A k \in Key : Empty[k] = NoRow
        BY OrderType DEF Empty
    <2> QED BY <1>2, <1>3, <2>1, OrderType DEF Tables, OldKeys, Mirror, Still, Gone, Marked
<1>5. ASSUME NEW u \in Tab PROVE tab'[u].pc \notin {"read", "write", "count"}
    <2>1. CASE u = t
        BY <1>1, <2>1 DEF At, ShowsInv, TypeOK
    <2>2. CASE u # t
        <3>1. tab'[u] = tab[u]
            BY <1>1, <2>2 DEF At, ShowsInv, TypeOK
        <3> QED BY <3>1 DEF DeletePrevious, Holding
    <2> QED BY <2>1, <2>2
<1>6. PagesSound'
    BY <1>2, <1>5 DEF PagesSound, Sound
<1> QED BY <1>4, <1>6

LEMMA EditStep ==
    ASSUME ShowsInv, NEW t \in Tab, Edit(t)
    PROVE  Tables' /\ PagesSound'
<1>0. TypeOK /\ Tables /\ PagesSound /\ Attended \in Store
    BY OrderType DEF ShowsInv
<1>1. UNCHANGED <<prev, marker, tab>> /\ owed' \subseteq owed
    BY DEF Edit, AddShow, RemoveShow
<1>2. /\ \A k \in Others : \/ db'[Attended][k] = db[Attended][k]
                           \/ db'[Attended][k] = NoRow
      /\ Copied => Copied'
    <2>1. ASSUME NEW show \in Show, AddShow(t, show)
          PROVE  <1>2!1 /\ <1>2!2
        <3>1. \A k \in Others : db'[Attended][k] = db[Attended][k]
            BY <1>0, <2>1 DEF AddShow, Others, TypeOK, Table
        <3> QED BY <2>1, <3>1 DEF AddShow, Copied
    <2>2. ASSUME NEW show \in Show, RemoveShow(t, show)
          PROVE  <1>2!1 /\ <1>2!2
        <3>1. \A k \in Others : db'[Attended][k] =
                  IF db[Attended][k] = show THEN NoRow ELSE db[Attended][k]
            BY <1>0, <2>2 DEF RemoveShow, Others, TypeOK
        <3>2. owed' = owed \ {show}
            BY <2>2 DEF RemoveShow
        <3> QED BY <3>1, <3>2 DEF Copied
    <2> QED BY <2>1, <2>2 DEF Edit
<1>3. Tables'
    BY <1>0, <1>1, <1>2 DEF Tables, OldKeys, Mirror, Still, Gone, Marked
<1>4. PagesSound'
    BY <1>0, <1>1, <1>2 DEF PagesSound, Sound
<1> QED BY <1>3, <1>4

LEMMA ResetStep ==
    ASSUME ShowsInv, NEW t \in Tab, Reset(t)
    PROVE  Tables' /\ PagesSound'
<1>1. prev' = prev /\ owed' = {} /\ marker' = "none" /\ db' = [s \in Store |-> Empty]
    BY DEF Reset
<1>2. Copied'
    BY <1>1 DEF Copied
<1>3. \A k \in Others : db'[Attended][k] = NoRow
    BY <1>1, OrderType DEF Others, Empty
<1>4. Tables'
    BY <1>1, <1>2, <1>3 DEF ShowsInv, Tables, OldKeys, Mirror, Still, Gone, Marked
<1>5. \A u \in Tab : tab'[u].pc \notin {"read", "write", "count"}
    BY DEF Reset, Start, Leave
<1>6. PagesSound'
    BY <1>2, <1>5 DEF PagesSound, Sound
<1> QED BY <1>4, <1>6

LEMMA ShowsStep == ShowsInv /\ [Next]_vars => ShowsInv'
<1> SUFFICES ASSUME ShowsInv, [Next]_vars PROVE Tables' /\ PagesSound'
    BY TypeStep DEF ShowsInv
<1>0. TypeOK /\ Tables /\ PagesSound
    BY DEF ShowsInv
<1>l. /\ {"check", "marker", "open", "import", "ready", "failed", "closed"} \subseteq Label
      /\ \A t \in Tab : Sound(tab[t], prev.stores, prev.rows, Copied)
    BY DEF Label, ShowsInv, PagesSound
<1>1. ASSUME NEW t \in Tab, Load(t) PROVE Tables' /\ PagesSound'
    <2>1. Tables' /\ (Copied <=> Copied')
        BY <1>0, <1>1, TablesSame DEF Load
    <2>2. Sound(Start, prev.stores, prev.rows, Copied')
        BY QuietSound DEF Start
    <2> QED BY <1>0, <1>1, <2>1, <2>2, PagesStep DEF Load
<1>2. ASSUME NEW t \in Tab,
             FindPrevious(t) \/ ReadMarker(t) \/ WriteClashes(t) \/ Fail(t) \/ Crash(t)
      PROVE  Tables' /\ PagesSound'
    <2>1. UNCHANGED <<prev, db, marker, owed>>
        BY <1>2 DEF FindPrevious, ReadMarker, WriteClashes, Fail, Crash
    <2>2. Tables' /\ (Copied <=> Copied')
        BY <1>0, <2>1, TablesSame
    <2>3. PICK l \in {"marker", "import", "open", "closed"} :
              tab' = At(t, l) \/ tab' = [tab EXCEPT ![t] = Leave(l)]
        BY <1>2 DEF FindPrevious, ReadMarker, WriteClashes, Fail, Crash
    <2>4. l \in Label /\ l \notin {"read", "write", "count", "mark", "delete"}
        BY <1>l
    <2> QED BY <1>0, <2>1, <2>2, <2>3, <2>4, QuietStep
<1>3. ASSUME NEW t \in Tab, OpenPrevious(t) PROVE Tables' /\ PagesSound'
    <2>1. /\ prev'.stores = prev.stores /\ prev'.rows = prev.rows
          /\ UNCHANGED <<db, marker, owed>>
        BY <1>3 DEF OpenPrevious, ShowsInv, TypeOK
    <2>2. Tables' /\ (Copied <=> Copied')
        BY <1>0, <2>1, TablesSame
    <2>3. \A m \in DOMAIN Order : ~(m < 1)
        BY OrderType
    <2>4. PICK r : /\ tab' = [tab EXCEPT ![t] = r]
                   /\ Sound(r, prev.stores, prev.rows, Copied)
        BY <1>0, <1>3, <2>3, AdvanceSound DEF OpenPrevious, Tables
    <2>5. Sound(r, prev.stores, prev.rows, Copied')
        BY <2>2, <2>4 DEF Sound
    <2> QED BY <1>0, <2>1, <2>2, <2>4, <2>5, PagesStep
<1>4. ASSUME NEW t \in Tab, ReadRows(t) PROVE Tables' /\ PagesSound'
    <2> DEFINE keys == First(Batch, Present(prev.rows[Order[tab[t].at]]))
               r == [tab[t] EXCEPT !.pc = "write", !.keys = keys]
    <2>1. tab[t].pc = "read" /\ UNCHANGED <<prev, db, marker, owed>>
        BY <1>4 DEF ReadRows
    <2>2. Tables' /\ (Copied <=> Copied')
        BY <1>0, <2>1, TablesSame
    <2>3. r.pc = "write" /\ r.at = tab[t].at /\ r.keys = keys
        BY <1>0 DEF TypeOK
    <2>4. tab' = [tab EXCEPT ![t] = r]
        BY <1>0, <1>4 DEF ReadRows, TypeOK
    <2> HIDE DEF r
    <2>5. Sound(r, prev.stores, prev.rows, Copied')
        BY <1>l, <2>1, <2>2, <2>3 DEF Sound
    <2> QED BY <1>0, <2>1, <2>2, <2>4, <2>5, PagesStep
<1>5. ASSUME NEW t \in Tab, WriteRows(t) PROVE Tables' /\ PagesSound'
    BY <1>5, WriteStep
<1>6. ASSUME NEW t \in Tab, CountRows(t) \/ CountFails(t) PROVE Tables' /\ PagesSound'
    <2>1. tab[t].pc = "count" /\ UNCHANGED <<prev, db, marker, owed>>
        BY <1>6 DEF CountRows, CountFails
    <2>2. Tables' /\ (Copied <=> Copied')
        BY <1>0, <2>1, TablesSame
    <2>3. PICK off : Advance(t, tab[t].at + 1, off)
        BY <1>6 DEF CountRows, CountFails
    <2>4. tab[t].at \in Nat
        BY <1>0, OrderType DEF TypeOK
    <2>5. ASSUME NEW m \in DOMAIN Order, m < tab[t].at + 1, Order[m] = Attended
          PROVE  Copied
        <3>1. m = tab[t].at \/ m < tab[t].at
            BY <2>4, <2>5, OrderType
        <3> QED BY <1>l, <2>1, <2>5, <3>1 DEF Sound
    <2>6. PICK r : /\ tab' = [tab EXCEPT ![t] = r]
                   /\ Sound(r, prev.stores, prev.rows, Copied)
        BY <1>0, <2>3, <2>4, <2>5, AdvanceSound DEF Tables
    <2>7. Sound(r, prev.stores, prev.rows, Copied')
        BY <2>2, <2>6 DEF Sound
    <2> QED BY <1>0, <2>1, <2>2, <2>6, <2>7, PagesStep
<1>7. ASSUME NEW t \in Tab, WriteMarker(t) PROVE Tables' /\ PagesSound'
    <2>1. tab[t].pc = "mark" /\ UNCHANGED <<prev, db, owed>>
        BY <1>7 DEF WriteMarker
    <2>2. Copied /\ Copied'
        <3>1. Copied
            BY <1>l, <2>1 DEF Sound
        <3> QED BY <2>1, <3>1 DEF Copied
    <2>3. Tables'
        BY <1>0, <2>1, <2>2 DEF Tables, OldKeys, Mirror, Still, Gone, Marked
    <2>4. PICK l \in {"import", "delete"} : tab' = [tab EXCEPT ![t] = Leave(l)]
        BY <1>7 DEF WriteMarker
    <2>5. Sound(Leave(l), prev.stores, prev.rows, Copied')
        BY <2>2, <2>4 DEF Sound, Leave
    <2> QED BY <1>0, <2>1, <2>2, <2>3, <2>4, <2>5, PagesStep
<1>8. ASSUME NEW t \in Tab, DeletePrevious(t) PROVE Tables' /\ PagesSound'
    BY <1>8, DeleteStep
<1>9. ASSUME NEW t \in Tab, Import(t) \/ ImportClashes(t) PROVE Tables' /\ PagesSound'
    <2>1. UNCHANGED <<prev, marker, owed>>
        BY <1>9 DEF Import, ImportClashes
    <2>2. db' = db \/ \E done : db' = Seeded(done)
        BY <1>9 DEF Import, ImportClashes
    <2>3. db'[Attended] = db[Attended]
        BY <1>0, <2>2, SeededType
    <2>4. Tables' /\ (Copied <=> Copied')
        BY <1>0, <2>1, <2>3, TablesSame
    <2>5. PICK l \in {"ready", "failed"} : tab' = At(t, l)
        BY <1>9 DEF Import, ImportClashes
    <2>6. l \in Label /\ l \notin {"read", "write", "count", "mark", "delete"}
        BY <1>l
    <2> QED BY <1>0, <2>1, <2>4, <2>5, <2>6, QuietStep
<1>10. ASSUME NEW t \in Tab, Edit(t) PROVE Tables' /\ PagesSound'
    BY <1>10, EditStep
<1>11. ASSUME NEW t \in Tab, Reset(t) PROVE Tables' /\ PagesSound'
    BY <1>11, ResetStep
<1>12. CASE UNCHANGED vars
    <2>1. Tables' /\ (Copied <=> Copied')
        BY <1>0, <1>12, TablesSame DEF vars
    <2> QED BY <1>0, <1>12, <2>1 DEF vars, PagesSound, Sound
<1> QED
    BY <1>1, <1>2, <1>3, <1>4, <1>5, <1>6, <1>7, <1>8, <1>9, <1>10, <1>11, <1>12
    DEF Next, Calm, Migrate

LEMMA ShowsAlways == Spec => []ShowsInv
<1> QED BY ShowsInit, ShowsStep, PTL DEF Spec

LEMMA CopiesAreThere ==
    ASSUME TypeOK, Copied PROVE owed \subseteq ShowsOf(db[Attended])
BY NameAssumption DEF Copied, Others, ShowsOf, Present, TypeOK

(***************************************************************************)
(* For any number of pages, stores and shows, whatever fails and wherever  *)
(* a page is closed: an attended show of the previous application is in    *)
(* the current database or still in the previous one, until the user       *)
(* removes it or resets.                                                   *)
(***************************************************************************)
THEOREM ShowsAreKept == Spec => []OldShowsKept
<1>1. ShowsInv => OldShowsKept
    BY CopiesAreThere DEF ShowsInv, Tables, Still, Gone, OldShowsKept
<1> QED BY <1>1, ShowsAlways, PTL

(***************************************************************************)
(* Under the marker, verified or not, every such show has been copied.     *)
(***************************************************************************)
THEOREM MarkersMeanCopies == Spec => []MarkerMeansCopied
<1>1. ShowsInv => MarkerMeansCopied
    BY CopiesAreThere DEF ShowsInv, Tables, Marked, MarkerMeansCopied
<1> QED BY <1>1, ShowsAlways, PTL

-----------------------------------------------------------------------------
(***************************************************************************)
(* The migration implements the move of Cutover.                           *)
(***************************************************************************)
OldShows == ShowsOf(prev.rows[Attended])

Mapped == <<OldShows, CopiedShows, SavedShows, owed>>

\* What the two tables and the key of the application have to do with each other.
LEMMA TablesTyped ==
    ASSUME TypeOK
    PROVE  /\ db[Attended] \in [Key -> Value] /\ prev.rows[Attended] \in [Key -> Value]
           /\ AppKey \in Key /\ Others \subseteq Key /\ AppKey \notin Others
           /\ \A k \in Key : k = AppKey \/ k \in Others
           /\ NoRow \notin Show
BY NameAssumption, OrderType DEF TypeOK, Table, Others

\* A step that leaves the user's shows of both databases where they are.
LEMMA CutoverSame ==
    ASSUME prev'.rows = prev.rows, db'[Attended] = db[Attended], owed' = owed
    PROVE  UNCHANGED Mapped
BY DEF Mapped, OldShows, CopiedShows, SavedShows, ShowsOf, Present

LEMMA CutoverInit == Init => Moving!Init
<1> SUFFICES ASSUME Init PROVE Moving!Init
    OBVIOUS
<1>1. TypeOK
    BY TypeInit
<1>2. PICK p \in Previous : prev.rows = p /\ owed = ShowsOf(p[Attended])
    BY DEF Init
<1>3. \A k \in Key : db[Attended][k] = NoRow
    BY OrderType DEF Init, Empty
<1>4. CopiedShows = {} /\ SavedShows = {}
    BY <1>1, <1>3, TablesTyped DEF CopiedShows, SavedShows
<1>5. owed \subseteq Show
    BY <1>1 DEF TypeOK
<1> QED BY <1>2, <1>4, <1>5 DEF Moving!Init

\* The rows a page writes are shows of the previous database under keys of their
\* own, where the current one has nothing else; none of them is the saved show.
LEMMA WriteIsCopy ==
    ASSUME ShowsInv, NEW t \in Tab, WriteRows(t), Order[tab[t].at] = Attended
    PROVE  \E part \in SUBSET OldShows : Moving!Copy(part)
<1> DEFINE keys == tab[t].keys
           rows == prev.rows[Attended]
           part == {rows[k] : k \in keys}
<1>0. TypeOK
    BY DEF ShowsInv
<1>1. /\ tab[t].pc = "write" /\ UNCHANGED <<prev, owed>>
      /\ db' = [db EXCEPT ![Attended] = Put(db[Attended], keys, rows)]
      /\ ~Clash(Attended, db[Attended], keys, rows)
    BY DEF WriteRows
<1>2. Attended \in prev.stores /\ keys = First(Batch, Present(rows))
    BY <1>1 DEF ShowsInv, PagesSound, Sound
<1>3. db'[Attended] = Put(db[Attended], keys, rows)
    BY <1>0, <1>1, OrderType DEF TypeOK
<1>4. keys \subseteq Present(rows) /\ Present(rows) \subseteq Key
    BY <1>2 DEF First, Present
<1>5. rows[AppKey] = NoRow /\ \A k \in Key : rows[k] \in Show \cup {NoRow}
    BY DEF ShowsInv, Tables, OldKeys
<1>6. \A k \in Others : db[Attended][k] \in {NoRow, rows[k]}
    BY <1>2 DEF ShowsInv, Tables, Mirror
<1> HIDE DEF rows, keys
<1>7. \A k \in keys : k \in Others /\ rows[k] # NoRow
    BY <1>4, <1>5 DEF Others, Present
<1>8. \A k \in Key : db'[Attended][k] = IF k \in keys THEN rows[k] ELSE db[Attended][k]
    BY <1>3 DEF Put
<1>9. part \subseteq OldShows
    BY <1>4 DEF OldShows, ShowsOf, rows
<1>10. AppKey \notin keys /\ AppKey \in Key /\ Others \subseteq Key
    BY <1>0, <1>7, TablesTyped
<1>11. SavedShows' = SavedShows
    BY <1>8, <1>10 DEF SavedShows
<1>12. part \cap SavedShows = {}
    <2> SUFFICES ASSUME NEW k \in keys, rows[k] = db[Attended][AppKey] PROVE FALSE
        BY DEF SavedShows
    <2>1. AppKey \in Key \ {k} /\ k \in Key /\ rows[k] # NoRow
        BY <1>7, <1>10
    <2>2. rows[k] \in Show
        BY <1>5, <2>1
    <2>3. Index[Attended][rows[k]][AppKey] = Index[Attended][rows[k]][k]
        BY <2>1, <2>2, NameAssumption
    <2> QED BY <1>1, <1>10, <2>1, <2>3 DEF Clash
<1>13. CopiedShows' = CopiedShows \cup part
    <2>1. \A k \in keys : db'[Attended][k] = rows[k] /\ rows[k] # NoRow /\ k \in Others
        BY <1>7, <1>8, <1>10
    <2>2. \A k \in Others \ keys : db'[Attended][k] = db[Attended][k]
        BY <1>8, <1>10
    <2>3. \A k \in Others \cap keys : db[Attended][k] \in {NoRow, rows[k]}
        BY <1>6
    <2> QED BY <2>1, <2>2, <2>3 DEF CopiedShows
<1>14. OldShows' = OldShows /\ owed' = owed
    BY <1>1 DEF OldShows, ShowsOf, Present
<1> HIDE DEF part
<1> QED BY <1>9, <1>11, <1>12, <1>13, <1>14 DEF Moving!Copy, OldShows

\* A page deletes the previous database only when all that is owed has been copied.
LEMMA DeleteIsDrop ==
    ASSUME ShowsInv, NEW t \in Tab, DeletePrevious(t)
    PROVE  Moving!Drop
<1>0. TypeOK
    BY DEF ShowsInv
<1>1. tab[t].pc = "delete" /\ prev' = NoPrevious /\ UNCHANGED <<db, owed>>
    BY DEF DeletePrevious
<1>2. Copied
    BY <1>1 DEF ShowsInv, PagesSound, Sound
<1>3. owed \subseteq CopiedShows
    BY <1>0, <1>2, TablesTyped DEF Copied, CopiedShows, TypeOK
<1>4. prev'.rows[Attended] = Empty
    BY <1>1, OrderType DEF NoPrevious
<1>5. OldShows' = {}
    BY <1>4 DEF OldShows, ShowsOf, Present, Empty
<1>6. CopiedShows' = CopiedShows /\ SavedShows' = SavedShows
    BY <1>1 DEF CopiedShows, SavedShows
<1> QED BY <1>1, <1>3, <1>5, <1>6 DEF Moving!Drop, OldShows

\* A save overwrites the last one and no copied show.
LEMMA AddIsSave ==
    ASSUME TypeOK, NEW t \in Tab, NEW show \in Show, AddShow(t, show)
    PROVE  Moving!Save(show)
<1>t. /\ db[Attended] \in [Key -> Value] /\ AppKey \in Key /\ Others \subseteq Key
      /\ AppKey \notin Others /\ NoRow \notin Show
    BY TablesTyped
<1>1. /\ UNCHANGED <<prev, owed>>
      /\ db' = [db EXCEPT ![Attended][AppKey] = show]
      /\ ~Clash(Attended, db[Attended], {AppKey}, [k \in Key |-> show])
    BY DEF AddShow
<1>2. db'[Attended] = [db[Attended] EXCEPT ![AppKey] = show]
    BY <1>1, OrderType DEF TypeOK
<1>3. show \notin CopiedShows
    <2> SUFFICES ASSUME NEW k \in Others, db[Attended][k] = show PROVE FALSE
        BY DEF CopiedShows
    <2>1. k \in Key \ {AppKey} /\ k # AppKey /\ show # NoRow
        BY <1>t
    <2>2. Index[Attended][show][k] = Index[Attended][show][AppKey]
        BY <1>t, <2>1, NameAssumption
    <2> QED BY <1>1, <1>t, <2>1, <2>2 DEF Clash
<1>4. CopiedShows' = CopiedShows
    BY <1>2, <1>t DEF CopiedShows
<1>5. SavedShows' = {show}
    BY <1>2, <1>t DEF SavedShows
<1>6. OldShows' = OldShows
    BY <1>1 DEF OldShows, ShowsOf, Present
<1> QED BY <1>1, <1>3, <1>4, <1>5, <1>6 DEF Moving!Save, OldShows

LEMMA RemoveIsRemove ==
    ASSUME TypeOK, NEW t \in Tab, NEW show \in Show, RemoveShow(t, show)
    PROVE  Moving!Remove(show)
<1>t. /\ db[Attended] \in [Key -> Value] /\ AppKey \in Key /\ Others \subseteq Key
      /\ \A k \in Key : k = AppKey \/ k \in Others
      /\ NoRow \notin Show
    BY TablesTyped
<1>1. /\ prev' = prev /\ owed' = owed \ {show} /\ show \in ShowsOf(db[Attended])
      /\ db' = [db EXCEPT ![Attended] =
                  [k \in Key |-> IF db[Attended][k] = show THEN NoRow ELSE db[Attended][k]]]
    BY DEF RemoveShow
<1>2. \A k \in Key : db'[Attended][k] =
                         IF db[Attended][k] = show THEN NoRow ELSE db[Attended][k]
    BY <1>1, OrderType DEF TypeOK
<1>3. show \in CopiedShows \cup SavedShows
    BY <1>1, <1>t DEF ShowsOf, Present, CopiedShows, SavedShows
<1>4. CopiedShows' = CopiedShows \ {show}
    BY <1>2, <1>t DEF CopiedShows
<1>5. SavedShows' = SavedShows \ {show}
    BY <1>2, <1>t DEF SavedShows
<1>6. OldShows' = OldShows
    BY <1>1 DEF OldShows, ShowsOf, Present
<1> QED BY <1>1, <1>3, <1>4, <1>5, <1>6 DEF Moving!Remove, OldShows

LEMMA ResetIsReset ==
    ASSUME TypeOK, NEW t \in Tab, Reset(t)
    PROVE  Moving!Reset
<1>1. prev' = prev /\ owed' = {} /\ db' = [s \in Store |-> Empty]
    BY DEF Reset
<1>2. \A k \in Key : db'[Attended][k] = NoRow
    BY <1>1, OrderType DEF Empty
<1>3. CopiedShows' = {} /\ SavedShows' = {}
    BY <1>2, TablesTyped DEF CopiedShows, SavedShows
<1>4. OldShows' = OldShows
    BY <1>1 DEF OldShows, ShowsOf, Present
<1> QED BY <1>1, <1>3, <1>4 DEF Moving!Reset, OldShows

\* Every step of a page is a step of the move or none of it.
LEMMA CutoverStep == ShowsInv /\ [Next]_vars => [Moving!Next]_Mapped
<1> SUFFICES ASSUME ShowsInv, [Next]_vars PROVE Moving!Next \/ UNCHANGED Mapped
    OBVIOUS
<1>0. TypeOK /\ Attended \in Store
    BY OrderType DEF ShowsInv
<1>1. ASSUME NEW t \in Tab,
             \/ Load(t) \/ FindPrevious(t) \/ ReadMarker(t) \/ ReadRows(t) \/ WriteClashes(t)
             \/ CountRows(t) \/ CountFails(t) \/ WriteMarker(t) \/ Fail(t) \/ Crash(t)
      PROVE  UNCHANGED Mapped
    <2>1. UNCHANGED <<prev, db, owed>>
        BY <1>1 DEF Load, FindPrevious, ReadMarker, ReadRows, WriteClashes, CountRows,
                    CountFails, WriteMarker, Fail, Crash
    <2> QED BY <2>1, CutoverSame
<1>2. ASSUME NEW t \in Tab, OpenPrevious(t) PROVE UNCHANGED Mapped
    <2>1. prev'.rows = prev.rows /\ UNCHANGED <<db, owed>>
        BY <1>0, <1>2 DEF OpenPrevious, TypeOK
    <2> QED BY <2>1, CutoverSame
<1>3. ASSUME NEW t \in Tab, Import(t) \/ ImportClashes(t) PROVE UNCHANGED Mapped
    <2>1. UNCHANGED <<prev, owed>>
        BY <1>3 DEF Import, ImportClashes
    <2>2. db' = db \/ \E done : db' = Seeded(done)
        BY <1>3 DEF Import, ImportClashes
    <2>3. db'[Attended] = db[Attended]
        BY <1>0, <2>2, SeededType
    <2> QED BY <2>1, <2>3, CutoverSame
<1>4. ASSUME NEW t \in Tab, WriteRows(t) PROVE Moving!Next \/ UNCHANGED Mapped
    <2>1. CASE Order[tab[t].at] = Attended
        BY <1>4, <2>1, WriteIsCopy DEF Moving!Next, OldShows
    <2>2. CASE Order[tab[t].at] # Attended
        <3>1. UNCHANGED <<prev, owed>> /\ db'[Attended] = db[Attended]
            BY <1>0, <1>4, <2>2 DEF WriteRows, TypeOK
        <3> QED BY <3>1, CutoverSame
    <2> QED BY <2>1, <2>2
<1>5. ASSUME NEW t \in Tab, DeletePrevious(t) PROVE Moving!Next
    BY <1>5, DeleteIsDrop DEF Moving!Next
<1>6. ASSUME NEW t \in Tab, NEW show \in Show, AddShow(t, show) \/ RemoveShow(t, show)
      PROVE  Moving!Next
    BY <1>0, <1>6, AddIsSave, RemoveIsRemove DEF Moving!Next
<1>7. ASSUME NEW t \in Tab, Reset(t) PROVE Moving!Next
    BY <1>0, <1>7, ResetIsReset DEF Moving!Next
<1>8. CASE UNCHANGED vars
    BY <1>8, CutoverSame DEF vars
<1> QED
    BY <1>1, <1>2, <1>3, <1>4, <1>5, <1>6, <1>7, <1>8 DEF Next, Calm, Migrate, Edit

(***************************************************************************)
(* For any number of pages, stores, rows and shows: the migration is the   *)
(* move of Cutover, whatever its pages do at once and whatever fails.  No  *)
(* copy, import or save takes away a show that has been copied, and the    *)
(* previous database goes only when nothing in it is needed any more.      *)
(***************************************************************************)
THEOREM MigrationIsCutover == Spec => ImplementsCutover
<1> QED
    BY CutoverInit, CutoverStep, ShowsAlways, PTL
    DEF Spec, ImplementsCutover, Moving!Spec, Mapped, OldShows

-----------------------------------------------------------------------------
(***************************************************************************)
(* A store of a batch of rows or more stops every page before the marker:  *)
(* a page that goes on has passed only smaller ones.                       *)
(***************************************************************************)
NoneBig(i) == \A m \in DOMAIN Order : m < i => ~Big(Order[m])

Past(r) ==
    /\ r.pc \in {"read", "write"} => NoneBig(r.at)
    /\ r.pc = "count" => NoneBig(r.at + 1)
    /\ r.pc = "mark" => \A s \in Store : ~Big(s)

\* A store the previous database does not have has no rows.
Listed == \A s \in Store : Big(s) => s \in prev.stores

LargeInv == TypeOK /\ Listed /\ LargeStoresStay /\ \A t \in Tab : Past(tab[t])

\* A store without rows is smaller than a batch.
LEMMA EmptyIsSmall ==
    ASSUME NEW s \in Store, Present(prev.rows[s]) = {} PROVE ~Big(s)
BY FS_EmptySet, NameAssumption DEF Big, Count

LEMMA LargeInit == Init => LargeInv
<1> SUFFICES ASSUME Init PROVE LargeInv
    OBVIOUS
<1>1. PICK p \in Previous :
        prev = [exists |-> TRUE, rows |-> p,
                stores |-> {s \in Store : s = Attended \/ Present(p[s]) # {}}]
    BY DEF Init
<1>2. Listed
    <2> SUFFICES ASSUME NEW s \in Store, s \notin prev.stores PROVE ~Big(s)
        BY DEF Listed
    <2>1. Present(prev.rows[s]) = {}
        BY <1>1
    <2> QED BY <2>1, EmptyIsSmall
<1> QED BY <1>2, TypeInit DEF LargeInv, LargeStoresStay, Init, Leave, Past

\* A step of one page that leaves the rows of the previous database.
LEMMA LargeStep ==
    ASSUME LargeInv, NEW t \in Tab, NEW r, tab' = [tab EXCEPT ![t] = r],
           prev'.rows = prev.rows, prev'.stores = prev.stores, Past(r),
           marker' = marker \/ \A s \in Store : ~Big(s)
    PROVE  (Listed /\ LargeStoresStay /\ \A u \in Tab : Past(tab[u]))'
<1>1. \A s : Big(s)' <=> Big(s)
    BY DEF Big, Count, Present
<1>2. Listed'
    BY <1>1 DEF LargeInv, Listed
<1>3. LargeStoresStay'
    BY <1>1 DEF LargeInv, LargeStoresStay
<1>4. ASSUME NEW u \in Tab PROVE Past(tab[u])'
    <2>1. Past(tab'[u])
        BY DEF LargeInv, TypeOK
    <2> QED BY <1>1, <2>1 DEF Past, NoneBig
<1> QED BY <1>2, <1>3, <1>4

\* A page that is not between two stores has passed none.
LEMMA IdlePast ==
    ASSUME NEW r, r.pc \notin {"read", "write", "count", "mark"} PROVE Past(r)
BY DEF Past

\* Advance passes over no store that has rows.
LEMMA AdvancePast ==
    ASSUME LargeInv, NEW t \in Tab, NEW i \in Nat, NEW off, Advance(t, i, off), NoneBig(i)
    PROVE  \E r : tab' = [tab EXCEPT ![t] = r] /\ Past(r)
<1>n. /\ \A j \in DOMAIN Order : j \in Nat /\ Order[j] \in Store
      /\ \A s \in Store : \E j \in DOMAIN Order : Order[j] = s
    <2>1. \A j \in DOMAIN Order : j \in Nat
        BY OrderType
    <2> QED BY <2>1 DEF Store
<1>1. ASSUME NEW m \in DOMAIN Order, Big(Order[m]) PROVE m \in Rest(i)
    <2>1. Order[m] \in prev.stores
        BY <1>1, <1>n DEF LargeInv, Listed
    <2> QED BY <1>1, <1>n, <2>1 DEF NoneBig, Rest
<1>2. CASE Rest(i) = {} /\ tab' = [tab EXCEPT ![t] =
                 [pc |-> "mark", at |-> 0, keys |-> {}, off |-> off]]
    <2>1. \A s \in Store : ~Big(s)
        BY <1>1, <1>2, <1>n
    <2>2. Past([pc |-> "mark", at |-> 0, keys |-> {}, off |-> off])
        BY <2>1 DEF Past
    <2> QED BY <1>2, <2>2
<1>3. ASSUME NEW j \in Rest(i), \A l \in Rest(i) : j <= l,
             tab' = [tab EXCEPT ![t] = [pc |-> "read", at |-> j, keys |-> {}, off |-> off]]
      PROVE  \E r : tab' = [tab EXCEPT ![t] = r] /\ Past(r)
    <2>1. NoneBig(j)
        BY <1>1, <1>3, <1>n DEF NoneBig, Rest
    <2>2. Past([pc |-> "read", at |-> j, keys |-> {}, off |-> off])
        BY <2>1 DEF Past
    <2> QED BY <1>3, <2>2
<1> QED BY <1>2, <1>3 DEF Advance

LEMMA LargeNext == LargeInv /\ [Next]_vars => LargeInv'
<1> SUFFICES ASSUME LargeInv, [Next]_vars
             PROVE  (Listed /\ LargeStoresStay /\ \A u \in Tab : Past(tab[u]))'
    BY TypeStep DEF LargeInv
<1>0. TypeOK /\ \A t \in Tab : Past(tab[t])
    BY DEF LargeInv
<1> DEFINE Goal == (Listed /\ LargeStoresStay /\ \A u \in Tab : Past(tab[u]))'
<1>1. ASSUME NEW t \in Tab,
             \/ Load(t) \/ FindPrevious(t) \/ ReadMarker(t) \/ WriteClashes(t) \/ Fail(t)
             \/ Crash(t) \/ Import(t) \/ ImportClashes(t)
      PROVE  Goal
    <2>1. UNCHANGED <<prev, marker>>
        BY <1>1 DEF Load, FindPrevious, ReadMarker, WriteClashes, Fail, Crash, Import,
                    ImportClashes
    <2>2. \E l \in {"marker", "open", "import", "closed", "ready", "failed"} :
             \/ tab' = [tab EXCEPT ![t] = Start] \/ tab' = At(t, l)
             \/ tab' = [tab EXCEPT ![t] = Leave(l)]
        BY <1>1 DEF Load, FindPrevious, ReadMarker, WriteClashes, Fail, Crash, Import,
                    ImportClashes
    <2>3. PICK l \in {"marker", "open", "import", "closed", "ready", "failed"} :
             \/ tab' = [tab EXCEPT ![t] = Start]
             \/ tab' = [tab EXCEPT ![t] = [tab[t] EXCEPT !.pc = l]]
             \/ tab' = [tab EXCEPT ![t] = Leave(l)]
        BY <1>0, <2>2 DEF At, TypeOK
    <2>4. /\ [tab[t] EXCEPT !.pc = l].pc = l /\ Leave(l).pc = l /\ Start.pc = "check"
        BY <1>0 DEF TypeOK, Leave, Start
    <2>5. Past(Start) /\ Past([tab[t] EXCEPT !.pc = l]) /\ Past(Leave(l))
        BY <2>4, IdlePast
    <2> HIDE DEF Goal
    <2>6. CASE tab' = [tab EXCEPT ![t] = Start]
        BY <2>1, <2>5, <2>6, LargeStep DEF Goal
    <2>7. CASE tab' = [tab EXCEPT ![t] = [tab[t] EXCEPT !.pc = l]]
        BY <2>1, <2>5, <2>7, LargeStep DEF Goal
    <2>8. CASE tab' = [tab EXCEPT ![t] = Leave(l)]
        BY <2>1, <2>5, <2>8, LargeStep DEF Goal
    <2> QED BY <2>3, <2>6, <2>7, <2>8
<1>2. ASSUME NEW t \in Tab, OpenPrevious(t) PROVE Goal
    <2>1. prev'.rows = prev.rows /\ prev'.stores = prev.stores /\ marker' = marker
        BY <1>0, <1>2 DEF OpenPrevious, TypeOK
    <2>2. NoneBig(1)
        BY OrderType DEF NoneBig
    <2>3. PICK r : tab' = [tab EXCEPT ![t] = r] /\ Past(r)
        BY <1>2, <2>2, AdvancePast DEF OpenPrevious
    <2> QED BY <2>1, <2>3, LargeStep
<1>3. ASSUME NEW t \in Tab, ReadRows(t) PROVE Goal
    <2> DEFINE r == [tab[t] EXCEPT !.pc = "write",
                            !.keys = First(Batch, Present(prev.rows[Order[tab[t].at]]))]
    <2>1. tab[t].pc = "read" /\ UNCHANGED <<prev, marker>>
        BY <1>3 DEF ReadRows
    <2>2. r.pc = "write" /\ r.at = tab[t].at
        BY <1>0 DEF TypeOK
    <2>3. tab' = [tab EXCEPT ![t] = r]
        BY <1>0, <1>3 DEF ReadRows, TypeOK
    <2>4. Past(r)
        BY <1>0, <2>1, <2>2 DEF Past
    <2> HIDE DEF r
    <2> QED BY <2>1, <2>3, <2>4, LargeStep
<1>4. ASSUME NEW t \in Tab, WriteRows(t) PROVE Goal
    <2> DEFINE r == [tab[t] EXCEPT !.pc = "count"]
    <2>1. tab[t].pc = "write" /\ UNCHANGED <<prev, marker>>
        BY <1>4 DEF WriteRows
    <2>2. CASE Big(Order[tab[t].at])
        <3>1. tab' = [tab EXCEPT ![t] = Leave("import")] /\ Leave("import").pc = "import"
            BY <1>4, <2>2 DEF WriteRows, Leave
        <3>2. Past(Leave("import"))
            BY <3>1, IdlePast
        <3> QED BY <2>1, <3>1, <3>2, LargeStep
    <2>3. CASE ~Big(Order[tab[t].at])
        <3>1. tab' = [tab EXCEPT ![t] = r]
            BY <1>0, <1>4, <2>3 DEF WriteRows, At, TypeOK
        <3>2. r.pc = "count" /\ r.at = tab[t].at /\ tab[t].at \in Nat
            BY <1>0, OrderType DEF TypeOK
        <3>3. NoneBig(tab[t].at)
            BY <1>0, <2>1 DEF Past
        <3>4. NoneBig(tab[t].at + 1)
            <4> SUFFICES ASSUME NEW m \in DOMAIN Order, m < tab[t].at + 1
                         PROVE  ~Big(Order[m])
                BY DEF NoneBig
            <4>1. m = tab[t].at \/ m < tab[t].at
                BY <3>2, OrderType
            <4> QED BY <2>3, <3>3, <4>1 DEF NoneBig
        <3> HIDE DEF r
        <3>5. Past(r)
            BY <3>2, <3>4 DEF Past
        <3> QED BY <2>1, <3>1, <3>5, LargeStep
    <2> QED BY <2>2, <2>3
<1>5. ASSUME NEW t \in Tab, CountRows(t) \/ CountFails(t) PROVE Goal
    <2>1. tab[t].pc = "count" /\ UNCHANGED <<prev, marker>>
        BY <1>5 DEF CountRows, CountFails
    <2>2. PICK off : Advance(t, tab[t].at + 1, off)
        BY <1>5 DEF CountRows, CountFails
    <2>3. tab[t].at + 1 \in Nat /\ NoneBig(tab[t].at + 1)
        BY <1>0, <2>1, OrderType DEF Past, TypeOK
    <2>4. PICK r : tab' = [tab EXCEPT ![t] = r] /\ Past(r)
        BY <2>2, <2>3, AdvancePast
    <2> QED BY <2>1, <2>4, LargeStep
<1>6. ASSUME NEW t \in Tab, WriteMarker(t) PROVE Goal
    <2>1. tab[t].pc = "mark" /\ prev' = prev
        BY <1>6 DEF WriteMarker
    <2>2. \A s \in Store : ~Big(s)
        BY <1>0, <2>1 DEF Past
    <2>3. PICK l \in {"import", "delete"} : tab' = [tab EXCEPT ![t] = Leave(l)]
        BY <1>6 DEF WriteMarker
    <2>4. Past(Leave(l))
        BY <2>3, IdlePast DEF Leave
    <2> QED BY <2>1, <2>2, <2>3, <2>4, LargeStep
<1>7. ASSUME NEW t \in Tab, DeletePrevious(t) PROVE Goal
    <2>1. \A s \in Store : prev'.rows[s] = Empty
        BY <1>7 DEF DeletePrevious, NoPrevious
    <2>2. \A s \in Store : (Present(prev.rows[s]) = {})'
        BY <2>1 DEF Present, Empty
    <2>3. ASSUME NEW s \in Store PROVE ~Big(s)'
        <3>1. Count(prev.rows[s])' = 0
            BY <2>2, FS_EmptySet DEF Count
        <3> QED BY <3>1, NameAssumption DEF Big
    <2>4. \A m \in DOMAIN Order : Order[m] \in Store
        BY OrderType
    <2> QED BY <2>3, <2>4 DEF Listed, LargeStoresStay, Past, NoneBig
<1>8. ASSUME NEW t \in Tab, Edit(t) PROVE Goal
    <2>1. UNCHANGED <<prev, marker, tab>>
        BY <1>8 DEF Edit, AddShow, RemoveShow
    <2> QED BY <2>1 DEF LargeInv, Listed, LargeStoresStay, Past, NoneBig, Big, Count, Present
<1>9. ASSUME NEW t \in Tab, Reset(t) PROVE Goal
    <2>1. prev' = prev /\ marker' = "none"
        BY <1>9 DEF Reset
    <2>2. \A s : Big(s)' <=> Big(s)
        BY <2>1 DEF Big, Count, Present
    <2>3. \A u \in Tab : tab'[u].pc \notin {"read", "write", "count", "mark"}
        BY <1>9 DEF Reset, Start, Leave
    <2> QED BY <2>1, <2>2, <2>3 DEF LargeInv, Listed, LargeStoresStay, Past
<1>10. CASE UNCHANGED vars
    BY <1>10 DEF vars, LargeInv, Listed, LargeStoresStay, Past, NoneBig, Big, Count, Present
<1> QED
    BY <1>1, <1>2, <1>3, <1>4, <1>5, <1>6, <1>7, <1>8, <1>9, <1>10
    DEF Next, Calm, Migrate

(***************************************************************************)
(* However many pages, stores and rows, and whatever fails: a previous     *)
(* database with a store of a batch of rows or more is never migrated.     *)
(***************************************************************************)
THEOREM LargeStoresAreLeft == Spec => []LargeStoresStay
<1>1. LargeInv => LargeStoresStay
    BY DEF LargeInv
<1> QED BY <1>1, LargeInit, LargeNext, PTL DEF Spec
=============================================================================
