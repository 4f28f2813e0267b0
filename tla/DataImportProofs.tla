-------------------------- MODULE DataImportProofs --------------------------
(***************************************************************************)
(* Type correctness of DataImport, for every value of its constants: the   *)
(* type invariant is inductive once the label of a page tells which of its *)
(* registers are in use.                                                   *)
(***************************************************************************)
EXTENDS DataImport, TLAPS

-----------------------------------------------------------------------------
\* Which release and which work item a page works on, as far as its label tells.
Busy == PC \ {"closed", "manifest", "failed"}

Control(r) ==
    /\ r.pc \in Busy => r.man \in Version
    /\ r.pc \in {"fetch", "empty", "write", "persist"}
         => r.item \in 1..Len(Work[r.man])
    /\ r.pc \in {"write", "persist"} => r.got \in Version

Typed ==
    /\ TypeOK
    /\ ckpt.v # None => ckpt.item \in Nat \ {0}
    /\ \A t \in Tab : Control(tab[t])

-----------------------------------------------------------------------------
\* Lesser is a minimum.
LEMMA LesserNat ==
    ASSUME NEW a \in Nat, NEW b \in Nat
    PROVE  Lesser(a, b) \in Nat /\ Lesser(a, b) <= a /\ Lesser(a, b) <= b
BY DEF Lesser

\* A file of n > 0 rows has at least one chunk.
LEMMA ChunkTotalNat ==
    ASSUME NEW n \in Nat
    PROVE  /\ ImportChunkSize(n) \in Nat \ {0}
           /\ ChunkTotal(n) \in Nat
           /\ n > 0 => ChunkTotal(n) >= 1
<1>1. ImportChunkSize(n) \in Nat \ {0}
  BY ChunkAssumption DEF ImportChunkSize
<1>2. \A d \in Nat \ {0}, a \in Nat : a \div d \in Nat /\ (a >= d => a \div d >= 1)
  OBVIOUS
<1>3. n + ImportChunkSize(n) - 1 \in Nat
  BY <1>1
<1>4. n > 0 => n + ImportChunkSize(n) - 1 >= ImportChunkSize(n)
  BY <1>1
<1> QED
  BY <1>1, <1>2, <1>3, <1>4 DEF ChunkTotal

\* The chunk a resumed import starts with is a chunk of the file, and not one
\* after the checkpoint's.
LEMMA StartChunkNat ==
    ASSUME NEW n \in Nat, NEW hint \in Nat
    PROVE  /\ StartChunk(hint, n) \in Nat
           /\ StartChunk(hint, n) <= hint
           /\ StartRow(hint, n) \in Nat
<1>1. CASE n = 0
  BY <1>1, ChunkTotalNat DEF StartChunk, StartRow
<1>2. CASE n > 0
  <2>1. ChunkTotal(n) - 1 \in Nat
    BY <1>2, ChunkTotalNat
  <2>2. StartChunk(hint, n) \in Nat /\ StartChunk(hint, n) <= hint
    BY <1>2, <2>1 DEF StartChunk, Lesser
  <2> QED
    BY <2>2, ChunkTotalNat DEF StartRow
<1> QED
  BY <1>1, <1>2

\* A release's work items are files, and a file's rows are keys.
LEMMA ReleaseTypes ==
    ASSUME NEW v \in Version
    PROVE  /\ Work[v] \in Seq(File) /\ Len(Work[v]) \in Nat
           /\ \A i \in 1..Len(Work[v]) : Work[v][i] \in File
           /\ \A f \in File : Rows[v][f] \in Seq(Key) /\ Len(Rows[v][f]) \in Nat
           /\ v \in 0..MaxVersion /\ v # None
BY ReleaseAssumption DEF Version, None

-----------------------------------------------------------------------------
\* A step of the system is one of these actions.
LEMMA NextCases ==
    ASSUME Next
    PROVE  \/ \E t \in Tab, ok \in BOOLEAN :
                \/ LoadPage(t) \/ ManifestFails(t)
                \/ ReadMarker(t, ok) \/ VerifyExisting(t, ok)
                \/ ClearStore(t, ok) \/ DropMarker(t, ok) \/ DropCheckpoint(t, ok)
                \/ ReadCheckpoint(t, ok) \/ FetchFails(t)
                \/ EmptyFile(t, ok) \/ PutBatch(t) \/ PutFails(t) \/ PutClashes(t)
                \/ EndChunk(t, ok)
                \/ PutMarker(t, ok) \/ PutCompleted(t, ok) \/ VerifyImport(t, ok)
                \/ Crash(t) \/ ResetData(t)
           \/ \E t \in Tab, v \in 1..served :
                ManifestArrives(t, v) \/ FileArrives(t, v) \/ FileGone(t, v)
           \/ \E v \in Version : Deploy(v)
BY Zenon DEF Next, Proceed, Stored, Asked, NetworkFault, StorageFault

\* What a cache holds is of a release.
LEMMA ServedSoFar == ASSUME Typed PROVE 1..served \subseteq Version
BY ReleaseAssumption DEF Typed, TypeOK, Version

\* The history names releases, too.
LEMMA MixedTyped == ASSUME Typed, [Next]_vars PROVE mixed' \subseteq Version
<1>1. mixed \subseteq Version /\ Vouched \subseteq Version
  BY DEF Typed, TypeOK, Vouched
<1>2. ASSUME NEW t \in Tab, NEW v \in 1..served, FileArrives(t, v)
      PROVE  mixed' \subseteq Version
  <2>1. tab[t].man \in Version
    BY <1>2 DEF FileArrives, Typed, TypeOK, Control, Busy, PC
  <2> QED
    BY <1>1, <1>2, <2>1 DEF FileArrives
<1>3. ASSUME NEW t \in Tab, PutBatch(t) PROVE mixed' \subseteq Version
  BY <1>1, <1>3 DEF PutBatch
<1>4. ASSUME NEW t \in Tab, NEW ok \in BOOLEAN, ReadCheckpoint(t, ok)
      PROVE  mixed' \subseteq Version
  BY <1>1, <1>4 DEF ReadCheckpoint
<1>5. ASSUME NEW t \in Tab, ResetData(t) PROVE mixed' \subseteq Version
  BY <1>5 DEF ResetData
<1>6. CASE UNCHANGED mixed
  BY <1>1, <1>6
<1>7. ASSUME NEW t \in Tab, NEW ok \in BOOLEAN,
             \/ LoadPage(t) \/ ManifestFails(t)
             \/ ReadMarker(t, ok) \/ VerifyExisting(t, ok)
             \/ ClearStore(t, ok) \/ DropMarker(t, ok) \/ DropCheckpoint(t, ok)
             \/ FetchFails(t) \/ EmptyFile(t, ok) \/ PutFails(t) \/ PutClashes(t)
             \/ EndChunk(t, ok) \/ PutMarker(t, ok) \/ PutCompleted(t, ok)
             \/ VerifyImport(t, ok) \/ Crash(t)
      PROVE  UNCHANGED mixed
  BY <1>7 DEF LoadPage, ManifestFails, ReadMarker, VerifyExisting, ClearStore,
     DropMarker, DropCheckpoint, FetchFails, EmptyFile, PutFails, PutClashes, EndChunk,
     PutMarker, PutCompleted, VerifyImport, Crash
<1>8. ASSUME NEW t \in Tab, NEW v \in 1..served, ManifestArrives(t, v) \/ FileGone(t, v)
      PROVE  UNCHANGED mixed
  BY <1>8 DEF ManifestArrives, FileGone
<1>9. ASSUME NEW v \in Version, Deploy(v) PROVE UNCHANGED mixed
  BY <1>9 DEF Deploy
<1>10. CASE UNCHANGED vars
  BY <1>6, <1>10 DEF vars
<1>11. CASE Next
  BY <1>2, <1>3, <1>4, <1>5, <1>6, <1>7, <1>8, <1>9, <1>11, NextCases
<1> QED
  BY <1>10, <1>11

\* A page whose state becomes r, and the others, are typed as before.
LEMMA TabTyped ==
    ASSUME tab \in [Tab -> TabState], \A u \in Tab : Control(tab[u]),
           NEW t \in Tab, NEW r \in TabState, Control(r),
           tab' = [tab EXCEPT ![t] = r]
    PROVE  tab' \in [Tab -> TabState] /\ \A u \in Tab : Control(tab'[u])
<1>1. tab' \in [Tab -> TabState]
  OBVIOUS
<1>2. \A u \in Tab : tab'[u] = r \/ tab'[u] = tab[u]
  OBVIOUS
<1> QED
  BY <1>1, <1>2

\* A page that only changes its label is typed when the label's demands are met.
LEMMA GotoTyped ==
    ASSUME Typed, NEW t \in Tab, NEW l \in PC, Goto(t, l),
           Control([tab[t] EXCEPT !.pc = l])
    PROVE  tab' \in [Tab -> TabState] /\ \A u \in Tab : Control(tab'[u])
<1>1. tab[t] \in TabState
  BY DEF Typed, TypeOK
<1>2. [tab[t] EXCEPT !.pc = l] \in TabState
  BY <1>1 DEF TabState
<1>3. tab' = [tab EXCEPT ![t] = [tab[t] EXCEPT !.pc = l]]
  BY DEF Goto
<1> QED
  BY <1>2, <1>3, TabTyped DEF Typed, TypeOK

\* The next work item.
LEMMA NextItemTyped ==
    ASSUME Typed, NEW t \in Tab, GotoNextItem(t), tab[t].man \in Version
    PROVE  tab' \in [Tab -> TabState] /\ \A u \in Tab : Control(tab'[u])
<1> DEFINE r == [tab[t] EXCEPT !.pc = AtItem(tab[t].man, tab[t].item + 1),
                               !.item = tab[t].item + 1, !.chunk = 0, !.pos = 0,
                               !.lim = 0, !.got = None]
<1>1. tab[t] \in TabState
  BY DEF Typed, TypeOK
<1>2. Len(Work[tab[t].man]) \in Nat
  BY ReleaseTypes
<1>3. r \in TabState
  <2>1. AtItem(tab[t].man, tab[t].item + 1) \in PC
    BY DEF AtItem, PC
  <2>2. tab[t].item + 1 \in Nat /\ None \in 0..MaxVersion
    BY <1>1, ReleaseAssumption DEF TabState, None
  <2> QED
    BY <1>1, <2>1, <2>2 DEF TabState
<1>4. Control(r)
  <2>1. r.man = tab[t].man /\ r.item = tab[t].item + 1 /\ r.item \in Nat \ {0}
    BY <1>1 DEF TabState
  <2>2. r.pc = IF r.item <= Len(Work[r.man]) THEN "fetch" ELSE "complete"
    BY <1>1, <2>1 DEF TabState, AtItem
  <2> QED
    BY <1>2, <2>1, <2>2 DEF Control
<1>5. tab' = [tab EXCEPT ![t] = r]
  BY DEF GotoNextItem
<1> HIDE DEF r
<1> QED
  BY <1>3, <1>4, <1>5, TabTyped DEF Typed, TypeOK

\* The next chunk.
LEMMA ChunkTyped ==
    ASSUME Typed, NEW t \in Tab, NEW c \in Nat, NEW p \in Nat, NEW v \in Version,
           tab[t].pc \in {"fetch", "persist"}, GotoChunk(t, c, p, v)
    PROVE  tab' \in [Tab -> TabState] /\ \A u \in Tab : Control(tab'[u])
<1> DEFINE n == Len(Rows[v][ThisFile(t)])
<1>1. tab[t] \in TabState /\ Control(tab[t])
  BY DEF Typed, TypeOK
<1>2. tab[t].man \in Version /\ tab[t].item \in 1..Len(Work[tab[t].man])
  BY <1>1 DEF Control, Busy, PC
<1>3. n \in Nat
  BY <1>2, ReleaseTypes DEF ThisFile
<1>4. PICK size \in IF tuned THEN AdaptiveChunks ELSE {ImportChunkSize(n)} :
         tab' = [tab EXCEPT ![t] =
                   [tab[t] EXCEPT !.pc = "write", !.chunk = c, !.pos = p,
                                  !.lim = Lesser(p + size, n), !.got = v]]
  BY DEF GotoChunk
<1>5. size \in Nat
  BY <1>3, ChunkAssumption, ChunkTotalNat
<1> DEFINE r == [tab[t] EXCEPT !.pc = "write", !.chunk = c, !.pos = p,
                               !.lim = Lesser(p + size, n), !.got = v]
<1>6. Lesser(p + size, n) \in Nat
  BY <1>3, <1>5 DEF Lesser
<1>7. r \in TabState
  BY <1>1, <1>6, ReleaseTypes DEF TabState, PC
<1>8. Control(r)
  <2>1. r.man = tab[t].man /\ r.item = tab[t].item /\ r.got = v
    BY <1>1 DEF TabState
  <2> QED
    BY <1>2, <2>1 DEF Control
<1> HIDE DEF r
<1> QED
  BY <1>4, <1>7, <1>8, TabTyped DEF Typed, TypeOK, r

-----------------------------------------------------------------------------
\* The invariant holds at first.
LEMMA TypedInit == Init => Typed
<1> SUFFICES ASSUME Init PROVE Typed
  OBVIOUS
<1>1. None \in 0..MaxVersion /\ Version \subseteq 0..MaxVersion
  BY ReleaseAssumption DEF None, Version
<1>2. db \in [Store -> [Key -> 0..MaxVersion]]
  BY <1>1 DEF Init
<1>3. marker \in 0..MaxVersion /\ served \in Version /\ tuned \in BOOLEAN
  BY <1>1 DEF Init
<1>4. NoCheckpoint \in Checkpoint
  BY <1>1 DEF NoCheckpoint, Checkpoint
<1>5. Closed \in TabState /\ Control(Closed)
  BY <1>1 DEF Closed, TabState, PC, Control, Busy
<1>6. tab \in [Tab -> TabState] /\ \A t \in Tab : tab[t] = Closed
  BY <1>5 DEF Init
<1>7. ckpt = NoCheckpoint /\ ckpt.v = None
  BY DEF Init, NoCheckpoint
<1> QED
  BY <1>2, <1>3, <1>4, <1>5, <1>6, <1>7 DEF Init, Typed, TypeOK

\* A step of Typed keeps the invariant.
LEMMA TypedStep == Typed /\ [Next]_vars => Typed'
<1> SUFFICES ASSUME Typed, [Next]_vars PROVE Typed'
  OBVIOUS
<1> DEFINE TabGood == tab' \in [Tab -> TabState] /\ \A u \in Tab : Control(tab'[u])
           Ckpt(c) == c \in Checkpoint /\ (c.v # None => c.item \in Nat \ {0})
<1>1. None \in 0..MaxVersion /\ Version \subseteq 0..MaxVersion
  BY ReleaseAssumption DEF None, Version
<1>2. Ckpt(ckpt) /\ Ckpt(NoCheckpoint)
  BY <1>1 DEF Typed, TypeOK, NoCheckpoint, Checkpoint
<1>3. Closed \in TabState /\ Control(Closed)
  BY <1>1 DEF Closed, TabState, PC, Control, Busy
<1>4. [Closed EXCEPT !.pc = "manifest"] \in TabState
  BY <1>3 DEF TabState, PC
<1>5. Control([Closed EXCEPT !.pc = "manifest"])
  BY DEF Closed, Control, Busy, PC
<1>0. mixed' \subseteq Version
  BY MixedTyped
<1>6. ASSUME TabGood, Ckpt(ckpt'), UNCHANGED <<db, marker, served, tuned>>
      PROVE  Typed'
  BY <1>0, <1>6 DEF Typed, TypeOK
<1>7. ASSUME TabGood, UNCHANGED <<db, marker, ckpt, served, tuned>>
      PROVE  Typed'
  BY <1>0, <1>7 DEF Typed, TypeOK
<1> HIDE DEF TabGood, Ckpt
<1>LoadPage. ASSUME NEW t \in Tab, LoadPage(t) PROVE Typed'
  <2>1. TabGood
    BY <1>LoadPage, <1>4, <1>5, TabTyped DEF LoadPage, TabGood, Typed, TypeOK
  <2> QED
    BY <1>LoadPage, <1>7, <2>1 DEF LoadPage
<1>Label. ASSUME NEW t \in Tab, NEW l \in PC, Goto(t, l),
             l \in Busy => tab[t].man \in Version,
             l = "empty" => tab[t].pc = "fetch",
             l \notin {"fetch", "write", "persist"}
      PROVE  TabGood
  <2>1. tab[t] \in TabState /\ Control(tab[t])
    BY DEF Typed, TypeOK
  <2> DEFINE r == [tab[t] EXCEPT !.pc = l]
  <2>2. r.pc = l /\ r.man = tab[t].man /\ r.item = tab[t].item
    BY <2>1 DEF TabState
  <2>3. Control(r)
    BY <1>Label, <2>1, <2>2 DEF Control
  <2> HIDE DEF r
  <2> QED
    BY <1>Label, <2>3, GotoTyped DEF TabGood, r
<1>ManifestArrives. ASSUME NEW t \in Tab, NEW v \in Version, ManifestArrives(t, v)
      PROVE  Typed'
  <2>1. tab[t] \in TabState
    BY DEF Typed, TypeOK
  <2> DEFINE r == [tab[t] EXCEPT !.pc = "marker", !.man = v]
  <2>2. r \in TabState /\ Control(r)
    BY <1>1, <2>1 DEF TabState, PC, Control
  <2>3. tab' = [tab EXCEPT ![t] = r]
    BY <1>ManifestArrives DEF ManifestArrives
  <2> HIDE DEF r
  <2>4. TabGood
    BY <2>2, <2>3, TabTyped DEF TabGood, Typed, TypeOK
  <2> QED
    BY <1>ManifestArrives, <1>7, <2>4 DEF ManifestArrives
<1>Facts. \A t \in Tab :
                     /\ tab[t].pc \notin {"closed", "manifest", "failed", "ready"}
                          => tab[t].man \in Version
                     /\ tab[t].pc \in {"fetch", "empty", "write", "persist"} =>
                          /\ tab[t].item \in 1..Len(Work[tab[t].man])
                          /\ tab[t].item \in Nat \ {0}
                     /\ tab[t] \in TabState
  BY ReleaseTypes DEF Typed, TypeOK, Control, TabState, Busy, PC
<1>Fail. ASSUME NEW t \in Tab, NEW v \in Version,
             \/ ManifestFails(t) \/ FileGone(t, v) \/ FetchFails(t)
             \/ PutFails(t) \/ PutClashes(t)
      PROVE  Typed'
  <2>1. Goto(t, "failed") /\ UNCHANGED <<db, marker, ckpt, served, tuned>>
    BY <1>Fail DEF ManifestFails, FileGone, FetchFails, PutFails, PutClashes
  <2>2. TabGood
    BY <2>1, <1>Label DEF PC, Busy
  <2> QED
    BY <1>7, <2>1, <2>2
<1>ReadMarker. ASSUME NEW t \in Tab, NEW ok \in BOOLEAN, ReadMarker(t, ok) PROVE Typed'
  <2>1. PICK l \in {"verify", "resume"} : Goto(t, l)
    BY <1>ReadMarker DEF ReadMarker
  <2>2. TabGood
    BY <2>1, <1>Label, <1>Facts, <1>ReadMarker DEF PC, Busy, ReadMarker
  <2> QED
    BY <1>ReadMarker, <1>7, <2>2 DEF ReadMarker
<1>VerifyExisting. ASSUME NEW t \in Tab, NEW ok \in BOOLEAN, VerifyExisting(t, ok) PROVE Typed'
  <2>1. CASE Goto(t, "ready")
    <3>1. TabGood
      BY <2>1, <1>Label, <1>Facts, <1>VerifyExisting DEF PC, Busy, VerifyExisting
    <3> QED
      BY <1>VerifyExisting, <1>7, <3>1 DEF VerifyExisting
  <2>2. CASE tab' = [tab EXCEPT ![t] = [tab[t] EXCEPT !.pc = "clear", !.clr = 1]]
    <3> DEFINE r == [tab[t] EXCEPT !.pc = "clear", !.clr = 1]
    <3>1. tab[t].man \in Version /\ tab[t] \in TabState
      BY <1>Facts, <1>VerifyExisting DEF VerifyExisting, Busy, PC
    <3>2. r \in TabState /\ Control(r)
      BY <3>1 DEF TabState, PC, Control
    <3> HIDE DEF r
    <3>3. TabGood
      BY <2>2, <3>2, TabTyped DEF TabGood, Typed, TypeOK, r
    <3> QED
      BY <1>VerifyExisting, <1>7, <3>3 DEF VerifyExisting
  <2> QED
    BY <1>VerifyExisting, <2>1, <2>2 DEF VerifyExisting
<1>ClearStore. ASSUME NEW t \in Tab, NEW ok \in BOOLEAN, ClearStore(t, ok) PROVE Typed'
  <2>1. db' \in [Store -> [Key -> 0..MaxVersion]]
    BY <1>1, <1>ClearStore DEF ClearStore, Typed, TypeOK
  <2>2. PICK l \in {"clear", "dropMarker"} :
            tab' = [tab EXCEPT ![t] = [tab[t] EXCEPT !.pc = l, !.clr = tab[t].clr + 1]]
    BY <1>ClearStore DEF ClearStore
  <2> DEFINE r == [tab[t] EXCEPT !.pc = l, !.clr = tab[t].clr + 1]
  <2>3. tab[t].man \in Version /\ tab[t] \in TabState
    BY <1>Facts, <1>ClearStore DEF ClearStore, Busy, PC
  <2>4. r \in TabState /\ Control(r)
    <3>1. l \in PC /\ tab[t].clr + 1 \in Nat
      BY <2>3 DEF PC, TabState
    <3>2. r \in TabState /\ r.pc = l /\ r.man = tab[t].man
      BY <2>3, <3>1 DEF TabState
    <3> QED
      BY <2>3, <3>2 DEF Control
  <2> HIDE DEF r
  <2>5. TabGood
    BY <2>2, <2>4, TabTyped DEF TabGood, Typed, TypeOK, r
  <2> QED
    BY <1>0, <1>ClearStore, <2>1, <2>5 DEF ClearStore, TabGood, Typed, TypeOK
<1>Marker. ASSUME NEW t \in Tab, NEW ok \in BOOLEAN, DropMarker(t, ok) \/ PutMarker(t, ok)
      PROVE  Typed'
  <2>1. tab[t].man \in Version
    BY <1>Facts, <1>Marker DEF DropMarker, PutMarker, Busy, PC
  <2>2. marker' \in 0..MaxVersion
    BY <1>1, <1>Marker, <2>1 DEF DropMarker, PutMarker, Typed, TypeOK
  <2>3. PICK l \in {"dropCkpt", "seal"} : Goto(t, l)
    BY <1>Marker DEF DropMarker, PutMarker
  <2>4. TabGood
    BY <2>1, <2>3, <1>Label DEF PC
  <2> QED
    BY <1>0, <1>Marker, <2>2, <2>4 DEF DropMarker, PutMarker, TabGood, Typed, TypeOK
<1>DropCheckpoint. ASSUME NEW t \in Tab, NEW ok \in BOOLEAN, DropCheckpoint(t, ok) PROVE Typed'
  <2>1. TabGood
    BY <1>Label, <1>Facts, <1>DropCheckpoint DEF DropCheckpoint, Busy, PC
  <2>2. Ckpt(ckpt')
    BY <1>2, <1>DropCheckpoint DEF DropCheckpoint
  <2> QED
    BY <1>6, <1>DropCheckpoint, <2>1, <2>2 DEF DropCheckpoint
<1>ReadCheckpoint. ASSUME NEW t \in Tab, NEW ok \in BOOLEAN, ReadCheckpoint(t, ok) PROVE Typed'
  <2> DEFINE man == tab[t].man
             usable == ok /\ ckpt.v = man /\ ~ckpt.done
             first == IF usable THEN Lesser(ckpt.item, Len(Work[man]) + 1) ELSE 1
             r == [tab[t] EXCEPT !.pc = AtItem(man, first), !.item = first,
                                 !.chunk = IF usable THEN ckpt.chunk ELSE 0,
                                 !.pos = IF usable THEN ckpt.off ELSE 0]
  <2>1. man \in Version /\ tab[t] \in TabState
    BY <1>Facts, <1>ReadCheckpoint DEF ReadCheckpoint, Busy, PC
  <2>2. Len(Work[man]) \in Nat /\ man # None
    BY <2>1, ReleaseTypes
  <2>3. ckpt.chunk \in Nat /\ ckpt.off \in Nat /\ (usable => ckpt.item \in Nat \ {0})
    BY <1>2, <2>2 DEF Ckpt, Checkpoint
  <2>4. first \in Nat \ {0}
    BY <2>2, <2>3 DEF Lesser
  <2>5. AtItem(man, first) \in PC
    BY DEF AtItem, PC
  <2>6. r \in TabState
    BY <2>1, <2>3, <2>4, <2>5 DEF TabState
  <2>7. r.pc = AtItem(man, first) /\ r.man = man /\ r.item = first
    BY <2>1 DEF TabState
  <2>8. Control(r)
    BY <2>1, <2>2, <2>4, <2>7 DEF Control, AtItem
  <2>9. tab' = [tab EXCEPT ![t] = r]
    BY <1>ReadCheckpoint DEF ReadCheckpoint
  <2> HIDE DEF r
  <2>10. TabGood
    BY <2>6, <2>8, <2>9, TabTyped DEF TabGood, Typed, TypeOK
  <2> QED
    BY <1>7, <1>ReadCheckpoint, <2>10 DEF ReadCheckpoint
<1>NextItem. ASSUME NEW t \in Tab, GotoNextItem(t), tab[t].man \in Version PROVE TabGood
  BY <1>NextItem, NextItemTyped DEF TabGood
<1>FileArrives. ASSUME NEW t \in Tab, NEW v \in Version, FileArrives(t, v)
      PROVE  Typed'
  <2> DEFINE n == Len(Rows[v][ThisFile(t)])
  <2>1. /\ tab[t].pc = "fetch" /\ tab[t].man \in Version /\ tab[t] \in TabState
        /\ tab[t].item \in 1..Len(Work[tab[t].man])
    BY <1>Facts, <1>FileArrives DEF FileArrives, Busy, PC, Typed, TypeOK
  <2>2. n \in Nat
    BY <2>1, ReleaseTypes DEF ThisFile
  <2>3. tab[t].chunk \in Nat /\ tab[t].pos \in Nat
    BY <2>1 DEF TabState
  <2>4. StartChunk(tab[t].chunk, n) \in Nat /\ StartRow(tab[t].chunk, n) \in Nat
    BY <2>2, <2>3, StartChunkNat
  <2>5. CASE Goto(t, "empty")
    BY <2>1, <2>5, <1>Label, <1>7, <1>FileArrives DEF PC, FileArrives
  <2>6. CASE GotoChunk(t, StartChunk(tab[t].chunk, n), StartRow(tab[t].chunk, n), v)
    BY <2>1, <2>4, <2>6, <1>7, <1>FileArrives, ChunkTyped DEF FileArrives, TabGood
  <2>7. CASE GotoChunk(t, tab[t].chunk, tab[t].pos, v)
    BY <2>1, <2>3, <2>7, <1>7, <1>FileArrives, ChunkTyped DEF FileArrives, TabGood
  <2>8. CASE GotoNextItem(t)
    BY <2>1, <2>8, <1>NextItem, <1>7, <1>FileArrives DEF FileArrives
  <2> QED
    BY <1>FileArrives, <2>5, <2>6, <2>7, <2>8 DEF FileArrives
<1>Persist. ASSUME NEW t \in Tab, NEW c \in Nat, NEW p \in Nat,
             PersistCheckpoint(t, c, p), tab[t].man \in Version,
             tab[t].item \in Nat \ {0}
      PROVE  Ckpt(ckpt')
  BY <1>1, <1>Persist DEF PersistCheckpoint, Checkpoint, Ckpt
<1>EmptyFile. ASSUME NEW t \in Tab, NEW ok \in BOOLEAN, EmptyFile(t, ok) PROVE Typed'
  <2>1. tab[t].man \in Version /\ tab[t] \in TabState /\ tab[t].item \in Nat \ {0}
    BY <1>Facts, <1>EmptyFile DEF EmptyFile, Busy, PC
  <2>2. tab[t].chunk \in Nat
    BY <2>1 DEF TabState
  <2>3. Ckpt(ckpt')
    BY <1>2, <1>Persist, <1>EmptyFile, <2>1, <2>2 DEF EmptyFile
  <2>4. TabGood
    BY <1>NextItem, <1>EmptyFile, <2>1 DEF EmptyFile
  <2> QED
    BY <1>6, <1>EmptyFile, <2>3, <2>4 DEF EmptyFile
<1>PutBatch. ASSUME NEW t \in Tab, PutBatch(t) PROVE Typed'
  <2>1. /\ tab[t].pc = "write" /\ tab[t].man \in Version /\ tab[t] \in TabState
        /\ Control(tab[t]) /\ tab[t].got \in Version
    BY <1>Facts, <1>PutBatch DEF PutBatch, Busy, PC, Typed, Control
  <2>2. PICK size \in Nat :
          LET last == Lesser(tab[t].pos + size, tab[t].lim)
              s == StoreOf[ThisFile(t)]
              batch == {Body(t)[j] : j \in (tab[t].pos + 1)..last}
          IN /\ db' = [db EXCEPT ![s] = [k \in Key |->
                          IF k \in batch THEN tab[t].got ELSE db[s][k]]]
             /\ tab' = [tab EXCEPT ![t] =
                          [tab[t] EXCEPT !.pos = last,
                                         !.pc = IF last = tab[t].lim
                                                THEN "persist" ELSE "write"]]
    <3>1. (IF tuned THEN AdaptiveTx ELSE {TxBatch}) \subseteq Nat
      BY ChunkAssumption
    <3> QED
      BY <1>PutBatch, <3>1 DEF PutBatch, TxSizes, LastRow
  <2> DEFINE last == Lesser(tab[t].pos + size, tab[t].lim)
             s == StoreOf[ThisFile(t)]
             batch == {Body(t)[j] : j \in (tab[t].pos + 1)..last}
             r == [tab[t] EXCEPT !.pos = last,
                                 !.pc = IF last = tab[t].lim THEN "persist" ELSE "write"]
  <2>3. last \in Nat
    BY <2>1 DEF TabState, Lesser
  <2>4. r \in TabState
    BY <2>1, <2>3 DEF TabState, PC
  <2>5. Control(r)
    <3>1. r.man = tab[t].man /\ r.item = tab[t].item /\ r.got = tab[t].got
      BY <2>1 DEF TabState
    <3> QED
      BY <2>1, <3>1 DEF Control, Busy, PC
  <2>6. db' = [db EXCEPT ![s] = [k \in Key |->
                  IF k \in batch THEN tab[t].got ELSE db[s][k]]]
    BY <2>2
  <2>7. tab' = [tab EXCEPT ![t] = r]
    BY <2>2
  <2> HIDE DEF r, batch, last, s
  <2>8. TabGood
    BY <2>4, <2>5, <2>7, TabTyped DEF TabGood, Typed, TypeOK
  <2>9. db' \in [Store -> [Key -> 0..MaxVersion]]
    BY <1>1, <2>1, <2>6 DEF Typed, TypeOK
  <2> QED
    BY <1>0, <1>PutBatch, <2>8, <2>9 DEF PutBatch, TabGood, Typed, TypeOK
<1>EndChunk. ASSUME NEW t \in Tab, NEW ok \in BOOLEAN, EndChunk(t, ok) PROVE Typed'
  <2> DEFINE n == Len(Body(t))
             c == tab[t].chunk + 1
             p == tab[t].pos
  <2>1. /\ tab[t].pc = "persist" /\ tab[t].man \in Version /\ tab[t] \in TabState
        /\ tab[t].got \in Version /\ tab[t].item \in Nat \ {0}
    BY <1>Facts, <1>EndChunk DEF EndChunk, Busy, PC, Typed, Control
  <2>2. c \in Nat /\ p \in Nat
    BY <2>1 DEF TabState
  <2>3. \/ PersistCheckpoint(t, c, p)
        \/ UNCHANGED ckpt
    BY <1>EndChunk DEF EndChunk
  <2>4. Ckpt(ckpt')
    BY <1>2, <1>Persist, <2>1, <2>2, <2>3
  <2>5. \/ GotoChunk(t, c, p, tab[t].got)
        \/ GotoNextItem(t)
    BY <1>EndChunk DEF EndChunk
  <2>6. TabGood
    BY <1>NextItem, <2>1, <2>2, <2>5, ChunkTyped DEF TabGood
  <2> QED
    BY <1>6, <1>EndChunk, <2>4, <2>6 DEF EndChunk
<1>PutCompleted. ASSUME NEW t \in Tab, NEW ok \in BOOLEAN, PutCompleted(t, ok) PROVE Typed'
  <2>1. tab[t].man \in Version
    BY <1>Facts, <1>PutCompleted DEF PutCompleted, Busy, PC
  <2>2. Len(Work[tab[t].man]) + 1 \in Nat \ {0}
    BY <2>1, ReleaseTypes
  <2>3. Ckpt(ckpt')
    BY <1>1, <1>2, <1>PutCompleted, <2>1, <2>2 DEF PutCompleted, Ckpt, Checkpoint
  <2>4. TabGood
    BY <1>Label, <1>PutCompleted, <2>1 DEF PutCompleted, PC
  <2> QED
    BY <1>6, <1>PutCompleted, <2>3, <2>4 DEF PutCompleted
<1>VerifyImport. ASSUME NEW t \in Tab, NEW ok \in BOOLEAN, VerifyImport(t, ok) PROVE Typed'
  <2>1. PICK l \in {"ready", "failed"} : Goto(t, l)
    BY <1>VerifyImport DEF VerifyImport
  <2>2. TabGood
    BY <1>Label, <1>Facts, <1>VerifyImport, <2>1 DEF PC, Busy, VerifyImport
  <2> QED
    BY <1>7, <1>VerifyImport, <2>2 DEF VerifyImport
<1>Leave. ASSUME NEW t \in Tab, Crash(t) \/ ResetData(t) PROVE Typed'
  <2>1. TabGood
    BY <1>3, <1>Leave, TabTyped DEF Crash, ResetData, TabGood, Typed, TypeOK
  <2>2. CASE Crash(t)
    BY <1>7, <2>1, <2>2 DEF Crash
  <2>3. CASE ResetData(t)
    <3>1. Ckpt(ckpt') /\ marker' \in 0..MaxVersion
      BY <1>1, <1>2, <2>3 DEF ResetData
    <3>2. db' \in [Store -> [Key -> 0..MaxVersion]]
      BY <1>1, <2>3 DEF ResetData
    <3> QED
      BY <1>0, <2>1, <2>3, <3>1, <3>2 DEF ResetData, TabGood, Ckpt, Typed, TypeOK
  <2> QED
    BY <1>Leave, <2>2, <2>3
<1>Deploy. ASSUME NEW v \in Version, Deploy(v) PROVE Typed'
  BY <1>0, <1>Deploy DEF Deploy, Typed, TypeOK
<1>Stutter. ASSUME UNCHANGED vars PROVE Typed'
  BY <1>Stutter DEF vars, Typed, TypeOK
<1>Served. served \in Version
  BY DEF Typed, TypeOK
<1>Cases. CASE Next
  BY <1>LoadPage, <1>ManifestArrives, <1>Fail, <1>ReadMarker, <1>VerifyExisting,
     <1>ClearStore, <1>Marker, <1>DropCheckpoint, <1>ReadCheckpoint, <1>FileArrives,
     <1>EmptyFile, <1>PutBatch, <1>EndChunk, <1>PutCompleted, <1>VerifyImport, <1>Leave,
     <1>Deploy, <1>Served, <1>Cases, NextCases, ServedSoFar
<1> QED
  BY <1>Cases, <1>Stutter

(***************************************************************************)
(* Every reachable state is typed, whatever the releases, the chunk sizes, *)
(* the number of pages and the failures.                                   *)
(***************************************************************************)
THEOREM TypeCorrect == Spec => []TypeOK
<1>1. Spec => []Typed
  BY TypedInit, TypedStep, PTL DEF Spec
<1>2. Typed => TypeOK
  BY DEF Typed
<1> QED
  BY <1>1, <1>2, PTL
=============================================================================
