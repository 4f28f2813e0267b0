-------------------------- MODULE DataImportHonesty --------------------------
(***************************************************************************)
(* Why counting rows is enough: the safety of DataImport for one page,     *)
(* whatever releases its manifest and files come from, for every set of    *)
(* stores, keys and files, every chunking and every number of releases.    *)
(***************************************************************************)
EXTENDS DataImportProofs, FiniteSetTheorems

\* The one assumption the argument needs beyond those of DataImport.
OnePage == \A t, u \in Tab : t = u

-----------------------------------------------------------------------------
\* Where a page stands in the file it writes.
Placed(r) ==
    LET n == Len(Rows[r.got][Work[r.man][r.item]]) IN
    r.pc \in {"write", "persist"} =>
        /\ r.lim <= n
        /\ r.pc = "persist" => r.pos = r.lim
        /\ tuned \/ r.lim = Lesser((r.chunk + 1) * ImportChunkSize(n), n)
        /\ \E h \in 1..Len(Work[r.got]) : Work[r.got][h] = Work[r.man][r.item]

\* The release of a page whose claims count: one that is not mixed.
Clean(r) == r.man \in Version \ mixed

\* What the stores hold while a page works on its release.
Progress(r) ==
    Clean(r) =>
        /\ r.pc = "fetch" =>
             Founded(r.man, r.item, IF tuned THEN r.pos
                                    ELSE StartRow(r.chunk, FileLen(r.man, r.item)))
        /\ r.pc = "empty" => FileLen(r.man, r.item) = 0 /\ Founded(r.man, r.item, 0)
        /\ r.pc \in {"write", "persist"} =>
             r.got = r.man /\ Founded(r.man, r.item, r.pos)
        /\ r.pc \in {"verify", "complete", "seal", "check"} => AllCountable(r.man)
        /\ r.pc = "ready" => \A s \in Checked : Exact(r.man, s)

Sound(r) == Placed(r) /\ Progress(r)

Covered == CheckpointCovers /\ MarkerCovers

IInv == Typed /\ Covered /\ \A t \in Tab : Sound(tab[t])

-----------------------------------------------------------------------------
\* A store that lacks no row of the release, or holds no other, and has as many
\* rows as the release, is exact.
LEMMA CountingDecides ==
    ASSUME Typed, NEW v \in Version, NEW s \in Store,
           Pure(v, s) \/ Skipped(v, s, Len(Work[v]) + 1, 0),
           Cardinality(Present(s)) = Cardinality(KeysOf(v, s))
    PROVE  Exact(v, s)
<1>1. Present(s) \subseteq Key /\ KeysOf(v, s) \subseteq Key
  BY DEF Present, KeysOf
<1>2. IsFiniteSet(Present(s)) /\ IsFiniteSet(KeysOf(v, s))
  BY <1>1, ReleaseAssumption, FS_Subset
<1>3. v # None
  BY ReleaseTypes
<1>4. CASE Skipped(v, s, Len(Work[v]) + 1, 0)
  <2>1. ASSUME NEW k \in KeysOf(v, s) PROVE db[s][k] = v
    <3>1. PICK h \in 1..Len(Work[v]) :
            /\ StoreOf[Work[v][h]] = s
            /\ \E j \in 1..Len(Rows[v][Work[v][h]]) : Rows[v][Work[v][h]][j] = k
      BY <2>1 DEF KeysOf
    <3>2. h < Len(Work[v]) + 1
      BY ReleaseTypes
    <3> QED
      BY <1>4, <3>1, <3>2 DEF Skipped
  <2>2. KeysOf(v, s) \subseteq Present(s)
    BY <1>1, <1>3, <2>1 DEF Present
  <2>3. KeysOf(v, s) = Present(s)
    BY <1>2, <2>2, FS_Subset
  <2>4. \A k \in Key : k \notin KeysOf(v, s) => db[s][k] = None
    BY <2>3 DEF Present
  <2> QED
    BY <2>1, <2>4 DEF Exact
<1>5. CASE Pure(v, s)
  <2>1. Present(s) \subseteq KeysOf(v, s)
    BY <1>5 DEF Pure, Present
  <2>2. KeysOf(v, s) = Present(s)
    BY <1>2, <2>1, FS_Subset
  <2> QED
    BY <1>5, <2>2 DEF Exact, Pure, Present
<1> QED
  BY <1>4, <1>5

\* A work item all of whose rows are stored can be passed.
LEMMA ItemPassed ==
    ASSUME NEW v \in Version, NEW i \in Nat, NEW p \in Nat,
           i \in 1..Len(Work[v]), p >= FileLen(v, i), Founded(v, i, p)
    PROVE  Founded(v, i + 1, 0)
<1> SUFFICES ASSUME NEW s \in Store, Skipped(v, s, i, p) PROVE Skipped(v, s, i + 1, 0)
  BY DEF Founded
<1> SUFFICES ASSUME NEW h \in 1..Len(Work[v]), StoreOf[Work[v][h]] = s,
                    NEW j \in 1..Len(Rows[v][Work[v][h]]),
                    h < i + 1 \/ (h = i + 1 /\ j <= 0)
             PROVE  db[s][Rows[v][Work[v][h]][j]] = v
  BY DEF Skipped
<1>1. h < i \/ h = i
  BY ReleaseTypes
<1>2. h = i => j <= p
  BY ReleaseTypes DEF FileLen
<1> QED
  BY <1>1, <1>2 DEF Skipped

\* Fewer rows are founded when more are, and none are at the start.
LEMMA FoundedFewer ==
    ASSUME NEW v \in Version, NEW i \in Nat, NEW p \in Nat, NEW q \in Nat,
           q <= p, Founded(v, i, p)
    PROVE  Founded(v, i, q)
<1> SUFFICES ASSUME NEW s \in Store, Skipped(v, s, i, p) PROVE Skipped(v, s, i, q)
  BY DEF Founded
<1> SUFFICES ASSUME NEW h \in 1..Len(Work[v]), StoreOf[Work[v][h]] = s,
                    NEW j \in 1..Len(Rows[v][Work[v][h]]),
                    h < i \/ (h = i /\ j <= q)
             PROVE  db[s][Rows[v][Work[v][h]][j]] = v
  BY DEF Skipped
<1>1. h < i \/ (h = i /\ j <= p)
  BY ReleaseTypes
<1> QED
  BY <1>1 DEF Skipped

LEMMA FoundedFirst ==
    ASSUME NEW v \in Version
    PROVE  Founded(v, 1, 0)
<1>1. \A h \in 1..Len(Work[v]) : ~(h < 1)
  OBVIOUS
<1>2. \A s \in Store : Skipped(v, s, 1, 0)
  BY <1>1 DEF Skipped
<1> QED
  BY <1>2 DEF Founded

\* Past the last work item the position in it does not matter.
LEMMA FoundedAll ==
    ASSUME NEW v \in Version, NEW i \in Nat, NEW p \in Nat, i > Len(Work[v]),
           Founded(v, i, p)
    PROVE  AllCountable(v) /\ Founded(v, Len(Work[v]) + 1, 0)
<1> SUFFICES ASSUME NEW s \in Store, Skipped(v, s, i, p)
             PROVE  Skipped(v, s, Len(Work[v]) + 1, 0)
  BY DEF Founded, AllCountable
<1>1. \A h \in 1..Len(Work[v]) : h < i
  BY ReleaseTypes
<1> QED
  BY <1>1 DEF Skipped

-----------------------------------------------------------------------------
\* What a step keeps of what release v has stored.
Keeps(v) == \A i \in Nat, p \in Nat : Founded(v, i, p) => Founded(v, i, p)'

\* A step that leaves the stores alone keeps what is stored.
LEMMA SameKeeps ==
    ASSUME NEW v \in Version, db' = db
    PROVE  Keeps(v) /\ \A s \in Store : Exact(v, s) <=> Exact(v, s)'
BY DEF Keeps, Founded, Skipped, Pure, Exact

\* A step that leaves stores alone or empties them does, too.
LEMMA ClearKeeps ==
    ASSUME NEW v \in Version,
           \A x \in Store : db'[x] = db[x] \/ db'[x] = [k \in Key |-> None]
    PROVE  Keeps(v)
<1>1. ASSUME NEW x \in Store, NEW i \in Nat, NEW p \in Nat,
             Pure(v, x) \/ Skipped(v, x, i, p)
      PROVE  Pure(v, x)' \/ Skipped(v, x, i, p)'
  <2>1. CASE db'[x] = db[x]
    BY <1>1, <2>1 DEF Skipped, Pure
  <2>2. CASE db'[x] = [k \in Key |-> None]
    BY <2>2 DEF Pure
  <2> QED
    BY <2>1, <2>2
<1> QED
  BY <1>1 DEF Keeps, Founded

\* A transaction that writes rows of release v, as that release has them.
Writes(v, s, batch) ==
    /\ batch \subseteq KeysOf(v, s)
    /\ \A x \in Store, k \in Key :
           db'[x][k] = IF x = s /\ k \in batch THEN v ELSE db[x][k]

\* A batch of rows of release v keeps what is stored of it.
LEMMA WriteKeeps ==
    ASSUME NEW v \in Version, NEW s \in Store, NEW batch, Writes(v, s, batch)
    PROVE  Keeps(v) /\ \A k \in batch : db'[s][k] = v
<1>1. /\ batch \subseteq KeysOf(v, s)
      /\ \A x \in Store, k \in Key :
             db'[x][k] = IF x = s /\ k \in batch THEN v ELSE db[x][k]
  BY DEF Writes
<1>2. KeysOf(v, s) \subseteq Key
  BY DEF KeysOf
<1>3. \A x \in Store : Pure(v, x) => Pure(v, x)'
  BY <1>1, <1>2 DEF Pure
<1>4. ASSUME NEW x \in Store, NEW i \in Nat, NEW p \in Nat, Skipped(v, x, i, p)
      PROVE  Skipped(v, x, i, p)'
  <2> SUFFICES ASSUME NEW h \in 1..Len(Work[v]), StoreOf[Work[v][h]] = x,
                      NEW j \in 1..Len(Rows[v][Work[v][h]]), h < i \/ (h = i /\ j <= p)
               PROVE  db'[x][Rows[v][Work[v][h]][j]] = v
    BY DEF Skipped
  <2>1. db[x][Rows[v][Work[v][h]][j]] = v
    BY <1>4 DEF Skipped
  <2>2. Rows[v][Work[v][h]][j] \in Key
    BY ReleaseTypes
  <2> QED
    BY <1>1, <2>1, <2>2
<1> QED
  BY <1>1, <1>2, <1>3, <1>4 DEF Keeps, Founded

-----------------------------------------------------------------------------
\* The position a checkpoint leads to is a number.
LEMMA SkipsNat ==
    ASSUME Typed, ckpt.v # None
    PROVE  ckpt.v \in Version /\ ckpt.item \in Nat \ {0} /\ Skips(ckpt) \in Nat
<1>1. ckpt \in Checkpoint /\ ckpt.item \in Nat \ {0}
  BY DEF Typed, TypeOK
<1>2. ckpt.v \in Version /\ ckpt.chunk \in Nat /\ ckpt.off \in Nat
  BY <1>1, ReleaseAssumption DEF Checkpoint, Version, None
<1>3. ASSUME ckpt.item <= Len(Work[ckpt.v])
      PROVE  FileLen(ckpt.v, ckpt.item) \in Nat
  <2>1. ckpt.item \in 1..Len(Work[ckpt.v])
    BY <1>1, <1>2, <1>3, ReleaseTypes
  <2> QED
    BY <1>2, <2>1, ReleaseTypes DEF FileLen
<1>4. \A n \in Nat : ResumeRow(ckpt, n) \in Nat
  BY <1>2, StartChunkNat DEF ResumeRow, Lesser
<1> QED
  BY <1>1, <1>2, <1>3, <1>4 DEF Skips

\* What a step must keep so that the records it leaves still cover.
LEMMA CoveredKept ==
    ASSUME Typed, Covered, tuned' = tuned,
           marker' \in {marker, None}, ckpt' \in {ckpt, NoCheckpoint},
           \A v \in Vouched : v \notin mixed' => v \notin mixed /\ Keeps(v)
    PROVE  Covered'
<1>1. ASSUME (ckpt').v # None, ~(ckpt').done, (ckpt').v \notin mixed'
      PROVE  Founded(ckpt.v, ckpt.item, Skips(ckpt))'
  <2>1. ckpt' = ckpt
    BY <1>1 DEF NoCheckpoint
  <2>2. ckpt.v \in Version /\ ckpt.item \in Nat /\ Skips(ckpt) \in Nat
    BY <1>1, <2>1, SkipsNat
  <2> PICK v \in Version, i \in Nat, q \in Nat :
             v = ckpt.v /\ i = ckpt.item /\ q = Skips(ckpt)
    BY <2>2
  <2>3. v \notin mixed /\ Keeps(v)
    BY <1>1, <2>1 DEF Vouched
  <2>4. Founded(v, i, q)
    BY <1>1, <2>1, <2>2, <2>3 DEF Covered, CheckpointCovers
  <2>5. Founded(v, i, q)'
    BY <2>3, <2>4 DEF Keeps
  <2>6. v = (ckpt').v /\ i = (ckpt').item
    BY <2>1
  <2>7. q = Skips(ckpt)'
    BY <2>1 DEF Skips, ResumeRow, FileLen
  <2>8. ASSUME NEW s \in Store, Pure(v, s)'
        PROVE  Pure(ckpt.v, s)'
    BY <2>6, <2>8 DEF Pure, KeysOf
  <2>9. ASSUME NEW s \in Store, Skipped(v, s, i, q)'
        PROVE  Skipped(ckpt.v, s, ckpt.item, Skips(ckpt))'
    BY <2>6, <2>7, <2>9 DEF Skipped
  <2> QED
    BY <2>5, <2>8, <2>9 DEF Founded
<1>2. ASSUME marker' # None, marker' \notin mixed' PROVE AllCountable(marker)'
  <2>1. marker' = marker /\ marker \in Version
    BY <1>2, ReleaseAssumption DEF Typed, TypeOK, Version, None
  <2> PICK v \in Version, i \in Nat : v = marker /\ i = Len(Work[v]) + 1
    BY <2>1, ReleaseTypes
  <2>2. v \notin mixed /\ Keeps(v)
    BY <1>2, <2>1 DEF Vouched
  <2>3. AllCountable(v)
    BY <1>2, <2>1, <2>2 DEF Covered, MarkerCovers
  <2>4. Founded(v, i, 0)'
    BY <2>2, <2>3 DEF AllCountable, Keeps
  <2> QED
    BY <2>1, <2>4 DEF AllCountable, Founded, Skipped, Pure, KeysOf
<1> QED
  BY <1>1, <1>2 DEF Covered, CheckpointCovers, MarkerCovers

\* A step that leaves the stores and the records alone.
LEMMA CoveredQuiet ==
    ASSUME Typed, Covered, UNCHANGED <<db, marker, ckpt, tuned, mixed>>
    PROVE  Covered'
<1>1. \A v \in Vouched : Keeps(v)
  BY SameKeeps DEF Vouched
<1> QED
  BY <1>1, CoveredKept

-----------------------------------------------------------------------------
\* What the ways to move a page do to its registers.
Holds(t, l) ==
    /\ tab'[t].pc = l /\ tab'[t].man = tab[t].man /\ tab'[t].item = tab[t].item
    /\ tab'[t].chunk = tab[t].chunk /\ tab'[t].pos = tab[t].pos
    /\ tab'[t].lim = tab[t].lim /\ tab'[t].got = tab[t].got

\* A change of label leaves the other registers of the page alone.
LEMMA GotoEffect ==
    ASSUME Typed, NEW t \in Tab, NEW l, Goto(t, l)
    PROVE  Holds(t, l)
<1>1. tab[t] \in TabState /\ tab' = [tab EXCEPT ![t] = [tab[t] EXCEPT !.pc = l]]
  BY DEF Typed, TypeOK, Goto
<1>2. tab'[t] = [tab[t] EXCEPT !.pc = l]
  BY <1>1 DEF Typed, TypeOK
<1> QED
  BY <1>1, <1>2 DEF TabState, Holds

\* The registers of a page that turns to its next work item.
LEMMA NextItemEffect ==
    ASSUME Typed, NEW t \in Tab, GotoNextItem(t)
    PROVE  /\ tab'[t].pc = AtItem(tab[t].man, tab[t].item + 1)
           /\ tab'[t].man = tab[t].man /\ tab'[t].item = tab[t].item + 1
           /\ tab'[t].chunk = 0 /\ tab'[t].pos = 0
<1>1. tab[t] \in TabState
  BY DEF Typed, TypeOK
<1>2. tab'[t] = [tab[t] EXCEPT !.pc = AtItem(tab[t].man, tab[t].item + 1),
                               !.item = tab[t].item + 1, !.chunk = 0, !.pos = 0,
                               !.lim = 0, !.got = None]
  BY DEF Typed, TypeOK, GotoNextItem
<1> QED
  BY <1>1, <1>2 DEF TabState

\* The registers of a page that begins a chunk.
LEMMA ChunkEffect ==
    ASSUME Typed, NEW t \in Tab, NEW c, NEW p, NEW v, GotoChunk(t, c, p, v)
    PROVE  \E size \in IF tuned THEN AdaptiveChunks
                       ELSE {ImportChunkSize(Len(Rows[v][ThisFile(t)]))} :
             /\ tab'[t].pc = "write" /\ tab'[t].man = tab[t].man
             /\ tab'[t].item = tab[t].item /\ tab'[t].got = v
             /\ tab'[t].chunk = c /\ tab'[t].pos = p
             /\ tab'[t].lim = Lesser(p + size, Len(Rows[v][ThisFile(t)]))
<1>1. tab[t] \in TabState
  BY DEF Typed, TypeOK
<1>2. PICK size \in IF tuned THEN AdaptiveChunks
                    ELSE {ImportChunkSize(Len(Rows[v][ThisFile(t)]))} :
        tab'[t] = [tab[t] EXCEPT !.pc = "write", !.chunk = c, !.pos = p,
                     !.lim = Lesser(p + size, Len(Rows[v][ThisFile(t)])), !.got = v]
  BY DEF Typed, TypeOK, GotoChunk
<1> QED
  BY <1>1, <1>2 DEF TabState

-----------------------------------------------------------------------------
\* What a step that leaves the stores alone leaves true, and false.
LEMMA SameFounded ==
    ASSUME NEW v, NEW i, NEW p, db' = db
    PROVE  /\ Founded(v, i, p) <=> Founded(v, i, p)'
           /\ AllCountable(v) <=> AllCountable(v)'
<1>1. \A s : Pure(v, s) <=> Pure(v, s)'
  BY DEF Pure, KeysOf
<1>2. \A s, j, q : Skipped(v, s, j, q) <=> Skipped(v, s, j, q)'
  BY DEF Skipped
<1> QED
  BY <1>1, <1>2 DEF AllCountable, Founded

\* A page that does nothing still is where it was when the stores are as they were.
LEMMA Still ==
    ASSUME NEW t \in Tab, Sound(tab[t]), tab'[t] = tab[t], UNCHANGED <<db, tuned, mixed>>
    PROVE  Sound(tab[t])'
<1> PICK m, i, p, q :
      /\ m = tab[t].man /\ i = tab[t].item /\ p = tab[t].pos
      /\ q = IF tuned THEN p ELSE StartRow(tab[t].chunk, FileLen(m, i))
  OBVIOUS
<1>1. m = tab'[t].man /\ i = tab'[t].item /\ p = tab'[t].pos
  OBVIOUS
<1>2. q = (IF tuned THEN tab[t].pos
           ELSE StartRow(tab[t].chunk, FileLen(tab[t].man, tab[t].item)))'
  BY <1>1 DEF FileLen
<1>3. Placed(tab[t])'
  BY DEF Sound, Placed
<1>4. \A x \in {p, q, 0} : Founded(m, i, x) => Founded(m, i, x)'
  BY SameFounded
<1>5. AllCountable(m) => AllCountable(tab[t].man)'
  BY <1>1, SameFounded
<1>6. \A s : Exact(m, s) => Exact(tab[t].man, s)'
  BY <1>1 DEF Exact
<1>7. Progress(tab[t])'
  <2> SUFFICES ASSUME Clean(tab[t])'
               PROVE  Progress(tab[t])'
    BY DEF Progress
  <2>1. Clean(tab[t])
    BY DEF Clean
  <2>2. tab'[t].pc = "fetch" => Founded(m, i, q)'
    BY <1>4, <2>1 DEF Sound, Progress
  <2>3. tab'[t].pc = "empty" => FileLen(m, i) = 0 /\ Founded(m, i, 0)'
    BY <1>4, <2>1 DEF Sound, Progress
  <2>4. tab'[t].pc \in {"write", "persist"} => tab'[t].got = m /\ Founded(m, i, p)'
    BY <1>4, <2>1 DEF Sound, Progress
  <2>5. /\ tab'[t].pc \in {"verify", "complete", "seal", "check"} => AllCountable(tab[t].man)'
        /\ tab'[t].pc = "ready" => \A s \in Checked : Exact(tab[t].man, s)'
    BY <1>5, <1>6, <2>1 DEF Sound, Progress
  <2>6. /\ Founded(m, i, p)' => Founded(tab[t].man, tab[t].item, tab[t].pos)'
        /\ Founded(m, i, 0)' => Founded(tab[t].man, tab[t].item, 0)'
    BY <1>1
  <2>7. Founded(m, i, q)' =>
          Founded(tab[t].man, tab[t].item, IF tuned THEN tab[t].pos
                  ELSE StartRow(tab[t].chunk, FileLen(tab[t].man, tab[t].item)))'
    BY <1>1, <1>2
  <2> QED
    BY <1>1, <2>2, <2>3, <2>4, <2>5, <2>6, <2>7 DEF Progress, FileLen
<1> QED
  BY <1>3, <1>7 DEF Sound

\* What a page owes after a step when its label is none of the import loop's.
LEMMA SoundLabel ==
    ASSUME NEW t \in Tab, tab'[t].pc \notin {"fetch", "empty", "write", "persist"},
           NEW m, m = tab'[t].man,
           m \in Version \ mixed' =>
             /\ tab'[t].pc \in {"verify", "complete", "seal", "check"} => AllCountable(m)'
             /\ tab'[t].pc = "ready" => \A s \in Checked : Exact(m, s)'
    PROVE  Sound(tab[t])'
<1>1. Placed(tab[t])'
  BY DEF Placed
<1>2. AllCountable(m)' => AllCountable(tab[t].man)'
  OBVIOUS
<1>3. \A s : Exact(m, s)' => Exact(tab[t].man, s)'
  BY DEF Exact, KeysOf
<1>4. Progress(tab[t])'
  BY <1>2, <1>3 DEF Progress, Clean
<1> QED
  BY <1>1, <1>4 DEF Sound

\* A page outside the loop moves on, and nothing else changes.
LEMMA MoveOn ==
    ASSUME IInv, NEW t \in Tab, NEW l \in PC, Goto(t, l),
           l \notin {"fetch", "empty", "write", "persist"},
           UNCHANGED <<db, marker, ckpt, tuned, mixed>>,
           NEW m, m = tab[t].man,
           m \in Version \ mixed =>
             /\ l \in {"verify", "complete", "seal", "check"} => AllCountable(m)
             /\ l = "ready" => \A s \in Checked : Exact(m, s)
    PROVE  Covered' /\ Sound(tab[t])'
<1>1. Covered'
  BY CoveredQuiet DEF IInv
<1>2. tab'[t].pc = l /\ tab'[t].man = m
  BY GotoEffect DEF IInv, Holds
<1>3. AllCountable(m) => AllCountable(m)'
  BY DEF AllCountable, Founded, Skipped, Pure
<1>4. \A s : Exact(m, s) => Exact(m, s)'
  BY DEF Exact
<1>5. Sound(tab[t])'
  BY <1>2, <1>3, <1>4, SoundLabel
<1> QED
  BY <1>1, <1>5

\* A step of LoadPage keeps the invariant.
LEMMA LoadPageStep ==
    ASSUME IInv, NEW t \in Tab, LoadPage(t) PROVE Covered' /\ Sound(tab[t])'
<1>1. Covered'
  BY CoveredQuiet DEF IInv, LoadPage
<1>2. tab'[t] = [Closed EXCEPT !.pc = "manifest"]
  BY DEF IInv, Typed, TypeOK, LoadPage
<1>3. tab'[t].pc = "manifest"
  BY <1>2 DEF Closed
<1> QED
  BY <1>1, <1>3, SoundLabel

\* A manifest that arrives keeps the invariant.
LEMMA ManifestStep ==
    ASSUME IInv, NEW t \in Tab, NEW v, ManifestArrives(t, v)
    PROVE  Covered' /\ Sound(tab[t])'
<1>1. Covered'
  BY CoveredQuiet DEF IInv, ManifestArrives
<1>2. tab[t] \in TabState /\ tab'[t] = [tab[t] EXCEPT !.pc = "marker", !.man = v]
  BY DEF IInv, Typed, TypeOK, ManifestArrives
<1>3. tab'[t].pc = "marker"
  BY <1>2 DEF TabState
<1> QED
  BY <1>1, <1>3, SoundLabel

\* A failed fetch or write keeps the invariant.
LEMMA FailStep ==
    ASSUME IInv, NEW t \in Tab, NEW v,
           \/ ManifestFails(t) \/ FileGone(t, v) \/ FetchFails(t)
           \/ PutFails(t) \/ PutClashes(t)
    PROVE  Covered' /\ Sound(tab[t])'
<1>1. Goto(t, "failed") /\ UNCHANGED <<db, marker, ckpt, tuned, mixed>>
  BY DEF ManifestFails, FileGone, FetchFails, PutFails, PutClashes
<1> QED
  BY <1>1, MoveOn DEF PC

\* A step of ReadMarker keeps the invariant.
LEMMA ReadMarkerStep ==
    ASSUME IInv, NEW t \in Tab, NEW ok \in BOOLEAN, ReadMarker(t, ok)
    PROVE  Covered' /\ Sound(tab[t])'
<1>1. UNCHANGED <<db, marker, ckpt, tuned, mixed>>
  BY DEF ReadMarker
<1> PICK m : m = tab[t].man
  OBVIOUS
<1>2. CASE ok /\ marker = m
  <2>1. m \in Version \ mixed => AllCountable(m)
    BY <1>2, ReleaseTypes DEF IInv, Covered, MarkerCovers
  <2>2. Goto(t, "verify")
    BY <1>2 DEF ReadMarker
  <2> QED
    BY <1>1, <2>1, <2>2, MoveOn DEF PC
<1>3. CASE ~(ok /\ marker = m)
  <2>1. Goto(t, "resume")
    BY <1>3 DEF ReadMarker
  <2> QED
    BY <1>1, <2>1, MoveOn DEF PC
<1> QED
  BY <1>2, <1>3

\* Verification that finds no mismatch, on stores that counting decides.
LEMMA Verified ==
    ASSUME IInv, NEW v \in Version, AllCountable(v), CountsMatch(v)
    PROVE  \A s \in Checked : Exact(v, s)
<1> SUFFICES ASSUME NEW s \in Checked PROVE Exact(v, s)
  OBVIOUS
<1>1. s \in Store
  BY ReleaseAssumption
<1>2. Pure(v, s) \/ Skipped(v, s, Len(Work[v]) + 1, 0)
  BY <1>1 DEF AllCountable, Founded
<1>3. Cardinality(Present(s)) = Cardinality(KeysOf(v, s))
  BY DEF CountsMatch
<1> QED
  BY <1>1, <1>2, <1>3, CountingDecides DEF IInv

\* A step of VerifyExisting keeps the invariant.
LEMMA VerifyExistingStep ==
    ASSUME IInv, NEW t \in Tab, NEW ok \in BOOLEAN, VerifyExisting(t, ok)
    PROVE  Covered' /\ Sound(tab[t])'
<1>1. tab[t].pc = "verify" /\ UNCHANGED <<db, marker, ckpt, tuned, mixed>>
  BY DEF VerifyExisting
<1> PICK m : m = tab[t].man
  OBVIOUS
<1>2. m \in Version \ mixed => AllCountable(m)
  BY <1>1 DEF IInv, Sound, Progress, Clean
<1>3. CASE ok /\ CountsMatch(m)
  <2>1. Goto(t, "ready")
    BY <1>3 DEF VerifyExisting
  <2>2. m \in Version \ mixed => \A s \in Checked : Exact(m, s)
    BY <1>2, <1>3, Verified
  <2> QED
    BY <1>1, <2>1, <2>2, MoveOn DEF PC
<1>4. CASE ~(ok /\ CountsMatch(m))
  <2>1. tab[t] \in TabState /\ tab'[t] = [tab[t] EXCEPT !.pc = "clear", !.clr = 1]
    BY <1>4 DEF IInv, Typed, TypeOK, VerifyExisting
  <2>2. tab'[t].pc = "clear"
    BY <2>1 DEF TabState
  <2>3. Sound(tab[t])'
    BY <2>2, SoundLabel
  <2> QED
    BY <1>1, <2>3, CoveredQuiet DEF IInv
<1> QED
  BY <1>3, <1>4

\* A step of ClearStore keeps the invariant.
LEMMA ClearStoreStep ==
    ASSUME IInv, NEW t \in Tab, NEW ok \in BOOLEAN, ClearStore(t, ok)
    PROVE  Covered' /\ Sound(tab[t])'
<1>1. UNCHANGED <<marker, ckpt, tuned, mixed>> /\ tab[t] \in TabState
  BY DEF ClearStore, IInv, Typed, TypeOK
<1>2. PICK l \in {"clear", "dropMarker"} :
        tab'[t] = [tab[t] EXCEPT !.pc = l, !.clr = tab[t].clr + 1]
  BY DEF IInv, Typed, TypeOK, ClearStore
<1>3. tab'[t].pc = l
  BY <1>1, <1>2 DEF TabState
<1>4. Sound(tab[t])'
  BY <1>3, SoundLabel
<1>5. \A x \in Store : db'[x] = db[x] \/ db'[x] = [k \in Key |-> None]
  BY DEF ClearStore, IInv, Typed, TypeOK
<1>6. \A v \in Vouched : Keeps(v)
  BY <1>5, ClearKeeps DEF Vouched
<1> QED
  BY <1>1, <1>4, <1>6, CoveredKept DEF IInv

\* Dropping or writing the marker or the checkpoint keeps the invariant.
LEMMA DropStep ==
    ASSUME IInv, NEW t \in Tab, NEW ok \in BOOLEAN, DropMarker(t, ok) \/ DropCheckpoint(t, ok)
    PROVE  Covered' /\ Sound(tab[t])'
<1>1. /\ UNCHANGED <<db, tuned, mixed>>
      /\ marker' \in {marker, None} /\ ckpt' \in {ckpt, NoCheckpoint}
  BY DEF DropMarker, DropCheckpoint
<1>2. PICK l \in {"dropCkpt", "resume"} : Goto(t, l)
  BY DEF DropMarker, DropCheckpoint
<1>3. tab'[t].pc = l
  BY <1>2, GotoEffect DEF IInv, Holds
<1>4. Sound(tab[t])'
  BY <1>3, SoundLabel
<1>5. \A v \in Vouched : Keeps(v)
  BY <1>1, SameKeeps DEF Vouched
<1> QED
  BY <1>1, <1>4, <1>5, CoveredKept DEF IInv

LEMMA CompletionStep ==
    ASSUME IInv, NEW t \in Tab, NEW ok \in BOOLEAN, PutMarker(t, ok) \/ PutCompleted(t, ok)
    PROVE  Covered' /\ Sound(tab[t])'
<1>1. tab[t].pc \in {"complete", "seal"} /\ UNCHANGED <<db, tuned, mixed>>
  BY DEF PutMarker, PutCompleted
<1> PICK m \in Version : m = tab[t].man
  BY <1>1 DEF IInv, Typed, Control, Busy, PC
<1>2. m \notin mixed => AllCountable(m)
  BY <1>1 DEF IInv, Sound, Progress, Clean
<1>3. \A v \in Version : (AllCountable(v) <=> AllCountable(v)')
  BY <1>1 DEF AllCountable, Founded, Skipped, Pure
<1>4. PICK l \in {"seal", "check"} : Goto(t, l)
  BY DEF PutMarker, PutCompleted
<1>5. tab'[t].pc = l /\ tab'[t].man = m
  BY <1>4, GotoEffect DEF IInv, Holds
<1>6. Sound(tab[t])'
  BY <1>1, <1>2, <1>3, <1>5, SoundLabel
<1>7. CASE UNCHANGED marker /\ UNCHANGED ckpt
  BY <1>1, <1>6, <1>7, CoveredQuiet DEF IInv
<1>8. CASE marker' = m /\ UNCHANGED ckpt
  <2>1. m \notin mixed' => AllCountable(m)'
    BY <1>1, <1>2, <1>3
  <2>2. AllCountable(m)' => AllCountable(marker)'
    BY <1>8
  <2>3. MarkerCovers'
    BY <1>8, <2>1, <2>2 DEF MarkerCovers
  <2>4. CheckpointCovers'
    BY <1>1, <1>8 DEF IInv, Covered, CheckpointCovers, Founded, Skipped, Pure, Skips,
       ResumeRow
  <2> QED
    BY <1>6, <2>3, <2>4 DEF Covered
<1>9. CASE UNCHANGED marker /\ (ckpt').done
  <2>1. CheckpointCovers'
    BY <1>9 DEF CheckpointCovers
  <2>2. MarkerCovers'
    BY <1>1, <1>9 DEF IInv, Covered, MarkerCovers, AllCountable, Founded, Skipped, Pure
  <2> QED
    BY <1>6, <2>1, <2>2 DEF Covered
<1> QED
  BY <1>7, <1>8, <1>9 DEF PutMarker, PutCompleted

\* A step of VerifyImport keeps the invariant.
LEMMA VerifyImportStep ==
    ASSUME IInv, NEW t \in Tab, NEW ok \in BOOLEAN, VerifyImport(t, ok)
    PROVE  Covered' /\ Sound(tab[t])'
<1>1. tab[t].pc = "check" /\ UNCHANGED <<db, marker, ckpt, tuned, mixed>>
  BY DEF VerifyImport
<1> PICK m : m = tab[t].man
  OBVIOUS
<1>2. m \in Version \ mixed => AllCountable(m)
  BY <1>1 DEF IInv, Sound, Progress, Clean
<1>3. CASE Goto(t, "ready") /\ CountsMatch(m)
  <2>1. m \in Version \ mixed => \A s \in Checked : Exact(m, s)
    BY <1>2, <1>3, Verified
  <2> QED
    BY <1>1, <1>3, <2>1, MoveOn DEF PC
<1>4. CASE Goto(t, "failed")
  BY <1>1, <1>4, MoveOn DEF PC
<1> QED
  BY <1>3, <1>4 DEF VerifyImport

\* A page that is closed, stopped or reset keeps the invariant.
LEMMA LeaveStep ==
    ASSUME IInv, NEW t \in Tab, Crash(t) \/ ResetData(t)
    PROVE  Covered' /\ Sound(tab[t])'
<1>1. tab'[t] = Closed
  BY DEF IInv, Typed, TypeOK, Crash, ResetData
<1>2. Sound(tab[t])'
  BY <1>1, SoundLabel DEF Closed
<1>3. CASE Crash(t)
  BY <1>2, <1>3, CoveredQuiet DEF IInv, Crash
<1>4. CASE ResetData(t)
  <2>1. marker' = None /\ (ckpt').v = None
    BY <1>4 DEF ResetData, NoCheckpoint
  <2> QED
    BY <1>2, <2>1 DEF Covered, CheckpointCovers, MarkerCovers
<1> QED
  BY <1>3, <1>4

\* A new release changes nothing a page or a record relies on.
LEMMA DeployStep ==
    ASSUME IInv, UNCHANGED <<db, marker, ckpt, tuned, tab, mixed>>
    PROVE  Covered' /\ \A t \in Tab : Sound(tab[t])'
<1>1. Covered'
  BY CoveredQuiet DEF IInv
<1>2. \A t \in Tab : Sound(tab[t])'
  BY Still DEF IInv
<1> QED
  BY <1>1, <1>2

-----------------------------------------------------------------------------
\* Arithmetic of the fixed chunking: a resumed file restarts at a row no later
\* than the end of chunk c, and inside the file.
LEMMA StartRowBound ==
    ASSUME NEW n \in Nat, NEW c \in Nat
    PROVE  /\ StartRow(c, n) <= c * ImportChunkSize(n)
           /\ StartRow(c, n) <= n
           /\ n = 0 \/ c = 0 => StartRow(c, n) = 0
           /\ n > 0 => StartRow(c, n) = StartChunk(c, n) * ImportChunkSize(n)
<1> DEFINE size == ImportChunkSize(n)
           total == ChunkTotal(n)
           start == StartChunk(c, n)
<1>1. size \in Nat \ {0} /\ total \in Nat /\ (n > 0 => total >= 1)
  BY ChunkTotalNat
<1>2. start \in Nat /\ start <= c
  BY StartChunkNat
<1>3. \A a, b, d \in Nat : a <= b => a * d <= b * d
  OBVIOUS
<1>4. StartRow(c, n) = start * size
  BY DEF StartRow
<1>5. start * size <= c * size
  BY <1>1, <1>2, <1>3
<1>6. n = 0 \/ c = 0 => start = 0
  BY <1>1 DEF StartChunk, Lesser
<1>7. ASSUME n > 0 PROVE start * size <= n
  <2>1. start <= total - 1 /\ total - 1 \in Nat
    BY <1>1, <1>7 DEF StartChunk, Lesser
  <2>2. start * size <= (total - 1) * size
    BY <1>1, <1>2, <1>3, <2>1
  <2>3. \A d \in Nat \ {0}, a \in Nat : (a \div d) * d <= a
    OBVIOUS
  <2>4. total * size <= n + size - 1
    BY <1>1, <2>3 DEF ChunkTotal
  <2>5. (total - 1) * size = total * size - size
    BY <1>1
  <2>6. start * size \in Nat /\ total * size \in Nat
    BY <1>1, <1>2
  <2> QED
    BY <1>1, <2>2, <2>4, <2>5, <2>6
<1>8. 0 * size = 0
  BY <1>1
<1> HIDE DEF size, total, start
<1> QED
  BY <1>4, <1>5, <1>6, <1>7, <1>8 DEF size, start

\* Rows past the end of a file do not count.
LEMMA FoundedFile ==
    ASSUME NEW v \in Version, NEW i \in Nat, i \in 1..Len(Work[v]), NEW p \in Nat,
           Founded(v, i, Lesser(p, FileLen(v, i)))
    PROVE  Founded(v, i, p)
<1> SUFFICES ASSUME NEW s \in Store, Skipped(v, s, i, Lesser(p, FileLen(v, i)))
             PROVE  Skipped(v, s, i, p)
  BY DEF Founded
<1>1. FileLen(v, i) \in Nat
  BY ReleaseTypes DEF FileLen
<1> SUFFICES ASSUME NEW h \in 1..Len(Work[v]), StoreOf[Work[v][h]] = s,
                    NEW j \in 1..Len(Rows[v][Work[v][h]]), h < i \/ (h = i /\ j <= p)
             PROVE  db[s][Rows[v][Work[v][h]][j]] = v
  BY DEF Skipped
<1>2. h = i => j \in Nat /\ j <= FileLen(v, i)
  BY <1>1 DEF FileLen
<1>3. h = i => j <= Lesser(p, FileLen(v, i))
  BY <1>1, <1>2 DEF Lesser
<1> QED
  BY <1>3 DEF Skipped

-----------------------------------------------------------------------------
\* The import loop turns to an item, or past the last one.
LEMMA SoundAtItem ==
    ASSUME tuned' = tuned, NEW t \in Tab, NEW m \in Version, NEW i \in Nat \ {0},
           tab'[t].pc = AtItem(m, i), tab'[t].man = m, tab'[t].item = i,
           m \notin mixed' /\ i > Len(Work[m]) => AllCountable(m)',
           NEW q, m \notin mixed' /\ i <= Len(Work[m]) =>
             /\ q = IF tuned THEN tab'[t].pos ELSE StartRow(tab'[t].chunk, FileLen(m, i))
             /\ Founded(m, i, q)'
    PROVE  Sound(tab[t])'
<1>1. Len(Work[m]) \in Nat
  BY ReleaseTypes
<1>2. CASE i > Len(Work[m])
  <2>1. tab'[t].pc = "complete"
    BY <1>1, <1>2 DEF AtItem
  <2> QED
    BY <1>2, <2>1, SoundLabel
<1>3. CASE i <= Len(Work[m])
  <2>1. tab'[t].pc = "fetch"
    BY <1>3 DEF AtItem
  <2>2. Placed(tab[t])'
    BY <2>1 DEF Placed
  <2>3. FileLen(tab[t].man, tab[t].item)' = FileLen(m, i)
    BY DEF FileLen
  <2>4. ASSUME m \notin mixed'
        PROVE  Founded(tab[t].man, tab[t].item,
                       IF tuned THEN tab[t].pos
                       ELSE StartRow(tab[t].chunk, FileLen(tab[t].man, tab[t].item)))'
    <3>1. q = (IF tuned THEN tab[t].pos
               ELSE StartRow(tab[t].chunk, FileLen(tab[t].man, tab[t].item)))'
      BY <1>3, <2>3, <2>4
    <3> QED
      BY <1>3, <2>4, <3>1
  <2>5. Progress(tab[t])'
    BY <2>1, <2>4 DEF Progress, Clean
  <2> QED
    BY <2>2, <2>5 DEF Sound
<1> QED
  BY <1>1, <1>2, <1>3

\* The facts a step of the loop starts from.
LEMMA LoopFacts ==
    ASSUME IInv, NEW t \in Tab,
           tab[t].pc \in {"resume", "fetch", "empty", "write", "persist"}
    PROVE  /\ tab[t] \in TabState /\ tab[t].man \in Version
           /\ tab[t].pc # "resume" => /\ tab[t].item \in 1..Len(Work[tab[t].man])
                                      /\ tab[t].item \in Nat \ {0}
                                      /\ Work[tab[t].man][tab[t].item] \in File
           /\ tab[t].pc \in {"write", "persist"} => tab[t].got \in Version
<1>1. Typed /\ Control(tab[t])
  BY DEF IInv, Typed
<1>2. tab[t] \in TabState
  BY <1>1 DEF Typed, TypeOK
<1>3. tab[t].man \in Version
  BY <1>1 DEF Control, Busy, PC
<1>4. tab[t].pc # "resume" => tab[t].item \in 1..Len(Work[tab[t].man])
  BY <1>1 DEF Control
<1>5. tab[t].pc \in {"write", "persist"} => tab[t].got \in Version
  BY <1>1 DEF Control
<1>6. Len(Work[tab[t].man]) \in Nat
  BY <1>3, ReleaseTypes
<1>7. tab[t].pc # "resume" => /\ tab[t].item \in Nat \ {0}
                              /\ Work[tab[t].man][tab[t].item] \in File
  BY <1>3, <1>4, <1>6, ReleaseTypes
<1> QED
  BY <1>2, <1>3, <1>4, <1>5, <1>7

\* A page that has stored its work item turns soundly to the next one.
LEMMA NextItemSound ==
    ASSUME IInv, NEW t \in Tab, tab[t].pc \in {"fetch", "empty", "persist"},
           GotoNextItem(t), UNCHANGED <<db, tuned>>, NEW p \in Nat,
           tab[t].man \notin mixed' => /\ p >= FileLen(tab[t].man, tab[t].item)
                                       /\ Founded(tab[t].man, tab[t].item, p)
    PROVE  Sound(tab[t])'
<1> PICK m \in Version, i \in Nat : m = tab[t].man /\ i = tab[t].item
  BY LoopFacts
<1>1. i \in 1..Len(Work[m]) /\ Len(Work[m]) \in Nat
  BY LoopFacts, ReleaseTypes
<1>2. /\ tab'[t].pc = AtItem(m, i + 1) /\ tab'[t].man = m /\ tab'[t].item = i + 1
      /\ tab'[t].chunk = 0 /\ tab'[t].pos = 0
  BY NextItemEffect DEF IInv
<1>3. ASSUME m \notin mixed'
      PROVE  /\ i + 1 > Len(Work[m]) => AllCountable(m)'
             /\ Founded(m, i + 1, 0)'
  <2>1. p >= FileLen(m, i) /\ Founded(m, i, p)
    BY <1>3
  <2>2. Founded(m, i + 1, 0)
    BY <1>1, <2>1, ItemPassed
  <2>3. i + 1 > Len(Work[m]) => AllCountable(m)
    BY <2>2, FoundedAll
  <2> QED
    BY <2>2, <2>3, SameFounded
<1>4. ASSUME i + 1 <= Len(Work[m])
      PROVE  0 = IF tuned THEN tab'[t].pos ELSE StartRow(tab'[t].chunk, FileLen(m, i + 1))
  <2>1. i + 1 \in 1..Len(Work[m])
    BY <1>1, <1>4
  <2>2. FileLen(m, i + 1) \in Nat
    BY <2>1, ReleaseTypes DEF FileLen
  <2>3. StartRow(0, FileLen(m, i + 1)) = 0
    BY <2>2, StartRowBound
  <2> QED
    BY <1>2, <2>3
<1>5. i + 1 \in Nat \ {0}
  OBVIOUS
<1> QED
  BY <1>2, <1>3, <1>4, <1>5, SoundAtItem

\* A step of ReadCheckpoint keeps the invariant.
LEMMA ReadCheckpointStep ==
    ASSUME IInv, NEW t \in Tab, NEW ok \in BOOLEAN, ReadCheckpoint(t, ok)
    PROVE  Covered' /\ Sound(tab[t])'
<1>1. tab[t].pc = "resume" /\ UNCHANGED <<db, marker, ckpt, served, tuned>>
  BY DEF ReadCheckpoint
<1> PICK m \in Version : m = tab[t].man
  BY <1>1, LoopFacts
<1> DEFINE usable == ok /\ ckpt.v = m /\ ~ckpt.done
<1>2. PICK i : i = IF usable THEN Lesser(ckpt.item, Len(Work[m]) + 1) ELSE 1
  OBVIOUS
<1>3. Len(Work[m]) \in Nat /\ m # None
  BY ReleaseTypes
<1>4. usable => ckpt.item \in Nat \ {0}
  BY <1>3 DEF IInv, Typed
<1>5. i \in Nat \ {0}
  BY <1>2, <1>3, <1>4 DEF Lesser
<1>6. /\ tab[t] \in TabState
      /\ tab'[t] = [tab[t] EXCEPT !.pc = AtItem(m, i), !.item = i,
                                  !.chunk = IF usable THEN ckpt.chunk ELSE 0,
                                  !.pos = IF usable THEN ckpt.off ELSE 0]
  BY <1>2 DEF ReadCheckpoint, IInv, Typed, TypeOK
<1>7. /\ tab'[t].pc = AtItem(m, i) /\ tab'[t].man = m /\ tab'[t].item = i
      /\ tab'[t].chunk = (IF usable THEN ckpt.chunk ELSE 0)
      /\ tab'[t].pos = (IF usable THEN ckpt.off ELSE 0)
  BY <1>6 DEF TabState
<1>8. PICK q : q = IF tuned THEN tab'[t].pos ELSE StartRow(tab'[t].chunk, FileLen(m, i))
  OBVIOUS
<1>9. ckpt.chunk \in Nat /\ ckpt.off \in Nat
  BY DEF IInv, Typed, TypeOK, Checkpoint
<1>10. mixed' = IF m \in Vouched THEN mixed ELSE mixed \ {m}
  BY DEF ReadCheckpoint
<1>11. CASE ~usable
  <2>1. i = 1 /\ Founded(m, i, 0)
    BY <1>2, <1>11, FoundedFirst
  <2>2. i > Len(Work[m]) => AllCountable(m)'
    BY <1>1, <2>1, FoundedAll, SameFounded
  <2>3. ASSUME i <= Len(Work[m]) PROVE q = 0
    <3>1. FileLen(m, i) \in Nat
      BY <1>5, <2>3, ReleaseTypes DEF FileLen
    <3> QED
      BY <1>7, <1>8, <1>11, <3>1, StartRowBound
  <2>4. i <= Len(Work[m]) => Founded(m, i, q)'
    BY <1>1, <2>1, <2>3, SameFounded
  <2>5. Sound(tab[t])'
    BY <1>1, <1>5, <1>7, <1>8, <2>2, <2>4, SoundAtItem
  <2>6. \A v \in Vouched : (v \notin mixed' => v \notin mixed) /\ Keeps(v)
    BY <1>1, <1>10, SameKeeps DEF Vouched
  <2> QED
    BY <1>1, <2>5, <2>6, CoveredKept DEF IInv
<1>12. CASE usable
  <2>1. m \in Vouched /\ mixed' = mixed
    BY <1>10, <1>12 DEF Vouched
  <2>2. PICK n \in Nat : n = ckpt.item
    BY <1>4, <1>12
  <2>3. PICK k \in Nat : k = Skips(ckpt)
    BY <1>3, <1>12, SkipsNat DEF IInv
  <2>4. m \notin mixed => Founded(m, n, k)
    BY <1>3, <1>12, <2>2, <2>3 DEF IInv, Covered, CheckpointCovers
  <2>5. ASSUME m \notin mixed, i > Len(Work[m]) PROVE AllCountable(m)'
    <3>1. n > Len(Work[m])
      BY <1>2, <1>3, <1>12, <2>2, <2>5 DEF Lesser
    <3> QED
      BY <1>1, <2>4, <2>5, <3>1, FoundedAll, SameFounded
  <2>6. ASSUME m \notin mixed, i <= Len(Work[m]) PROVE Founded(m, i, q)'
    <3>1. i = n /\ i \in 1..Len(Work[m])
      BY <1>2, <1>3, <1>5, <1>12, <2>2, <2>6 DEF Lesser
    <3>2. k = ResumeRow(ckpt, FileLen(m, i)) /\ FileLen(m, i) \in Nat
      BY <1>12, <2>2, <2>3, <2>6, <3>1, ReleaseTypes DEF Skips, FileLen
    <3>3. q = IF tuned THEN ckpt.off ELSE StartRow(ckpt.chunk, FileLen(m, i))
      BY <1>7, <1>8, <1>12
    <3>4. CASE tuned
      BY <1>1, <1>9, <2>4, <2>6, <3>1, <3>2, <3>3, <3>4, FoundedFile, SameFounded
         DEF ResumeRow
    <3>5. CASE ~tuned
      BY <1>1, <2>4, <2>6, <3>1, <3>2, <3>3, <3>5, SameFounded DEF ResumeRow
    <3> QED
      BY <3>4, <3>5
  <2>7. Sound(tab[t])'
    BY <1>1, <1>5, <1>7, <1>8, <2>1, <2>5, <2>6, SoundAtItem
  <2> QED
    BY <1>1, <2>1, <2>7, CoveredQuiet DEF IInv
<1> QED
  BY <1>11, <1>12

-----------------------------------------------------------------------------
\* A chunk begins at a founded row.
LEMMA ChunkSound ==
    ASSUME IInv, NEW t \in Tab, tab[t].pc \in {"fetch", "persist"},
           NEW c \in Nat, NEW p \in Nat, NEW w \in Version, GotoChunk(t, c, p, w),
           UNCHANGED <<db, tuned>>,
           \E h \in 1..Len(Work[w]) : Work[w][h] = ThisFile(t),
           tuned \/ p = c * ImportChunkSize(Len(Rows[w][ThisFile(t)])),
           tab[t].man \notin mixed' =>
             w = tab[t].man /\ Founded(tab[t].man, tab[t].item, p)
    PROVE  Sound(tab[t])'
<1> PICK m \in Version, i \in Nat : m = tab[t].man /\ i = tab[t].item
  BY LoopFacts
<1> PICK n : n = Len(Rows[w][Work[m][i]])
  OBVIOUS
<1>1. i \in 1..Len(Work[m]) /\ Work[m][i] \in File
  BY LoopFacts
<1>2. n \in Nat /\ n = Len(Rows[w][ThisFile(t)])
  BY <1>1, ReleaseTypes DEF ThisFile
<1>3. PICK size \in IF tuned THEN AdaptiveChunks ELSE {ImportChunkSize(n)} :
        /\ tab'[t].pc = "write" /\ tab'[t].man = m
        /\ tab'[t].item = i /\ tab'[t].got = w
        /\ tab'[t].chunk = c /\ tab'[t].pos = p
        /\ tab'[t].lim = Lesser(p + size, n)
  BY <1>2, ChunkEffect DEF IInv
<1>4. size \in Nat
  BY <1>2, <1>3, ChunkAssumption, ChunkTotalNat
<1>5. Lesser(p + size, n) <= n
  BY <1>2, <1>4 DEF Lesser
<1>6. ASSUME ~tuned PROVE p + size = (c + 1) * ImportChunkSize(n)
  <2>1. ImportChunkSize(n) \in Nat
    BY <1>2, ChunkTotalNat
  <2> QED
    BY <1>2, <1>3, <1>6, <2>1
<1>7. Placed(tab[t])'
  <2>1. \E h \in 1..Len(Work[w]) : Work[w][h] = Work[m][i]
    BY DEF ThisFile
  <2> QED
    BY <1>2, <1>3, <1>5, <1>6, <2>1 DEF Placed
<1>8. m \notin mixed' => w = m /\ Founded(m, i, p)'
  BY SameFounded
<1>9. Progress(tab[t])'
  BY <1>3, <1>8 DEF Progress, Clean
<1> QED
  BY <1>7, <1>9 DEF Sound

\* A step of FileArrives keeps the invariant: a file of another release mixes the
\* page's.
LEMMA FileArrivesStep ==
    ASSUME IInv, NEW t \in Tab, NEW v \in Version, FileArrives(t, v)
    PROVE  Covered' /\ Sound(tab[t])'
<1>1. /\ tab[t].pc = "fetch" /\ UNCHANGED <<db, marker, ckpt, served, tuned>>
      /\ mixed' = mixed \union ({tab[t].man} \ {v})
      /\ \E h \in 1..Len(Work[v]) : Work[v][h] = ThisFile(t)
  BY DEF FileArrives
<1> PICK m \in Version, i \in Nat : m = tab[t].man /\ i = tab[t].item
  BY <1>1, LoopFacts
<1> PICK n : n = Len(Rows[v][Work[m][i]])
  OBVIOUS
<1>2. tab[t] \in TabState /\ i \in 1..Len(Work[m]) /\ Work[m][i] \in File
  BY <1>1, LoopFacts
<1>3. n \in Nat /\ n = Len(Rows[v][ThisFile(t)]) /\ (m = v => n = FileLen(m, i))
  BY <1>2, ReleaseTypes DEF ThisFile, FileLen
<1>4. PICK c \in Nat, p \in Nat : c = tab[t].chunk /\ p = tab[t].pos
  BY <1>2 DEF TabState
<1>5. m \notin mixed' => m \notin mixed /\ v = m
  BY <1>1
<1>6. m \notin mixed' => Founded(m, i, IF tuned THEN p ELSE StartRow(c, n))
  BY <1>1, <1>3, <1>4, <1>5 DEF IInv, Sound, Progress, Clean
<1>7. StartChunk(c, n) \in Nat /\ StartRow(c, n) \in Nat
  BY <1>3, StartChunkNat
<1>8. Covered'
  <2>1. \A u \in Vouched : (u \notin mixed' => u \notin mixed) /\ Keeps(u)
    BY <1>1, SameKeeps DEF Vouched
  <2> QED
    BY <1>1, <2>1, CoveredKept DEF IInv
<1>9. CASE n = 0 /\ Goto(t, "empty")
  <2>1. tab'[t].pc = "empty" /\ tab'[t].man = m /\ tab'[t].item = i
    BY <1>9, GotoEffect DEF IInv, Holds
  <2>2. Placed(tab[t])'
    BY <2>1 DEF Placed
  <2>3. m \notin mixed' => Founded(m, i, 0)
    BY <1>4, <1>6, <1>7, FoundedFewer
  <2>4. m \notin mixed' => Founded(m, i, 0)' /\ FileLen(m, i) = 0
    BY <1>1, <1>3, <1>5, <1>9, <2>3, SameFounded
  <2>5. Progress(tab[t])'
    BY <2>1, <2>4 DEF Progress, Clean, FileLen
  <2> QED
    BY <1>8, <2>2, <2>5 DEF Sound
<1>10. CASE n > 0 /\ ~tuned /\ GotoChunk(t, StartChunk(c, n), StartRow(c, n), v)
  <2>1. StartRow(c, n) = StartChunk(c, n) * ImportChunkSize(Len(Rows[v][ThisFile(t)]))
    BY <1>3, <1>10, StartRowBound
  <2>2. m \notin mixed' => v = m /\ Founded(m, i, StartRow(c, n))
    BY <1>5, <1>6, <1>10
  <2>3. PICK c1 \in Nat, p1 \in Nat : c1 = StartChunk(c, n) /\ p1 = StartRow(c, n)
    BY <1>7
  <2> QED
    BY <1>1, <1>8, <1>10, <2>1, <2>2, <2>3, ChunkSound
<1>11. CASE tuned /\ GotoChunk(t, c, p, v)
  BY <1>1, <1>5, <1>6, <1>8, <1>11, ChunkSound
<1>12. CASE tuned /\ p >= n /\ GotoNextItem(t)
  BY <1>1, <1>3, <1>5, <1>6, <1>8, <1>12, NextItemSound
<1> QED
  BY <1>3, <1>4, <1>9, <1>10, <1>11, <1>12 DEF FileArrives

-----------------------------------------------------------------------------
\* A checkpoint is written, or not, at a position up to which rows are founded.
LEMMA CheckpointStep ==
    ASSUME IInv, NEW t \in Tab, tab[t].pc \in {"empty", "persist"},
           NEW c \in Nat, NEW p \in Nat, PersistCheckpoint(t, c, p) \/ UNCHANGED ckpt,
           UNCHANGED <<db, marker, tuned, mixed>>,
           tab[t].man \notin mixed =>
             /\ Founded(tab[t].man, tab[t].item, p)
             /\ tuned \/ StartRow(c, FileLen(tab[t].man, tab[t].item)) <= p
    PROVE  Covered'
<1> PICK m \in Version, i \in Nat : m = tab[t].man /\ i = tab[t].item
  BY LoopFacts
<1>1. i \in 1..Len(Work[m])
  BY LoopFacts
<1>2. CASE UNCHANGED ckpt
  BY <1>2, CoveredQuiet DEF IInv
<1>3. CASE PersistCheckpoint(t, c, p)
  <2>1. /\ (ckpt').v = m /\ (ckpt').item = i /\ (ckpt').chunk = c /\ (ckpt').off = p
    BY <1>3 DEF PersistCheckpoint
  <2> PICK n : n = FileLen(m, i)
    OBVIOUS
  <2>2. n \in Nat
    BY <1>1, ReleaseTypes DEF FileLen
  <2> PICK q : q = IF tuned THEN Lesser(p, n) ELSE StartRow(c, n)
    OBVIOUS
  <2>3. q = Skips(ckpt)'
    <3>1. i <= Len(Work[m])
      BY <1>1, ReleaseTypes
    <3> QED
      BY <2>1, <3>1 DEF Skips, ResumeRow, FileLen
  <2>4. m \notin mixed => Founded(m, i, q)'
    <3>1. StartRow(c, n) \in Nat
      BY <2>2, StartChunkNat
    <3>2. m \notin mixed => q \in Nat /\ q <= p
      BY <2>2, <3>1 DEF Lesser
    <3>3. m \notin mixed => Founded(m, i, q)
      BY <3>2, FoundedFewer
    <3> QED
      BY <3>3, SameFounded
  <2>5. CheckpointCovers'
    BY <2>1, <2>3, <2>4 DEF CheckpointCovers
  <2>6. marker' = marker /\ (AllCountable(marker) => AllCountable(marker)')
    <3> PICK k : k = marker
      OBVIOUS
    <3>1. AllCountable(k) => AllCountable(k)'
      BY SameFounded
    <3> QED
      BY <3>1
  <2>7. MarkerCovers'
    BY <2>6 DEF IInv, Covered, MarkerCovers
  <2> QED
    BY <2>5, <2>7 DEF Covered
<1> QED
  BY <1>2, <1>3

\* A step of EmptyFile keeps the invariant.
LEMMA EmptyFileStep ==
    ASSUME IInv, NEW t \in Tab, NEW ok \in BOOLEAN, EmptyFile(t, ok)
    PROVE  Covered' /\ Sound(tab[t])'
<1>1. tab[t].pc = "empty" /\ UNCHANGED <<db, marker, tuned, mixed>> /\ GotoNextItem(t)
  BY DEF EmptyFile
<1>2. PICK c \in Nat : c = tab[t].chunk
  BY <1>1, LoopFacts DEF TabState
<1>3. PersistCheckpoint(t, c, 0) \/ UNCHANGED ckpt
  BY <1>2 DEF EmptyFile
<1>4. tab[t].man \notin mixed => /\ FileLen(tab[t].man, tab[t].item) = 0
                                 /\ Founded(tab[t].man, tab[t].item, 0)
  BY <1>1, LoopFacts DEF IInv, Sound, Progress, Clean
<1>5. StartRow(c, 0) = 0
  BY StartRowBound
<1>6. Covered'
  BY <1>1, <1>3, <1>4, <1>5, CheckpointStep
<1>7. Sound(tab[t])'
  BY <1>1, <1>4, NextItemSound
<1> QED
  BY <1>6, <1>7

\* A step of EndChunk keeps the invariant.
LEMMA EndChunkStep ==
    ASSUME IInv, NEW t \in Tab, NEW ok \in BOOLEAN, EndChunk(t, ok)
    PROVE  Covered' /\ Sound(tab[t])'
<1>1. tab[t].pc = "persist" /\ UNCHANGED <<db, marker, tuned, mixed>>
  BY DEF EndChunk
<1>2. /\ tab[t] \in TabState /\ tab[t].got \in Version /\ tab[t].man \in Version
      /\ tab[t].item \in 1..Len(Work[tab[t].man])
      /\ Work[tab[t].man][tab[t].item] \in File
  BY <1>1, LoopFacts
<1>3. PICK c \in Nat, p \in Nat : c = tab[t].chunk + 1 /\ p = tab[t].pos
  BY <1>2 DEF TabState
<1>4. PICK n \in Nat : n = Len(Body(t))
  BY <1>2, ReleaseTypes DEF Body, ThisFile
<1>5. PersistCheckpoint(t, c, p) \/ UNCHANGED ckpt
  BY <1>3 DEF EndChunk
<1>6. /\ tuned \/ p = Lesser(c * ImportChunkSize(n), n)
      /\ \E h \in 1..Len(Work[tab[t].got]) : Work[tab[t].got][h] = ThisFile(t)
  BY <1>1, <1>3, <1>4 DEF IInv, Sound, Placed, Body, ThisFile
<1>7. tab[t].man \notin mixed => /\ tab[t].got = tab[t].man
                                 /\ Founded(tab[t].man, tab[t].item, p)
                                 /\ n = FileLen(tab[t].man, tab[t].item)
  BY <1>1, <1>2, <1>3, <1>4 DEF IInv, Sound, Progress, Clean, FileLen, Body, ThisFile
<1>8. tuned \/ StartRow(c, n) <= p
  BY <1>6, StartRowBound DEF Lesser
<1>9. Covered'
  BY <1>1, <1>5, <1>7, <1>8, CheckpointStep
<1>10. CASE p < n /\ GotoChunk(t, c, p, tab[t].got)
  <2> PICK w \in Version : w = tab[t].got
    BY <1>2
  <2>1. tuned \/ p = c * ImportChunkSize(Len(Rows[w][ThisFile(t)]))
    <3>1. c * ImportChunkSize(n) \in Nat
      BY ChunkTotalNat
    <3> QED
      BY <1>4, <1>6, <1>10, <3>1 DEF Lesser, Body
  <2>2. GotoChunk(t, c, p, w)
    BY <1>10
  <2> QED
    BY <1>1, <1>6, <1>7, <1>9, <2>1, <2>2, ChunkSound
<1>11. CASE p >= n /\ GotoNextItem(t)
  BY <1>1, <1>7, <1>9, <1>11, NextItemSound
<1> QED
  BY <1>3, <1>4, <1>9, <1>10, <1>11 DEF EndChunk

\* Page t writes the rows up to last of file i of release m, as release w has them.
Put(t, m, w, i, s, last, batch) ==
    /\ s = StoreOf[Work[m][i]]
    /\ batch = {Rows[w][Work[m][i]][j] : j \in (tab[t].pos + 1)..last}
    /\ Writes(w, s, batch)
    /\ last <= tab[t].lim /\ last <= Len(Rows[w][Work[m][i]])
    /\ tab'[t] = [tab[t] EXCEPT !.pos = last,
                    !.pc = IF last = tab[t].lim THEN "persist" ELSE "write"]

\* A page writes rows of the release of the file it has, as it has them.
LEMMA PutEffect ==
    ASSUME Typed, NEW t \in Tab, PutBatch(t),
           NEW m \in Version, NEW w \in Version, NEW i \in 1..Len(Work[m]),
           m = tab[t].man, w = tab[t].got, i = tab[t].item,
           tab[t].lim <= Len(Rows[w][Work[m][i]]),
           \E h \in 1..Len(Work[w]) : Work[w][h] = Work[m][i]
    PROVE  \E s \in Store, last \in Nat : \E batch : Put(t, m, w, i, s, last, batch)
<1>1. tab[t].pc = "write" /\ tab[t] \in TabState /\ Work[m][i] \in File
  BY ReleaseTypes DEF PutBatch, Typed, TypeOK
<1>2. PICK p \in Nat, lim \in Nat : p = tab[t].pos /\ lim = tab[t].lim
  BY <1>1 DEF TabState
<1>body. PICK body \in Seq(Key) : body = Body(t) /\ body = Rows[w][Work[m][i]]
  BY <1>1, ReleaseTypes DEF Body, ThisFile
<1>store. PICK s \in Store : s = StoreOf[ThisFile(t)] /\ s = StoreOf[Work[m][i]]
  BY <1>1, ReleaseAssumption DEF ThisFile
<1>3. PICK size \in Nat :
        LET l == LastRow(t, size)
            st == StoreOf[ThisFile(t)]
            rows == {Body(t)[j] : j \in (tab[t].pos + 1)..l}
        IN /\ db' = [db EXCEPT ![st] = [k \in Key |->
                        IF k \in rows THEN tab[t].got ELSE db[st][k]]]
           /\ tab' = [tab EXCEPT ![t] =
                        [tab[t] EXCEPT !.pos = l,
                                       !.pc = IF l = tab[t].lim
                                              THEN "persist" ELSE "write"]]
  <2>1. TxSizes \subseteq Nat
    BY ChunkAssumption DEF TxSizes
  <2> QED
    BY <2>1 DEF PutBatch
<1>last. PICK last : last = Lesser(p + size, lim) /\ last = LastRow(t, size)
  BY <1>2 DEF LastRow
<1>batch. PICK batch : batch = {body[j] : j \in (p + 1)..last}
  OBVIOUS
<1>4. /\ db' = [db EXCEPT ![s] = [k \in Key |-> IF k \in batch THEN w ELSE db[s][k]]]
      /\ tab' = [tab EXCEPT ![t] =
                   [tab[t] EXCEPT !.pos = last,
                                  !.pc = IF last = lim THEN "persist" ELSE "write"]]
  <2>1. batch = {Body(t)[j] : j \in (tab[t].pos + 1)..last}
    BY <1>2, <1>body, <1>batch
  <2>2. db' = [db EXCEPT ![s] = [k \in Key |->
                  IF k \in batch THEN tab[t].got ELSE db[s][k]]]
    BY <1>3, <1>last, <1>store, <2>1, Zenon
  <2>3. tab' = [tab EXCEPT ![t] =
                  [tab[t] EXCEPT !.pos = last,
                                 !.pc = IF last = tab[t].lim THEN "persist" ELSE "write"]]
    BY <1>3, <1>last, Zenon
  <2> QED
    BY <1>2, <2>2, <2>3
<1>5. last \in Nat /\ last <= lim
  <2>1. size \in Nat
    OBVIOUS
  <2> QED
    BY <1>2, <1>last, <2>1 DEF Lesser
<1>6. tab'[t] = [tab[t] EXCEPT !.pos = last,
                               !.pc = IF last = lim THEN "persist" ELSE "write"]
  BY <1>4 DEF Typed, TypeOK
<1>7. lim <= Len(body) /\ \E h \in 1..Len(Work[w]) : Work[w][h] = Work[m][i]
  BY <1>2, <1>body
<1>8. batch \subseteq KeysOf(w, s)
  <2> SUFFICES ASSUME NEW j \in (p + 1)..last PROVE body[j] \in KeysOf(w, s)
    BY <1>batch
  <2>1. j \in Nat /\ j >= 1 /\ j <= last
    BY <1>2, <1>5
  <2>2. Len(body) \in Nat
    OBVIOUS
  <2>3. j \in 1..Len(body)
    BY <1>2, <1>5, <1>7, <2>1, <2>2
  <2>4. body[j] \in Key
    BY <2>3
  <2> QED
    BY <1>7, <1>body, <1>store, <2>3, <2>4 DEF KeysOf
<1>9. \A x \in Store, k \in Key :
          db'[x][k] = IF x = s /\ k \in batch THEN w ELSE db[x][k]
  BY <1>4 DEF Typed, TypeOK
<1>10. Writes(w, s, batch)
  BY <1>8, <1>9 DEF Writes
<1>11. last <= Len(body)
  <2>1. Len(body) \in Nat
    OBVIOUS
  <2> QED
    BY <1>2, <1>5, <1>7, <2>1
<1>12. batch = {Rows[w][Work[m][i]][j] : j \in (tab[t].pos + 1)..last}
  BY <1>2, <1>body, <1>batch
<1> QED
  BY <1>2, <1>5, <1>6, <1>10, <1>11, <1>12, <1>body, <1>store DEF Put

\* Rows founded up to a batch and written by it are founded up to its end.
LEMMA FoundedFurther ==
    ASSUME Typed, NEW v \in Version, NEW i \in Nat, i \in 1..Len(Work[v]),
           NEW p \in Nat, NEW q \in Nat, Founded(v, i, p)',
           \A j \in (p + 1)..q : j <= Len(Rows[v][Work[v][i]]) =>
              db'[StoreOf[Work[v][i]]][Rows[v][Work[v][i]][j]] = v
    PROVE  Founded(v, i, q)'
<1> SUFFICES ASSUME NEW s \in Store, Skipped(v, s, i, p)' PROVE Skipped(v, s, i, q)'
  BY DEF Founded
<1> SUFFICES ASSUME NEW h \in 1..Len(Work[v]), StoreOf[Work[v][h]] = s,
                    NEW j \in 1..Len(Rows[v][Work[v][h]]), h < i \/ (h = i /\ j <= q)
             PROVE  db'[s][Rows[v][Work[v][h]][j]] = v
  BY DEF Skipped
<1>1. CASE h < i \/ (h = i /\ j <= p)
  BY <1>1 DEF Skipped
<1>2. CASE h = i /\ j > p
  <2>1. Len(Rows[v][Work[v][i]]) \in Nat
    BY ReleaseTypes
  <2>2. j \in (p + 1)..q /\ j <= Len(Rows[v][Work[v][i]])
    BY <1>2, <2>1
  <2> QED
    BY <1>2, <2>2
<1>3. h = i => j \in Nat
  BY ReleaseTypes
<1> QED
  BY <1>1, <1>2, <1>3

\* A step of PutBatch keeps the invariant: rows of another release mix every release
\* a record speaks for.
LEMMA PutBatchStep ==
    ASSUME IInv, NEW t \in Tab, PutBatch(t)
    PROVE  Covered' /\ Sound(tab[t])'
<1>1. /\ tab[t].pc = "write" /\ UNCHANGED <<marker, ckpt, tuned>>
      /\ mixed' = mixed \union (Vouched \ {tab[t].got})
  BY DEF PutBatch
<1>2. /\ tab[t] \in TabState /\ tab[t].man \in Version /\ tab[t].got \in Version
      /\ tab[t].item \in 1..Len(Work[tab[t].man]) /\ tab[t].item \in Nat
  BY <1>1, LoopFacts
<1>regs. PICK m \in Version, w \in Version, i \in Nat, p \in Nat, lim \in Nat :
           /\ m = tab[t].man /\ w = tab[t].got /\ i = tab[t].item
           /\ p = tab[t].pos /\ lim = tab[t].lim
  BY <1>2 DEF TabState
<1>3. i \in 1..Len(Work[m]) /\ Placed(tab[t]) /\ Typed
  BY <1>2, <1>regs DEF IInv, Sound
<1>4. \E s \in Store, last \in Nat : \E batch : Put(t, m, w, i, s, last, batch)
  <2>1. /\ tab[t].lim <= Len(Rows[w][Work[m][i]])
        /\ \E h \in 1..Len(Work[w]) : Work[w][h] = Work[m][i]
    BY <1>1, <1>3, <1>regs DEF Placed
  <2> QED
    BY <1>3, <1>regs, <2>1, PutEffect
<1>put. PICK s \in Store, last \in Nat : \E batch : Put(t, m, w, i, s, last, batch)
  BY <1>4
<1>batch. PICK batch : Put(t, m, w, i, s, last, batch)
  BY <1>put
<1>5. Keeps(w) /\ \A k \in batch : db'[s][k] = w
  <2>1. w \in Version /\ s \in Store /\ Writes(w, s, batch)
    BY <1>batch DEF Put
  <2>2. Keeps(w)
    BY <2>1, WriteKeeps, Zenon
  <2>3. \A k \in batch : db'[s][k] = w
    BY <2>1, WriteKeeps, Zenon
  <2> QED
    BY <2>2, <2>3
<1>6. Covered'
  <2>1. \A v \in Vouched : v \notin mixed' => v \notin mixed /\ Keeps(v)
    BY <1>1, <1>5, <1>regs
  <2> QED
    BY <1>1, <2>1, CoveredKept DEF IInv
<1>7. /\ tab'[t].pc = (IF last = lim THEN "persist" ELSE "write") /\ tab'[t].pos = last
      /\ tab'[t].man = m /\ tab'[t].item = i /\ tab'[t].got = w
      /\ tab'[t].chunk = tab[t].chunk /\ tab'[t].lim = lim
  BY <1>2, <1>batch, <1>regs DEF TabState, Put
<1>8. Placed(tab[t])'
  BY <1>1, <1>3, <1>7, <1>regs DEF Placed
<1>9. ASSUME m \notin mixed' PROVE w = m /\ Founded(m, i, last)'
  <2>1. w = m /\ Founded(m, i, p)
    BY <1>1, <1>9, <1>regs DEF IInv, Sound, Progress, Clean
  <2>2. Founded(m, i, p)'
    BY <1>5, <2>1 DEF Keeps
  <2>3. \A j \in (p + 1)..last : db'[s][Rows[m][Work[m][i]][j]] = m
    BY <1>5, <1>batch, <1>regs, <2>1 DEF Put
  <2>4. \A j \in (p + 1)..last : j <= Len(Rows[m][Work[m][i]]) =>
            db'[StoreOf[Work[m][i]]][Rows[m][Work[m][i]][j]] = m
    BY <1>batch, <2>3 DEF Put
  <2> QED
    BY <1>3, <2>1, <2>2, <2>4, FoundedFurther
<1>10. Progress(tab[t])'
  BY <1>7, <1>9 DEF Progress, Clean
<1> QED
  BY <1>6, <1>8, <1>10 DEF Sound

-----------------------------------------------------------------------------
\* What a page may do in a step, with a request answered or failed, from release v.
Acts(t, ok, v) ==
    \/ LoadPage(t) \/ ManifestFails(t) \/ ReadMarker(t, ok) \/ VerifyExisting(t, ok)
    \/ ClearStore(t, ok) \/ DropMarker(t, ok) \/ DropCheckpoint(t, ok)
    \/ ReadCheckpoint(t, ok) \/ FetchFails(t) \/ EmptyFile(t, ok) \/ PutBatch(t)
    \/ PutFails(t) \/ PutClashes(t) \/ EndChunk(t, ok) \/ PutMarker(t, ok)
    \/ PutCompleted(t, ok) \/ VerifyImport(t, ok) \/ Crash(t) \/ ResetData(t)
    \/ ManifestArrives(t, v) \/ FileArrives(t, v) \/ FileGone(t, v)

LEMMA NextActs ==
    ASSUME Typed, Next, ~\E v \in Version : Deploy(v)
    PROVE  \E t \in Tab, ok \in BOOLEAN, v \in Version : Acts(t, ok, v)
<1>1. 1..served \subseteq Version /\ 1 \in Version /\ TRUE \in BOOLEAN
  BY ServedSoFar, ReleaseAssumption DEF Version
<1> QED
  BY <1>1, NextCases, Zenon DEF Acts

\* The invariant holds at first.
LEMMA HonestInit == Init => IInv
<1> SUFFICES ASSUME Init PROVE IInv
  OBVIOUS
<1>1. Typed
  BY TypedInit
<1>2. \A v : AllCountable(v)
  BY DEF Init, AllCountable, Founded, Pure
<1>3. Covered
  BY <1>2 DEF Covered, CheckpointCovers, MarkerCovers, Init, NoCheckpoint
<1>4. Closed.pc = "closed"
  BY DEF Closed
<1>5. Sound(Closed)
  BY <1>4 DEF Sound, Placed, Progress
<1> QED
  BY <1>1, <1>3, <1>5 DEF IInv, Init

\* Every step keeps the invariant.
LEMMA HonestStep ==
    ASSUME OnePage, IInv, [Next]_vars
    PROVE  IInv'
<1>1. Typed'
  BY TypedStep DEF IInv
<1>2. ASSUME NEW t \in Tab, Covered', Sound(tab[t])' PROVE IInv'
  <2>1. \A u \in Tab : u = t
    BY DEF OnePage
  <2>2. \A u \in Tab : Sound(tab[u])'
    BY <1>2, <2>1
  <2> QED
    BY <1>1, <1>2, <2>2 DEF IInv
<1>3. CASE UNCHANGED vars \/ \E v \in Version : Deploy(v)
  BY <1>1, <1>3, DeployStep DEF IInv, vars, Deploy
<1>4. CASE Next /\ ~\E v \in Version : Deploy(v)
  <2> PICK t \in Tab, ok \in BOOLEAN, v \in Version : Acts(t, ok, v)
    BY <1>4, NextActs DEF IInv
  <2>1. Covered' /\ Sound(tab[t])'
    BY LoadPageStep, ManifestStep, FailStep, ReadMarkerStep, VerifyExistingStep,
       ClearStoreStep, DropStep, ReadCheckpointStep, FileArrivesStep, EmptyFileStep,
       PutBatchStep, EndChunkStep, CompletionStep, VerifyImportStep, LeaveStep DEF Acts
  <2> QED
    BY <1>2, <2>1
<1> QED
  BY <1>3, <1>4

\* The invariant of every behaviour of one page.
LEMMA Honest == OnePage => (Spec => []IInv)
<1> SUFFICES ASSUME OnePage PROVE Spec => []IInv
  OBVIOUS
<1>1. IInv /\ [Next]_vars => IInv'
  BY HonestStep
<1> QED
  BY HonestInit, <1>1, PTL DEF Spec

(***************************************************************************)
(* With one page "Offline data ready" is always honest of a release that   *)
(* was not mixed with another: equal counts imply equal contents in every  *)
(* checked store (data.rs 1024-1058, 1550-1558), whatever releases the     *)
(* caches answered with before and however the importer was interrupted.   *)
(***************************************************************************)
THEOREM ReadyIsHonest == OnePage => (Spec => []HonestReady)
<1> SUFFICES ASSUME OnePage PROVE Spec => []HonestReady
  OBVIOUS
<1>1. IInv => HonestReady
  <2> SUFFICES ASSUME IInv, NEW t \in Tab, tab[t].pc = "ready", tab[t].man \notin mixed,
                      NEW s \in Checked
               PROVE  Exact(tab[t].man, s)
    BY DEF HonestReady
  <2>1. tab[t].man \in Version
    BY DEF IInv, Typed, Control, Busy, PC
  <2> QED
    BY <2>1 DEF IInv, Sound, Progress, Clean
<1> QED
  BY Honest, <1>1, PTL

(***************************************************************************)
(* With one page a resumed import of a release that was not mixed with     *)
(* another never skips a row that is not stored, unless counting will tell *)
(* (data.rs 1061-1108, 1165).                                              *)
(***************************************************************************)
THEOREM CheckpointsCover == OnePage => (Spec => []CheckpointCovers)
<1> SUFFICES ASSUME OnePage PROVE Spec => []CheckpointCovers
  OBVIOUS
<1>1. IInv => CheckpointCovers
  BY DEF IInv, Covered
<1> QED
  BY Honest, <1>1, PTL

(***************************************************************************)
(* With one page the marker is on a release that was not mixed with        *)
(* another only when counting can judge every store (data.rs 1009-1021,    *)
(* 1445-1467).                                                             *)
(***************************************************************************)
THEOREM MarkersCover == OnePage => (Spec => []MarkerCovers)
<1> SUFFICES ASSUME OnePage PROVE Spec => []MarkerCovers
  OBVIOUS
<1>1. IInv => MarkerCovers
  BY DEF IInv, Covered
<1> QED
  BY Honest, <1>1, PTL

-----------------------------------------------------------------------------
(***************************************************************************)
(* Several pages.  While one release is served they write the same rows,   *)
(* so that no store ever holds another: what one page finds when it counts *)
(* is exact, and can only be undone by a page that repairs or resets.      *)
(***************************************************************************)
OneRelease == MaxVersion = 1

OnlyRows == \A s \in Store : Pure(1, s)

\* A chunk ends within its file.
Within(r) == r.pc = "write" => r.lim <= Len(Rows[r.got][Work[r.man][r.item]])

PagesInv == Typed /\ OnlyRows /\ \A t \in Tab : Within(tab[t])

\* The only release.
LEMMA Single ==
    ASSUME OneRelease, Typed
    PROVE  /\ Version = {1} /\ served = 1 /\ 1 \in Version
           /\ \A t \in Tab : tab[t].pc \in Busy => tab[t].man = 1
           /\ \A t \in Tab : tab[t].pc = "write" =>
                /\ tab[t].got = 1 /\ tab[t].item \in 1..Len(Work[1])
                /\ tab[t].pos \in Nat /\ tab[t].lim \in Nat
<1>1. Version = {1}
  BY DEF OneRelease, Version
<1> QED
  BY <1>1 DEF Typed, TypeOK, Control, Busy, PC, TabState

\* What a transaction of a page writes while there is one release.
LEMMA PagePuts ==
    ASSUME OneRelease, Typed, NEW t \in Tab, Within(tab[t]), PutBatch(t)
    PROVE  \E s \in Store : \E batch : Writes(1, s, batch)
<1>1. /\ tab[t].pc = "write" /\ tab[t].man = 1 /\ tab[t].got = 1 /\ 1 \in Version
      /\ tab[t].item \in 1..Len(Work[1]) /\ tab[t].pos \in Nat /\ tab[t].lim \in Nat
  BY Single DEF PutBatch, Busy, PC
<1> PICK i \in 1..Len(Work[1]) : i = tab[t].item
  BY <1>1
<1>2. /\ tab[t].lim <= Len(Rows[1][Work[1][i]])
      /\ \E h \in 1..Len(Work[1]) : Work[1][h] = Work[1][i]
  BY <1>1 DEF Within
<1>3. PICK s \in Store, last \in Nat : \E batch : Put(t, 1, 1, i, s, last, batch)
  BY <1>1, <1>2, PutEffect
<1> QED
  BY <1>3 DEF Put

\* What a step does to the stores: nothing, rows of the release, or a store or all
\* of them emptied by a page that repairs or resets.
LEMMA StoresStep ==
    ASSUME OneRelease, PagesInv, [Next]_vars
    PROVE  \/ db' = db
           \/ \E s \in Store : \E batch : Writes(1, s, batch)
           \/ /\ \E t \in Tab : tab[t].pc \in {"clear", "failed"}
              /\ \A s \in Store : db'[s] = db[s] \/ db'[s] = [k \in Key |-> None]
<1>1. CASE UNCHANGED vars \/ \E v \in Version : Deploy(v)
  BY <1>1 DEF vars, Deploy
<1>2. ASSUME NEW t \in Tab, NEW ok \in BOOLEAN, ClearStore(t, ok) \/ ResetData(t)
      PROVE  /\ \E u \in Tab : tab[u].pc \in {"clear", "failed"}
             /\ \A s \in Store : db'[s] = db[s] \/ db'[s] = [k \in Key |-> None]
  BY <1>2 DEF ClearStore, ResetData, PagesInv, Typed, TypeOK
<1>3. ASSUME NEW t \in Tab, PutBatch(t) PROVE \E s \in Store : \E batch : Writes(1, s, batch)
  BY <1>3, PagePuts DEF PagesInv
<1>4. \A t \in Tab, ok \in BOOLEAN :
         \/ LoadPage(t) \/ ManifestFails(t)
         \/ ReadMarker(t, ok) \/ VerifyExisting(t, ok)
         \/ DropMarker(t, ok) \/ DropCheckpoint(t, ok) \/ ReadCheckpoint(t, ok)
         => db' = db
  BY Zenon DEF LoadPage, ManifestFails, ReadMarker,
     VerifyExisting, DropMarker, DropCheckpoint, ReadCheckpoint
<1>5. \A t \in Tab, ok \in BOOLEAN :
         \/ FetchFails(t) \/ EmptyFile(t, ok) \/ PutFails(t) \/ PutClashes(t)
         \/ EndChunk(t, ok)
         \/ PutMarker(t, ok) \/ PutCompleted(t, ok) \/ VerifyImport(t, ok) \/ Crash(t)
         => db' = db
  BY Zenon DEF FetchFails, EmptyFile, PutFails, PutClashes,
     EndChunk, PutMarker, PutCompleted, VerifyImport, Crash
<1>6. \A t \in Tab, v \in 1..served :
         ManifestArrives(t, v) \/ FileArrives(t, v) \/ FileGone(t, v) => db' = db
  BY Zenon DEF ManifestArrives, FileArrives, FileGone
<1>7. CASE Next /\ ~\E v \in Version : Deploy(v)
  BY <1>2, <1>3, <1>4, <1>5, <1>6, <1>7, NextCases
<1> QED
  BY <1>1, <1>7

\* A page's chunk stays within its file.
LEMMA WithinStep ==
    ASSUME Typed, \A t \in Tab : Within(tab[t]), [Next]_vars
    PROVE  \A t \in Tab : Within(tab[t])'
<1>1. ASSUME NEW t \in Tab, Within(tab[t])', \A u \in Tab \ {t} : tab'[u] = tab[u]
      PROVE  \A u \in Tab : Within(tab[u])'
  BY <1>1 DEF Within
<1>2. CASE UNCHANGED vars \/ \E v \in Version : Deploy(v)
  BY <1>2 DEF vars, Deploy, Within
<1>3. ASSUME NEW t \in Tab, NEW c, NEW p, NEW v \in Version, GotoChunk(t, c, p, v),
             tab[t].pc \in {"fetch", "persist"}
      PROVE  Within(tab[t])'
  <2> DEFINE n == Len(Rows[v][ThisFile(t)])
  <2>1. PICK size :
          /\ tab'[t].pc = "write" /\ tab'[t].man = tab[t].man
          /\ tab'[t].item = tab[t].item /\ tab'[t].got = v
          /\ tab'[t].lim = Lesser(p + size, n)
    BY <1>3, ChunkEffect
  <2>2. Lesser(p + size, n) <= n
    <3>1. tab[t].man \in Version /\ tab[t].item \in 1..Len(Work[tab[t].man])
      BY <1>3 DEF Typed, Control, Busy, PC
    <3>2. n \in Nat
      BY <3>1, ReleaseTypes DEF ThisFile
    <3> QED
      BY <3>2 DEF Lesser
  <2> QED
    BY <2>1, <2>2 DEF Within, ThisFile
<1>4. ASSUME NEW t \in Tab, NEW l \in PC \ {"write"}, Goto(t, l)
      PROVE  Within(tab[t])'
  BY <1>4, GotoEffect DEF Within, Holds
<1>5. ASSUME NEW t \in Tab, GotoNextItem(t) PROVE Within(tab[t])'
  BY <1>5, NextItemEffect DEF Within, AtItem
<1>6. ASSUME NEW t \in Tab, NEW ok \in BOOLEAN, NEW v \in Version,
             FileArrives(t, v) \/ EndChunk(t, ok)
      PROVE  Within(tab[t])'
  <2>1. tab[t].pc \in {"fetch", "persist"}
        /\ (tab[t].pc = "persist" => tab[t].got \in Version)
    BY <1>6 DEF FileArrives, EndChunk, Typed, Control
  <2>2. \/ Goto(t, "empty") \/ GotoNextItem(t)
        \/ \E c, p : GotoChunk(t, c, p, v)
        \/ tab[t].pc = "persist" /\ \E c, p : GotoChunk(t, c, p, tab[t].got)
    BY <1>6 DEF FileArrives, EndChunk
  <2> QED
    BY <2>1, <2>2, <1>3, <1>4, <1>5 DEF PC
<1>7. ASSUME NEW t \in Tab, PutBatch(t) PROVE Within(tab[t])'
  <2>1. PICK l, q : tab' = [tab EXCEPT ![t] = [tab[t] EXCEPT !.pos = q, !.pc = l]]
    BY <1>7 DEF PutBatch
  <2>2. tab[t].pc = "write" /\ tab[t] \in TabState
    BY <1>7 DEF PutBatch, Typed, TypeOK
  <2>3. /\ tab'[t].man = tab[t].man /\ tab'[t].item = tab[t].item
        /\ tab'[t].got = tab[t].got /\ tab'[t].lim = tab[t].lim
    BY <2>1, <2>2 DEF Typed, TypeOK, TabState
  <2> QED
    BY <2>2, <2>3 DEF Within
<1>8. ASSUME NEW t \in Tab, NEW ok \in BOOLEAN, NEW v,
             \/ ManifestFails(t) \/ ReadMarker(t, ok) \/ DropMarker(t, ok)
             \/ DropCheckpoint(t, ok) \/ FileGone(t, v) \/ FetchFails(t)
             \/ PutFails(t) \/ PutClashes(t) \/ PutMarker(t, ok) \/ PutCompleted(t, ok)
             \/ VerifyImport(t, ok)
      PROVE  Within(tab[t])'
  <2>1. PICK l \in PC \ {"write"} : Goto(t, l)
    BY <1>8 DEF ManifestFails, ReadMarker, DropMarker, DropCheckpoint, FileGone,
       FetchFails, PutFails, PutClashes, PutMarker, PutCompleted, VerifyImport, PC
  <2> QED
    BY <2>1, <1>4
<1>9. ASSUME NEW t \in Tab, NEW ok \in BOOLEAN, NEW v,
             \/ LoadPage(t) \/ ManifestArrives(t, v) \/ VerifyExisting(t, ok)
             \/ ClearStore(t, ok) \/ ReadCheckpoint(t, ok) \/ EmptyFile(t, ok)
             \/ Crash(t) \/ ResetData(t)
      PROVE  Within(tab[t])'
  <2>1. tab[t] \in TabState /\ tab \in [Tab -> TabState]
    BY DEF Typed, TypeOK
  <2>2. tab'[t].pc # "write"
    <3>1. CASE LoadPage(t) \/ Crash(t) \/ ResetData(t)
      BY <2>1, <3>1 DEF LoadPage, Crash, ResetData, Closed
    <3>2. CASE ManifestArrives(t, v)
      BY <2>1, <3>2 DEF ManifestArrives, TabState
    <3>6. CASE ClearStore(t, ok)
      BY <2>1, <3>6 DEF ClearStore, TabState
    <3>3. CASE VerifyExisting(t, ok)
      BY <2>1, <3>3 DEF VerifyExisting, Goto, TabState
    <3>4. CASE ReadCheckpoint(t, ok)
      BY <2>1, <3>4 DEF ReadCheckpoint, TabState, AtItem
    <3>5. CASE EmptyFile(t, ok)
      BY <3>5, NextItemEffect DEF EmptyFile, AtItem
    <3> QED
      BY <1>9, <3>1, <3>2, <3>3, <3>4, <3>5, <3>6
  <2> QED
    BY <2>2 DEF Within
<1>10. CASE Next /\ ~\E v \in Version : Deploy(v)
  <2> PICK t \in Tab, ok \in BOOLEAN, v \in Version : Acts(t, ok, v)
    BY <1>10, NextActs
  <2>1. Within(tab[t])'
    BY <1>6, <1>7, <1>8, <1>9 DEF Acts
  <2>2. \E r : tab' = [tab EXCEPT ![t] = r]
    BY Zenon DEF Acts, LoadPage, ManifestArrives, ManifestFails, ReadMarker,
       VerifyExisting, ClearStore, DropMarker, DropCheckpoint, ReadCheckpoint,
       FileArrives, FileGone, FetchFails, EmptyFile, PutBatch, PutFails, PutClashes,
       EndChunk, PutMarker, PutCompleted,
       VerifyImport, Crash, ResetData, Goto, GotoNextItem, GotoChunk
  <2>3. \A u \in Tab \ {t} : tab'[u] = tab[u]
    BY <2>2 DEF Typed, TypeOK
  <2> QED
    BY <1>1, <2>1, <2>3
<1> QED
  BY <1>2, <1>10

\* The first store contents hold no row; every step keeps them within the release.
LEMMA PagesInit == OneRelease /\ Init => PagesInv
BY TypedInit DEF Init, PagesInv, OnlyRows, Pure, Within, Closed

LEMMA PagesStep ==
    ASSUME OneRelease, PagesInv, [Next]_vars
    PROVE  PagesInv'
<1>1. Typed' /\ \A t \in Tab : Within(tab[t])'
  BY TypedStep, WithinStep DEF PagesInv
<1>2. ASSUME db' = db PROVE OnlyRows'
  BY <1>2 DEF PagesInv, OnlyRows, Pure
<1>3. ASSUME NEW s \in Store, NEW batch, Writes(1, s, batch) PROVE OnlyRows'
  BY <1>3 DEF Writes, PagesInv, OnlyRows, Pure
<1>4. ASSUME \A s \in Store : db'[s] = db[s] \/ db'[s] = [k \in Key |-> None]
      PROVE  OnlyRows'
  <2> SUFFICES ASSUME NEW s \in Store, NEW k \in Key, db'[s][k] # None
               PROVE  k \in KeysOf(1, s) /\ db'[s][k] = 1
    BY DEF OnlyRows, Pure
  <2>1. db'[s] = db[s]
    BY <1>4
  <2> QED
    BY <2>1 DEF PagesInv, OnlyRows, Pure
<1>5. OnlyRows'
  BY <1>2, <1>3, <1>4, StoresStep
<1> QED
  BY <1>1, <1>5 DEF PagesInv

LEMMA PagesKept == OneRelease => (Spec => []PagesInv)
<1> SUFFICES ASSUME OneRelease PROVE Spec => []PagesInv
  OBVIOUS
<1>1. PagesInv /\ [Next]_vars => PagesInv'
  BY PagesStep
<1>2. Init => PagesInv
  BY PagesInit
<1> QED
  BY <1>1, <1>2, PTL DEF Spec

\* A page gets ready only while every checked store is exact.
HonestWhenCounted ==
    [][\A t \in Tab : tab[t].pc # "ready" /\ tab'[t].pc = "ready"
         => \A s \in Checked : Exact(served, s)]_vars

\* A page that gets ready has counted, and found what the manifest says.
LEMMA ReadyHasCounted ==
    ASSUME Typed, [Next]_vars, NEW t \in Tab, tab[t].pc # "ready", tab'[t].pc = "ready"
    PROVE  tab[t].pc \in Busy /\ CountsMatch(tab[t].man)
<1>1. tab \in [Tab -> TabState]
  BY DEF Typed, TypeOK
<1>2. CASE UNCHANGED vars \/ \E v \in Version : Deploy(v)
  BY <1>2 DEF vars, Deploy
<1>3. CASE Next /\ ~\E v \in Version : Deploy(v)
  <2> PICK u \in Tab, ok \in BOOLEAN, v \in Version : Acts(u, ok, v)
    BY <1>3, NextActs
  <2>1. \E r : tab' = [tab EXCEPT ![u] = r]
    BY Zenon DEF Acts, LoadPage, ManifestArrives, ManifestFails, ReadMarker,
       VerifyExisting, ClearStore, DropMarker, DropCheckpoint, ReadCheckpoint,
       FileArrives, FileGone, FetchFails, EmptyFile, PutBatch, PutFails, PutClashes,
       EndChunk, PutMarker, PutCompleted,
       VerifyImport, Crash, ResetData, Goto, GotoNextItem, GotoChunk
  <2>2. u = t
    BY <1>1, <2>1
  <2>3. \A l : Goto(t, l) => l = "ready"
    BY GotoEffect DEF Holds
  <2>4. ~GotoNextItem(t)
    BY NextItemEffect DEF AtItem
  <2>5. \A c, p, w : ~GotoChunk(t, c, p, w)
    BY ChunkEffect
  <2>6. VerifyExisting(t, ok) \/ VerifyImport(t, ok)
    <3>1. ~(LoadPage(t) \/ Crash(t) \/ ResetData(t))
      BY <1>1 DEF LoadPage, Crash, ResetData, Closed
    <3>2. ~ManifestArrives(t, v)
      BY <1>1 DEF ManifestArrives, TabState
    <3>3. ~ClearStore(t, ok)
      BY <1>1 DEF ClearStore, TabState
    <3>4. ASSUME ReadCheckpoint(t, ok) PROVE FALSE
      <4>1. PICK l \in {"fetch", "complete"} :
              \E i, c, p : tab' = [tab EXCEPT ![t] =
                  [tab[t] EXCEPT !.pc = l, !.item = i, !.chunk = c, !.pos = p]]
        BY <3>4 DEF ReadCheckpoint, AtItem
      <4>2. tab'[t].pc = l
        BY <1>1, <4>1 DEF TabState
      <4> QED
        BY <4>2
    <3>5. ASSUME PutBatch(t) PROVE FALSE
      <4>1. PICK l \in {"persist", "write"} :
              \E p : tab' = [tab EXCEPT ![t] = [tab[t] EXCEPT !.pos = p, !.pc = l]]
        BY <3>5 DEF PutBatch
      <4>2. tab'[t].pc = l
        BY <1>1, <4>1 DEF TabState
      <4> QED
        BY <4>2
    <3>6. ~(FileArrives(t, v) \/ EmptyFile(t, ok) \/ EndChunk(t, ok))
      BY <2>3, <2>4, <2>5 DEF FileArrives, EmptyFile, EndChunk
    <3>7. ~(ManifestFails(t) \/ ReadMarker(t, ok) \/ DropMarker(t, ok)
            \/ DropCheckpoint(t, ok) \/ FileGone(t, v) \/ FetchFails(t)
            \/ PutFails(t) \/ PutClashes(t) \/ PutMarker(t, ok)
            \/ PutCompleted(t, ok))
      BY <2>3 DEF ManifestFails, ReadMarker, DropMarker, DropCheckpoint, FileGone,
         FetchFails, PutFails, PutClashes, PutMarker, PutCompleted
    <3> QED
      BY <2>2, <3>1, <3>2, <3>3, <3>4, <3>5, <3>6, <3>7 DEF Acts
  <2>7. CASE VerifyExisting(t, ok)
    <3>1. tab'[t] = [tab[t] EXCEPT !.pc = "clear", !.clr = 1] => tab'[t].pc = "clear"
      BY <1>1 DEF TabState
    <3> QED
      BY <1>1, <2>7, <3>1 DEF VerifyExisting, Busy, PC
  <2>8. CASE VerifyImport(t, ok)
    BY <2>3, <2>8 DEF VerifyImport, Busy, PC
  <2> QED
    BY <2>6, <2>7, <2>8
<1> QED
  BY <1>2, <1>3

(***************************************************************************)
(* However many pages import, repair and crash side by side, the page that *)
(* reports "Offline data ready" does so while every checked store is the   *)
(* release (data.rs 1024-1058, 1550-1558).                                 *)
(***************************************************************************)
THEOREM PagesCountHonestly == OneRelease => (Spec => HonestWhenCounted)
<1> SUFFICES ASSUME OneRelease PROVE Spec => HonestWhenCounted
  OBVIOUS
<1> DEFINE Step == \A t \in Tab : tab[t].pc # "ready" /\ tab'[t].pc = "ready"
                      => \A s \in Checked : Exact(served, s)
<1>1. ASSUME PagesInv, [Next]_vars PROVE Step
  <2> SUFFICES ASSUME NEW t \in Tab, tab[t].pc # "ready", tab'[t].pc = "ready",
                      NEW s \in Checked
               PROVE  Exact(served, s)
    OBVIOUS
  <2>1. Typed /\ CountsMatch(tab[t].man) /\ tab[t].pc \in Busy
    BY <1>1, ReadyHasCounted DEF PagesInv
  <2>2. s \in Store /\ served = 1 /\ tab[t].man = 1 /\ 1 \in Version
    BY <2>1, Single, ReleaseAssumption
  <2>3. Pure(1, s) /\ Cardinality(Present(s)) = Cardinality(KeysOf(1, s))
    BY <1>1, <2>1, <2>2 DEF PagesInv, OnlyRows, CountsMatch
  <2> QED
    BY <2>1, <2>2, <2>3, CountingDecides
<1> HIDE DEF Step
<1>2. PagesInv /\ [Next]_vars => [Step]_vars
  BY <1>1
<1>3. Spec => [][Step]_vars
  BY <1>2, PagesKept, PTL DEF Spec
<1> QED
  BY <1>3 DEF HonestWhenCounted, Step

\* Only a page that repairs or resets undoes a release that is there.
OnlyRepairsUndo ==
    [][\A s \in Store : Exact(served, s) /\ ~Exact(served, s)'
         => \E t \in Tab : tab[t].pc \in {"clear", "failed"}]_vars

(***************************************************************************)
(* What is ready stays ready whatever the other pages import: only their   *)
(* repair or reset (clear_seed_stores_for_repair, data.rs 1009-1021) takes *)
(* rows away, as the counterexample of import_tabs_repair does.            *)
(***************************************************************************)
THEOREM PagesUndoByRepair == OneRelease => (Spec => OnlyRepairsUndo)
<1> SUFFICES ASSUME OneRelease PROVE Spec => OnlyRepairsUndo
  OBVIOUS
<1> DEFINE Step == \A s \in Store : Exact(served, s) /\ ~Exact(served, s)'
                      => \E t \in Tab : tab[t].pc \in {"clear", "failed"}
<1>1. ASSUME PagesInv, [Next]_vars PROVE Step
  <2>0. served = 1 /\ served' = 1
    BY <1>1, PagesStep, Single DEF PagesInv, Typed, TypeOK, OneRelease, Version
  <2>1. CASE db' = db
    BY <2>0, <2>1 DEF Exact
  <2>2. ASSUME NEW x \in Store, NEW batch, Writes(1, x, batch),
               NEW s \in Store, Exact(1, s)
        PROVE  Exact(1, s)'
    BY <2>2 DEF Writes, Exact
  <2> QED
    BY <1>1, <2>0, <2>1, <2>2, StoresStep
<1> HIDE DEF Step
<1>2. PagesInv /\ [Next]_vars => [Step]_vars
  BY <1>1
<1>3. Spec => [][Step]_vars
  BY <1>2, PagesKept, PTL DEF Spec
<1> QED
  BY <1>3 DEF OnlyRepairsUndo, Step
=============================================================================
