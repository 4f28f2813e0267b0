----------------------------- MODULE DataImport -----------------------------
(***************************************************************************)
(* The offline-data importer of the DMB Almanac PWA: ensure_seed_data and  *)
(* everything it calls in dmb_app/src/data.rs, with the IndexedDB calls of *)
(* dmb_idb/src/lib.rs it makes.  A page load compares the import marker    *)
(* with the served manifest, verifies or repairs what is stored, resumes   *)
(* from the checkpoint, upserts every work item chunk by chunk, writes the *)
(* marker and the completed checkpoint, and verifies the record counts.    *)
(*                                                                         *)
(* Every IndexedDB request and every fetch is awaited, so one action is    *)
(* one such request and the synchronous code up to the next.  A parameter  *)
(* ok = FALSE is the request failing.  A row is the version of the release *)
(* that wrote it, and None where the store has no row under that key.      *)
(*                                                                         *)
(* The service worker answers a request under /data/ from any cache that   *)
(* has it, and fetches behind the answer (sw.js 226-239, with the manifest *)
(* precached at 45-49): the manifest and each file may come from any       *)
(* release served so far, whatever the others come from.                   *)
(***************************************************************************)
EXTENDS Naturals, Sequences, FiniteSets

CONSTANTS
    Tab,                  \* pages of the app sharing the origin's IndexedDB
    MaxVersion,           \* releases are 1..MaxVersion
    Store, Key, File,     \* seed object stores, primary keys, data files
    StoreOf,              \* the store a data file is imported into
    Work,                 \* Work[v]: the files of release v, in import order
    Rows,                 \* Rows[v][f]: the keys of file f in release v
    Index,                \* Index[v][s][k]: the slug or songId of row k of store
                          \* s in release v, k itself if s has no unique index
    ClearOrder,           \* the stores in the order of IMPORT_SPECS
    Checked,              \* the stores whose count the manifest carries
    DefaultChunk, LargeChunk, LargeThreshold,  \* import_chunk_size
    CheckpointInterval, AdaptiveInterval,      \* chunks between checkpoints
    TxBatch,              \* rows per transaction of bulk_put
    AdaptiveChunks,       \* chunk sizes the adaptive governor may choose
    AdaptiveTx            \* transaction sizes it may choose

Version == 1..MaxVersion
None == 0

ASSUME ReleaseAssumption ==
    /\ MaxVersion \in Nat \ {0}
    /\ IsFiniteSet(Key)
    /\ StoreOf \in [File -> Store]
    /\ Work \in [Version -> Seq(File)]
    /\ Rows \in [Version -> [File -> Seq(Key)]]
    /\ ClearOrder \in Seq(Store) /\ ClearOrder # << >>
    /\ Checked \subseteq Store

ASSUME ChunkAssumption ==
    /\ DefaultChunk \in Nat \ {0} /\ LargeChunk \in Nat \ {0}
    /\ LargeThreshold \in Nat
    /\ CheckpointInterval \in Nat \ {0} /\ AdaptiveInterval \in Nat \ {0}
    /\ TxBatch \in Nat \ {0}
    /\ AdaptiveChunks \subseteq Nat \ {0}
    /\ AdaptiveTx \subseteq Nat \ {0}

VARIABLES
    db,      \* db[s][k]: the release that wrote row k of store s, or None
    marker,  \* release named by sync-meta record data_import_v1, or None
    ckpt,    \* sync-meta record data_import_checkpoint_v1
    served,  \* the release the server serves
    tuned,   \* import_tuning_enabled(): the adaptive import path is on
    tab,     \* tab[t]: the state of ensure_seed_data in page t
    mixed    \* history, read by no step: the releases mixed with others since
             \* they were last imported from the first file on

vars == <<db, marker, ckpt, served, tuned, tab, mixed>>

-----------------------------------------------------------------------------
Lesser(a, b) == IF a <= b THEN a ELSE b

ImportChunkSize(n) == IF n >= LargeThreshold THEN LargeChunk ELSE DefaultChunk

ChunkTotal(n) == (n + ImportChunkSize(n) - 1) \div ImportChunkSize(n)

\* Where import_single_work_item restarts, given the checkpoint's chunk index.
StartChunk(hint, n) == IF n = 0 THEN 0 ELSE Lesser(hint, ChunkTotal(n) - 1)

StartRow(hint, n) == StartChunk(hint, n) * ImportChunkSize(n)

\* The rows a resumed import takes for granted in its first file.
ResumeRow(c, n) == IF tuned THEN Lesser(c.off, n) ELSE StartRow(c.chunk, n)

Checkpoint == [v: 0..MaxVersion, item: Nat, chunk: Nat, off: Nat, done: BOOLEAN]

NoCheckpoint == [v |-> None, item |-> 0, chunk |-> 0, off |-> 0, done |-> FALSE]

\* record_counts and file_counts give the number of rows of a store in a release.
KeysOf(v, s) ==
    {k \in Key : \E i \in 1..Len(Work[v]) :
        /\ StoreOf[Work[v][i]] = s
        /\ \E j \in 1..Len(Rows[v][Work[v][i]]) : Rows[v][Work[v][i]][j] = k}

\* No two rows of one release have one slug: the exporter's own indexes.
ASSUME IndexAssumption ==
    \A v \in Version, s \in Store : \A k, l \in KeysOf(v, s) :
        Index[v][s][k] = Index[v][s][l] => k = l

Present(s) == {k \in Key : db[s][k] # None}

\* verify_import_integrity finds no mismatch: counts, not contents.
CountsMatch(v) ==
    \A s \in Checked : Cardinality(Present(s)) = Cardinality(KeysOf(v, s))

\* The releases a record speaks for: one a later import verifies or resumes.
Vouched == {v \in Version : marker = v \/ (ckpt.v = v /\ ~ckpt.done)}

PC == {"closed", "manifest", "marker", "verify", "clear", "dropMarker",
       "dropCkpt", "resume", "fetch", "empty", "write", "persist",
       "complete", "seal", "check", "ready", "failed"}

TabState == [pc: PC, man: 0..MaxVersion, item: Nat, chunk: Nat, pos: Nat,
             lim: Nat, got: 0..MaxVersion, clr: Nat]

Closed == [pc |-> "closed", man |-> None, item |-> 0, chunk |-> 0, pos |-> 0,
           lim |-> 0, got |-> None, clr |-> 0]

Goto(t, label) == tab' = [tab EXCEPT ![t].pc = label]

ThisFile(t) == Work[tab[t].man][tab[t].item]

Body(t) == Rows[tab[t].got][ThisFile(t)]

\* The label of the import loop when it turns to work item i of release v.
AtItem(v, i) == IF i <= Len(Work[v]) THEN "fetch" ELSE "complete"

GotoNextItem(t) ==
    tab' = [tab EXCEPT ![t] =
              [tab[t] EXCEPT !.pc = AtItem(tab[t].man, tab[t].item + 1),
                             !.item = tab[t].item + 1, !.chunk = 0, !.pos = 0,
                             !.lim = 0, !.got = None]]

\* Page t begins to write the rows after p as its chunk number c + 1.
GotoChunk(t, c, p, v) ==
    LET n == Len(Rows[v][ThisFile(t)])
    IN \E size \in IF tuned THEN AdaptiveChunks ELSE {ImportChunkSize(n)} :
         tab' = [tab EXCEPT ![t] =
                   [tab[t] EXCEPT !.pc = "write", !.chunk = c, !.pos = p,
                                  !.lim = Lesser(p + size, n), !.got = v]]

\* Fault: the index of the chunk just written, or the work item after this one.
CheckpointBehind(t, c, p) ==
    ckpt' = [v |-> tab[t].man, item |-> tab[t].item, chunk |-> c - 1, off |-> p,
             done |-> FALSE]

CheckpointAhead(t, c, p) ==
    ckpt' = [v |-> tab[t].man, item |-> tab[t].item + 1, chunk |-> c, off |-> p,
             done |-> FALSE]

PersistCheckpoint(t, c, p) ==
    ckpt' = [v |-> tab[t].man, item |-> tab[t].item, chunk |-> c, off |-> p,
             done |-> FALSE]

-----------------------------------------------------------------------------
\* A fresh profile, or one whose seed stores were lost under a marker.
Init ==
    /\ db = [s \in Store |-> [k \in Key |-> None]]
    /\ served \in Version
    /\ marker \in {None, served}
    /\ ckpt = NoCheckpoint
    /\ tuned \in BOOLEAN
    /\ tab = [t \in Tab |-> Closed]
    /\ mixed = {}

\* A page load, or a reload, spawns ensure_seed_data.
LoadPage(t) ==
    /\ tab[t].pc \in {"closed", "ready", "failed"}
    /\ tab' = [tab EXCEPT ![t] = [Closed EXCEPT !.pc = "manifest"]]
    /\ UNCHANGED <<db, marker, ckpt, served, tuned, mixed>>

\* load_seed_manifest: the manifest and the dry-run report, of release v.
ManifestArrives(t, v) ==
    /\ tab[t].pc = "manifest"
    /\ tab' = [tab EXCEPT ![t] = [tab[t] EXCEPT !.pc = "marker", !.man = v]]
    /\ UNCHANGED <<db, marker, ckpt, served, tuned, mixed>>

ManifestFails(t) ==
    /\ tab[t].pc = "manifest"
    /\ Goto(t, "failed")
    /\ UNCHANGED <<db, marker, ckpt, served, tuned, mixed>>

ReadMarker(t, ok) ==
    /\ tab[t].pc = "marker"
    /\ Goto(t, IF ok /\ marker = tab[t].man THEN "verify" ELSE "resume")
    /\ UNCHANGED <<db, marker, ckpt, served, tuned, mixed>>

\* check_existing_manifest_integrity; a failed count is a mismatch.
VerifyExisting(t, ok) ==
    /\ tab[t].pc = "verify"
    /\ IF ok /\ CountsMatch(tab[t].man)
       THEN Goto(t, "ready")
       ELSE tab' = [tab EXCEPT ![t] = [tab[t] EXCEPT !.pc = "clear", !.clr = 1]]
    /\ UNCHANGED <<db, marker, ckpt, served, tuned, mixed>>

\* Fault: the repair stops before the last store.
ClearAllButLast(t, ok) ==
    /\ tab[t].pc = "clear"
    /\ LET s == ClearOrder[tab[t].clr]
       IN db' = IF ok /\ tab[t].clr < Len(ClearOrder)
                THEN [db EXCEPT ![s] = [k \in Key |-> None]] ELSE db
    /\ tab' = [tab EXCEPT ![t] =
                 [tab[t] EXCEPT !.pc = IF tab[t].clr < Len(ClearOrder)
                                       THEN "clear" ELSE "dropMarker",
                                !.clr = tab[t].clr + 1]]
    /\ UNCHANGED <<marker, ckpt, served, tuned, mixed>>

\* clear_seed_stores_for_repair: one store after the other, failures ignored.
ClearStore(t, ok) ==
    /\ tab[t].pc = "clear"
    /\ LET s == ClearOrder[tab[t].clr]
       IN db' = IF ok THEN [db EXCEPT ![s] = [k \in Key |-> None]] ELSE db
    /\ tab' = [tab EXCEPT ![t] =
                 [tab[t] EXCEPT !.pc = IF tab[t].clr < Len(ClearOrder)
                                       THEN "clear" ELSE "dropMarker",
                                !.clr = tab[t].clr + 1]]
    /\ UNCHANGED <<marker, ckpt, served, tuned, mixed>>

DropMarker(t, ok) ==
    /\ tab[t].pc = "dropMarker"
    /\ marker' = IF ok THEN None ELSE marker
    /\ Goto(t, "dropCkpt")
    /\ UNCHANGED <<db, ckpt, served, tuned, mixed>>

DropCheckpoint(t, ok) ==
    /\ tab[t].pc = "dropCkpt"
    /\ ckpt' = IF ok THEN NoCheckpoint ELSE ckpt
    /\ Goto(t, "resume")
    /\ UNCHANGED <<db, marker, served, tuned, mixed>>

\* Fault: the checkpoint of whatever release is resumed.
ReadAnyCheckpoint(t, ok) ==
    /\ tab[t].pc = "resume"
    /\ LET man == tab[t].man
           usable == ok /\ ckpt.v # None /\ ~ckpt.done
           first == IF usable THEN Lesser(ckpt.item, Len(Work[man]) + 1) ELSE 1
       IN tab' = [tab EXCEPT ![t] =
                    [tab[t] EXCEPT !.pc = AtItem(man, first), !.item = first,
                                   !.chunk = IF usable THEN ckpt.chunk ELSE 0,
                                   !.pos = IF usable THEN ckpt.off ELSE 0]]
    /\ mixed' = IF tab[t].man \in Vouched THEN mixed ELSE mixed \ {tab[t].man}
    /\ UNCHANGED <<db, marker, ckpt, served, tuned>>

\* load_resume_position: the checkpoint of this release, unless completed.
ReadCheckpoint(t, ok) ==
    /\ tab[t].pc = "resume"
    /\ LET man == tab[t].man
           usable == ok /\ ckpt.v = man /\ ~ckpt.done
           first == IF usable THEN Lesser(ckpt.item, Len(Work[man]) + 1) ELSE 1
       IN tab' = [tab EXCEPT ![t] =
                    [tab[t] EXCEPT !.pc = AtItem(man, first), !.item = first,
                                   !.chunk = IF usable THEN ckpt.chunk ELSE 0,
                                   !.pos = IF usable THEN ckpt.off ELSE 0]]
    /\ mixed' = IF tab[t].man \in Vouched THEN mixed ELSE mixed \ {tab[t].man}
    /\ UNCHANGED <<db, marker, ckpt, served, tuned>>

\* fetch_json_array answers with the file as release v has it: nothing compares
\* its release with the manifest's.
FileArrives(t, v) ==
    /\ tab[t].pc = "fetch"
    /\ \E i \in 1..Len(Work[v]) : Work[v][i] = ThisFile(t)
    /\ LET n == Len(Rows[v][ThisFile(t)])
       IN \/ /\ n = 0
             /\ Goto(t, "empty")
          \/ /\ n > 0 /\ ~tuned
             /\ GotoChunk(t, StartChunk(tab[t].chunk, n), StartRow(tab[t].chunk, n), v)
          \/ /\ n > 0 /\ tuned /\ tab[t].pos < n
             /\ GotoChunk(t, tab[t].chunk, tab[t].pos, v)
          \/ /\ n > 0 /\ tuned /\ tab[t].pos >= n
             /\ GotoNextItem(t)
    /\ mixed' = mixed \union ({tab[t].man} \ {v})
    /\ UNCHANGED <<db, marker, ckpt, served, tuned>>

\* No cache has the file and release v, which is asked for it, does not either.
FileGone(t, v) ==
    /\ tab[t].pc = "fetch"
    /\ \A i \in 1..Len(Work[v]) : Work[v][i] # ThisFile(t)
    /\ Goto(t, "failed")
    /\ UNCHANGED <<db, marker, ckpt, served, tuned, mixed>>

FetchFails(t) ==
    /\ tab[t].pc = "fetch"
    /\ Goto(t, "failed")
    /\ UNCHANGED <<db, marker, ckpt, served, tuned, mixed>>

\* An empty file: its checkpoint keeps the chunk index of the resume.
EmptyFile(t, ok) ==
    /\ tab[t].pc = "empty"
    /\ IF ok THEN PersistCheckpoint(t, tab[t].chunk, 0) ELSE UNCHANGED ckpt
    /\ GotoNextItem(t)
    /\ UNCHANGED <<db, marker, served, tuned, mixed>>

TxSizes == IF tuned THEN AdaptiveTx ELSE {TxBatch}

LastRow(t, size) == Lesser(tab[t].pos + size, tab[t].lim)

\* Row j of the batch has the slug that the row under another key k has by then:
\* one the batch has put before it, or one that was there.
Taken(t, j, k) ==
    LET s == StoreOf[ThisFile(t)]
        w == IF \E i \in (tab[t].pos + 1)..(j - 1) : Body(t)[i] = k
             THEN tab[t].got ELSE db[s][k]
    IN w # None /\ Index[w][s][k] = Index[tab[t].got][s][Body(t)[j]]

Clash(t, last) ==
    \E j \in (tab[t].pos + 1)..last, k \in Key : k # Body(t)[j] /\ Taken(t, j, k)

\* bulk_put: one transaction of write_batch.
PutBatch(t) ==
    /\ tab[t].pc = "write"
    /\ \E size \in TxSizes :
         LET last == LastRow(t, size)
             s == StoreOf[ThisFile(t)]
             batch == {Body(t)[j] : j \in (tab[t].pos + 1)..last}
         IN /\ ~Clash(t, last)
            /\ db' = [db EXCEPT ![s] = [k \in Key |->
                         IF k \in batch THEN tab[t].got ELSE db[s][k]]]
            /\ tab' = [tab EXCEPT ![t] =
                         [tab[t] EXCEPT !.pos = last,
                                        !.pc = IF last = tab[t].lim
                                               THEN "persist" ELSE "write"]]
    /\ mixed' = mixed \union (Vouched \ {tab[t].got})
    /\ UNCHANGED <<marker, ckpt, served, tuned>>

\* A unique index refuses a put: the transaction aborts and the import fails.
PutClashes(t) ==
    /\ tab[t].pc = "write"
    /\ \E size \in TxSizes : Clash(t, LastRow(t, size))
    /\ Goto(t, "failed")
    /\ UNCHANGED <<db, marker, ckpt, served, tuned, mixed>>

PutFails(t) ==
    /\ tab[t].pc = "write"
    /\ Goto(t, "failed")
    /\ UNCHANGED <<db, marker, ckpt, served, tuned, mixed>>

\* When the fixed path writes a checkpoint: chunk c of a file of n rows is done.
FixedDue(c, n) ==
    \/ ChunkTotal(n) <= CheckpointInterval
    \/ c = ChunkTotal(n)
    \/ c % CheckpointInterval = 0

\* When the adaptive path does, having written p of n rows: late stands for the
\* 1.5 s since the last one.
AdaptiveDue(c, p, n, late) == p >= n \/ c % AdaptiveInterval = 0 \/ late

CheckpointDue(c, p, n, late) ==
    IF tuned THEN AdaptiveDue(c, p, n, late) ELSE FixedDue(c, n)

\* The end of a chunk: its checkpoint, and the next chunk or work item.
EndChunk(t, ok) ==
    /\ tab[t].pc = "persist"
    /\ LET n == Len(Body(t))
           c == tab[t].chunk + 1
           p == tab[t].pos
       IN /\ \E late \in BOOLEAN :
               IF ok /\ CheckpointDue(c, p, n, late)
               THEN PersistCheckpoint(t, c, p) ELSE UNCHANGED ckpt
          /\ \/ p < n /\ GotoChunk(t, c, p, tab[t].got)
             \/ p >= n /\ GotoNextItem(t)
    /\ UNCHANGED <<db, marker, served, tuned, mixed>>

\* persist_import_completion: the marker, then the completed checkpoint.
PutMarker(t, ok) ==
    /\ tab[t].pc = "complete"
    /\ marker' = IF ok THEN tab[t].man ELSE marker
    /\ Goto(t, "seal")
    /\ UNCHANGED <<db, ckpt, served, tuned, mixed>>

PutCompleted(t, ok) ==
    /\ tab[t].pc = "seal"
    /\ ckpt' = IF ok
               THEN [v |-> tab[t].man, item |-> Len(Work[tab[t].man]) + 1,
                     chunk |-> 0, off |-> 0, done |-> TRUE]
               ELSE ckpt
    /\ Goto(t, "check")
    /\ UNCHANGED <<db, marker, served, tuned, mixed>>

\* Fault: the import is ready without being verified.
SkipVerification(t, ok) ==
    /\ tab[t].pc = "check"
    /\ Goto(t, "ready")
    /\ UNCHANGED <<db, marker, ckpt, served, tuned, mixed>>

VerifyImport(t, ok) ==
    /\ tab[t].pc = "check"
    /\ Goto(t, IF ok /\ CountsMatch(tab[t].man) THEN "ready" ELSE "failed")
    /\ UNCHANGED <<db, marker, ckpt, served, tuned, mixed>>

\* The page is closed, or the browser stops it, between any two requests.
Crash(t) ==
    /\ tab[t].pc # "closed"
    /\ tab' = [tab EXCEPT ![t] = Closed]
    /\ UNCHANGED <<db, marker, ckpt, served, tuned, mixed>>

\* action_reset_data, offered on an error: the database goes, the page reloads.
ResetData(t) ==
    /\ tab[t].pc = "failed"
    /\ db' = [s \in Store |-> [k \in Key |-> None]]
    /\ marker' = None
    /\ ckpt' = NoCheckpoint
    /\ tab' = [tab EXCEPT ![t] = Closed]
    /\ mixed' = {}
    /\ UNCHANGED <<served, tuned>>

Deploy(v) ==
    /\ v > served
    /\ served' = v
    /\ UNCHANGED <<db, marker, ckpt, tuned, tab, mixed>>

-----------------------------------------------------------------------------
\* The requests of page t that answer as the code hopes, asked of release v.
Asked(t, v) == ManifestArrives(t, v) \/ FileArrives(t, v) \/ FileGone(t, v)

Stored(t) ==
    \/ ReadMarker(t, TRUE) \/ VerifyExisting(t, TRUE)
    \/ ClearStore(t, TRUE) \/ DropMarker(t, TRUE) \/ DropCheckpoint(t, TRUE)
    \/ ReadCheckpoint(t, TRUE) \/ EmptyFile(t, TRUE)
    \/ PutBatch(t) \/ PutClashes(t) \/ EndChunk(t, TRUE)
    \/ PutMarker(t, TRUE) \/ PutCompleted(t, TRUE) \/ VerifyImport(t, TRUE)

Proceed(t) == Stored(t) \/ \E v \in 1..served : Asked(t, v)

NetworkFault(t) == ManifestFails(t) \/ FetchFails(t)

StorageFault(t) ==
    \/ ReadMarker(t, FALSE) \/ VerifyExisting(t, FALSE)
    \/ ClearStore(t, FALSE) \/ DropMarker(t, FALSE) \/ DropCheckpoint(t, FALSE)
    \/ ReadCheckpoint(t, FALSE) \/ EmptyFile(t, FALSE)
    \/ PutFails(t) \/ EndChunk(t, FALSE)
    \/ PutMarker(t, FALSE) \/ PutCompleted(t, FALSE) \/ VerifyImport(t, FALSE)

Next ==
    \/ \E t \in Tab : \/ LoadPage(t) \/ Proceed(t) \/ NetworkFault(t)
                      \/ StorageFault(t) \/ Crash(t) \/ ResetData(t)
    \/ \E v \in Version : Deploy(v)

Spec == Init /\ [][Next]_vars

\* The same system when no request fails, no page is closed or reset and the
\* caches have caught up with the server.
CalmNext ==
    \/ \E t \in Tab : LoadPage(t) \/ Stored(t) \/ Asked(t, served)
    \/ \E v \in Version : Deploy(v)

CalmSpec == Init /\ [][CalmNext]_vars

\* The event loop runs every continuation whose request has answered, and
\* users close, reload and open the app again and again.
LiveSpec == Spec /\ \A t \in Tab : WF_vars(Proceed(t)) /\ WF_vars(LoadPage(t))

-----------------------------------------------------------------------------
TypeOK ==
    /\ db \in [Store -> [Key -> 0..MaxVersion]]
    /\ marker \in 0..MaxVersion
    /\ ckpt \in Checkpoint
    /\ served \in Version
    /\ tuned \in BOOLEAN
    /\ tab \in [Tab -> TabState]
    /\ mixed \subseteq Version

\* Store s holds exactly the rows of release v, each written by that release.
Exact(v, s) == \A k \in Key : db[s][k] = IF k \in KeysOf(v, s) THEN v ELSE None

(***************************************************************************)
(* A page that reports "Offline data ready" has the release of its         *)
(* manifest and nothing else in every checked store, although the code     *)
(* only compares record counts, whatever crashes, lost writes, half-done   *)
(* repairs, other releases and stale manifests came before (data.rs        *)
(* 1024-1058, 1550-1558) - unless that release was mixed with another: a   *)
(* file of it came from another release's cache, or rows of another were   *)
(* written while a record spoke for it.                                    *)
(***************************************************************************)
HonestReady ==
    \A t \in Tab : tab[t].pc = "ready" /\ tab[t].man \notin mixed
                     => \A s \in Checked : Exact(tab[t].man, s)

\* Store s has every row of release v that comes before row p + 1 of work item i.
Skipped(v, s, i, p) ==
    \A h \in 1..Len(Work[v]) : StoreOf[Work[v][h]] = s =>
        \A j \in 1..Len(Rows[v][Work[v][h]]) :
            h < i \/ (h = i /\ j <= p) => db[s][Rows[v][Work[v][h]][j]] = v

\* Store s holds rows of release v only.
Pure(v, s) == \A k \in Key : db[s][k] # None => k \in KeysOf(v, s) /\ db[s][k] = v

\* Why counting suffices: an import that goes on from there ends with stores that
\* lack no row of the release or hold no other row, and either way an equal count
\* is equality.
Founded(v, i, p) == \A s \in Store : Pure(v, s) \/ Skipped(v, s, i, p)

AllCountable(v) == Founded(v, Len(Work[v]) + 1, 0)

FileLen(v, i) == Len(Rows[v][Work[v][i]])

\* The rows of its work item that a resume from checkpoint c skips.
Skips(c) == IF c.item <= Len(Work[c.v]) THEN ResumeRow(c, FileLen(c.v, c.item)) ELSE 0

(***************************************************************************)
(* What a resumed import skips is stored: the rows before the position a   *)
(* checkpoint leads to (data.rs 1061-1108, 1165).  A store a repair was    *)
(* emptying lacks them, but then it holds no other release's rows and the  *)
(* final verification is not deceived.                                     *)
(***************************************************************************)
CheckpointCovers ==
    ckpt.v # None /\ ~ckpt.done /\ ckpt.v \notin mixed =>
        Founded(ckpt.v, ckpt.item, Skips(ckpt))

(***************************************************************************)
(* The marker is written before the stores are verified and stays while a  *)
(* repair empties them (data.rs 1009-1021, 1445-1467): unless its release  *)
(* is mixed, it is still never on a store that counting could misjudge.    *)
(***************************************************************************)
MarkerCovers == marker # None /\ marker \notin mixed => AllCountable(marker)

(***************************************************************************)
(* Once pages stop being closed, requests stop failing and the caches have *)
(* caught up, an import gets to a ready page on the served release again   *)
(* and again: a failed verification heals by the repair of the next load   *)
(* (data.rs 1039-1052), and never by the user's reset.  One thing defeats  *)
(* it: a left-over row with a slug the release gives to another row aborts *)
(* the import at every load before it comes to be verified and repaired.   *)
(***************************************************************************)
Heals ==
    <>[][CalmNext]_vars
        => \/ []<>(\E t \in Tab : tab[t].pc = "ready" /\ tab[t].man = served)
           \/ []<>(\E t \in Tab : tab[t].pc = "write" /\
                      \E size \in TxSizes : Clash(t, LastRow(t, size)))

(***************************************************************************)
(* No page reports "Offline data ready" while the import marker is there   *)
(* but rows of the release are missing from a checked store: the behaviour *)
(* e2e/tests/e2e/rust-idb-repair.spec.js asks of the repair.               *)
(***************************************************************************)
ReadyHasRows ==
    \A t \in Tab : tab[t].pc = "ready" /\ tab[t].man = served /\ marker = served
        => \A s \in Checked : KeysOf(served, s) \subseteq Present(s)
=============================================================================
