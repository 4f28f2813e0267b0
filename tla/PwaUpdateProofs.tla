------------------------- MODULE PwaUpdateProofs -------------------------
(***************************************************************************)
(* What holds of the update notice and the caches for any number of pages  *)
(* and releases.                                                           *)
(***************************************************************************)
EXTENDS PwaUpdate, TLAPS

LEMMA TypeInit == Init => TypeOK
<1> USE PwaAssumption
<1>1. 0 \in Version BY DEF Version
<1>2. Shut \in Notice BY DEF Shut, Notice
<1> SUFFICES ASSUME Init PROVE TypeOK
    OBVIOUS
<1>3. reg \in [installing: Worker, waiting: Worker, active: Version]
    BY <1>1 DEF Init, Worker
<1>4. page \in [Page -> Notice]
    BY <1>2 DEF Init
<1> QED BY <1>1, <1>3, <1>4 DEF Init, TypeOK

\* What an event does to the pages.
LEMMA SentType ==
    ASSUME TypeOK, NEW e \in Event
    PROVE  Sent(e) \in [Page -> Notice]
BY DEF Sent, TypeOK, Notice

LEMMA TypeStep == TypeOK /\ [Next]_vars => TypeOK'
<1> SUFFICES ASSUME TypeOK, [Next]_vars PROVE TypeOK'
    OBVIOUS
<1> USE PwaAssumption
<1>0. None \notin Version /\ \A v \in Version : v \in Nat
    BY DEF Version
<1>a. ASSUME NEW p \in Page, NEW r \in Notice, page' = [page EXCEPT ![p] = r]
      PROVE  page' \in [Page -> Notice]
    BY <1>a DEF TypeOK
<1>b. \A p \in Page : page[p] \in Notice
    BY DEF TypeOK
<1>1. CASE Release
    BY <1>1 DEF Release, TypeOK, Version
<1>2. CASE UpdateFound
    <2>1. <<"found", deployed>> \in Event
        BY DEF TypeOK, Event
    <2> QED BY <1>2, <2>1, SentType DEF UpdateFound, TypeOK, Worker
<1>3. CASE Installed
    <2>1. reg.installing \in Version
        BY <1>3 DEF Installed, TypeOK, Worker
    <2>2. <<"installed", reg.installing>> \in Event
        BY <2>1 DEF Event
    <2>3. Filled(cache[reg.installing]) \subseteq {"none", "part", "full"}
        BY <2>1 DEF Filled, TypeOK
    <2> QED BY <1>3, <2>1, <2>2, <2>3, SentType DEF Installed, TypeOK, Worker
<1>4. CASE InstallFails
    <2>1. <<"redundant", reg.installing>> \in Event
        BY <1>4 DEF InstallFails, TypeOK, Worker, Event
    <2> QED BY <1>4, <2>1, SentType DEF InstallFails, TypeOK, Worker
<1>5. CASE Activate
    <2>1. reg.waiting \in Version
        BY <1>5 DEF Activate, TypeOK, Worker
    <2>2. <<"activated", reg.waiting>> \in Event
        BY <2>1 DEF Event
    <2>3. DeleteOthers(reg.waiting) \in [Version -> {"none", "part", "full"}]
        BY DEF DeleteOthers, TypeOK
    <2> QED BY <1>5, <2>1, <2>2, <2>3, SentType DEF Activate, TypeOK, Worker
<1>6. CASE SnoozeEnds
    BY <1>6 DEF SnoozeEnds, TypeOK
<1>7. ASSUME NEW p \in Page, Load(p) PROVE TypeOK'
    <2>1. Loaded \in Notice
        BY <1>b DEF Notice, TypeOK, Loaded, Shut
    <2>2. page' \in [Page -> Notice]
        BY <1>a, <1>7, <2>1 DEF Load
    <2> QED BY <1>7, <2>2 DEF Load, TypeOK
<1>8. ASSUME NEW p \in Page, Close(p) PROVE TypeOK'
    <2>1. Shut \in Notice
        BY <1>b DEF Notice, TypeOK, Shut
    <2>2. page' \in [Page -> Notice]
        BY <1>a, <1>8, <2>1 DEF Close
    <2> QED BY <1>8, <2>2 DEF Close, TypeOK
<1>9. ASSUME NEW p \in Page, Attach(p) PROVE TypeOK'
    <2>1. [page[p] EXCEPT !.pc = "open", !.ready = reg.waiting # None /\ ~snooze] \in Notice
        BY <1>b DEF Notice, TypeOK
    <2>2. page' \in [Page -> Notice]
        BY <1>a, <1>9, <2>1 DEF Attach
    <2> QED BY <1>9, <2>2 DEF Attach, TypeOK
<1>10. ASSUME NEW p \in Page, Hear(p) PROVE TypeOK'
    <2>1. PICK v \in Version : \/ HearFound(p, v) \/ HearInstalled(p, v)
                               \/ HearRedundant(p, v) \/ HearActivated(p, v)
        BY <1>10 DEF Hear
    <2>2. CASE HearFound(p, v)
        <3>1. [Take(p, <<"found", v>>) EXCEPT !.checking = TRUE, !.applying = FALSE,
              !.ready = FALSE, !.failed = FALSE] \in Notice
            BY <1>b DEF Take, Notice
        <3>2. page' \in [Page -> Notice]
            BY <1>a, <2>2, <3>1 DEF HearFound
        <3> QED BY <2>2, <3>2 DEF HearFound, TypeOK
    <2>3. CASE HearInstalled(p, v)
        <3>1. [Take(p, <<"installed", v>>) EXCEPT
              !.ready = @ \/ (reg.waiting # None /\ ~snooze),
              !.checking = FALSE, !.applying = FALSE, !.failed = FALSE] \in Notice
            BY <1>b DEF Take, Notice
        <3>2. page' \in [Page -> Notice]
            BY <1>a, <2>3, <3>1 DEF HearInstalled
        <3> QED BY <2>3, <3>2 DEF HearInstalled, TypeOK
    <2>4. CASE HearRedundant(p, v)
        <3>1. [Take(p, <<"redundant", v>>) EXCEPT !.failed = TRUE] \in Notice
            BY <1>b DEF Take, Notice
        <3>2. page' \in [Page -> Notice]
            BY <1>a, <2>4, <3>1 DEF HearRedundant
        <3> QED BY <2>4, <3>2 DEF HearRedundant, TypeOK
    <2>5. CASE HearActivated(p, v)
        <3>1. [Take(p, <<"activated", v>>) EXCEPT !.ready = FALSE, !.applying = FALSE,
              !.snoozed = FALSE] \in Notice
            BY <1>b DEF Take, Notice
        <3>2. page' \in [Page -> Notice]
            BY <1>a, <2>5, <3>1 DEF HearActivated
        <3> QED BY <2>5, <3>2 DEF HearActivated, TypeOK
    <2> QED BY <2>1, <2>2, <2>3, <2>4, <2>5
<1>11. ASSUME NEW p \in Page, Reload(p) PROVE TypeOK'
    <2>1. Loaded \in Notice
        BY <1>b DEF Notice, TypeOK, Loaded, Shut
    <2>2. page' \in [Page -> Notice]
        BY <1>a, <1>11, <2>1 DEF Reload
    <2> QED BY <1>11, <2>2 DEF Reload, TypeOK
<1>17. ASSUME NEW p \in Page, Reset(p) PROVE TypeOK'
    <2>1. Loaded \in Notice
        BY <1>b DEF Notice, TypeOK, Loaded, Shut
    <2>2. page' \in [Page -> Notice]
        BY <1>a, <1>17, <2>1 DEF Reset
    <2> QED BY <1>17, <2>2 DEF Reset, TypeOK
<1>12. ASSUME NEW p \in Page, AskUpdate(p) \/ UpdateAnswered(p) PROVE TypeOK'
    <2>1. \A b \in BOOLEAN : [page[p] EXCEPT !.checking = b, !.asking = b] \in Notice
        BY <1>b DEF Notice
    <2>2. page' \in [Page -> Notice]
        BY <1>a, <1>12, <2>1 DEF AskUpdate, UpdateAnswered
    <2> QED BY <1>12, <2>2 DEF AskUpdate, UpdateAnswered, TypeOK
<1>13. ASSUME NEW p \in Page, Later(p) PROVE TypeOK'
    <2>1. [page[p] EXCEPT !.snoozed = TRUE, !.ready = FALSE] \in Notice
        BY <1>b DEF Notice, TypeOK
    <2>2. page' \in [Page -> Notice]
        BY <1>a, <1>13, <2>1 DEF Later
    <2> QED BY <1>13, <2>2 DEF Later, TypeOK
<1>14. ASSUME NEW p \in Page, Apply(p) PROVE TypeOK'
    <2>1. [page[p] EXCEPT !.applying = TRUE, !.pc = "reloading"] \in Notice
        BY <1>b DEF Notice, TypeOK
    <2>2. page' \in [Page -> Notice]
        BY <1>a, <1>14, <2>1 DEF Apply
    <2> QED BY <1>14, <2>2 DEF Apply, TypeOK
<1>15. ASSUME NEW p \in Page, ApplyFails(p) PROVE TypeOK'
    <2>1. [page[p] EXCEPT !.ready = FALSE] \in Notice
        BY <1>b DEF Notice, TypeOK
    <2>2. page' \in [Page -> Notice]
        BY <1>a, <1>15, <2>1 DEF ApplyFails
    <2> QED BY <1>15, <2>2 DEF ApplyFails, TypeOK
<1>16. CASE UNCHANGED vars
    BY <1>16 DEF vars, TypeOK
<1> QED
    BY <1>1, <1>2, <1>3, <1>4, <1>5, <1>6, <1>7, <1>8, <1>9, <1>10, <1>11, <1>12,
       <1>13, <1>14, <1>15, <1>16, <1>17 DEF Next

(***************************************************************************)
(* Every state of the registration, the caches and the pages is well       *)
(* typed, and only a waiting worker has been told to skip waiting.         *)
(***************************************************************************)
THEOREM TypeCorrect == Spec => []TypeOK
BY TypeInit, TypeStep, PTL DEF Spec

-----------------------------------------------------------------------------
\* Workers are queued in the order of their releases.
Queue ==
    /\ reg.active <= deployed
    /\ reg.waiting # None => reg.active < reg.waiting /\ reg.waiting <= deployed
    /\ reg.installing # None =>
           /\ reg.active < reg.installing /\ reg.installing <= deployed
           /\ reg.waiting # None => reg.waiting < reg.installing

LEMMA QueueInit == Init => Queue
BY PwaAssumption DEF Init, Queue, Version

\* The kinds of step, as far as the registration and the caches go.
LEMMA CacheCases ==
    ASSUME [Next]_vars
    PROVE  \/ Release \/ UpdateFound \/ Installed \/ InstallFails \/ Activate
           \/ \E p \in Page : Reset(p)
           \/ UNCHANGED <<deployed, reg, cache>>
<1>1. ASSUME NEW p \in Page, Hear(p) PROVE UNCHANGED <<deployed, reg, cache>>
    BY <1>1 DEF Hear, HearFound, HearInstalled, HearRedundant, HearActivated
<1>2. ASSUME NEW p \in Page,
             \/ Load(p) \/ Close(p) \/ Attach(p) \/ Reload(p) \/ AskUpdate(p)
             \/ UpdateAnswered(p) \/ Later(p) \/ Apply(p) \/ ApplyFails(p)
      PROVE  UNCHANGED <<deployed, reg, cache>>
    BY <1>2 DEF Load, Close, Attach, Reload, AskUpdate, UpdateAnswered, Later, Apply,
                ApplyFails
<1>3. CASE SnoozeEnds \/ UNCHANGED vars
    BY <1>3 DEF SnoozeEnds, vars
<1> QED BY <1>1, <1>2, <1>3 DEF Next

\* A step queues a newer worker behind the others or moves one on.
LEMMA QueueStep ==
    ASSUME TypeOK, Queue, [Next]_vars
    PROVE  Queue'
<1> USE PwaAssumption
<1>0. /\ None \notin Version /\ \A v \in Version : v \in Nat
      /\ deployed \in Version /\ reg.active \in Version
      /\ reg.waiting # None => reg.waiting \in Version
      /\ reg.installing # None => reg.installing \in Version
    BY DEF Version, TypeOK, Worker
<1>1. CASE Release
    <2>1. deployed' = deployed + 1 /\ UNCHANGED reg
        BY <1>1 DEF Release
    <2> QED BY <1>0, <2>1 DEF Queue
<1>2. CASE UpdateFound
    <2>1. /\ reg.installing = None /\ deployed # Newest
          /\ reg' = [reg EXCEPT !.installing = deployed] /\ deployed' = deployed
        BY <1>2 DEF UpdateFound
    <2>2. /\ reg'.installing = deployed /\ reg'.waiting = reg.waiting
          /\ reg'.active = reg.active
        BY <2>1 DEF TypeOK
    <2>3. reg.active < deployed /\ (reg.waiting # None => reg.waiting < deployed)
        BY <1>0, <2>1 DEF Newest, Queue
    <2> QED BY <1>0, <2>1, <2>2, <2>3 DEF Queue
<1>3. CASE Installed
    <2>1. /\ reg' = [reg EXCEPT !.installing = None, !.waiting = reg.installing]
          /\ reg.installing # None /\ deployed' = deployed
        BY <1>3 DEF Installed
    <2>2. /\ reg'.installing = None /\ reg'.waiting = reg.installing
          /\ reg'.active = reg.active
        BY <2>1 DEF TypeOK
    <2> QED BY <1>0, <2>1, <2>2 DEF Queue
<1>4. CASE InstallFails
    <2>1. reg' = [reg EXCEPT !.installing = None] /\ deployed' = deployed
        BY <1>4 DEF InstallFails
    <2>2. /\ reg'.installing = None /\ reg'.waiting = reg.waiting
          /\ reg'.active = reg.active
        BY <2>1 DEF TypeOK
    <2> QED BY <2>1, <2>2 DEF Queue
<1>5. CASE Activate
    <2>1. /\ reg' = [reg EXCEPT !.waiting = None, !.active = reg.waiting]
          /\ reg.waiting # None /\ deployed' = deployed
        BY <1>5 DEF Activate
    <2>2. /\ reg'.installing = reg.installing /\ reg'.waiting = None
          /\ reg'.active = reg.waiting
        BY <2>1 DEF TypeOK
    <2> QED BY <1>0, <2>1, <2>2 DEF Queue
<1>6. CASE (\E p \in Page : Reset(p)) \/ UNCHANGED <<deployed, reg, cache>>
    BY <1>6 DEF Reset, Queue
<1> QED BY <1>1, <1>2, <1>3, <1>4, <1>5, <1>6, CacheCases

\* What a step may do to the full precache of a worker that waits or is active.
LEMMA PrecacheStep ==
    ASSUME TypeOK, Queue, [Next]_vars, NEW v \in {reg.active, reg.waiting},
           v \in {reg'.active, reg'.waiting}, v # None, cache[v] = "full"
    PROVE  cache'[v] = "full" \/ \E p \in Page : Reset(p)
<1> USE PwaAssumption
<1>0. /\ None \notin Version /\ \A w \in Version : w \in Nat
      /\ deployed \in Version /\ reg.active \in Version /\ v \in Version
      /\ reg.waiting # None => reg.waiting \in Version
      /\ reg.installing # None => reg.installing \in Version
    BY DEF Version, TypeOK, Worker
<1>1. CASE UpdateFound
    <2>1. /\ reg.installing = None /\ deployed # Newest
          /\ cache' = [cache EXCEPT ![deployed] = "part"]
        BY <1>1 DEF UpdateFound
    <2>2. reg.active < deployed /\ (reg.waiting # None => reg.waiting < deployed)
        BY <1>0, <2>1 DEF Newest, Queue
    <2>3. deployed # v
        BY <1>0, <2>2
    <2> QED BY <1>0, <2>1, <2>3 DEF TypeOK
<1>2. CASE Installed
    <2>1. reg.installing # None /\ reg.installing # v
        BY <1>0, <1>2 DEF Installed, Queue
    <2>2. PICK c : cache' = [cache EXCEPT ![reg.installing] = c]
        BY <1>2 DEF Installed
    <2> QED BY <1>0, <2>1, <2>2 DEF TypeOK
<1>3. CASE Activate
    <2>1. /\ reg' = [reg EXCEPT !.waiting = None, !.active = reg.waiting]
          /\ cache' = DeleteOthers(reg.waiting)
        BY <1>3 DEF Activate
    <2>2. reg'.waiting = None /\ reg'.active = reg.waiting
        BY <2>1 DEF TypeOK
    <2>3. v = reg.waiting
        BY <2>2
    <2> QED BY <1>0, <2>1, <2>3 DEF DeleteOthers
<1>4. CASE Release \/ InstallFails \/ UNCHANGED <<deployed, reg, cache>>
    BY <1>4 DEF Release, InstallFails
<1> QED BY <1>1, <1>2, <1>3, <1>4, CacheCases

(***************************************************************************)
(* A complete precache of a worker that waits or is active goes by the     *)
(* user's reset alone, for any number of releases and pages and any        *)
(* failures of assets and installs: no activation reaches it, for workers  *)
(* queue in the order of their releases.                                   *)
(***************************************************************************)
THEOREM PrecacheIsKept == Spec => PrecacheKept
<1>1. Init => TypeOK /\ Queue
    BY TypeInit, QueueInit
<1>2. TypeOK /\ Queue /\ [Next]_vars => (TypeOK /\ Queue)'
    BY TypeStep, QueueStep
<1>3. TypeOK /\ Queue /\ [Next]_vars =>
          [\A v \in {reg.active, reg.waiting} :
              (v \in {reg'.active, reg'.waiting} /\ v # None /\ cache[v] = "full")
                  => (cache'[v] = "full" \/ \E p \in Page : Reset(p))]_vars
    BY PrecacheStep
<1> QED BY <1>1, <1>2, <1>3, PTL DEF Spec, PrecacheKept

-----------------------------------------------------------------------------
\* What a notice n shows is backed by the registration r or by events under way.
Backed(n, r) ==
    /\ n.inbox # {} \/ n.ready \/ n.checking => n.pc \in {"open", "reloading"}
    /\ n.ready => r.waiting # None \/ \E v \in Version : <<"activated", v>> \in n.inbox
    /\ \A v \in Version : <<"found", v>> \in n.inbox =>
           \/ r.installing = v
           \/ <<"installed", v>> \in n.inbox \/ <<"redundant", v>> \in n.inbox
    /\ n.checking => \/ n.asking \/ n.failed \/ r.installing # None
                     \/ \E e \in n.inbox : e[1] # "activated"

AllBacked == \A p \in Page : Backed(page[p], reg)

LEMMA BackedInit == Init => AllBacked
<1>1. ASSUME Init, NEW p \in Page PROVE Backed(page[p], reg)
    <2>1. page[p] = Shut
        BY <1>1 DEF Init
    <2> QED BY <2>1 DEF Backed, Shut
<1> QED BY <1>1 DEF AllBacked

\* A step of one page that leaves the registration alone is judged by that page.
LEMMA OnePage ==
    ASSUME TypeOK, AllBacked, reg' = reg, NEW p \in Page, NEW n,
           page' = [page EXCEPT ![p] = n], Backed(n, reg)
    PROVE  AllBacked'
<1>1. ASSUME NEW q \in Page PROVE Backed(page[q], reg)'
    <2>1. CASE q = p
        <3>1. page'[q] = n
            BY <2>1 DEF TypeOK
        <3> QED BY <3>1 DEF Backed
    <2>2. CASE q # p
        <3>1. page'[q] = page[q]
            BY <2>2 DEF TypeOK
        <3> QED BY <3>1 DEF AllBacked, Backed
    <2> QED BY <2>1, <2>2
<1> QED BY <1>1 DEF AllBacked

\* An event reaches the pages that listen, and no others have anything to show.
LEMMA SentBacked ==
    ASSUME TypeOK, AllBacked, NEW e \in Event, page' = Sent(e), NEW q \in Page
    PROVE  /\ Listening(q) => page'[q] = [page[q] EXCEPT !.inbox = @ \cup {e}]
           /\ ~Listening(q) => /\ page'[q] = page[q]
                               /\ page[q].inbox = {} /\ ~page[q].ready /\ ~page[q].checking
<1>1. Backed(page[q], reg)
    BY DEF AllBacked
<1>2. page[q] \in Notice
    BY DEF TypeOK
<1> QED BY <1>1, <1>2 DEF Sent, Listening, Backed, Notice

LEMMA BackedStep ==
    ASSUME TypeOK, AllBacked, [Next]_vars
    PROVE  AllBacked'
<1> USE PwaAssumption
<1>b. \A p \in Page : page[p] \in Notice /\ Backed(page[p], reg)
    BY DEF TypeOK, AllBacked
<1>0. /\ None \notin Version /\ deployed \in Version
      /\ reg.installing # None => reg.installing \in Version
      /\ reg.waiting # None => reg.waiting \in Version
    BY DEF TypeOK, Worker
<1>1. CASE UNCHANGED <<reg, page>>
    BY <1>1 DEF AllBacked, Backed
<1>2. CASE UpdateFound
    <2>1. /\ reg.installing = None /\ reg'.installing = deployed
          /\ reg'.waiting = reg.waiting /\ page' = Sent(<<"found", deployed>>)
        BY <1>2 DEF UpdateFound, TypeOK
    <2>2. <<"found", deployed>> \in Event
        BY <1>0 DEF Event
    <2>3. ASSUME NEW q \in Page PROVE Backed(page[q], reg)'
        <3>1. CASE Listening(q)
            <4>1. page'[q] = [page[q] EXCEPT !.inbox = @ \cup {<<"found", deployed>>}]
                BY <2>1, <2>2, <3>1, SentBacked
            <4>2. /\ page'[q].inbox = page[q].inbox \cup {<<"found", deployed>>}
                  /\ page'[q].pc = page[q].pc /\ page'[q].ready = page[q].ready
                  /\ page'[q].checking = page[q].checking
                  /\ page'[q].asking = page[q].asking /\ page'[q].failed = page[q].failed
                BY <1>b, <4>1 DEF Notice
            <4>3. \A v \in Version : <<"found", v>> \in page[q].inbox =>
                      \/ reg.installing = v
                      \/ <<"installed", v>> \in page[q].inbox
                      \/ <<"redundant", v>> \in page[q].inbox
                BY <1>b DEF Backed
            <4>4. \A v \in Version : <<"found", v>> \in page'[q].inbox =>
                      \/ reg'.installing = v
                      \/ <<"installed", v>> \in page'[q].inbox
                      \/ <<"redundant", v>> \in page'[q].inbox
                BY <1>0, <2>1, <4>2, <4>3
            <4> QED BY <1>0, <1>b, <2>1, <3>1, <4>2, <4>4 DEF Backed, Listening
        <3>2. CASE ~Listening(q)
            <4>1. /\ page'[q] = page[q]
                  /\ page[q].inbox = {} /\ ~page[q].ready /\ ~page[q].checking
                BY <2>1, <2>2, <3>2, SentBacked
            <4> QED BY <4>1 DEF Backed
        <3> QED BY <3>1, <3>2
    <2> QED BY <2>3 DEF AllBacked
<1>3. CASE Installed
    <2>1. /\ reg.installing # None /\ reg'.installing = None
          /\ reg'.waiting = reg.installing
          /\ page' = Sent(<<"installed", reg.installing>>)
        BY <1>3 DEF Installed, TypeOK
    <2>2. <<"installed", reg.installing>> \in Event
        BY <1>0, <2>1 DEF Event
    <2>3. ASSUME NEW q \in Page PROVE Backed(page[q], reg)'
        <3>1. CASE Listening(q)
            <4>1. page'[q] = [page[q] EXCEPT !.inbox = @ \cup {<<"installed", reg.installing>>}]
                BY <2>1, <2>2, <3>1, SentBacked
            <4>2. /\ page'[q].inbox = page[q].inbox \cup {<<"installed", reg.installing>>}
                  /\ page'[q].pc = page[q].pc /\ page'[q].ready = page[q].ready
                  /\ page'[q].checking = page[q].checking
                  /\ page'[q].asking = page[q].asking /\ page'[q].failed = page[q].failed
                BY <1>b, <4>1 DEF Notice
            <4>3. \A v \in Version : <<"found", v>> \in page[q].inbox =>
                      \/ reg.installing = v
                      \/ <<"installed", v>> \in page[q].inbox
                      \/ <<"redundant", v>> \in page[q].inbox
                BY <1>b DEF Backed
            <4>4. \A v \in Version : <<"found", v>> \in page'[q].inbox =>
                      \/ reg'.installing = v
                      \/ <<"installed", v>> \in page'[q].inbox
                      \/ <<"redundant", v>> \in page'[q].inbox
                BY <1>0, <2>1, <4>2, <4>3
            <4>5. \E e \in page'[q].inbox : e[1] # "activated"
                <5>1. <<"installed", reg.installing>> \in page'[q].inbox
                    BY <4>2
                <5>2. <<"installed", reg.installing>>[1] # "activated"
                    OBVIOUS
                <5> QED BY <5>1, <5>2, Zenon
            <4>6. (page'[q].ready => page[q].ready) /\ (page[q].ready => reg'.waiting # None
                      \/ \E w \in Version : <<"activated", w>> \in page'[q].inbox)
                BY <1>0, <1>b, <2>1, <4>2 DEF Backed
            <4> QED BY <3>1, <4>2, <4>4, <4>5, <4>6 DEF Backed, Listening
        <3>2. CASE ~Listening(q)
            <4>1. /\ page'[q] = page[q]
                  /\ page[q].inbox = {} /\ ~page[q].ready /\ ~page[q].checking
                BY <2>1, <2>2, <3>2, SentBacked
            <4> QED BY <4>1 DEF Backed
        <3> QED BY <3>1, <3>2
    <2> QED BY <2>3 DEF AllBacked
<1>4. CASE InstallFails
    <2>1. /\ reg.installing # None /\ reg'.installing = None
          /\ reg'.waiting = reg.waiting
          /\ page' = Sent(<<"redundant", reg.installing>>)
        BY <1>4 DEF InstallFails, TypeOK
    <2>2. <<"redundant", reg.installing>> \in Event
        BY <1>0, <2>1 DEF Event
    <2>3. ASSUME NEW q \in Page PROVE Backed(page[q], reg)'
        <3>1. CASE Listening(q)
            <4>1. page'[q] = [page[q] EXCEPT !.inbox = @ \cup {<<"redundant", reg.installing>>}]
                BY <2>1, <2>2, <3>1, SentBacked
            <4>2. /\ page'[q].inbox = page[q].inbox \cup {<<"redundant", reg.installing>>}
                  /\ page'[q].pc = page[q].pc /\ page'[q].ready = page[q].ready
                  /\ page'[q].checking = page[q].checking
                  /\ page'[q].asking = page[q].asking /\ page'[q].failed = page[q].failed
                BY <1>b, <4>1 DEF Notice
            <4>3. \A v \in Version : <<"found", v>> \in page[q].inbox =>
                      \/ reg.installing = v
                      \/ <<"installed", v>> \in page[q].inbox
                      \/ <<"redundant", v>> \in page[q].inbox
                BY <1>b DEF Backed
            <4>4. \A v \in Version : <<"found", v>> \in page'[q].inbox =>
                      \/ reg'.installing = v
                      \/ <<"installed", v>> \in page'[q].inbox
                      \/ <<"redundant", v>> \in page'[q].inbox
                BY <1>0, <2>1, <4>2, <4>3
            <4>5. \E e \in page'[q].inbox : e[1] # "activated"
                <5>1. <<"redundant", reg.installing>> \in page'[q].inbox
                    BY <4>2
                <5>2. <<"redundant", reg.installing>>[1] # "activated"
                    OBVIOUS
                <5> QED BY <5>1, <5>2, Zenon
            <4>6. (page'[q].ready => page[q].ready) /\ (page[q].ready => reg'.waiting # None
                      \/ \E w \in Version : <<"activated", w>> \in page'[q].inbox)
                BY <1>0, <1>b, <2>1, <4>2 DEF Backed
            <4> QED BY <3>1, <4>2, <4>4, <4>5, <4>6 DEF Backed, Listening
        <3>2. CASE ~Listening(q)
            <4>1. /\ page'[q] = page[q]
                  /\ page[q].inbox = {} /\ ~page[q].ready /\ ~page[q].checking
                BY <2>1, <2>2, <3>2, SentBacked
            <4> QED BY <4>1 DEF Backed
        <3> QED BY <3>1, <3>2
    <2> QED BY <2>3 DEF AllBacked
<1>5. CASE Activate
    <2>1. /\ reg.waiting # None /\ reg'.waiting = None
          /\ reg'.installing = reg.installing
          /\ page' = Sent(<<"activated", reg.waiting>>)
        BY <1>5 DEF Activate, TypeOK
    <2>2. <<"activated", reg.waiting>> \in Event
        BY <1>0, <2>1 DEF Event
    <2>3. ASSUME NEW q \in Page PROVE Backed(page[q], reg)'
        <3>1. CASE Listening(q)
            <4>1. page'[q] = [page[q] EXCEPT !.inbox = @ \cup {<<"activated", reg.waiting>>}]
                BY <2>1, <2>2, <3>1, SentBacked
            <4>2. /\ page'[q].inbox = page[q].inbox \cup {<<"activated", reg.waiting>>}
                  /\ page'[q].pc = page[q].pc /\ page'[q].ready = page[q].ready
                  /\ page'[q].checking = page[q].checking
                  /\ page'[q].asking = page[q].asking /\ page'[q].failed = page[q].failed
                BY <1>b, <4>1 DEF Notice
            <4>3. \A v \in Version : <<"found", v>> \in page[q].inbox =>
                      \/ reg.installing = v
                      \/ <<"installed", v>> \in page[q].inbox
                      \/ <<"redundant", v>> \in page[q].inbox
                BY <1>b DEF Backed
            <4>4. \A v \in Version : <<"found", v>> \in page'[q].inbox =>
                      \/ reg'.installing = v
                      \/ <<"installed", v>> \in page'[q].inbox
                      \/ <<"redundant", v>> \in page'[q].inbox
                BY <1>0, <2>1, <4>2, <4>3
            <4> QED BY <1>0, <1>b, <2>1, <3>1, <4>2, <4>4 DEF Backed, Listening
        <3>2. CASE ~Listening(q)
            <4>1. /\ page'[q] = page[q]
                  /\ page[q].inbox = {} /\ ~page[q].ready /\ ~page[q].checking
                BY <2>1, <2>2, <3>2, SentBacked
            <4> QED BY <4>1 DEF Backed
        <3> QED BY <3>1, <3>2
    <2> QED BY <2>3 DEF AllBacked
<1>6. ASSUME NEW p \in Page, Load(p) PROVE AllBacked'
    <2> DEFINE n == Loaded
    <2>1. Backed(n, reg)
        BY <1>6, <1>b DEF Loaded, Shut, Backed, Notice, Listening
    <2> QED BY <1>6, <2>1, OnePage DEF Load
<1>7. ASSUME NEW p \in Page, Close(p) PROVE AllBacked'
    <2> DEFINE n == Shut
    <2>1. Backed(n, reg)
        BY <1>7, <1>b DEF Shut, Backed, Notice, Listening
    <2> QED BY <1>7, <2>1, OnePage DEF Close
<1>8. ASSUME NEW p \in Page, Attach(p) PROVE AllBacked'
    <2> DEFINE n == [page[p] EXCEPT !.pc = "open", !.ready = reg.waiting # None /\ ~snooze]
    <2>1. Backed(n, reg)
        BY <1>8, <1>b DEF Attach, Backed, Notice, Listening
    <2> QED BY <1>8, <2>1, OnePage DEF Attach
<1>9. ASSUME NEW p \in Page, Reload(p) PROVE AllBacked'
    <2> DEFINE n == Loaded
    <2>1. Backed(n, reg)
        BY <1>9, <1>b DEF Loaded, Shut, Backed, Notice, Listening
    <2> QED BY <1>9, <2>1, OnePage DEF Reload
<1>17. ASSUME NEW p \in Page, Reset(p) PROVE AllBacked'
    <2> DEFINE n == Loaded
    <2>1. Backed(n, reg)
        BY <1>17, <1>b DEF Loaded, Shut, Backed, Notice, Listening
    <2> QED BY <1>17, <2>1, OnePage DEF Reset
<1>10. ASSUME NEW p \in Page, AskUpdate(p) PROVE AllBacked'
    <2> DEFINE n == [page[p] EXCEPT !.checking = TRUE, !.asking = TRUE]
    <2>1. Backed(n, reg)
        BY <1>10, <1>b DEF AskUpdate, Backed, Notice, Listening
    <2> QED BY <1>10, <2>1, OnePage DEF AskUpdate
<1>11. ASSUME NEW p \in Page, UpdateAnswered(p) PROVE AllBacked'
    <2> DEFINE n == [page[p] EXCEPT !.checking = FALSE, !.asking = FALSE]
    <2>1. Backed(n, reg)
        BY <1>11, <1>b DEF UpdateAnswered, Backed, Notice, Listening
    <2> QED BY <1>11, <2>1, OnePage DEF UpdateAnswered
<1>12. ASSUME NEW p \in Page, Later(p) PROVE AllBacked'
    <2> DEFINE n == [page[p] EXCEPT !.snoozed = TRUE, !.ready = FALSE]
    <2>1. Backed(n, reg)
        BY <1>12, <1>b DEF Later, Backed, Notice, Listening
    <2> QED BY <1>12, <2>1, OnePage DEF Later
<1>13. ASSUME NEW p \in Page, Apply(p) PROVE AllBacked'
    <2> DEFINE n == [page[p] EXCEPT !.applying = TRUE, !.pc = "reloading"]
    <2>1. Backed(n, reg)
        BY <1>13, <1>b DEF Apply, Backed, Notice, Listening
    <2> QED BY <1>13, <2>1, OnePage DEF Apply
<1>14. ASSUME NEW p \in Page, ApplyFails(p) PROVE AllBacked'
    <2> DEFINE n == [page[p] EXCEPT !.ready = FALSE]
    <2>1. Backed(n, reg)
        BY <1>14, <1>b DEF ApplyFails, Backed, Notice, Listening
    <2> QED BY <1>14, <2>1, OnePage DEF ApplyFails
<1>15. ASSUME NEW p \in Page, Hear(p) PROVE AllBacked'
    <2>1. PICK v \in Version : \/ HearFound(p, v) \/ HearInstalled(p, v)
                               \/ HearRedundant(p, v) \/ HearActivated(p, v)
        BY <1>15 DEF Hear
    <2>2. CASE HearFound(p, v)
        <3> DEFINE n == [Take(p, <<"found", v>>) EXCEPT !.checking = TRUE, !.applying = FALSE,
                                !.ready = FALSE, !.failed = FALSE]
        <3>1. /\ <<"found", v>> \in page[p].inbox
              /\ n.inbox = page[p].inbox \ {<<"found", v>>} /\ n.pc = page[p].pc
              /\ n.ready = FALSE /\ n.checking = TRUE
            BY <2>2, <1>b DEF HearFound, Take, Notice
        <3>2. \A w \in Version : <<"found", w>> \in n.inbox =>
                  \/ reg.installing = w
                  \/ <<"installed", w>> \in n.inbox \/ <<"redundant", w>> \in n.inbox
            BY <1>b, <3>1 DEF Backed
        <3>3. reg.installing # None \/ \E e \in n.inbox : e[1] # "activated"
            <4>1. \/ reg.installing = v
                  \/ <<"installed", v>> \in n.inbox \/ <<"redundant", v>> \in n.inbox
                BY <1>b, <3>1 DEF Backed
            <4>2. <<"installed", v>>[1] # "activated" /\ <<"redundant", v>>[1] # "activated"
                OBVIOUS
            <4>3. v # None
                BY <1>0
            <4> QED BY <4>1, <4>2, <4>3, Zenon
        <3>4. n.pc \in {"open", "reloading"}
            BY <1>b, <3>1 DEF Backed
        <3> HIDE DEF n
        <3>5. Backed(n, reg)
            BY <3>1, <3>2, <3>3, <3>4 DEF Backed
        <3> USE DEF n
        <3> QED BY <2>2, <3>5, OnePage DEF HearFound
    <2>3. CASE HearInstalled(p, v)
        <3> DEFINE n == [Take(p, <<"installed", v>>) EXCEPT
                            !.ready = @ \/ (reg.waiting # None /\ ~snooze),
                            !.checking = FALSE, !.applying = FALSE, !.failed = FALSE]
        <3>1. Backed(n, reg)
            BY <2>3, <1>b DEF HearInstalled, Take, Backed, Notice
        <3> QED BY <2>3, <3>1, OnePage DEF HearInstalled
    <2>4. CASE HearRedundant(p, v)
        <3> DEFINE n == [Take(p, <<"redundant", v>>) EXCEPT !.failed = TRUE]
        <3>1. Backed(n, reg)
            BY <2>4, <1>b DEF HearRedundant, Take, Backed, Notice
        <3> QED BY <2>4, <3>1, OnePage DEF HearRedundant
    <2>5. CASE HearActivated(p, v)
        <3> DEFINE n == [Take(p, <<"activated", v>>) EXCEPT
                            !.ready = FALSE, !.applying = FALSE, !.snoozed = FALSE]
        <3>1. Backed(n, reg)
            BY <2>5, <1>b DEF HearActivated, Take, Backed, Notice
        <3> QED BY <2>5, <3>1, OnePage DEF HearActivated
    <2> QED BY <2>1, <2>2, <2>3, <2>4, <2>5
<1>16. CASE Release \/ SnoozeEnds \/ UNCHANGED vars
    BY <1>1, <1>16 DEF Release, SnoozeEnds, vars
<1> QED
    BY <1>2, <1>3, <1>4, <1>5, <1>6, <1>7, <1>8, <1>9, <1>10, <1>11, <1>12, <1>13,
       <1>14, <1>15, <1>16, <1>17 DEF Next

LEMMA BackedAlways == Spec => []AllBacked
<1>1. Init => TypeOK /\ AllBacked
    BY TypeInit, BackedInit
<1>2. TypeOK /\ AllBacked /\ [Next]_vars => (TypeOK /\ AllBacked)'
    BY TypeStep, BackedStep
<1> QED BY <1>1, <1>2, PTL DEF Spec

(***************************************************************************)
(* An update on offer is there or word of its activation is under way to   *)
(* the page, for any number of pages and releases.                         *)
(***************************************************************************)
THEOREM OffersAreBacked == Spec => []OfferBacked
<1>1. AllBacked => OfferBacked
    BY DEF AllBacked, Backed, OfferBacked
<1> QED BY <1>1, BackedAlways, PTL

(***************************************************************************)
(* A page that is checking for updates waits for something that is under   *)
(* way, or watched a worker that failed, for any number of pages and       *)
(* releases.                                                               *)
(***************************************************************************)
THEOREM ChecksAreBacked == Spec => []CheckBacked
<1>1. AllBacked => CheckBacked
    BY DEF AllBacked, Backed, CheckBacked
<1> QED BY <1>1, BackedAlways, PTL

-----------------------------------------------------------------------------
\* Nothing of a release older than the active one is in the caches, where a fetch
\* of the newer worker could find it.
NoOldCaches == \A v \in Version : cache[v] # "none" => v >= reg.active

\* A visitor never goes back to an older release.
ReleasesAdvance == [][reg'.active >= reg.active]_vars

\* A step activates the worker that waits, or leaves the active one and may open or
\* fill the caches of one that is being installed.
LEMMA ActiveStep ==
    ASSUME TypeOK, Queue, NoOldCaches, [Next]_vars
    PROVE  NoOldCaches' /\ reg'.active >= reg.active
<1> USE PwaAssumption
<1>0. /\ None \notin Version /\ \A v \in Version : v \in Nat
      /\ deployed \in Version /\ reg.active \in Version
      /\ reg.waiting # None => reg.waiting \in Version
      /\ reg.installing # None => reg.installing \in Version
    BY DEF Version, TypeOK, Worker
<1>1. CASE UpdateFound
    <2>1. /\ deployed # Newest /\ reg.installing = None
          /\ cache' = [cache EXCEPT ![deployed] = "part"]
          /\ reg' = [reg EXCEPT !.installing = deployed]
        BY <1>1 DEF UpdateFound
    <2>2. reg'.active = reg.active
        BY <2>1 DEF TypeOK
    <2>3. \A v \in Version \ {deployed} : cache'[v] = cache[v]
        BY <2>1 DEF TypeOK
    <2>4. deployed >= reg.active
        BY <1>0 DEF Queue
    <2> QED BY <1>0, <2>2, <2>3, <2>4 DEF NoOldCaches
<1>2. CASE Installed
    <2>1. /\ reg.installing # None
          /\ \E c : cache' = [cache EXCEPT ![reg.installing] = c]
          /\ reg' = [reg EXCEPT !.installing = None, !.waiting = reg.installing]
        BY <1>2 DEF Installed
    <2>2. reg'.active = reg.active
        BY <2>1 DEF TypeOK
    <2>3. \A v \in Version \ {reg.installing} : cache'[v] = cache[v]
        BY <2>1 DEF TypeOK
    <2>4. reg.installing >= reg.active
        BY <1>0, <2>1 DEF Queue
    <2> QED BY <1>0, <2>2, <2>3, <2>4 DEF NoOldCaches
<1>3. CASE Activate
    <2>1. /\ reg.waiting # None /\ cache' = DeleteOthers(reg.waiting)
          /\ reg' = [reg EXCEPT !.waiting = None, !.active = reg.waiting]
        BY <1>3 DEF Activate
    <2>2. reg'.active = reg.waiting
        BY <2>1 DEF TypeOK
    <2>3. \A v \in Version \ {reg.waiting} : cache'[v] = "none"
        BY <2>1 DEF DeleteOthers
    <2>4. reg.waiting > reg.active
        BY <1>0, <2>1 DEF Queue
    <2> QED BY <1>0, <2>1, <2>2, <2>3, <2>4 DEF NoOldCaches
<1>4. CASE InstallFails
    <2>1. reg'.active = reg.active /\ cache' = cache
        BY <1>4 DEF InstallFails, TypeOK
    <2> QED BY <1>0, <2>1 DEF NoOldCaches
<1>5. CASE UNCHANGED <<reg, cache>>
    BY <1>0, <1>5 DEF NoOldCaches
<1>6. ASSUME NEW p \in Page, Reset(p) PROVE NoOldCaches' /\ reg'.active >= reg.active
    BY <1>0, <1>6 DEF Reset, NoOldCaches
<1>7. CASE Release
    BY <1>5, <1>7 DEF Release
<1> QED BY <1>1, <1>2, <1>3, <1>4, <1>5, <1>6, <1>7, CacheCases

LEMMA ActiveInit == Init => NoOldCaches
BY PwaAssumption DEF Init, NoOldCaches, Version

LEMMA QueueAlways == Spec => [](TypeOK /\ Queue /\ NoOldCaches)
<1>1. Init => TypeOK /\ Queue /\ NoOldCaches
    BY TypeInit, QueueInit, ActiveInit
<1>2. TypeOK /\ Queue /\ NoOldCaches /\ [Next]_vars => (TypeOK /\ Queue /\ NoOldCaches)'
    BY TypeStep, QueueStep, ActiveStep
<1> QED BY <1>1, <1>2, PTL DEF Spec

(***************************************************************************)
(* After an activation (sw.js, the activate event) no cache of an older    *)
(* release is left, and none appears again: not by an install that was cut *)
(* short, nor by a worker that was overtaken while it waited.              *)
(***************************************************************************)
THEOREM OldCachesGo == Spec => []NoOldCaches
BY QueueAlways, PTL

(***************************************************************************)
(* The active release only advances, whichever page applies which offer    *)
(* and however late: an offer never leads back (action_update_click).      *)
(***************************************************************************)
THEOREM ActiveAdvances == Spec => ReleasesAdvance
<1>1. TypeOK /\ Queue /\ NoOldCaches /\ [Next]_vars => [reg'.active >= reg.active]_vars
    BY ActiveStep
<1>2. Spec => [][reg'.active >= reg.active]_vars
    BY <1>1, QueueAlways, PTL DEF Spec
<1> QED BY <1>2 DEF ReleasesAdvance
=============================================================================
