----------------------------- MODULE PwaUpdate -----------------------------
(***************************************************************************)
(* How a release of the DMB Almanac reaches its visitors: the service      *)
(* worker (static/sw.js) that precaches a release when it is installed and *)
(* deletes the caches of all others when it is activated, and the update   *)
(* notice of every open page (pwa_status.rs), which watches the            *)
(* registration and lets the user apply, put off or look for an update.    *)
(*                                                                         *)
(* The registration and its queue of events are the browser's.  A page     *)
(* gets events of the registration in order and messages of workers        *)
(* between them in any order, each in a task of its own.                   *)
(***************************************************************************)
EXTENDS Naturals, FiniteSets

CONSTANTS
    Page,         \* tabs of the site in one browser
    MaxVersion,   \* bounds the releases
    None,
    Faults        \* the faults that occur: an install event fails, an asset
                  \* cannot be fetched during one

Version == 0..MaxVersion

ASSUME PwaAssumption ==
    /\ MaxVersion \in Nat /\ None \notin Version
    /\ Faults \subseteq {"install", "asset"}

VARIABLES
    deployed,   \* the release the server has
    reg,        \* the registration: its installing, waiting and active worker
    skipped,    \* the waiting worker has been told to skip waiting
    cache,      \* what is left of a release's precache: none, a part, all
    snooze,     \* the time of the last Later in localStorage is recent
    page        \* the signals of a page's notice, and the events under way to it

vars == <<deployed, reg, skipped, cache, snooze, page>>

-----------------------------------------------------------------------------
Shut == [pc |-> "closed", ready |-> FALSE, snoozed |-> FALSE, applying |-> FALSE,
         checking |-> FALSE, asking |-> FALSE, failed |-> FALSE, inbox |-> {}]

\* initialize_pwa_status_state: a page that has just been loaded.
Loaded == [Shut EXCEPT !.pc = "loaded", !.snoozed = snooze]

Listening(p) == page[p].pc \in {"open", "reloading"}

Newest == IF reg.installing # None THEN reg.installing
          ELSE IF reg.waiting # None THEN reg.waiting ELSE reg.active

\* An event goes to every page that has attached its listeners.
Sent(e) ==
    [p \in Page |-> IF Listening(p) THEN [page[p] EXCEPT !.inbox = @ \cup {e}] ELSE page[p]]

\* The visitor has the first release, in full.
Init ==
    /\ deployed = 0
    /\ reg = [installing |-> None, waiting |-> None, active |-> 0]
    /\ skipped = FALSE
    /\ cache = [v \in Version |-> IF v = 0 THEN "full" ELSE "none"]
    /\ snooze = FALSE
    /\ page = [p \in Page |-> Shut]

-----------------------------------------------------------------------------
Release ==
    /\ deployed < MaxVersion
    /\ deployed' = deployed + 1
    /\ UNCHANGED <<reg, skipped, cache, snooze, page>>

\* The browser fetches sw.js, for a navigation, a registration or reg.update(), and
\* finds another than the newest worker's: its install event opens the caches.  What
\* the last attempt had to tell has long been heard.
UpdateFound ==
    /\ deployed # Newest /\ reg.installing = None
    /\ \E p \in Page : page[p].pc # "closed"
    /\ \A p \in Page : \A e \in page[p].inbox : e[2] # deployed
    /\ reg' = [reg EXCEPT !.installing = deployed]
    /\ cache' = [cache EXCEPT ![deployed] = "part"]
    /\ page' = Sent(<<"found", deployed>>)
    /\ UNCHANGED <<deployed, skipped, snooze>>

\* precache, when all its assets are settled: those that fail are put up with, and
\* what is put into a cache that was deleted meanwhile is lost.
Filled(c) ==
    IF c = "none" THEN {"none"}
    ELSE IF "asset" \in Faults THEN {"part", "full"} ELSE {"full"}

\* The activate event: all caches of the prefix that are not this version's.
DeleteOthers(v) == [w \in Version |-> IF w # v THEN "none" ELSE cache[w]]

\* Fault: the caches of the others are deleted as soon as the install event is over.
InstalledClears ==
    /\ reg.installing # None
    /\ cache' = DeleteOthers(reg.installing)
    /\ reg' = [reg EXCEPT !.installing = None, !.waiting = reg.installing]
    /\ skipped' = FALSE
    /\ page' = Sent(<<"installed", reg.installing>>)
    /\ UNCHANGED <<deployed, snooze>>

\* The install event is over: the worker waits, and who waited before is redundant.
Installed ==
    /\ reg.installing # None
    /\ \E c \in Filled(cache[reg.installing]) : cache' = [cache EXCEPT ![reg.installing] = c]
    /\ reg' = [reg EXCEPT !.installing = None, !.waiting = reg.installing]
    /\ skipped' = FALSE
    /\ page' = Sent(<<"installed", reg.installing>>)
    /\ UNCHANGED <<deployed, snooze>>

\* No storage left, or the worker is killed: the install event fails.
InstallFails ==
    /\ "install" \in Faults
    /\ reg.installing # None
    /\ reg' = [reg EXCEPT !.installing = None]
    /\ page' = Sent(<<"redundant", reg.installing>>)
    /\ UNCHANGED <<deployed, skipped, cache, snooze>>

\* The waiting worker becomes active when told so or when no page is left, takes
\* the pages over and tells them.
Activate ==
    /\ reg.waiting # None
    /\ skipped \/ \A p \in Page : page[p].pc = "closed"
    /\ reg' = [reg EXCEPT !.waiting = None, !.active = reg.waiting]
    /\ skipped' = FALSE
    /\ cache' = DeleteOthers(reg.waiting)
    /\ page' = Sent(<<"activated", reg.waiting>>)
    /\ UNCHANGED <<deployed, snooze>>

-----------------------------------------------------------------------------
Load(p) ==
    /\ page[p].pc = "closed"
    /\ page' = [page EXCEPT ![p] = Loaded]
    /\ UNCHANGED <<deployed, reg, skipped, cache, snooze>>

\* Closed, or left for another page of the site.
Close(p) ==
    /\ page[p].pc # "closed"
    /\ page' = [page EXCEPT ![p] = Shut]
    /\ UNCHANGED <<deployed, reg, skipped, cache, snooze>>

\* process_sw_registration, once the page is hydrated: a waiting worker is offered,
\* the state of an installing one watched.
Attach(p) ==
    /\ page[p].pc = "loaded"
    /\ page' = [page EXCEPT ![p] = [@ EXCEPT !.pc = "open",
                                            !.ready = reg.waiting # None /\ ~snooze]]
    /\ UNCHANGED <<deployed, reg, skipped, cache, snooze>>

\* action_update_check: checking until reg.update() has answered.
AskUpdate(p) ==
    /\ page[p].pc = "open" /\ ~page[p].checking
    /\ page' = [page EXCEPT ![p] = [@ EXCEPT !.checking = TRUE, !.asking = TRUE]]
    /\ UNCHANGED <<deployed, reg, skipped, cache, snooze>>

UpdateAnswered(p) ==
    /\ page[p].asking
    /\ page' = [page EXCEPT ![p] = [@ EXCEPT !.checking = FALSE, !.asking = FALSE]]
    /\ UNCHANGED <<deployed, reg, skipped, cache, snooze>>

Offered(p) == Listening(p) /\ page[p].ready /\ ~page[p].snoozed /\ ~page[p].applying

\* action_update_later
Later(p) ==
    /\ Offered(p)
    /\ snooze' = TRUE
    /\ page' = [page EXCEPT ![p] = [@ EXCEPT !.snoozed = TRUE, !.ready = FALSE]]
    /\ UNCHANGED <<deployed, reg, skipped, cache>>

SnoozeEnds ==
    /\ snooze
    /\ snooze' = FALSE
    /\ UNCHANGED <<deployed, reg, skipped, cache, page>>

\* Fault: the worker is told without looking whether one waits.
ApplyBlind(p) ==
    /\ Offered(p)
    /\ skipped' = TRUE
    /\ page' = [page EXCEPT ![p] = [@ EXCEPT !.applying = TRUE, !.pc = "reloading"]]
    /\ UNCHANGED <<deployed, reg, cache, snooze>>

\* Fault: the page reloads without telling the worker.
ReloadOnly(p) ==
    /\ Offered(p) /\ reg.waiting # None
    /\ page' = [page EXCEPT ![p] = [@ EXCEPT !.applying = TRUE, !.pc = "reloading"]]
    /\ UNCHANGED <<deployed, reg, skipped, cache, snooze>>

\* action_update_click: SKIP_WAITING to the waiting worker; the page reloads when it
\* has got another controller or 1.5 s are over.
Apply(p) ==
    /\ Offered(p) /\ reg.waiting # None
    /\ skipped' = TRUE
    /\ page' = [page EXCEPT ![p] = [@ EXCEPT !.applying = TRUE, !.pc = "reloading"]]
    /\ UNCHANGED <<deployed, reg, cache, snooze>>

\* The same without a waiting worker: the offer is withdrawn.
ApplyFails(p) ==
    /\ Offered(p) /\ reg.waiting = None
    /\ page' = [page EXCEPT ![p] = [@ EXCEPT !.ready = FALSE]]
    /\ UNCHANGED <<deployed, reg, skipped, cache, snooze>>

\* action_reset_data: the caches go, whoever's they are, and the page reloads.
Reset(p) ==
    /\ Listening(p)
    /\ cache' = [v \in Version |-> "none"]
    /\ page' = [page EXCEPT ![p] = Loaded]
    /\ UNCHANGED <<deployed, reg, skipped, snooze>>

\* controllerchange or the timer, whichever comes first.
Reload(p) ==
    /\ page[p].pc = "reloading"
    /\ page' = [page EXCEPT ![p] = Loaded]
    /\ UNCHANGED <<deployed, reg, skipped, cache, snooze>>

-----------------------------------------------------------------------------
\* The events of the registration are heard in order, oldest worker first.
First(p, v) == \A e \in page[p].inbox : e[1] = "activated" \/ e[2] >= v

Take(p, e) == [page[p] EXCEPT !.inbox = @ \ {e}]

\* attach_updatefound_listener
HearFound(p, v) ==
    /\ <<"found", v>> \in page[p].inbox /\ First(p, v)
    /\ page' = [page EXCEPT ![p] = [Take(p, <<"found", v>>) EXCEPT
                    !.checking = TRUE, !.applying = FALSE, !.ready = FALSE,
                    !.failed = FALSE]]
    /\ UNCHANGED <<deployed, reg, skipped, cache, snooze>>

\* Fault: nothing is cleared when the notice is put off.
HearInstalledShy(p, v) ==
    /\ <<"installed", v>> \in page[p].inbox /\ First(p, v) /\ <<"found", v>> \notin page[p].inbox
    /\ LET offer == reg.waiting # None /\ ~snooze
       IN page' = [page EXCEPT ![p] = [Take(p, <<"installed", v>>) EXCEPT
                      !.ready = @ \/ offer,
                      !.checking = @ /\ ~offer, !.applying = @ /\ ~offer]]
    /\ UNCHANGED <<deployed, reg, skipped, cache, snooze>>

\* attach_installing_state_listener, the state installed
HearInstalled(p, v) ==
    /\ <<"installed", v>> \in page[p].inbox /\ First(p, v) /\ <<"found", v>> \notin page[p].inbox
    /\ page' = [page EXCEPT ![p] = [Take(p, <<"installed", v>>) EXCEPT
                    !.ready = @ \/ (reg.waiting # None /\ ~snooze),
                    !.checking = FALSE, !.applying = FALSE, !.failed = FALSE]]
    /\ UNCHANGED <<deployed, reg, skipped, cache, snooze>>

\* The same, the state redundant: the notice says so and goes on checking.
HearRedundant(p, v) ==
    /\ <<"redundant", v>> \in page[p].inbox /\ First(p, v) /\ <<"found", v>> \notin page[p].inbox
    /\ page' = [page EXCEPT ![p] = [Take(p, <<"redundant", v>>) EXCEPT !.failed = TRUE]]
    /\ UNCHANGED <<deployed, reg, skipped, cache, snooze>>

\* Fault: the offer stays.
HearActivatedKeep(p, v) ==
    /\ <<"activated", v>> \in page[p].inbox
    /\ page' = [page EXCEPT ![p] = [Take(p, <<"activated", v>>) EXCEPT
                    !.applying = FALSE, !.snoozed = FALSE]]
    /\ snooze' = FALSE
    /\ UNCHANGED <<deployed, reg, skipped, cache>>

\* attach_sw_message_listener, SW_ACTIVATED: whichever worker was on offer.
HearActivated(p, v) ==
    /\ <<"activated", v>> \in page[p].inbox
    /\ page' = [page EXCEPT ![p] = [Take(p, <<"activated", v>>) EXCEPT
                    !.ready = FALSE, !.applying = FALSE, !.snoozed = FALSE]]
    /\ snooze' = FALSE
    /\ UNCHANGED <<deployed, reg, skipped, cache>>

Hear(p) == \E v \in Version :
    HearFound(p, v) \/ HearInstalled(p, v) \/ HearRedundant(p, v) \/ HearActivated(p, v)

Next ==
    \/ Release \/ UpdateFound \/ Installed \/ InstallFails \/ Activate \/ SnoozeEnds
    \/ \E p \in Page : \/ Load(p) \/ Close(p) \/ Attach(p) \/ Hear(p) \/ Reload(p)
                       \/ AskUpdate(p) \/ UpdateAnswered(p)
                       \/ Later(p) \/ Apply(p) \/ ApplyFails(p) \/ Reset(p)

Spec == Init /\ [][Next]_vars

\* The browser looks for a new sw.js, installs and activates it, and time passes.
LiveSpec ==
    /\ Spec
    /\ SF_vars(UpdateFound) /\ WF_vars(Installed) /\ WF_vars(Activate)
    /\ WF_vars(SnoozeEnds)

-----------------------------------------------------------------------------
Worker == Version \cup {None}

Event == {"found", "installed", "redundant", "activated"} \X Version

Notice == [pc: {"closed", "loaded", "open", "reloading"},
           ready: BOOLEAN, snoozed: BOOLEAN, applying: BOOLEAN,
           checking: BOOLEAN, asking: BOOLEAN, failed: BOOLEAN,
           inbox: SUBSET Event]

TypeOK ==
    /\ deployed \in Version
    /\ reg \in [installing: Worker, waiting: Worker, active: Version]
    /\ skipped \in BOOLEAN /\ skipped => reg.waiting # None
    /\ cache \in [Version -> {"none", "part", "full"}]
    /\ snooze \in BOOLEAN
    /\ page \in [Page -> Notice]

(***************************************************************************)
(* An update on offer is there, or word that it is not any more is on its  *)
(* way to the page, whichever page applied it and however many releases    *)
(* followed (rust/README.md 52: "Update prompt appears when a new SW is    *)
(* available").                                                            *)
(***************************************************************************)
OfferBacked ==
    \A p \in Page : page[p].ready =>
        reg.waiting # None \/ \E v \in Version : <<"activated", v>> \in page[p].inbox

(***************************************************************************)
(* A complete precache stays with its worker: while the worker waits or is *)
(* active, no install, failed install or activation of another and no      *)
(* update notice takes it away, the user's reset alone does (sw.js, the    *)
(* activate event; pwa_status.rs, action_reset_data).                      *)
(***************************************************************************)
PrecacheKept ==
    [][\A v \in {reg.active, reg.waiting} :
          (v \in {reg'.active, reg'.waiting} /\ v # None /\ cache[v] = "full")
              => (cache'[v] = "full" \/ \E p \in Page : Reset(p))]_vars

(***************************************************************************)
(* While the button Check for updates is disabled, something is under way  *)
(* that enables it again: the browser's answer, a worker being installed   *)
(* that the page watches, or word of its end; unless the worker the page   *)
(* watched failed, for then the page goes on checking until it is loaded   *)
(* again (rust/README.md 53, 'Manual "check update"').                     *)
(***************************************************************************)
CheckBacked ==
    \A p \in Page : page[p].checking =>
        \/ page[p].asking \/ page[p].failed
        \/ reg.installing # None
        \/ \E e \in page[p].inbox : e[1] # "activated"

(***************************************************************************)
(* A release reaches a visitor who comes back again and again, stays until *)
(* the page is hydrated and applies an offer some time, though pages miss  *)
(* offers: a message about one worker withdraws the offer of the next, an  *)
(* offer put off stays hidden while the page is open, installs fail.       *)
(***************************************************************************)
UpdateReaches ==
    (/\ \A p \in Page : []<><<Attach(p)>>_vars /\ []<><<Close(p)>>_vars
     /\ SF_vars(\E p \in Page : Apply(p))
     /\ <>[][~InstallFails]_vars)
    => <>[](reg.active = MaxVersion \/ deployed < MaxVersion)
=============================================================================
