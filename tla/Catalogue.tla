----------------------------- MODULE Catalogue -----------------------------
(***************************************************************************)
(* What the jobs of the GDL Flower Tracker do to its listings: refresh_data*)
(* replaces the tables dispensaries and products by what it has parsed,    *)
(* scrape_menus puts live prices into them, both fill in known prices and  *)
(* record price_history.  /api/sync and the bootstrap are one after the    *)
(* other, the scheduler is scrapes.                                        *)
(*                                                                         *)
(* The jobs exclude each other (JobLocks), fetch first and await nothing   *)
(* between their first access to these tables and their transaction, so a  *)
(* job is one action and one that dies before its transaction is none.     *)
(* Stores and names are numbered in the order the code meets them.  Names  *)
(* and addresses are compared fuzzily: the scores are constants.           *)
(***************************************************************************)
EXTENDS Integers, FiniteSets

CONSTANTS
    Stores,        \* names at an address, numbered in the order of the page
    Name,          \* names, in the order of DISPENSARY_SOURCES
    NameOf,        \* the name of a store; two may share it, and a store that is
                   \* renamed is another one at the address of the first
    NameScore,     \* score_store_match
    AddressScore,  \* score_address_match
    Strain, Kind,  \* a kind is a size and a type
    MaxPrice,
    Known,         \* KNOWN_PRICING of a listing, 0 for none
    FloorStores, FloorProducts,   \* REFRESH_MIN_CONFIDENT_LOCAL_...
    StoreRatio, ProductRatio,     \* REFRESH_SHRINK_..._RATIO in percent
    StoreDrop, ProductDrop,       \* REFRESH_SHRINK_MIN_..._DROP
    MaxOffers      \* bounds the offers of all menus together

Store == 1..Stores
Price == 1..MaxPrice
NoPrice == 0

Listing == Store \X Strain \X Kind

\* How like the listed store t is to the store s of a page.
Likeness(t, s) == NameScore[NameOf[t], NameOf[s]] + AddressScore[t, s]

\* A name is like to itself, and no other name or store is more so.  As much so are
\* "X (REC)" and "X (MED)", whose suffixes _simplify_store_text drops.
ASSUME CatalogueAssumption ==
    /\ Name \subseteq Nat
    /\ Stores \in Nat /\ MaxPrice \in Nat /\ MaxOffers \in Nat
    /\ NameOf \in [Store -> Name]
    /\ NameScore \in [Name \X Name -> Nat] /\ AddressScore \in [Store \X Store -> Nat]
    /\ \A n \in Name : NameScore[n, n] > 0
    /\ \A n, o \in Name : NameScore[n, o] <= NameScore[o, o]
    /\ \A s, t \in Store : AddressScore[t, s] <= AddressScore[s, s]
    /\ Known \in [Listing -> 0..MaxPrice]

VARIABLES
    listed,   \* the rows of products, each under its dispensary
    price,    \* their prices, NoPrice for NULL
    latest    \* the latest price of price_history under a name, strain and kind

vars == <<listed, price, latest>>

-----------------------------------------------------------------------------
Offer == [name: Name, strain: Strain, kind: Kind, price: Price]

\* What fetch_all_menus_with_meta may return.  A name is absent when its sources
\* fail, and two spellings of a strain make two offers.
Menus == UNION {[1..n -> Offer] : n \in 0..MaxOffers}

\* The elements for which a score is greatest and positive; the first wins.
Best(S, score(_)) ==
    LET top == {x \in S : score(x) > 0 /\ \A y \in S : score(y) <= score(x)}
    IN {x \in top : \A y \in top : x <= y}

Last(S) == CHOOSE x \in S : \A y \in S : y <= x

StoresOf(L) == {l[1] : l \in L}

\* Fault: the address is not looked at.
SnapshotByName(s) ==
    LET score(t) == NameScore[NameOf[t], NameOf[s]]
    IN Best(StoresOf(listed), score)

\* select_existing_store_snapshot: the store whose prices a parsed store inherits.
Snapshot(s) ==
    LET score(t) == Likeness(t, s)
    IN Best(StoresOf(listed), score)

\* merge_product_with_existing_snapshot, then apply_known_pricing.
Merged(l) ==
    LET before == {price[t, l[2], l[3]] : t \in Snapshot(l[1])} \ {NoPrice}
    IN IF before = {} THEN Known[l] ELSE CHOOSE p \in before : TRUE

\* refresh_result_looks_suspicious
Suspicious(page) ==
    LET stores == Cardinality(StoresOf(listed))
        newStores == Cardinality(StoresOf(page))
        products == Cardinality(listed)
        newProducts == Cardinality(page)
    IN /\ stores > 0
       /\ newStores < FloorStores \/ newProducts < FloorProducts
       /\ \/ 100 * newStores < StoreRatio * stores /\ stores >= newStores + StoreDrop
          \/ 100 * newProducts < ProductRatio * products
                /\ products >= newProducts + ProductDrop

\* record_price_point_if_changed for the listings of R in the order of the stores,
\* at the prices new: of stores that share a name the last one stays.
Recorded(R, new) ==
    [h \in Name \X Strain \X Kind |->
        LET same == {s \in Store : NameOf[s] = h[1] /\ <<s, h[2], h[3]>> \in R}
        IN IF same = {} THEN latest[h] ELSE new[Last(same), h[2], h[3]]]

-----------------------------------------------------------------------------
\* An empty database, before a bootstrap or the first refresh.
Init ==
    /\ listed = {}
    /\ price = [l \in Listing |-> NoPrice]
    /\ latest = [h \in Name \X Strain \X Kind |-> NoPrice]

\* refresh_data: the page could be fetched and has local stores; they replace what
\* is listed unless they look incomplete.  Else only refresh_log is written.
Refresh(page) ==
    /\ page # {} /\ ~Suspicious(page)
    /\ LET new == [l \in Listing |-> IF l \in page THEN Merged(l) ELSE NoPrice]
       IN /\ listed' = page
          /\ price' = new
          /\ latest' = Recorded({l \in page : new[l] # NoPrice}, new)

\* Fault: any menu whose name is like the store's, the first one found.
AnyMenu(menus, s) ==
    LET names == {menus[i].name : i \in DOMAIN menus}
        score(n) == IF NameScore[n, NameOf[s]] > 0 THEN 1 ELSE 0
        menu == Best(names, score)
    IN {i \in DOMAIN menus : menus[i].name \in menu}

\* select_live_products_for_dispensary: the offers of the one menu it takes.
Menu(menus, s) ==
    LET names == {menus[i].name : i \in DOMAIN menus}
        score(n) == NameScore[n, NameOf[s]]
        menu == Best(names, score)
    IN {i \in DOMAIN menus : menus[i].name \in menu}

\* An offer reaches a listing of its strain, or, when the store has no such listing,
\* the store's only listing of that kind.
Reaches(o, l) ==
    /\ o.kind = l[3]
    /\ \/ o.strain = l[2]
       \/ /\ <<l[1], o.strain, o.kind>> \notin listed
          /\ \A k \in listed : k[1] = l[1] /\ k[3] = l[3] => k = l

\* seen_live: the places of a menu that make an offer for the first time.
FirstOffers(menus, S) == {i \in S : \A j \in S : j < i => menus[j] # menus[i]}

\* The offers that change the price of a listing, by their place in the menus.
Updates(menus, l) ==
    {i \in FirstOffers(menus, Menu(menus, l[1])) :
        Reaches(menus[i], l) /\ menus[i].price # price[l]}

\* Fault: what the page no longer lists gets known prices, too.
ScrapedUnlisted(menus) ==
    [l \in Listing |->
        LET updates == Updates(menus, l)
        IN IF updates # {} THEN menus[Last(updates)].price
           ELSE IF price[l] = NoPrice THEN Known[l] ELSE price[l]]

\* The prices after a scrape: an offer updates every listing it reaches, unless that
\* is the price the listing had, and the last one stays; what has no price yet gets
\* the known one (backfill_known_prices_for_dispensary).
Scraped(menus) ==
    [l \in Listing |->
        LET updates == Updates(menus, l)
        IN IF l \notin listed THEN NoPrice
           ELSE IF updates # {} THEN menus[Last(updates)].price
           ELSE IF price[l] = NoPrice THEN Known[l] ELSE price[l]]

\* Fault: prices of the menus are recorded, known ones are not.
ScrapeRecordsUpdates(menus) ==
    LET new == Scraped(menus)
    IN /\ price' = new
       /\ latest' = Recorded({l \in listed : new[l] # price[l] /\ price[l] # NoPrice}, new)
       /\ UNCHANGED listed

\* scrape_menus: every listing whose price changes is recorded.
Scrape(menus) ==
    LET new == Scraped(menus)
    IN /\ price' = new
       /\ latest' = Recorded({l \in listed : new[l] # price[l]}, new)
       /\ UNCHANGED listed

Next ==
    \/ \E page \in SUBSET Listing : Refresh(page)
    \/ \E menus \in Menus : Scrape(menus)

Spec == Init /\ [][Next]_vars

-----------------------------------------------------------------------------
TypeOK ==
    /\ listed \subseteq Listing
    /\ price \in [Listing -> 0..MaxPrice]
    /\ \A l \in Listing : price[l] # NoPrice => l \in listed
    /\ latest \in [Name \X Strain \X Kind -> 0..MaxPrice]

(***************************************************************************)
(* The price a listing shows is the last one its history tells, whichever  *)
(* of five ways it came by: own menu, a sibling's, another strain's offer, *)
(* a known price or the listing before a refresh (docstring of             *)
(* record_price_point_if_changed).  Only where stores share a name is the  *)
(* history one for all of them.                                            *)
(***************************************************************************)
HistoryIsCurrent ==
    \A l \in listed :
        /\ price[l] # NoPrice
        /\ \A t \in Store : NameOf[t] = NameOf[l[1]] => t = l[1]
        => latest[NameOf[l[1]], l[2], l[3]] = price[l]

\* The listed stores that are as like to a store of the page as it is to itself.
Forebears(s) == {t \in StoresOf(listed) : Likeness(t, s) >= Likeness(s, s)}

(***************************************************************************)
(* A refresh keeps the price of every listing that stays, also when it     *)
(* lists the store under another name for the first time, though it finds  *)
(* the store again by a fuzzy match and has siblings to confuse it with    *)
(* (README 31: "listing refreshes do not wipe already-scraped prices").    *)
(* Only of two that it cannot tell apart, as the REC and the MED listing   *)
(* of one address, the second one inherits from the first.                 *)
(***************************************************************************)
RefreshKeepsPrices ==
    [][listed' # listed =>
          \A l \in listed', t \in Store :
              LET before == <<t, l[2], l[3]>>
              IN Forebears(l[1]) = {t} /\ price[before] # NoPrice
                    => price'[l] = price[before]]_vars

(***************************************************************************)
(* A listing that the menu of its own store offers at one price has that   *)
(* price after the scrape, whatever siblings and known prices say, unless  *)
(* the menu also offers a strain that falls back on it.  The own menu may  *)
(* be found under another spelling of the store's name, while only one     *)
(* menu's name is as like to it.                                           *)
(***************************************************************************)
OwnMenuWins ==
    \A menus \in Menus : \A l \in listed, i \in DOMAIN menus :
        LET o == menus[i]
            own(n) == NameScore[n, NameOf[l[1]]] >= NameScore[NameOf[l[1]], NameOf[l[1]]]
        IN /\ o.strain = l[2] /\ o.kind = l[3] /\ own(o.name)
           /\ \A j \in DOMAIN menus : own(menus[j].name) =>
                 /\ menus[j].name = o.name
                 /\ Reaches(menus[j], l) => menus[j].price = o.price
           => Scraped(menus)[l] = o.price
=============================================================================
