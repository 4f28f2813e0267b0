-------------------------- MODULE CatalogueProofs --------------------------
(***************************************************************************)
(* The properties of Catalogue for any number of stores, names, strains    *)
(* and offers, under CatalogueAssumption alone.                            *)
(***************************************************************************)
EXTENDS Catalogue, TLAPS, WellFoundedInduction

-----------------------------------------------------------------------------
(* CatalogueAssumption, taken apart. *)

LEMMA Bounds ==
    /\ Stores \in Nat /\ MaxPrice \in Nat /\ MaxOffers \in Nat
    /\ 0 \in 0..MaxPrice
<1>1. Stores \in Nat /\ MaxPrice \in Nat /\ MaxOffers \in Nat
  BY CatalogueAssumption DEF CatalogueAssumption
<1> QED BY <1>1

LEMMA KnownPrice == Known \in [Listing -> 0..MaxPrice]
  BY CatalogueAssumption DEF CatalogueAssumption

LEMMA StoreNames == Name \subseteq Nat /\ NameOf \in [Store -> Name]
  BY CatalogueAssumption DEF CatalogueAssumption

LEMMA NamesMatch ==
    /\ \A n, o \in Name : NameScore[n, o] \in Nat
    /\ \A n \in Name : NameScore[n, n] > 0
    /\ \A n, o \in Name : NameScore[n, o] <= NameScore[o, o]
<1>1. NameScore \in [Name \X Name -> Nat]
  BY CatalogueAssumption DEF CatalogueAssumption
<1>2. \A n, o \in Name : NameScore[n, o] \in Nat
  BY <1>1
<1> QED BY <1>2, CatalogueAssumption DEF CatalogueAssumption

LEMMA AddressesMatch ==
    /\ \A s, t \in Store : AddressScore[t, s] \in Nat
    /\ \A s, t \in Store : AddressScore[t, s] <= AddressScore[s, s]
<1>1. AddressScore \in [Store \X Store -> Nat]
  BY CatalogueAssumption DEF CatalogueAssumption
<1>2. \A s, t \in Store : AddressScore[t, s] \in Nat
  BY <1>1
<1> QED BY <1>2, CatalogueAssumption DEF CatalogueAssumption

\* No store is more like to another than that one is to itself.
LEMMA StoresMatch ==
    ASSUME NEW s \in Store, NEW t \in Store
    PROVE  /\ Likeness(t, s) \in Nat
           /\ Likeness(s, s) > 0 /\ Likeness(t, s) <= Likeness(s, s)
<1> DEFINE name(x) == NameScore[NameOf[x], NameOf[s]]
           address(x) == AddressScore[x, s]
<1>1. NameOf[s] \in Name /\ NameOf[t] \in Name
  BY StoreNames
<1>2. address(t) \in Nat /\ address(s) \in Nat /\ address(t) <= address(s)
  BY AddressesMatch
<1>3. name(t) \in Nat /\ name(t) <= name(s)
  BY <1>1, NamesMatch
<1>4. name(s) \in Nat /\ name(s) > 0
  BY <1>1, NamesMatch
<1>5. Likeness(t, s) = name(t) + address(t) /\ Likeness(s, s) = name(s) + address(s)
  BY DEF Likeness
<1> HIDE DEF name, address
<1> QED BY <1>2, <1>3, <1>4, <1>5

-----------------------------------------------------------------------------
(* The operators the actions are built from. *)

\* A nonempty set of natural numbers that has a bound has a last element.
LEMMA LastIsIn ==
    ASSUME NEW b \in Nat, NEW S \in SUBSET (1..b), S # {}
    PROVE  Last(S) \in S /\ \A y \in S : y <= Last(S)
<1> DEFINE T == {b - x : x \in S}
<1>1. T \subseteq Nat /\ T # {}
  <2>1. \A x \in S : b - x \in Nat
    OBVIOUS
  <2> QED BY <2>1
<1>2. PICK d \in T : \A y \in T : ~ (<<y, d>> \in OpToRel(<, Nat))
  <2>1. IsWellFoundedOn(OpToRel(<, Nat), Nat)
    BY NatLessThanWellFounded
  <2> HIDE DEF T
  <2> QED BY <1>1, <2>1, WFMin
<1>3. \A y \in T : d <= y
  <2> TAKE y \in T
  <2>1. y \in Nat /\ d \in Nat
    BY <1>1
  <2> HIDE DEF T
  <2>2. ~ (y < d)
    BY <1>2, <2>1 DEF OpToRel
  <2> QED BY <2>1, <2>2
<1>4. PICK x \in S : d = b - x
  OBVIOUS
<1>5. \A y \in S : y <= x
  <2> TAKE y \in S
  <2>1. d <= b - y
    BY <1>3
  <2> QED BY <2>1, <1>4
<1> QED BY <1>5 DEF Last

\* What is true of one of the first natural numbers is true of a first one of them.
LEMMA FirstIsIn ==
    ASSUME NEW b \in Nat, NEW S \in SUBSET (1..b), S # {}
    PROVE  \E x \in S : \A y \in S : x <= y
<1>1. S \subseteq Nat
  OBVIOUS
<1>2. PICK x \in S : \A y \in S : ~ (<<y, x>> \in OpToRel(<, Nat))
  <2>1. IsWellFoundedOn(OpToRel(<, Nat), Nat)
    BY NatLessThanWellFounded
  <2> QED BY <1>1, <2>1, WFMin
<1>3. \A y \in S : x <= y
  <2> TAKE y \in S
  <2>1. y \in Nat /\ x \in Nat
    BY <1>1
  <2>2. ~ (y < x)
    BY <1>2, <2>1 DEF OpToRel
  <2> QED BY <2>1, <2>2
<1> QED BY <1>3

LEMMA LastOfOne == ASSUME NEW x \in Nat PROVE Last({x}) = x
  BY DEF Last

LEMMA StoresAreStores ==
    ASSUME NEW L \in SUBSET Listing PROVE StoresOf(L) \subseteq Store
  BY DEF StoresOf, Listing

\* A snapshot is one of the stores that are listed.
LEMMA SnapshotIsListed ==
    ASSUME listed \subseteq Listing, NEW s \in Store PROVE Snapshot(s) \subseteq Store
  BY StoresAreStores DEF Snapshot, Best

\* The one listed store that is as like to a store as itself is what it inherits from.
LEMMA SnapshotIsForebear ==
    ASSUME listed \subseteq Listing, NEW s \in Store, NEW t, Forebears(s) = {t}
    PROVE  Snapshot(s) = {t}
<1> DEFINE top == {x \in StoresOf(listed) :
                      /\ Likeness(x, s) > 0
                      /\ \A y \in StoresOf(listed) : Likeness(y, s) <= Likeness(x, s)}
<1>1. StoresOf(listed) \subseteq Store
  BY StoresAreStores
<1>2. /\ t \in StoresOf(listed) /\ Likeness(t, s) >= Likeness(s, s)
      /\ \A x \in StoresOf(listed) : Likeness(x, s) >= Likeness(s, s) => x = t
  BY DEF Forebears
<1>3. /\ Likeness(s, s) \in Nat /\ Likeness(s, s) > 0
      /\ \A x \in StoresOf(listed) :
            Likeness(x, s) \in Nat /\ Likeness(x, s) <= Likeness(s, s)
  BY <1>1, StoresMatch
<1>4. Snapshot(s) = {x \in top : \A y \in top : x <= y}
  BY DEF Snapshot, Best
<1>5. top = {t}
  <2>1. t \in top
    <3>1. Likeness(t, s) = Likeness(s, s)
      BY <1>2, <1>3
    <3> QED BY <1>2, <1>3, <3>1
  <2>2. ASSUME NEW x \in top PROVE x = t
    <3>1. x \in StoresOf(listed) /\ Likeness(t, s) <= Likeness(x, s)
      BY <1>2
    <3>2. Likeness(x, s) \in Nat /\ Likeness(t, s) \in Nat
      BY <1>2, <1>3, <3>1
    <3>3. Likeness(x, s) >= Likeness(s, s)
      BY <1>2, <1>3, <3>1, <3>2
    <3> QED BY <1>2, <3>1, <3>3
  <2> QED BY <2>1, <2>2
<1>6. t <= t
  <2>1. t \in Nat
    BY <1>1, <1>2, Bounds DEF Store
  <2> QED BY <2>1
<1> HIDE DEF top
<1> QED BY <1>4, <1>5, <1>6

\* Menus are finite sequences of offers.
LEMMA MenuOffers ==
    ASSUME NEW menus \in Menus
    PROVE  /\ \E n \in Nat : DOMAIN menus = 1..n
           /\ \A i \in DOMAIN menus : menus[i] \in Offer
<1>1. PICK n \in 0..MaxOffers : menus \in [1..n -> Offer]
  BY DEF Menus
<1>2. n \in Nat
  BY Bounds
<1> QED BY <1>1, <1>2

\* A name that is as like to another as that one is to itself.
AsLike(n, o) == NameScore[n, o] >= NameScore[o, o]

\* The one menu whose name is as like to a store's as that is itself is taken.
LEMMA MenuIsOwn ==
    ASSUME NEW menus \in Menus, NEW s \in Store,
           NEW i \in DOMAIN menus, AsLike(menus[i].name, NameOf[s]),
           \A j \in DOMAIN menus :
              AsLike(menus[j].name, NameOf[s]) => menus[j].name = menus[i].name
    PROVE  Menu(menus, s) = {j \in DOMAIN menus : menus[j].name = menus[i].name}
<1> DEFINE names == {menus[j].name : j \in DOMAIN menus}
           score(n) == NameScore[n, NameOf[s]]
           top == {x \in names : score(x) > 0 /\ \A y \in names : score(y) <= score(x)}
           own == menus[i].name
           self == score(NameOf[s])
<1>1. names \subseteq Name /\ own \in names
  BY MenuOffers DEF Offer
<1>2. \A n \in names : score(n) \in Nat /\ score(n) <= self
  BY <1>1, StoreNames, NamesMatch
<1>3. self \in Nat /\ self > 0
  BY StoreNames, NamesMatch
<1>4. score(own) >= self /\ \A n \in names : score(n) >= self => n = own
  BY DEF AsLike
<1>5. Menu(menus, s) = {j \in DOMAIN menus : menus[j].name \in
                                                 {x \in top : \A y \in top : x <= y}}
  BY DEF Menu, Best
<1>6. own \in Nat
  BY <1>1, StoreNames
<1> HIDE DEF score, names, own, self
<1>7. top = {own}
  <2>1. score(own) = self
    BY <1>1, <1>2, <1>3, <1>4
  <2>2. own \in top
    BY <1>1, <1>2, <1>3, <2>1
  <2>3. ASSUME NEW x \in top PROVE x = own
    <3>1. x \in names /\ score(own) <= score(x)
      BY <1>1
    <3>2. score(x) \in Nat
      BY <1>2, <3>1
    <3> QED BY <1>3, <1>4, <2>1, <3>1, <3>2
  <2> QED BY <2>2, <2>3
<1> HIDE DEF top
<1>8. {x \in top : \A y \in top : x <= y} = {own}
  BY <1>6, <1>7
<1> QED BY <1>5, <1>8 DEF own

\* Whatever a menu offers it offers for the first time at some place.
LEMMA FirstOfferIsIn ==
    ASSUME NEW menus \in Menus, NEW S \in SUBSET DOMAIN menus, NEW i \in S
    PROVE  \E j \in FirstOffers(menus, S) : menus[j] = menus[i]
<1> DEFINE same == {j \in S : menus[j] = menus[i]}
<1>1. PICK n \in Nat : DOMAIN menus = 1..n
  BY MenuOffers
<1>2. same \in SUBSET (1..n) /\ i \in same
  BY <1>1
<1> HIDE DEF same
<1>3. PICK j \in same : \A k \in same : j <= k
  BY <1>2, FirstIsIn
<1>4. \A k \in S : k < j => menus[k] # menus[j]
  <2> SUFFICES ASSUME NEW k \in S, k < j, menus[k] = menus[j] PROVE FALSE
    OBVIOUS
  <2>1. k \in same
    BY <1>3 DEF same
  <2>2. j <= k /\ j \in Nat /\ k \in Nat
    BY <1>1, <1>2, <1>3, <2>1
  <2> QED BY <2>2
<1> QED BY <1>3, <1>4 DEF FirstOffers, same

\* The offers that count are offers of the menus.
LEMMA UpdatesAreOffers ==
    ASSUME NEW menus \in Menus, NEW l \in Listing, Updates(menus, l) # {}
    PROVE  /\ Last(Updates(menus, l)) \in Updates(menus, l)
           /\ menus[Last(Updates(menus, l))] \in Offer
<1>1. PICK n \in Nat : DOMAIN menus = 1..n
  BY MenuOffers
<1>2. Updates(menus, l) \in SUBSET (1..n)
  BY <1>1 DEF Updates, FirstOffers, Menu
<1>3. Last(Updates(menus, l)) \in Updates(menus, l)
  BY <1>2, LastIsIn
<1> QED BY <1>1, <1>2, <1>3, MenuOffers

\* The prices after a scrape and after a refresh are prices.
LEMMA ScrapedIsPrice ==
    ASSUME TypeOK, NEW menus \in Menus
    PROVE  /\ Scraped(menus) \in [Listing -> 0..MaxPrice]
           /\ \A l \in Listing : l \notin listed => Scraped(menus)[l] = NoPrice
<1>1. ASSUME NEW l \in Listing, Updates(menus, l) # {}
      PROVE  menus[Last(Updates(menus, l))].price \in 0..MaxPrice
  BY <1>1, UpdatesAreOffers DEF Offer, Price
<1>2. NoPrice \in 0..MaxPrice
  BY Bounds DEF NoPrice
<1>3. \A l \in Listing : Known[l] \in 0..MaxPrice /\ price[l] \in 0..MaxPrice
  BY KnownPrice DEF TypeOK
<1> QED BY <1>1, <1>2, <1>3 DEF Scraped

LEMMA MergedIsPrice ==
    ASSUME TypeOK, NEW l \in Listing PROVE Merged(l) \in 0..MaxPrice
<1> DEFINE before == {price[t, l[2], l[3]] : t \in Snapshot(l[1])} \ {NoPrice}
<1>1. before \subseteq 0..MaxPrice
  <2>1. l[1] \in Store /\ l[2] \in Strain /\ l[3] \in Kind
    BY DEF Listing
  <2>2. Snapshot(l[1]) \subseteq Store
    BY <2>1, SnapshotIsListed DEF TypeOK
  <2>3. \A t \in Store : <<t, l[2], l[3]>> \in Listing
    BY <2>1 DEF Listing
  <2>4. \A t \in Store : price[t, l[2], l[3]] \in 0..MaxPrice
    BY <2>3 DEF TypeOK
  <2> QED BY <2>2, <2>4
<1>2. Merged(l) = IF before = {} THEN Known[l] ELSE CHOOSE p \in before : TRUE
  BY DEF Merged
<1>3. Known[l] \in 0..MaxPrice
  BY KnownPrice
<1> HIDE DEF before
<1> QED BY <1>1, <1>2, <1>3

\* What is recorded is a price.
LEMMA RecordedIsPrice ==
    ASSUME TypeOK, NEW R, NEW new \in [Listing -> 0..MaxPrice]
    PROVE  Recorded(R, new) \in [Name \X Strain \X Kind -> 0..MaxPrice]
<1> SUFFICES ASSUME NEW h \in Name \X Strain \X Kind
             PROVE  Recorded(R, new)[h] \in 0..MaxPrice
  BY DEF Recorded
<1> DEFINE same == {s \in Store : NameOf[s] = h[1] /\ <<s, h[2], h[3]>> \in R}
<1>1. Recorded(R, new)[h] = IF same = {} THEN latest[h] ELSE new[Last(same), h[2], h[3]]
  BY DEF Recorded
<1>2. CASE same = {}
  BY <1>1, <1>2 DEF TypeOK
<1>3. CASE same # {}
  <2>1. same \in SUBSET (1..Stores) /\ Stores \in Nat
    BY Bounds DEF Store
  <2> HIDE DEF same
  <2>2. Last(same) \in Store
    BY <1>3, <2>1, LastIsIn DEF Store
  <2>3. <<Last(same), h[2], h[3]>> \in Listing
    BY <2>2 DEF Listing
  <2> QED BY <1>1, <1>3, <2>3
<1> QED BY <1>2, <1>3

Alone(s) == \A t \in Store : NameOf[t] = NameOf[s] => t = s
Entry(l) == <<NameOf[l[1]], l[2], l[3]>>

\* Of a listing whose store alone has its name, the history gets the new price when
\* it is recorded and stays when it is not.
LEMMA RecordedOfOne ==
    ASSUME NEW R, NEW new, NEW l \in Listing, Alone(l[1])
    PROVE  Recorded(R, new)[Entry(l)] = IF l \in R THEN new[l] ELSE latest[Entry(l)]
<1> DEFINE h == Entry(l)
           same == {s \in Store : NameOf[s] = h[1] /\ <<s, h[2], h[3]>> \in R}
<1>1. l[1] \in Store /\ l[2] \in Strain /\ l[3] \in Kind /\ l = <<l[1], l[2], l[3]>>
  BY DEF Listing
<1>2. h \in Name \X Strain \X Kind
  BY <1>1, StoreNames DEF Entry
<1>3. Recorded(R, new)[h] = IF same = {} THEN latest[h] ELSE new[Last(same), h[2], h[3]]
  BY <1>2 DEF Recorded
<1>4. h[1] = NameOf[l[1]] /\ h[2] = l[2] /\ h[3] = l[3]
  BY DEF Entry
<1>5. \A s \in Store : s \in same => s = l[1]
  BY <1>4 DEF Alone
<1>6. l[1] \in same <=> l \in R
  BY <1>1, <1>4
<1>7. CASE l \in R
  <2>1. same = {l[1]}
    BY <1>5, <1>6, <1>7
  <2> HIDE DEF same, h
  <2>2. Last(same) = l[1]
    <3>1. l[1] \in Nat
      BY <1>1, Bounds DEF Store
    <3> QED BY <2>1, <3>1, LastOfOne
  <2>3. same # {}
    BY <2>1
  <2>4. new[Last(same), h[2], h[3]] = new[l]
    BY <1>1, <1>4, <2>2
  <2>5. Recorded(R, new)[h] = new[l]
    BY <1>3, <2>3, <2>4
  <2> QED BY <1>7, <2>5 DEF h
<1>8. CASE l \notin R
  <2>1. same = {}
    BY <1>5, <1>6, <1>8
  <2> HIDE DEF same
  <2> QED BY <1>3, <1>8, <2>1
<1> QED BY <1>7, <1>8

-----------------------------------------------------------------------------
(* Type correctness. *)

LEMMA NoPriceIsPrice == NoPrice \in 0..MaxPrice
  BY Bounds DEF NoPrice

LEMMA TypeInit == Init => TypeOK
  BY NoPriceIsPrice DEF Init, TypeOK

\* The prices a refresh leaves behind.
RefreshedPrice(page) == [l \in Listing |-> IF l \in page THEN Merged(l) ELSE NoPrice]

LEMMA RefreshedIsPrice ==
    ASSUME TypeOK, NEW page \in SUBSET Listing
    PROVE  RefreshedPrice(page) \in [Listing -> 0..MaxPrice]
  BY MergedIsPrice, NoPriceIsPrice DEF RefreshedPrice

LEMMA RefreshType ==
    ASSUME TypeOK, NEW page \in SUBSET Listing, Refresh(page) PROVE TypeOK'
<1> DEFINE new == RefreshedPrice(page)
<1>1. new \in [Listing -> 0..MaxPrice]
  BY RefreshedIsPrice
<1>2. listed' = page /\ price' = new /\ latest' = Recorded({l \in page : new[l] # NoPrice}, new)
  BY DEF Refresh, RefreshedPrice
<1>3. \A l \in Listing : l \notin page => new[l] = NoPrice
  BY DEF RefreshedPrice
<1> HIDE DEF new
<1>4. latest' \in [Name \X Strain \X Kind -> 0..MaxPrice]
  BY <1>1, <1>2, RecordedIsPrice
<1> QED BY <1>1, <1>2, <1>3, <1>4 DEF TypeOK

LEMMA ScrapeType ==
    ASSUME TypeOK, NEW menus \in Menus, Scrape(menus) PROVE TypeOK'
<1> DEFINE new == Scraped(menus)
<1>1. /\ new \in [Listing -> 0..MaxPrice]
      /\ \A l \in Listing : l \notin listed => new[l] = NoPrice
  BY ScrapedIsPrice
<1>2. /\ price' = new /\ listed' = listed
      /\ latest' = Recorded({l \in listed : new[l] # price[l]}, new)
  BY DEF Scrape
<1> HIDE DEF new
<1>3. latest' \in [Name \X Strain \X Kind -> 0..MaxPrice]
  BY <1>1, <1>2, RecordedIsPrice
<1> QED BY <1>1, <1>2, <1>3 DEF TypeOK

(***************************************************************************)
(* The tables are well typed, and what is not listed has no price, however *)
(* often refresh_data and scrape_menus follow each other.                  *)
(***************************************************************************)
THEOREM TypeCorrect == Spec => []TypeOK
<1>1. TypeOK /\ [Next]_vars => TypeOK'
  <2> SUFFICES ASSUME TypeOK, [Next]_vars PROVE TypeOK'
    OBVIOUS
  <2>1. ASSUME NEW page \in SUBSET Listing, Refresh(page) PROVE TypeOK'
    BY <2>1, RefreshType
  <2>2. ASSUME NEW menus \in Menus, Scrape(menus) PROVE TypeOK'
    BY <2>2, ScrapeType
  <2>3. CASE UNCHANGED vars
    BY <2>3 DEF vars, TypeOK
  <2> QED BY <2>1, <2>2, <2>3 DEF Next
<1> QED BY TypeInit, <1>1, PTL DEF Spec

-----------------------------------------------------------------------------
(* History. *)

LEMMA RefreshHistory ==
    ASSUME TypeOK, NEW page \in SUBSET Listing, Refresh(page)
    PROVE  HistoryIsCurrent'
<1> DEFINE new == RefreshedPrice(page)
           R == {l \in page : new[l] # NoPrice}
<1>1. listed' = page /\ price' = new /\ latest' = Recorded(R, new)
  BY DEF Refresh, RefreshedPrice
<1> SUFFICES ASSUME NEW l \in page, new[l] # NoPrice,
                    Alone(l[1])
             PROVE  Recorded(R, new)[Entry(l)] = new[l]
  BY <1>1 DEF HistoryIsCurrent, Alone, Entry
<1>2. l \in R /\ l \in Listing
  OBVIOUS
<1> HIDE DEF new, R
<1> QED BY <1>2, RecordedOfOne

LEMMA ScrapeHistory ==
    ASSUME TypeOK, HistoryIsCurrent, NEW menus \in Menus, Scrape(menus)
    PROVE  HistoryIsCurrent'
<1> DEFINE new == Scraped(menus)
           R == {l \in listed : new[l] # price[l]}
<1>1. listed' = listed /\ price' = new /\ latest' = Recorded(R, new)
  BY DEF Scrape
<1> SUFFICES ASSUME NEW l \in listed, new[l] # NoPrice,
                    Alone(l[1])
             PROVE  Recorded(R, new)[Entry(l)] = new[l]
  BY <1>1 DEF HistoryIsCurrent, Alone, Entry
<1>2. l \in Listing
  BY DEF TypeOK
<1>3. l \notin R => new[l] = price[l] /\ latest[Entry(l)] = price[l]
  BY DEF HistoryIsCurrent, Alone, Entry
<1> HIDE DEF new, R
<1>4. CASE l \in R
  BY <1>2, <1>4, RecordedOfOne
<1>5. CASE l \notin R
  BY <1>2, <1>3, <1>5, RecordedOfOne
<1> QED BY <1>4, <1>5

(***************************************************************************)
(* Whatever pages and menus come, a priced listing whose store has its     *)
(* name for itself shows the price price_history has last                  *)
(* (record_price_point_if_changed and its five callers).                   *)
(***************************************************************************)
THEOREM HistoryStaysCurrent == Spec => []HistoryIsCurrent
<1>1. Init => HistoryIsCurrent
  BY DEF Init, HistoryIsCurrent
<1>2. TypeOK /\ HistoryIsCurrent /\ [Next]_vars => HistoryIsCurrent'
  <2> SUFFICES ASSUME TypeOK, HistoryIsCurrent, [Next]_vars PROVE HistoryIsCurrent'
    OBVIOUS
  <2>1. ASSUME NEW page \in SUBSET Listing, Refresh(page) PROVE HistoryIsCurrent'
    BY <2>1, RefreshHistory
  <2>2. ASSUME NEW menus \in Menus, Scrape(menus) PROVE HistoryIsCurrent'
    BY <2>2, ScrapeHistory
  <2>3. CASE UNCHANGED vars
    BY <2>3 DEF vars, HistoryIsCurrent
  <2> QED BY <2>1, <2>2, <2>3 DEF Next
<1> QED BY TypeCorrect, <1>1, <1>2, PTL DEF Spec

-----------------------------------------------------------------------------
(* Refreshes and menus. *)

\* A listing keeps the price it has in the one forebear of its store.
LEMMA MergedKeeps ==
    ASSUME TypeOK, NEW l \in Listing, NEW t, Forebears(l[1]) = {t},
           price[<<t, l[2], l[3]>>] # NoPrice
    PROVE  Merged(l) = price[<<t, l[2], l[3]>>]
<1>1. l[1] \in Store
  BY DEF Listing
<1>2. Snapshot(l[1]) = {t}
  BY <1>1, SnapshotIsForebear DEF TypeOK
<1>3. {price[u, l[2], l[3]] : u \in Snapshot(l[1])} \ {NoPrice} = {price[<<t, l[2], l[3]>>]}
  BY <1>2
<1> QED BY <1>3 DEF Merged

(***************************************************************************)
(* A refresh keeps the price of every listing that stays, under its        *)
(* store's name or a new one: the fuzzy match of                           *)
(* select_existing_store_snapshot leads to the one listed store that is as *)
(* like to the store as itself, for any scores under which none is more so *)
(* (score_store_match, score_address_match).                               *)
(***************************************************************************)
THEOREM RefreshesKeepPrices == Spec => RefreshKeepsPrices
<1> DEFINE Keeps ==
        listed' # listed =>
          \A l \in listed', t \in Store :
              LET before == <<t, l[2], l[3]>>
              IN Forebears(l[1]) = {t} /\ price[before] # NoPrice
                    => price'[l] = price[before]
<1>1. ASSUME TypeOK, [Next]_vars, listed' # listed,
             NEW l \in listed', NEW t \in Store, Forebears(l[1]) = {t},
             price[<<t, l[2], l[3]>>] # NoPrice
      PROVE  price'[l] = price[<<t, l[2], l[3]>>]
  <2>1. PICK page \in SUBSET Listing : Refresh(page)
    BY <1>1 DEF Next, Scrape, vars
  <2>2. l \in page /\ l \in Listing /\ price'[l] = Merged(l)
    BY <1>1, <2>1 DEF Refresh
  <2> QED BY <1>1, <2>2, MergedKeeps
<1>2. TypeOK /\ [Next]_vars => [Keeps]_vars
  BY <1>1 DEF vars
<1> QED BY TypeCorrect, <1>2, PTL DEF RefreshKeepsPrices, Spec

LEMMA OwnMenuCounts ==
    ASSUME TypeOK, NEW menus \in Menus, NEW l \in listed,
           NEW i \in DOMAIN menus, menus[i].strain = l[2], menus[i].kind = l[3],
           AsLike(menus[i].name, NameOf[l[1]]),
           \A j \in DOMAIN menus : AsLike(menus[j].name, NameOf[l[1]]) =>
              /\ menus[j].name = menus[i].name
              /\ Reaches(menus[j], l) => menus[j].price = menus[i].price
    PROVE  Scraped(menus)[l] = menus[i].price
<1> DEFINE menu == Menu(menus, l[1])
           updates == Updates(menus, l)
<1>1. l \in Listing /\ l[1] \in Store
  BY DEF TypeOK, Listing
<1>2. menu = {j \in DOMAIN menus : menus[j].name = menus[i].name}
  BY <1>1, MenuIsOwn
<1>3. i \in menu /\ Reaches(menus[i], l)
  BY <1>2 DEF Reaches
<1>4. \A j \in menu : Reaches(menus[j], l) => menus[j].price = menus[i].price
  BY <1>2
<1>5. updates = {j \in FirstOffers(menus, menu) :
                    Reaches(menus[j], l) /\ menus[j].price # price[l]}
  BY DEF Updates
<1>6. menus[i].price # NoPrice
  <2>1. menus[i] \in Offer
    BY MenuOffers
  <2> QED BY <2>1 DEF Offer, Price, NoPrice
<1>7. Scraped(menus)[l] = IF updates # {} THEN menus[Last(updates)].price
                          ELSE IF price[l] = NoPrice THEN Known[l] ELSE price[l]
  BY <1>1 DEF Scraped
<1>8. menu \in SUBSET DOMAIN menus
  BY <1>2
<1>9. CASE updates # {}
  <2>1. Last(updates) \in updates
    BY <1>1, <1>9, UpdatesAreOffers
  <2>2. Last(updates) \in menu /\ Reaches(menus[Last(updates)], l)
    BY <1>5, <2>1 DEF FirstOffers
  <2> HIDE DEF menu, updates
  <2> QED BY <1>4, <1>7, <1>9, <2>2
<1>10. CASE updates = {}
  <2> HIDE DEF menu
  <2>1. PICK j \in FirstOffers(menus, menu) : menus[j] = menus[i]
    BY <1>3, <1>8, FirstOfferIsIn
  <2>2. menus[i].price = price[l]
    BY <1>3, <1>5, <1>10, <2>1
  <2> HIDE DEF updates
  <2> QED BY <1>6, <1>7, <1>10, <2>2
<1> QED BY <1>9, <1>10

(***************************************************************************)
(* The offer of a store's own menu is the price its listing has after a    *)
(* scrape, for any menus and whatever siblings there are                   *)
(* (select_live_products_for_dispensary, scrape_menus).                    *)
(***************************************************************************)
THEOREM OwnMenusWin == Spec => []OwnMenuWins
<1>1. TypeOK => OwnMenuWins
  BY OwnMenuCounts DEF OwnMenuWins, AsLike
<1> QED BY TypeCorrect, <1>1, PTL

-----------------------------------------------------------------------------
(* Jobs that are run again. *)

\* The offers that reach a listing all name one price.
Agreed(menus, l) ==
    \A i, j \in Menu(menus, l[1]) :
        Reaches(menus[i], l) /\ Reaches(menus[j], l) => menus[i].price = menus[j].price

\* The same menus, scraped again, find every price as they left it, unless they
\* offer a listing at two prices: then it takes each of them in turn.
ScrapeSettles ==
    [][\A menus \in Menus : Scrape(menus) /\ (\A l \in listed : Agreed(menus, l))
         => (Scraped(menus))' = price']_vars

\* The same page, stored again, leaves the prices as they are, except of a store that
\* another one of the page is as like to as itself.
RefreshSettles ==
    [][\A page \in SUBSET Listing : Refresh(page)
         => \A l \in page : (Forebears(l[1]))' = {l[1]} => (Merged(l))' = price'[l]]_vars

\* What an offer reaches does not depend on the prices.
LEMMA ReachesStays ==
    ASSUME listed' = listed, NEW o, NEW l PROVE Reaches(o, l)' <=> Reaches(o, l)
BY DEF Reaches

LEMMA ScrapeAgain ==
    ASSUME TypeOK, NEW menus \in Menus, Scrape(menus), \A l \in listed : Agreed(menus, l)
    PROVE  (Scraped(menus))' = price'
<1> DEFINE new == Scraped(menus)
<1>1. price' = new /\ listed' = listed /\ TypeOK'
  BY ScrapeType DEF Scrape
<1>2. new \in [Listing -> 0..MaxPrice] /\ listed \subseteq Listing
  BY ScrapedIsPrice DEF TypeOK
<1> HIDE DEF new
<1>3. ASSUME NEW l \in Listing PROVE (Scraped(menus))'[l] = new[l]
  <2> DEFINE before == Updates(menus, l)
             first == FirstOffers(menus, Menu(menus, l[1]))
             after == {i \in first : Reaches(menus[i], l) /\ menus[i].price # new[l]}
  <2>1. /\ (Scraped(menus))' =
            [k \in Listing |->
                IF k \notin listed' THEN NoPrice
                ELSE IF (Updates(menus, k))' # {}
                     THEN menus[Last((Updates(menus, k))')].price
                ELSE IF price'[k] = NoPrice THEN Known[k] ELSE price'[k]]
    BY DEF Scraped
  <2>2. (Updates(menus, l))' = after
    <3>1. (Menu(menus, l[1]))' = Menu(menus, l[1])
      BY DEF Menu, Best
    <3>2. \A i : Reaches(menus[i], l)' <=> Reaches(menus[i], l)
      BY <1>1, ReachesStays
    <3>3. (FirstOffers(menus, Menu(menus, l[1])))' = first
      BY <3>1 DEF FirstOffers
    <3> QED BY <1>1, <3>2, <3>3 DEF Updates
  <2>3. (Scraped(menus))'[l] =
            IF l \notin listed THEN NoPrice
            ELSE IF after # {} THEN menus[Last(after)].price
            ELSE IF new[l] = NoPrice THEN Known[l] ELSE new[l]
    BY <1>1, <2>1, <2>2
  <2>4. new[l] = IF l \notin listed THEN NoPrice
                 ELSE IF before # {} THEN menus[Last(before)].price
                 ELSE IF price[l] = NoPrice THEN Known[l] ELSE price[l]
    BY DEF new, Scraped
  <2>5. first \subseteq Menu(menus, l[1]) /\ \A i \in first : menus[i].price # NoPrice
    <3>1. \A i \in first : i \in Menu(menus, l[1]) /\ i \in DOMAIN menus
      BY DEF FirstOffers, Menu
    <3>2. \A i \in first : menus[i] \in Offer
      BY <3>1, MenuOffers
    <3> QED BY <3>1, <3>2 DEF Offer, Price, NoPrice
  <2>6. CASE l \in listed /\ before # {}
    <3>1. Last(before) \in before /\ new[l] = menus[Last(before)].price
      BY <2>4, <2>6, UpdatesAreOffers
    <3>2. Last(before) \in first /\ Reaches(menus[Last(before)], l)
      BY <3>1 DEF Updates
    <3>3. \A i \in first : Reaches(menus[i], l) => menus[i].price = new[l]
      BY <2>5, <2>6, <3>1, <3>2 DEF Agreed
    <3>4. after = {} /\ new[l] # NoPrice
      BY <2>5, <3>1, <3>2, <3>3
    <3> QED BY <2>3, <2>6, <3>4
  <2>7. CASE l \in listed /\ before = {}
    <3>1. \A i \in first : Reaches(menus[i], l) => menus[i].price = price[l]
      BY <2>7 DEF Updates
    <3>2. price[l] # NoPrice => new[l] = price[l] /\ after = {}
      BY <2>4, <2>7, <3>1
    <3>3. price[l] = NoPrice => new[l] = Known[l] /\ after = {}
      BY <2>4, <2>5, <2>7, <3>1
    <3> QED BY <2>3, <2>7, <3>2, <3>3
  <2>8. CASE l \notin listed
    BY <2>3, <2>4, <2>8
  <2> QED BY <2>6, <2>7, <2>8
<1>5. (Scraped(menus))' = [l \in Listing |-> (Scraped(menus))'[l]]
  BY DEF Scraped
<1> QED BY <1>1, <1>2, <1>3, <1>5

(***************************************************************************)
(* A scrape that is repeated because its answer was lost, or because the   *)
(* scheduler and /api/scrape ask for it one after the other, changes no    *)
(* price and so records none (scrape_menus), while the menus agree.        *)
(***************************************************************************)
THEOREM ScrapesSettle == Spec => ScrapeSettles
<1>1. TypeOK /\ [Next]_vars =>
        [\A menus \in Menus : Scrape(menus) /\ (\A l \in listed : Agreed(menus, l))
            => (Scraped(menus))' = price']_vars
  BY ScrapeAgain
<1> QED BY TypeCorrect, <1>1, PTL DEF ScrapeSettles, Spec

\* A store's one forebear is what it inherits from in the state a step leads to, too.
ForebearsFound ==
    listed \subseteq Listing =>
        \A s \in Store : Forebears(s) = {s} => Snapshot(s) = {s}

LEMMA ForebearIsFound == ForebearsFound'
<1>1. ForebearsFound
  BY SnapshotIsForebear DEF ForebearsFound
<1> QED BY <1>1, PTL

LEMMA RefreshAgain ==
    ASSUME TypeOK, NEW page \in SUBSET Listing, Refresh(page), NEW l \in page,
           (Forebears(l[1]))' = {l[1]}
    PROVE  (Merged(l))' = price'[l]
<1>1. TypeOK' /\ listed' = page /\ l \in Listing /\ price'[l] = Merged(l)
  BY RefreshType DEF Refresh
<1>2. l[1] \in Store /\ l = <<l[1], l[2], l[3]>>
  BY <1>1 DEF Listing
<1>3. (Snapshot(l[1]))' = {l[1]}
  BY <1>1, <1>2, ForebearIsFound DEF ForebearsFound, TypeOK
<1>4. (Merged(l))' = IF {price'[l]} \ {NoPrice} = {} THEN Known[l]
                     ELSE CHOOSE p \in {price'[l]} \ {NoPrice} : TRUE
  BY <1>2, <1>3 DEF Merged
<1>5. CASE price'[l] # NoPrice
  BY <1>4, <1>5
<1>6. CASE price'[l] = NoPrice
  <2> DEFINE before == {price[t, l[2], l[3]] : t \in Snapshot(l[1])} \ {NoPrice}
  <2>1. Merged(l) = IF before = {} THEN Known[l] ELSE CHOOSE p \in before : TRUE
    BY DEF Merged
  <2>2. NoPrice \notin before
    OBVIOUS
  <2> HIDE DEF before
  <2>3. Known[l] = NoPrice
    BY <1>1, <1>6, <2>1, <2>2
  <2> QED BY <1>4, <1>6, <2>3
<1> QED BY <1>5, <1>6

(***************************************************************************)
(* A refresh that is repeated (the bootstrap's, after a /api/sync whose    *)
(* answer was lost) inherits from itself: what the first one took from a   *)
(* sibling or from KNOWN_PRICING the second one keeps, for every store     *)
(* that the page has no twin of.                                           *)
(***************************************************************************)
THEOREM RefreshesSettle == Spec => RefreshSettles
<1>1. TypeOK /\ [Next]_vars =>
        [\A page \in SUBSET Listing : Refresh(page)
            => \A l \in page : (Forebears(l[1]))' = {l[1]}
                    => (Merged(l))' = price'[l]]_vars
  BY RefreshAgain
<1> QED BY TypeCorrect, <1>1, PTL DEF RefreshSettles, Spec
=============================================================================
