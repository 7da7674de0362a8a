--------------------------- MODULE CatalogScroll ---------------------------
(***************************************************************************)
(* The product list of a shop page in a customer's browser: a page         *)
(* rendered by the server, and the pages that useShopCatalogInfiniteScroll *)
(* appends while the customer scrolls.                                     *)
(*                                                                         *)
(* A link of the pagination bar, another sort or another filter has the    *)
(* server render a new list; the component stays mounted, so a page that   *)
(* was being loaded for the old list may still arrive.  Every page is read *)
(* at its own time from caches that may serve an earlier catalogue         *)
(* (CatalogCache).  The server falls back on a plain listing of Medusa     *)
(* when the catalogue's endpoint fails.                                    *)
(*                                                                         *)
(* The next page is fetched ahead (preloadRef) and used when its time      *)
(* comes; since a page may show an earlier catalogue anyway, it is read    *)
(* here when it is used.  A render and its effects are one step.           *)
(***************************************************************************)
EXTENDS ShopListing

CONSTANTS
    Catalogues,     \* the catalogues there may be
    Queries,        \* what the address of a list may ask for (requests)
    MaxLists,       \* bounds the lists rendered by the server
    MaxChanges      \* bounds the changes of the catalogue

ASSUME CataloguesAssumption == Catalogues \subseteq Catalogue
ASSUME QueriesAssumption == Queries \subseteq Request
ASSUME BoundsAssumption == MaxLists \in Nat /\ MaxChanges \in Nat

VARIABLES
    catalogues,     \* the catalogues so far, the current one last
    props,          \* of the rendered list: its query, the lowest price shown,
                    \* its page and the number of pages
    visible,        \* the products shown
    loadedPage,     \* the last page loaded
    armed,          \* the observer will report the sentinel below the list
    load,           \* the page being loaded (loadingRef), None if none is
    \* History of the list on the screen: the catalogues it was read from, what
    \* has gone wrong with it; and the number of lists.
    readFrom, upset, lists

vars == <<catalogues, props, visible, loadedPage, armed, load, readFrom, upset, lists>>
historyVars == <<readFrom, upset, lists>>

Mishap == {"overtaken", "degraded", "nothing"}
Anything == [sort |-> "latest", size |-> None, min |-> None, max |-> None, sale |-> FALSE]

Props == [query : Queries \cup {[Anything EXCEPT !.sort = s] : s \in Sort},
          floor : Nat, page : Nat \ {0}, total : Nat \ {0}]
Load == [page : Nat \ {0, 1}, request : {r \in Request : r.max = None},
         seen : SUBSET Product, stale : BOOLEAN]

TypeOK ==
    /\ catalogues \in Seq(Catalogues) /\ catalogues # <<>>
    /\ props \in Props
    /\ visible \in Seq(Product)
    /\ loadedPage \in Nat \ {0}
    /\ armed \in BOOLEAN
    /\ load \in Load \cup {None}
    /\ readFrom \subseteq 1..Len(catalogues)
    /\ upset \subseteq Mishap
    /\ lists \in 0..MaxLists

Init ==
    /\ \E c \in Catalogues : catalogues = <<c>>
    /\ props = [query |-> Anything, floor |-> 0, page |-> 1, total |-> 1]
    /\ visible = <<>>
    /\ loadedPage = 1
    /\ armed = FALSE
    /\ load = None
    /\ readFrom = {}
    /\ upset = {}
    /\ lists = 0

-----------------------------------------------------------------------------
(* The server's page. *)

\* A page of Medusa's own list: published, in the order of the database, without
\* filters, sort or stock (loadCatalogPageFallback).
Plain(c) == InOrder(Published(c), Rising(Published(c)))

\* Mutant: the list starts over, the number of the page does not.
ShowKeepingPage(query, floor, page, total, items) ==
    /\ props' = [query |-> query, floor |-> floor, page |-> page, total |-> total]
    /\ visible' = items
    /\ loadedPage' = loadedPage
    /\ armed' = TRUE
    /\ load' = IF load = None THEN None ELSE [load EXCEPT !.stale = TRUE]
    /\ lists' = lists + 1

\* New props: the list starts over.  A page under way is not called off, and
\* nothing tells its answer from one for the new list.
Show(query, floor, page, total, items) ==
    /\ props' = [query |-> query, floor |-> floor, page |-> page, total |-> total]
    /\ visible' = items
    /\ loadedPage' = page
    /\ armed' = TRUE
    /\ load' = IF load = None THEN None ELSE [load EXCEPT !.stale = TRUE]
    /\ lists' = lists + 1

\* A filter or a sort leads to page 1, a link of the bar to a page of the list.
\* A page beyond the last one is not found, and there is no list.
Linked(query, page) ==
    /\ lists < MaxLists
    /\ page = 1 \/ (query = props.query /\ page \in 1..props.total)

\* The listing and the ends of the price slider come from two requests; beyond
\* page 1 the list does without the second if it fails.
Arrive(query, page) ==
    /\ Linked(query, page)
    /\ \E i \in DOMAIN catalogues :
          LET c == catalogues[i]
              ids == Listing(c, query)
          IN  /\ page <= PageCount(ids)
              /\ \E j \in DOMAIN catalogues :
                 \E least \in {LowestPrice(catalogues[j], Scope(catalogues[j], query))}
                               \cup (IF page > 1 THEN {0} ELSE {}) :
                    /\ Show(query, Or(query.min, least), page, PageCount(ids),
                            Pages(c, ids, page, page))
                    /\ readFrom' = {i, j}
    /\ upset' = {}
    /\ UNCHANGED catalogues

\* One of the two requests failed: the plain list, and its own filters.
ArriveDegraded(query, page) ==
    /\ Linked(query, page)
    /\ \E i \in DOMAIN catalogues :
          LET c == catalogues[i]
              items == Pages(c, Plain(c), page, page)
          IN  /\ page <= PageCount(Plain(c))
              /\ Show([Anything EXCEPT !.sort = query.sort], LowestPrice(c, ToSet(items)),
                      page, PageCount(Plain(c)), items)
              /\ readFrom' = {i}
    /\ upset' = {"degraded"}
    /\ UNCHANGED catalogues

-----------------------------------------------------------------------------
(* The pages that follow. *)

\* The address of a further page is built without the ends of the price slider:
\* the lowest price is always in it, the highest never (buildShopQueryString).
ScrollRequest(query, floor) ==
    [query EXCEPT !.min = IF floor > 0 THEN floor ELSE None, !.max = None]

\* Mutant: the page on the screen is loaded once more.
SentinelSeenSamePage ==
    /\ armed
    /\ loadedPage < props.total
    /\ armed' = FALSE
    /\ load' = IF load # None THEN load ELSE
                  [page |-> loadedPage,
                   request |-> ScrollRequest(props.query, props.floor),
                   seen |-> IF props.page > 1 THEN ToSet(visible) ELSE {},
                   stale |-> FALSE]
    /\ UNCHANGED <<catalogues, props, visible, loadedPage, historyVars>>

\* The observer calls back; appendPage returns at once while a page is loading.
\* On a list that began beyond page 1 it remembers what is shown.
SentinelSeen ==
    /\ armed
    /\ loadedPage < props.total
    /\ armed' = FALSE
    /\ load' = IF load # None THEN load ELSE
                  [page |-> loadedPage + 1,
                   request |-> ScrollRequest(props.query, props.floor),
                   seen |-> IF props.page > 1 THEN ToSet(visible) ELSE {},
                   stale |-> FALSE]
    /\ UNCHANGED <<catalogues, props, visible, loadedPage, historyVars>>

\* The customer scrolls away and back: the observer reports a crossing again.
ScrollBack ==
    /\ ~armed
    /\ loadedPage < props.total
    /\ armed' = TRUE
    /\ UNCHANGED <<catalogues, props, visible, loadedPage, load, historyVars>>

\* Mutant: the sentinel is not observed anew.
AppendPageDisarmed(items) ==
    /\ visible' = visible \o Keep(items, Product \ (load.seen \cup ToSet(visible)))
    /\ loadedPage' = load.page
    /\ armed' = armed
    /\ load' = None

\* What is new in a page follows what is there, whatever list that is; the
\* effects that depend on it observe the sentinel anew.
AppendPage(items) ==
    /\ visible' = visible \o Keep(items, Product \ (load.seen \cup ToSet(visible)))
    /\ loadedPage' = load.page
    /\ armed' = TRUE
    /\ load' = None

\* A page arrives, read from the catalogue or, degraded, from the plain list.
LoadArrives ==
    /\ load # None
    /\ \E i \in DOMAIN catalogues, degraded \in BOOLEAN :
          LET c == catalogues[i]
              ids == IF degraded THEN Plain(c) ELSE Listing(c, load.request)
              items == Pages(c, ids, load.page, load.page)
          IN  /\ items # <<>>
              /\ AppendPage(items)
              /\ readFrom' = readFrom \cup {i}
              /\ upset' = upset \cup (IF load.stale THEN {"overtaken"} ELSE {})
                                \cup (IF degraded THEN {"degraded"} ELSE {})
    /\ UNCHANGED <<catalogues, props, lists>>

\* The call fails or its page is empty: the list stays as it is, and so does
\* the observer.
LoadBringsNothing ==
    /\ load # None
    /\ load' = None
    /\ upset' = upset \cup {"nothing"}
    /\ UNCHANGED <<catalogues, props, visible, loadedPage, armed, readFrom, lists>>

\* Products are edited, sold, published; the bestseller job runs.
CatalogueChanges ==
    /\ Len(catalogues) <= MaxChanges
    /\ \E c \in Catalogues \ {Last(catalogues)} : catalogues' = Append(catalogues, c)
    /\ UNCHANGED <<props, visible, loadedPage, armed, load, historyVars>>

-----------------------------------------------------------------------------
Navigation ==
    \E query \in Queries, page \in 1..(Products + 1) :
        Arrive(query, page) \/ ArriveDegraded(query, page)

Next == Navigation \/ SentinelSeen \/ ScrollBack \/ LoadArrives \/ LoadBringsNothing \/ CatalogueChanges

Spec == Init /\ [][Next]_vars

\* A customer at the end of the list stays there until it goes on, and a server
\* action settles one way or the other: a page being loaded ends to be so.
FairSpec == Spec /\ WF_vars(SentinelSeen) /\ WF_load(load # None /\ load' = None)

-----------------------------------------------------------------------------
OneCatalogue == Cardinality({catalogues[i] : i \in readFrom}) = 1
Source == catalogues[CHOOSE i \in readFrom : TRUE]

\* A query that asks for nothing: a lowest price of zero, which counts as a filter,
\* is left out of the addresses of the further pages.
AsksNothing(query) == ~Filtered(ScrollRequest(query, Or(query.min, 0)))

\* The first page and the later ones come along different ways that disagree:
\* by the stored ranking, and by price when there are sales.
WaysDisagree ==
    /\ AsksNothing(props.query)
    /\ \/ props.query.sort = "bestsellers" /\ Source.ranked # <<>>
       \/ /\ props.query.sort \in {"price-asc", "price-desc"}
          /\ \E p \in Published(Source) : OnSale(Source, p)

\* The pages join up: what is shown is the listing from the page the customer
\* landed on to the page loaded, none missing.  Not after a page for another
\* list, a plain page or a change; nor for a highest price, which later pages
\* forget, nor where the two ways of listing disagree.
PagesJoinUp ==
    upset \subseteq {"nothing"} /\ OneCatalogue /\ props.query.max = None /\ ~WaysDisagree =>
        visible = Pages(Source, Listing(Source, props.query), props.page, loadedPage)

\* "DB pagination happens before stock demotion, which can reintroduce in-stock
\* products after out-of-stock ones when pages are combined": the two ways in
\* use do not, but for the stored ranking and a highest price.
StockFirst ==
    /\ upset \subseteq {"nothing"} /\ OneCatalogue /\ props.query.max = None
    /\ props.query.sort = "bestsellers" => Source.ranked = <<>> \/ ~AsksNothing(props.query)
    => \A i, j \in DOMAIN visible :
          i < j /\ Source.stock[visible[j]] => Source.stock[visible[i]]

\* A customer who stays at the end of the list is shown all of it, unless a page
\* came to nothing: the observer is armed again by every page that arrives, even
\* if its call back met a page of the list before.
EndReached == []<>(loadedPage >= props.total \/ "nothing" \in upset)
=============================================================================
