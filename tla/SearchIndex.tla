---------------------------- MODULE SearchIndex ----------------------------
(***************************************************************************)
(* The product search of the Medusa process (modules/productSearch): an    *)
(* index in memory, built by the first search that needs it, shared by the *)
(* searches that come meanwhile, and dropped when a product event arrives  *)
(* (subscribers/product-search.ts).                                        *)
(*                                                                         *)
(* Node runs one continuation at a time; the steps below are the stretches *)
(* between two awaits, and searches and product events interleave there.   *)
(* A rebuild is named by the search that started it.  Its copy has the     *)
(* version of the oldest page it read.                                     *)
(***************************************************************************)
EXTENDS ProductStore

CONSTANT Search  \* searches that may be under way at the same time

ASSUME SearchAssumption == None \notin Search

VARIABLES
    db,             \* state.db: the version indexed, or None
    documents,      \* state.documents: the version of the list, None if empty
    fresh,          \* was the index built less than SEARCH_INDEX_TTL_MS ago
    rebuildPromise, \* state.rebuildPromise: the rebuild it belongs to
    search,         \* search[s]: where search s is and what it holds
    searchEvents,   \* product events handled
    searchFloor,    \* history: the version at the last of them
    overtaken,      \* history: an event met searches, and there have been some ever since
    calm            \* history: that event met no rebuild under way

indexVars  == <<db, documents, fresh, rebuildPromise>>
markVars   == <<searchEvents, searchFloor, overtaken, calm>>
searchVars == <<indexVars, search, markVars>>

Copy == Version \cup {None}

Building == {"fetch", "install"}
SearchPoint == Building \cup {"idle", "wait", "woken", "settled", "query", "end"}

\* "of": the rebuild it waits for; "has": the version it builds, queries or answers from.
SearchRecord == [pc : SearchPoint, of : Search \cup {None}, has : Copy, ok : BOOLEAN]
NoSearch == [pc |-> "idle", of |-> None, has |-> None, ok |-> TRUE]

InFlight == {s \in Search : search[s].pc \in Building}

SearchTypeOK ==
    /\ products \in Version
    /\ db \in Copy
    /\ documents \in Copy
    /\ fresh \in BOOLEAN
    /\ rebuildPromise \in Search \cup {None}
    /\ search \in [Search -> SearchRecord]
    /\ searchEvents \in Version
    /\ searchFloor \in Version
    /\ overtaken \in BOOLEAN
    /\ calm \in BOOLEAN

EmptyIndex == db = None /\ documents = None /\ fresh = FALSE /\ rebuildPromise = None

SearchInit ==
    /\ products = 0
    /\ EmptyIndex
    /\ search = [s \in Search |-> NoSearch]
    /\ searchEvents = 0
    /\ searchFloor = 0
    /\ overtaken = FALSE
    /\ calm = TRUE

-----------------------------------------------------------------------------
(***************************************************************************)
(* ensureIndex                                                             *)
(***************************************************************************)
\* The searches that wait for rebuild s go on, or throw, with it.
Settle(s, mine, theirs) ==
    search' = [p \in Search |->
                 IF p = s THEN mine
                 ELSE IF search[p].pc = "wait" /\ search[p].of = s
                 THEN [search[p] EXCEPT !.pc = theirs, !.of = None]
                 ELSE search[p]]

Query(s, version) == search' = [search EXCEPT ![s] = [NoSearch EXCEPT !.pc = "query", !.has = version]]

\* Mutant: the rebuild is not announced.
StartRebuildSilently(s) ==
    /\ search' = [search EXCEPT ![s] = [NoSearch EXCEPT !.pc = "fetch"]]
    /\ UNCHANGED rebuildPromise

StartRebuild(s) ==
    /\ rebuildPromise' = s
    /\ search' = [search EXCEPT ![s] = [NoSearch EXCEPT !.pc = "fetch"]]

\* await state.rebuildPromise: a promise settled before lets it go on, or throw, at once.
Await(r) ==
    IF search[r].pc # "settled" THEN [NoSearch EXCEPT !.pc = "wait", !.of = r]
    ELSE IF search[r].ok THEN [NoSearch EXCEPT !.pc = "woken"] ELSE NoSearch

BeginSearch(s) ==
    /\ search[s].pc = "idle"
    /\ \/ /\ db # None /\ fresh
          /\ Query(s, db)
          /\ UNCHANGED rebuildPromise
       \/ /\ db = None \/ ~fresh
          /\ rebuildPromise # None
          /\ search' = [search EXCEPT ![s] = Await(rebuildPromise)]
          /\ UNCHANGED rebuildPromise
       \/ /\ db = None \/ ~fresh
          /\ rebuildPromise = None
          /\ StartRebuild(s)
    /\ UNCHANGED <<products, db, documents, fresh, searchEvents, searchFloor, calm>>

\* The rebuild waited for has ended well: its index is used whatever its age,
\* and one that is gone again is rebuilt without a look at rebuildPromise.
ResumeSearch(s) ==
    /\ search[s].pc = "woken"
    /\ \/ db # None /\ Query(s, db) /\ UNCHANGED rebuildPromise
       \/ db = None /\ StartRebuild(s)
    /\ UNCHANGED <<products, db, documents, fresh, searchEvents, searchFloor, calm>>

\* fetchAllIndexedProducts reads its first page.
Fetch(s) ==
    /\ search[s].pc = "fetch"
    /\ search' = [search EXCEPT ![s].pc = "install", ![s].has = products]
    /\ UNCHANGED <<products, indexVars, searchEvents, searchFloor, calm>>

Install(s) ==
    /\ search[s].pc = "install"
    /\ db' = search[s].has
    /\ documents' = search[s].has
    /\ fresh' = TRUE
    /\ Settle(s, [NoSearch EXCEPT !.pc = "settled"], "woken")
    /\ UNCHANGED <<products, rebuildPromise, searchEvents, searchFloor, calm>>

\* The query or the insertion throws; the searches that wait end with the error.
RebuildFails(s) ==
    /\ search[s].pc \in Building
    /\ Settle(s, [NoSearch EXCEPT !.pc = "settled", !.ok = FALSE], "idle")
    /\ UNCHANGED <<products, indexVars, searchEvents, searchFloor, calm>>

\* Mutant: the promise is cleared on success only.
FinallyIfOk(s) ==
    /\ search[s].pc = "settled"
    /\ rebuildPromise' = IF search[s].ok THEN None ELSE rebuildPromise
    /\ IF search[s].ok /\ db # None
       THEN Query(s, db)
       ELSE search' = [search EXCEPT ![s] = NoSearch]
    /\ UNCHANGED <<products, db, documents, fresh, searchEvents, searchFloor, calm>>

\* finally { state.rebuildPromise = null }: whosever promise it is by now.
Finally(s) ==
    /\ search[s].pc = "settled"
    /\ rebuildPromise' = None
    /\ IF search[s].ok /\ db # None
       THEN Query(s, db)
       ELSE search' = [search EXCEPT ![s] = NoSearch]
    /\ UNCHANGED <<products, db, documents, fresh, searchEvents, searchFloor, calm>>

-----------------------------------------------------------------------------
(***************************************************************************)
(* searchProducts after ensureIndex, events, time                          *)
(***************************************************************************)
\* The index finds hits, or the substring search runs over state.documents,
\* as they are after the await; hydrating the hits ends the search.
QueryAnswers(s) ==
    /\ search[s].pc = "query"
    /\ \E found \in {search[s].has, documents} :
          search' = [search EXCEPT ![s].pc = "end", ![s].has = found]
    /\ UNCHANGED <<products, indexVars, searchEvents, searchFloor, calm>>

EndSearch(s) ==
    /\ search[s].pc = "end"
    /\ search' = [search EXCEPT ![s] = NoSearch]
    /\ UNCHANGED <<products, indexVars, searchEvents, searchFloor, calm>>

\* Mutant: the event makes the index stale and keeps it.
InvalidateLazily ==
    /\ searchEvents < products
    /\ searchEvents' = searchEvents + 1
    /\ fresh' = FALSE
    /\ searchFloor' = products
    /\ calm' = (InFlight = {})
    /\ UNCHANGED <<products, db, documents, rebuildPromise, search>>

\* A product event reaches the subscriber.
InvalidateIndex ==
    /\ searchEvents < products
    /\ searchEvents' = searchEvents + 1
    /\ db' = None /\ documents' = None /\ fresh' = FALSE /\ rebuildPromise' = None
    /\ searchFloor' = products
    /\ calm' = (InFlight = {})
    /\ UNCHANGED <<products, search>>

IndexAges == fresh /\ fresh' = FALSE /\ UNCHANGED <<products, db, documents, rebuildPromise, search, searchEvents, searchFloor, calm>>

SearchStep(s) ==
    \/ BeginSearch(s) \/ ResumeSearch(s) \/ Fetch(s) \/ Install(s) \/ RebuildFails(s)
    \/ Finally(s) \/ QueryAnswers(s) \/ EndSearch(s)

\* overtaken after a step in which an event did, or did not, arrive.
Remember(event) == overtaken' = ((overtaken \/ event) /\ \E s \in Search : search'[s].pc # "idle")

\* The process restarts, for whatever reason: all of it is in memory.
SearchRestart ==
    /\ db' = None /\ documents' = None /\ fresh' = FALSE /\ rebuildPromise' = None
    /\ search' = [s \in Search |-> NoSearch]
    /\ overtaken' = FALSE
    /\ calm' = TRUE
    /\ UNCHANGED <<products, searchEvents, searchFloor>>

SearchNext ==
    \/ \E s \in Search : SearchStep(s) /\ Remember(FALSE)
    \/ InvalidateIndex /\ Remember(TRUE)
    \/ IndexAges /\ UNCHANGED overtaken
    \/ SearchRestart
    \/ WriteProduct /\ UNCHANGED searchVars

SearchSpec == SearchInit /\ [][SearchNext]_<<products, searchVars>>

-----------------------------------------------------------------------------
(***************************************************************************)
(* What searches may rely on                                               *)
(***************************************************************************)
\* Coalescing: two rebuilds read the whole catalogue at a time only when a
\* product event came between searches that have not all ended.
RebuildsCoalesced == \A s, p \in InFlight : s # p => overtaken

\* The index lags behind the last product event handled only when that event
\* met a rebuild that had begun before it.
StaleOnlyIfOverlapped == db # None /\ db < searchFloor => ~calm

\* A promise in state.rebuildPromise is of a rebuild that will settle it.
PromiseLive == rebuildPromise # None => search[rebuildPromise].pc \in Building \cup {"settled"}
=============================================================================
