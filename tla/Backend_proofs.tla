--------------------------- MODULE Backend_proofs ---------------------------
(***************************************************************************)
(* Proofs about the Medusa process: the search index, for any number of    *)
(* searches and writes, the reports, for any number of handlers and        *)
(* events, and their composition with the catalogue cache.                 *)
(*                                                                         *)
(* Search.  While no event has come between the searches under way,        *)
(* whoever builds is the one in rebuildPromise: so there is one, and a     *)
(* search that wakes finds the index its rebuild installed.  While the     *)
(* last event met no rebuild, every rebuild about to install read after it.*)
(*                                                                         *)
(* Reports.  The updates of a counter are shared out among the rows: no    *)
(* row shows, and no handler remembers, more than its row's share.         *)
(*                                                                         *)
(* Composition.  Whatever the load and however their steps interleave,     *)
(* each component takes only steps of its own specification or rests, so   *)
(* what is proved of a component holds in the process.                     *)
(***************************************************************************)
EXTENDS Backend, CatalogCache_proofs, FiniteSetTheorems, SequenceTheorems, TLAPS

-----------------------------------------------------------------------------
(* The search index. *)

\* The rebuild in rebuildPromise is alive; a search waits for a rebuild alive.
PromiseInv == PromiseLive

\* Nothing happened: the only rebuild is the announced one, and what it
\* installed is there.
UndisturbedInv ==
    ~overtaken => \A s \in Search :
        /\ search[s].pc \in Building \cup {"settled"} => rebuildPromise = s
        /\ search[s].pc = "woken" => db # None
        /\ search[s].pc = "settled" /\ search[s].ok => db # None

\* The last event met no rebuild: what there is, or will be, is as new as it.
CalmInv ==
    calm => /\ db # None => db >= searchFloor
            /\ \A s \in Search : search[s].pc = "install" => search[s].has >= searchFloor

\* A rebuild about to install holds a version; the floor is a past version.
DataInv ==
    /\ searchFloor <= products
    /\ \A s \in Search : search[s].pc = "install" => search[s].has \in Version

SearchInv == SearchTypeOK /\ PromiseInv /\ UndisturbedInv /\ CalmInv /\ DataInv

-----------------------------------------------------------------------------
LEMMA NoSearchType == NoSearch \in SearchRecord
  BY DEF NoSearch, SearchRecord, SearchPoint, Building, Copy

LEMMA TypeInit == SearchInit => SearchTypeOK
  <1>1. 0 \in Version BY ProductsAssumption DEF Version
  <1>2. QED BY <1>1, NoSearchType DEF SearchInit, SearchTypeOK, EmptyIndex, Copy

\* A step of a search keeps the types.
LEMMA TypeSearch ==
    ASSUME SearchTypeOK, NEW s \in Search, SearchStep(s), Remember(FALSE)
    PROVE  SearchTypeOK'
  <1>p. /\ search \in [Search -> SearchRecord]
        /\ search[s] \in SearchRecord
        /\ overtaken' \in BOOLEAN
        /\ Version \subseteq Copy /\ None \in Copy
    BY DEF SearchTypeOK, Remember, Copy
  <1>1. ASSUME search' \in [Search -> SearchRecord], rebuildPromise' \in Search \cup {None},
               UNCHANGED <<products, db, documents, fresh, searchEvents, searchFloor, calm>>
        PROVE  SearchTypeOK'
    BY <1>1, <1>p DEF SearchTypeOK
  <1>2. ASSUME NEW v \in Copy, Query(s, v)
        PROVE  search' \in [Search -> SearchRecord]
    BY <1>2, <1>p DEF Query, NoSearch, SearchRecord, SearchPoint, Building
  <1>3. ASSUME StartRebuild(s)
        PROVE  search' \in [Search -> SearchRecord] /\ rebuildPromise' \in Search \cup {None}
    BY <1>3, <1>p DEF StartRebuild, NoSearch, SearchRecord, SearchPoint, Building
  <1>4. ASSUME NEW mine \in SearchRecord, NEW theirs \in SearchPoint, Settle(s, mine, theirs)
        PROVE  search' \in [Search -> SearchRecord]
    BY <1>4, <1>p DEF Settle, SearchRecord
  <1>5. CASE BeginSearch(s)
    <2>1. ASSUME rebuildPromise # None
          PROVE  Await(rebuildPromise) \in SearchRecord
      BY <2>1, <1>p DEF Await, SearchTypeOK, NoSearch, SearchRecord, SearchPoint, Building
    <2>2. search' \in [Search -> SearchRecord] /\ rebuildPromise' \in Search \cup {None}
      BY <1>5, <1>2, <1>3, <2>1, <1>p DEF BeginSearch, SearchTypeOK
    <2>3. QED BY <2>2, <1>1, <1>5 DEF BeginSearch
  <1>6. CASE ResumeSearch(s)
    <2>1. search' \in [Search -> SearchRecord] /\ rebuildPromise' \in Search \cup {None}
      BY <1>6, <1>2, <1>3 DEF ResumeSearch, SearchTypeOK
    <2>2. QED BY <2>1, <1>1, <1>6 DEF ResumeSearch
  <1>7. CASE Fetch(s)
    BY <1>7, <1>p DEF Fetch, SearchTypeOK, SearchRecord, SearchPoint, Building, indexVars
  <1>8. CASE Install(s)
    <2>1. [NoSearch EXCEPT !.pc = "settled"] \in SearchRecord
      BY <1>p DEF NoSearch, SearchRecord, SearchPoint
    <2>2. search' \in [Search -> SearchRecord]
      BY <1>8, <2>1, <1>4 DEF Install, SearchPoint
    <2>3. search[s].has \in Copy BY <1>p DEF SearchRecord
    <2>4. QED BY <1>8, <2>2, <2>3, <1>p DEF Install, SearchTypeOK
  <1>9. CASE RebuildFails(s)
    <2>1. [NoSearch EXCEPT !.pc = "settled", !.ok = FALSE] \in SearchRecord
      BY <1>p DEF NoSearch, SearchRecord, SearchPoint
    <2>2. search' \in [Search -> SearchRecord]
      BY <1>9, <2>1, <1>4 DEF RebuildFails, SearchPoint
    <2>3. QED BY <1>9, <2>2, <1>p DEF RebuildFails, SearchTypeOK, indexVars
  <1>10. CASE Finally(s)
    <2>1. search' \in [Search -> SearchRecord] /\ rebuildPromise' \in Search \cup {None}
      BY <1>10, <1>2, <1>p, NoSearchType DEF Finally, SearchTypeOK
    <2>2. QED BY <2>1, <1>1, <1>10 DEF Finally
  <1>11. CASE QueryAnswers(s)
    <2>1. search[s].has \in Copy /\ documents \in Copy BY <1>p DEF SearchTypeOK, SearchRecord
    <2>2. search' \in [Search -> SearchRecord]
      <3>1. PICK found \in {search[s].has, documents} :
                   search' = [search EXCEPT ![s].pc = "end", ![s].has = found]
        BY <1>11 DEF QueryAnswers
      <3>2. found \in Copy BY <2>1
      <3>3. QED BY <3>1, <3>2, <1>p DEF SearchRecord, SearchPoint
    <2>3. QED BY <1>11, <2>2, <1>p DEF QueryAnswers, SearchTypeOK, indexVars
  <1>12. CASE EndSearch(s)
    BY <1>12, <1>p, NoSearchType DEF EndSearch, SearchTypeOK, indexVars
  <1>13. QED BY <1>5, <1>6, <1>7, <1>8, <1>9, <1>10, <1>11, <1>12 DEF SearchStep

LEMMA TypeNext == SearchTypeOK /\ [SearchNext]_<<products, searchVars>> => SearchTypeOK'
  <1> SUFFICES ASSUME SearchTypeOK, [SearchNext]_<<products, searchVars>> PROVE SearchTypeOK'
    OBVIOUS
  <1> USE DEF indexVars, markVars, searchVars
  <1>1. CASE \E s \in Search : SearchStep(s) /\ Remember(FALSE)
    BY <1>1, TypeSearch
  <1>2. CASE InvalidateIndex /\ Remember(TRUE)
    <2>1. calm' \in BOOLEAN /\ overtaken' \in BOOLEAN BY <1>2 DEF InvalidateIndex, Remember
    <2>2. searchEvents' \in Version
      BY <1>2, ProductsAssumption DEF InvalidateIndex, SearchTypeOK, Version
    <2>3. QED BY <1>2, <2>1, <2>2 DEF InvalidateIndex, SearchTypeOK, Copy
  <1>3. CASE IndexAges /\ UNCHANGED overtaken
    BY <1>3 DEF IndexAges, SearchTypeOK
  <1>4. CASE SearchRestart
    BY <1>4, NoSearchType DEF SearchRestart, SearchTypeOK, Copy
  <1>5. CASE WriteProduct /\ UNCHANGED searchVars
    BY <1>5, ProductsAssumption DEF WriteProduct, SearchTypeOK, Version
  <1>6. CASE UNCHANGED <<products, searchVars>>
    BY <1>6 DEF SearchTypeOK
  <1>7. QED BY <1>1, <1>2, <1>3, <1>4, <1>5, <1>6 DEF SearchNext

-----------------------------------------------------------------------------
(***************************************************************************)
(* The invariant.                                                          *)
(***************************************************************************)
\* What the three ways to go on leave in the records of the searches.
LEMMA Moves ==
    ASSUME SearchTypeOK, NEW s \in Search
    PROVE  /\ \A v : Query(s, v) =>
                search'[s].pc = "query" /\ \A p \in Search \ {s} : search'[p] = search[p]
           /\ StartRebuild(s) =>
                /\ rebuildPromise' = s /\ search'[s].pc = "fetch"
                /\ \A p \in Search \ {s} : search'[p] = search[p]
           /\ \A r \in Search :
                /\ Await(r).pc \in {"wait", "woken", "idle"}
                /\ Await(r).pc = "woken" => search[r].pc = "settled" /\ search[r].ok
  BY DEF SearchTypeOK, Query, StartRebuild, Await, NoSearch

LEMMA PromiseSearch ==
    ASSUME SearchTypeOK, PromiseInv, NEW s \in Search, SearchStep(s)
    PROVE  PromiseInv'
  <1> USE DEF PromiseInv, PromiseLive, NoSearch, Building
  <1>p. /\ search \in [Search -> SearchRecord]
        /\ rebuildPromise \in Search \cup {None}
    BY DEF SearchTypeOK
  <1>1. CASE BeginSearch(s)
    BY <1>1, <1>p, SearchAssumption DEF BeginSearch, Query, StartRebuild
  <1>2. CASE ResumeSearch(s)
    BY <1>2, <1>p, SearchAssumption DEF ResumeSearch, Query, StartRebuild
  <1>3. CASE Fetch(s)
    BY <1>3, <1>p DEF Fetch, indexVars
  <1>4. CASE Install(s)
    BY <1>4, <1>p DEF Install, Settle
  <1>5. CASE RebuildFails(s)
    BY <1>5, <1>p DEF RebuildFails, Settle, indexVars
  <1>6. CASE Finally(s)
    BY <1>6 DEF Finally
  <1>7. CASE QueryAnswers(s)
    BY <1>7, <1>p DEF QueryAnswers, indexVars
  <1>8. CASE EndSearch(s)
    BY <1>8, <1>p DEF EndSearch, indexVars
  <1>9. QED BY <1>1, <1>2, <1>3, <1>4, <1>5, <1>6, <1>7, <1>8 DEF SearchStep

\* While nothing overtakes the searches, a step of one of them leaves the
\* announced rebuild the only one.
LEMMA UndisturbedSearch ==
    ASSUME SearchTypeOK, PromiseInv, UndisturbedInv, DataInv, NEW s \in Search, SearchStep(s),
           Remember(FALSE)
    PROVE  UndisturbedInv'
  <1> USE DEF PromiseInv, PromiseLive, UndisturbedInv, NoSearch, Building, SearchRecord
  <1> SUFFICES ASSUME ~overtaken', NEW q \in Search
               PROVE  /\ search'[q].pc \in Building \cup {"settled"} => rebuildPromise' = q
                      /\ search'[q].pc = "woken" => db' # None
                      /\ search'[q].pc = "settled" /\ search'[q].ok => db' # None
    OBVIOUS
  <1>p. /\ search \in [Search -> SearchRecord]
        /\ rebuildPromise \in Search \cup {None}
    BY DEF SearchTypeOK
  <1>i. ASSUME \A r \in Search : search'[r].pc = "idle"
        PROVE  search'[q].pc = "idle"
    BY <1>i
  <1>o. CASE overtaken
    \* Then all searches have just ended.
    <2>1. search'[q].pc = "idle" BY <1>o DEF Remember
    <2>2. QED BY <2>1
  <1>n. CASE ~overtaken
    <2>1. CASE BeginSearch(s)
      <3>1. CASE Query(s, db) /\ UNCHANGED rebuildPromise
        BY <3>1, <2>1, <1>n, Moves DEF BeginSearch
      <3>2. CASE /\ rebuildPromise # None /\ UNCHANGED rebuildPromise
                 /\ search' = [search EXCEPT ![s] = Await(rebuildPromise)]
        BY <3>2, <2>1, <1>n, <1>p, Moves DEF BeginSearch
      <3>3. CASE StartRebuild(s) /\ rebuildPromise = None
        BY <3>3, <2>1, <1>n, <1>p, Moves, SearchAssumption DEF BeginSearch
      <3>4. QED BY <2>1, <3>1, <3>2, <3>3 DEF BeginSearch
    <2>2. CASE ResumeSearch(s)
      BY <2>2, <1>n, Moves DEF ResumeSearch
    <2>3. CASE Fetch(s)
      BY <2>3, <1>n, <1>p DEF Fetch, indexVars
    <2>4. CASE Install(s)
      <3>1. db' # None
        BY <2>4, NoneAssumption DEF Install, DataInv, Version
      <3>2. QED BY <2>4, <3>1, <1>n, <1>p DEF Install, Settle
    <2>5. CASE RebuildFails(s)
      BY <2>5, <1>n, <1>p DEF RebuildFails, Settle, indexVars
    <2>6. CASE Finally(s)
      BY <2>6, <1>n, <1>p, Moves DEF Finally
    <2>7. CASE QueryAnswers(s)
      BY <2>7, <1>n, <1>p DEF QueryAnswers, indexVars
    <2>8. CASE EndSearch(s)
      BY <2>8, <1>n, <1>p DEF EndSearch, indexVars
    <2>9. QED BY <2>1, <2>2, <2>3, <2>4, <2>5, <2>6, <2>7, <2>8 DEF SearchStep
  <1>q. QED BY <1>o, <1>n

\* A step of a search keeps index and rebuilds as new as a calm event.
LEMMA CalmSearch ==
    ASSUME SearchTypeOK, CalmInv, DataInv, NEW s \in Search, SearchStep(s)
    PROVE  CalmInv' /\ DataInv'
  <1> USE DEF CalmInv, DataInv, NoSearch, Building, SearchRecord
  <1>p. /\ search \in [Search -> SearchRecord]
        /\ products \in Version
    BY DEF SearchTypeOK
  <1>1. CASE BeginSearch(s)
    <2>1. CASE Query(s, db)
      BY <2>1, <1>1, Moves DEF BeginSearch
    <2>2. CASE rebuildPromise # None /\ search' = [search EXCEPT ![s] = Await(rebuildPromise)]
      BY <2>2, <1>1, <1>p, Moves DEF BeginSearch, SearchTypeOK
    <2>3. CASE StartRebuild(s)
      BY <2>3, <1>1, Moves DEF BeginSearch
    <2>4. QED BY <1>1, <2>1, <2>2, <2>3 DEF BeginSearch
  <1>2. CASE ResumeSearch(s)
    BY <1>2, Moves DEF ResumeSearch
  <1>3. CASE Fetch(s)
    BY <1>3, <1>p DEF Fetch, indexVars
  <1>4. CASE Install(s)
    BY <1>4, <1>p DEF Install, Settle
  <1>5. CASE RebuildFails(s)
    BY <1>5, <1>p DEF RebuildFails, Settle, indexVars
  <1>6. CASE Finally(s)
    BY <1>6, <1>p, Moves DEF Finally
  <1>7. CASE QueryAnswers(s)
    BY <1>7, <1>p DEF QueryAnswers, indexVars
  <1>8. CASE EndSearch(s)
    BY <1>8, <1>p DEF EndSearch, indexVars
  <1>9. QED BY <1>1, <1>2, <1>3, <1>4, <1>5, <1>6, <1>7, <1>8 DEF SearchStep

LEMMA SearchInvInit == SearchInit => SearchInv
  <1>1. SearchInit => SearchTypeOK BY TypeInit
  <1>2. SearchInit => PromiseInv /\ UndisturbedInv /\ CalmInv /\ DataInv
    BY DEF SearchInit, EmptyIndex, PromiseInv, PromiseLive, UndisturbedInv, CalmInv, DataInv,
           NoSearch, Building
  <1>3. QED BY <1>1, <1>2 DEF SearchInv

LEMMA SearchInvNext == SearchInv /\ [SearchNext]_<<products, searchVars>> => SearchInv'
  <1> SUFFICES ASSUME SearchInv, [SearchNext]_<<products, searchVars>> PROVE SearchInv'
    OBVIOUS
  <1>t. SearchTypeOK /\ SearchTypeOK' BY TypeNext DEF SearchInv
  <1> USE DEF SearchInv
  <1>1. ASSUME NEW s \in Search, SearchStep(s), Remember(FALSE)
        PROVE  SearchInv'
    BY <1>1, <1>t, PromiseSearch, UndisturbedSearch, CalmSearch
  <1>2. CASE InvalidateIndex /\ Remember(TRUE)
    <2> USE DEF InvalidateIndex
    <2>1. PromiseInv' BY <1>2 DEF PromiseInv, PromiseLive
    <2>2. UndisturbedInv'
      BY <1>2 DEF UndisturbedInv, Remember, Building
    <2>3. CalmInv' BY <1>2 DEF CalmInv, InFlight, Building
    <2>4. DataInv' BY <1>2, <1>t, ProductsAssumption DEF DataInv, SearchTypeOK, Version
    <2>5. QED BY <1>t, <2>1, <2>2, <2>3, <2>4
  <1>3. CASE IndexAges /\ UNCHANGED overtaken
    BY <1>3, <1>t DEF IndexAges, PromiseInv, PromiseLive, UndisturbedInv, CalmInv, DataInv
  <1>4. CASE SearchRestart
    BY <1>4, <1>t DEF SearchRestart, NoSearch, Building, PromiseInv, PromiseLive, UndisturbedInv,
                      CalmInv, DataInv
  <1>5. CASE WriteProduct /\ UNCHANGED searchVars
    <2> USE DEF searchVars, indexVars, markVars
    <2>1. DataInv'
      BY <1>5, <1>t, ProductsAssumption DEF WriteProduct, DataInv, SearchTypeOK, Version
    <2>2. PromiseInv' /\ UndisturbedInv' /\ CalmInv'
      BY <1>5 DEF PromiseInv, PromiseLive, UndisturbedInv, CalmInv
    <2>3. QED BY <1>t, <2>1, <2>2
  <1>6. CASE UNCHANGED <<products, searchVars>>
    BY <1>6, <1>t DEF searchVars, indexVars, markVars, PromiseInv, PromiseLive, UndisturbedInv,
                      CalmInv, DataInv
  <1>7. QED BY <1>1, <1>2, <1>3, <1>4, <1>5, <1>6 DEF SearchNext

\* Every reachable state of the search index satisfies the invariant.
THEOREM SearchInvariance == SearchSpec => []SearchInv
  BY SearchInvInit, SearchInvNext, PTL DEF SearchSpec

\* The index, its promise and the searches keep their types.
THEOREM SearchTypes == SearchSpec => []SearchTypeOK
  <1>1. SearchInv => SearchTypeOK BY DEF SearchInv
  <1>2. QED BY SearchInvariance, <1>1, PTL

\* Concurrent searches share one rebuild of the index (ensureIndex), unless an
\* event came between them.
THEOREM Coalescing == SearchSpec => []RebuildsCoalesced
  <1>1. SearchInv => RebuildsCoalesced
    BY DEF SearchInv, UndisturbedInv, RebuildsCoalesced, InFlight
  <1>2. QED BY SearchInvariance, <1>1, PTL

\* The index lags behind a product event only if a rebuild was under way when
\* the subscriber dropped it.
THEOREM IndexFreshness == SearchSpec => []StaleOnlyIfOverlapped
  <1>1. SearchInv => StaleOnlyIfOverlapped
    <2> SUFFICES ASSUME SearchInv, db # None, db < searchFloor, calm PROVE FALSE
      BY DEF StaleOnlyIfOverlapped
    <2>1. db >= searchFloor BY DEF SearchInv, CalmInv
    <2>2. db \in Nat /\ searchFloor \in Nat
      BY ProductsAssumption DEF SearchInv, SearchTypeOK, Copy, Version
    <2>3. QED BY <2>1, <2>2
  <1>2. QED BY SearchInvariance, <1>1, PTL

\* A search never waits for a rebuild that is gone.
THEOREM PromisesSettle == SearchSpec => []PromiseLive
  <1>1. SearchInv => PromiseLive BY DEF SearchInv, PromiseInv
  <1>2. QED BY SearchInvariance, <1>1, PTL

-----------------------------------------------------------------------------
(* Sums over finite sets, by which the figures of a day are added up. *)

\* Induction over data is argued from a least counterexample: a set of
\* naturals that is not empty has a least element.
LEMMA LeastNumber ==
  ASSUME NEW T \in SUBSET Nat, T # {}
  PROVE  \E n \in T : \A m \in T : n <= m
  <1>1. PICK n \in T : \A m \in T : <<m, n>> \notin OpToRel(<, Nat)
    BY WFMin, NatLessThanWellFounded, Zenon
  <1>2. OpToRel(<, Nat) = {ss \in Nat \X Nat : ss[1] < ss[2]}
    BY Zenon DEF OpToRel
  <1>3. \A m \in T : ~ (m < n)
    BY <1>1, <1>2
  <1>4. QED BY <1>3

\* If {} is in C and S is not, some subset of S is not in C although it is
\* after losing any one element.
LEMMA LeastSubset ==
  ASSUME NEW S, IsFiniteSet(S), NEW C,
         {} \in C, S \notin C
  PROVE  \E T \in SUBSET S : T \notin C /\ \A x \in T : T \ {x} \in C
  <1> DEFINE Sizes == {n \in Nat : \E T \in SUBSET S : Cardinality(T) = n /\ T \notin C}
  <1>1. Cardinality(S) \in Sizes
    BY FS_CardinalityType
  <1>2. PICK n \in Sizes : \A m \in Sizes : n <= m
    <2> HIDE DEF Sizes
    <2>1. Sizes \in SUBSET Nat BY DEF Sizes
    <2>2. QED BY <1>1, <2>1, LeastNumber
  <1>3. PICK T \in SUBSET S : Cardinality(T) = n /\ T \notin C OBVIOUS
  <1>4. SUFFICES ASSUME NEW x \in T, T \ {x} \notin C PROVE FALSE BY <1>3
  <1>5. IsFiniteSet(T) BY FS_Subset
  <1>6. Cardinality(T \ {x}) = n - 1 /\ IsFiniteSet(T \ {x})
    BY <1>3, <1>4, <1>5, FS_RemoveElement
  <1>7. Cardinality(T \ {x}) \in Nat BY <1>6, FS_CardinalityType
  <1>8. n - 1 \in Sizes BY <1>4, <1>6, <1>7
  <1>9. QED BY <1>2, <1>8

\* g[s] is the sum of f over s, for each set s of indices.
AddsUp(g, f, D) ==
  /\ g \in [SUBSET D -> Nat]
  /\ g[{}] = 0
  /\ \A s \in SUBSET D : \A y \in s : g[s] = f[y] + g[s \ {y}]

\* The sums when index x, of number v, is added.
Extended(g, x, v, D) == [s \in SUBSET D |-> IF x \in s THEN v + g[s \ {x}] ELSE g[s]]

\* The sums over the subsets of D give those over the subsets of one more index.
LEMMA AddOne ==
  ASSUME NEW D, NEW x, x \notin D, NEW f, NEW v \in Nat, NEW g, AddsUp(g, f, D),
         NEW f2, f2[x] = v, \A y \in D : f2[y] = f[y] /\ f[y] \in Nat
  PROVE  AddsUp(Extended(g, x, v, D \cup {x}), f2, D \cup {x})
  <1> DEFINE E == D \cup {x}
             h == Extended(g, x, v, E)
  <1>1. \A s \in SUBSET E : s \ {x} \in SUBSET D /\ (x \notin s => s \in SUBSET D) OBVIOUS
  <1>2. g \in [SUBSET D -> Nat] /\ g[{}] = 0 BY DEF AddsUp
  <1>3. h \in [SUBSET E -> Nat] BY <1>1, <1>2 DEF Extended
  <1>4. h[{}] = 0 BY <1>2 DEF Extended
  <1>5. ASSUME NEW s \in SUBSET E, NEW y \in s PROVE h[s] = f2[y] + h[s \ {y}]
    <2>1. CASE y = x
      <3>1. h[s] = v + g[s \ {x}] BY <2>1 DEF Extended
      <3>2. s \ {y} \in SUBSET E /\ x \notin s \ {y} BY <2>1
      <3>3. h[s \ {y}] = g[s \ {x}] BY <2>1, <3>2 DEF Extended
      <3>4. QED BY <2>1, <3>1, <3>3
    <2>2. CASE y # x /\ x \in s
      <3>1. h[s] = v + g[s \ {x}] BY <2>2 DEF Extended
      <3>2. y \in s \ {x} /\ s \ {x} \in SUBSET D /\ (s \ {x}) \ {y} \in SUBSET D BY <2>2
      <3>3. g[s \ {x}] = f[y] + g[(s \ {x}) \ {y}] BY <3>2 DEF AddsUp
      <3>4. s \ {y} \in SUBSET E /\ x \in s \ {y} BY <2>2
      <3>5. h[s \ {y}] = v + g[(s \ {y}) \ {x}] BY <3>4 DEF Extended
      <3>6. (s \ {y}) \ {x} = (s \ {x}) \ {y} OBVIOUS
      <3>7. f2[y] = f[y] /\ f[y] \in Nat /\ g[(s \ {x}) \ {y}] \in Nat BY <3>2, <1>2
      <3>8. v + (f[y] + g[(s \ {x}) \ {y}]) = f[y] + (v + g[(s \ {x}) \ {y}]) BY <3>7
      <3> HIDE DEF h
      <3>9. QED BY <3>1, <3>3, <3>5, <3>6, <3>7, <3>8, Zenon
    <2>3. CASE x \notin s
      <3>1. h[s] = g[s] /\ s \in SUBSET D BY <2>3 DEF Extended
      <3>2. g[s] = f[y] + g[s \ {y}] BY <3>1 DEF AddsUp
      <3>3. h[s \ {y}] = g[s \ {y}] BY <2>3 DEF Extended
      <3>4. QED BY <3>1, <3>2, <3>3
    <2>4. QED BY <2>1, <2>2, <2>3
  <1>6. QED BY <1>3, <1>4, <1>5 DEF AddsUp

\* Every finite set of numbers has sums.
LEMMA SumExists ==
  ASSUME NEW D, IsFiniteSet(D), NEW f, \A y \in D : f[y] \in Nat
  PROVE  \E g : AddsUp(g, f, D)
  <1> DEFINE C == {T \in SUBSET D : \E g : AddsUp(g, f, T)}
  <1>1. {} \in C
    <2>1. AddsUp([s \in SUBSET {} |-> 0], f, {}) BY DEF AddsUp
    <2>2. QED BY <2>1
  <1>2. SUFFICES ASSUME D \notin C PROVE FALSE OBVIOUS
  <1>3. PICK T \in SUBSET D : T \notin C /\ \A x \in T : T \ {x} \in C
    <2> HIDE DEF C
    <2>1. QED BY <1>1, <1>2, LeastSubset
  <1>4. PICK x \in T : TRUE BY <1>1, <1>3
  <1>5. PICK g : AddsUp(g, f, T \ {x}) BY <1>3, <1>4
  <1>6. AddsUp(Extended(g, x, f[x], (T \ {x}) \cup {x}), f, (T \ {x}) \cup {x})
    <2>1. x \notin T \ {x} /\ f[x] \in Nat /\ \A y \in T \ {x} : f[y] \in Nat BY <1>4
    <2>2. QED BY <1>5, <2>1, AddOne
  <1>7. (T \ {x}) \cup {x} = T BY <1>4
  <1>8. QED BY <1>3, <1>6, <1>7

SumOf(f) == FoldFunction(+, 0, f)

\* The recursion that the fold stands for.
LEMMA FoldIs ==
  ASSUME NEW f
  PROVE  FoldFunction(+, 0, f) =
     (CHOOSE g : g = [s \in SUBSET DOMAIN f |-> IF s = {} THEN 0 ELSE f[CHOOSE y \in s : TRUE] + g[s \ {CHOOSE y \in s : TRUE}]])[DOMAIN f]
  BY DEF FoldFunction, FoldFunctionOnSet, MapThenFoldSet

\* It computes the sums, in whatever order it takes the indices.
LEMMA SumIs ==
  ASSUME NEW f, IsFiniteSet(DOMAIN f), NEW h, AddsUp(h, f, DOMAIN f)
  PROVE  SumOf(f) = h[DOMAIN f]
  <1> DEFINE D == DOMAIN f
             pick(s) == CHOOSE y \in s : TRUE
             Rec(g) == g = [s \in SUBSET D |-> IF s = {} THEN 0 ELSE f[pick(s)] + g[s \ {pick(s)}]]
             it == CHOOSE g : Rec(g)
  <1>1. Rec(h)
    <2>1. h \in [SUBSET D -> Nat] BY DEF AddsUp
    <2>2. ASSUME NEW s \in SUBSET D
          PROVE  h[s] = IF s = {} THEN 0 ELSE f[pick(s)] + h[s \ {pick(s)}]
      <3>1. s # {} => pick(s) \in s OBVIOUS
      <3>2. QED BY <3>1 DEF AddsUp
    <2>3. QED BY <2>1, <2>2
  <1>2. Rec(it) BY <1>1
  <1>3. it = h
    <2> DEFINE C == {s \in SUBSET D : it[s] = h[s]}
    <2>1. {} \in C BY <1>2 DEF AddsUp
    <2>2. ASSUME NEW S \in SUBSET D, S \notin C PROVE FALSE
      <3>1. IsFiniteSet(S) BY FS_Subset
      <3>2. PICK T \in SUBSET S : T \notin C /\ \A x \in T : T \ {x} \in C
        <4> HIDE DEF C
        <4>1. QED BY <2>1, <2>2, <3>1, LeastSubset
      <3>3. T # {} /\ pick(T) \in T /\ T \in SUBSET D BY <2>1, <3>2
      <3>4. it[T \ {pick(T)}] = h[T \ {pick(T)}] BY <3>2, <3>3
      <3>5. it[T] = f[pick(T)] + it[T \ {pick(T)}] BY <1>2, <3>3
      <3>6. h[T] = f[pick(T)] + h[T \ {pick(T)}] BY <3>3 DEF AddsUp
      <3>7. QED BY <3>2, <3>3, <3>4, <3>5, <3>6
    <2>3. it = [s \in SUBSET D |-> it[s]] /\ h = [s \in SUBSET D |-> h[s]]
      <3>1. \A g : Rec(g) => g = [s \in SUBSET D |-> g[s]] OBVIOUS
      <3> HIDE DEF it, Rec
      <3>2. QED BY <1>1, <1>2, <3>1
    <2>4. \A s \in SUBSET D : it[s] = h[s] BY <2>2
    <2>5. QED BY <2>3, <2>4
  <1>4. QED BY <1>3, FoldIs DEF SumOf


\* Whatever adds the numbers up set by set arrives at their sum.
LEMMA SumWithout ==
  ASSUME NEW f, IsFiniteSet(DOMAIN f), \A y \in DOMAIN f : f[y] \in Nat, NEW g, AddsUp(g, f, DOMAIN f)
  PROVE  SumOf(f) = g[DOMAIN f] /\ SumOf(f) \in Nat
  <1>1. SumOf(f) = g[DOMAIN f] BY SumIs
  <1>2. g[DOMAIN f] \in Nat BY DEF AddsUp
  <1>3. QED BY <1>1, <1>2

\* One number changes.
LEMMA SumUpdated ==
  ASSUME NEW f, IsFiniteSet(DOMAIN f), \A y \in DOMAIN f : f[y] \in Nat,
         NEW i \in DOMAIN f, NEW v \in Nat
  PROVE  /\ SumOf(f) \in Nat
         /\ SumOf([f EXCEPT ![i] = v]) = (SumOf(f) - f[i]) + v
  <1> DEFINE D == DOMAIN f
             E == D \ {i}
             f2 == [f EXCEPT ![i] = v]
  <1>1. PICK g : AddsUp(g, f, D) BY SumExists
  <1>2. PICK h : AddsUp(h, f, E)
    <2>1. IsFiniteSet(E) BY FS_RemoveElement
    <2>2. QED BY <2>1, SumExists
  <1>3. E \cup {i} = D /\ i \notin E /\ DOMAIN f2 = D /\ f2[i] = v /\ \A y \in E : f2[y] = f[y]
    OBVIOUS
  <1>4. AddsUp(Extended(h, i, f[i], D), f, D)
    <2>1. f[i] \in Nat /\ \A y \in E : f[y] = f[y] /\ f[y] \in Nat OBVIOUS
    <2>2. AddsUp(Extended(h, i, f[i], E \cup {i}), f, E \cup {i})
      <3> HIDE DEF E
      <3>1. QED BY <1>2, <1>3, <2>1, AddOne
    <2>3. QED BY <1>3, <2>2, Zenon
  <1>5. AddsUp(Extended(h, i, v, D), f2, D)
    <2>1. \A y \in E : f2[y] = f[y] /\ f[y] \in Nat OBVIOUS
    <2>2. AddsUp(Extended(h, i, v, E \cup {i}), f2, E \cup {i})
      <3> HIDE DEF E, f2
      <3>1. QED BY <1>2, <1>3, <2>1, AddOne
    <2>3. QED BY <1>3, <2>2, Zenon
  <1>6. SumOf(f) = f[i] + h[E]
    <2>1. SumOf(f) = Extended(h, i, f[i], D)[D] BY <1>4, SumIs
    <2>2. QED BY <2>1 DEF Extended
  <1>7. SumOf(f2) = v + h[E]
    <2>1. SumOf(f2) = Extended(h, i, v, D)[D] 
      <3> HIDE DEF f2
      <3>1. QED BY <1>3, <1>5, SumIs
    <2>2. QED BY <2>1 DEF Extended
  <1>8. h[E] \in Nat /\ f[i] \in Nat BY <1>2 DEF AddsUp
  <1> HIDE DEF f2
  <1>9. SumOf(f2) = (SumOf(f) - f[i]) + v /\ SumOf(f) \in Nat BY <1>6, <1>7, <1>8
  <1>10. QED BY <1>9 DEF f2

\* One number more.
LEMMA SumExtended ==
  ASSUME NEW f, IsFiniteSet(DOMAIN f), \A y \in DOMAIN f : f[y] \in Nat,
         NEW x, x \notin DOMAIN f, NEW f2, DOMAIN f2 = DOMAIN f \cup {x},
         f2[x] \in Nat, \A y \in DOMAIN f : f2[y] = f[y]
  PROVE  SumOf(f2) = SumOf(f) + f2[x]
  <1> DEFINE D == DOMAIN f
             E == D \cup {x}
  <1>1. PICK g : AddsUp(g, f, D) BY SumExists
  <1>2. AddsUp(Extended(g, x, f2[x], E), f2, E) BY <1>1, AddOne, Zenon
  <1>3. SumOf(f) = g[D] /\ g[D] \in Nat BY <1>1, SumWithout
  <1>4. IsFiniteSet(DOMAIN f2) BY FS_AddElement
  <1>5. SumOf(f2) = Extended(g, x, f2[x], E)[E] BY <1>2, <1>4, SumIs
  <1>6. E \ {x} = D /\ x \in E OBVIOUS
  <1>7. SumOf(f2) = f2[x] + g[D] BY <1>5, <1>6 DEF Extended
  <1>8. QED BY <1>3, <1>7

\* Greater numbers have a greater sum.
LEMMA SumMonotone ==
  ASSUME NEW f, NEW f2, IsFiniteSet(DOMAIN f), DOMAIN f2 = DOMAIN f,
         \A y \in DOMAIN f : f[y] \in Nat /\ f2[y] \in Nat /\ f[y] <= f2[y]
  PROVE  SumOf(f) <= SumOf(f2)
  <1> DEFINE D == DOMAIN f
  <1>1. PICK g : AddsUp(g, f, D) BY SumExists
  <1>2. PICK h : AddsUp(h, f2, D) BY SumExists
  <1>3. SumOf(f) = g[D] /\ SumOf(f2) = h[D] BY <1>1, <1>2, SumIs
  <1>4. g[D] <= h[D]
    <2> DEFINE C == {s \in SUBSET D : g[s] <= h[s]}
    <2>1. {} \in C BY <1>1, <1>2 DEF AddsUp
    <2>2. SUFFICES ASSUME D \notin C PROVE FALSE OBVIOUS
    <2>3. PICK T \in SUBSET D : T \notin C /\ \A x \in T : T \ {x} \in C
      <3>1. IsFiniteSet(D) OBVIOUS
      <3> HIDE DEF C, D
      <3>2. QED BY <2>1, <2>2, <3>1, LeastSubset
    <2>4. PICK x \in T : TRUE BY <2>1, <2>3
    <2>5. g[T] = f[x] + g[T \ {x}] /\ h[T] = f2[x] + h[T \ {x}] BY <1>1, <1>2 DEF AddsUp
    <2>6. g[T \ {x}] \in Nat /\ h[T \ {x}] \in Nat /\ g[T \ {x}] <= h[T \ {x}]
      BY <1>1, <1>2, <2>3 DEF AddsUp
    <2>7. x \in D /\ f[x] \in Nat /\ f2[x] \in Nat /\ f[x] <= f2[x] OBVIOUS
    <2>8. g[T] <= h[T] BY <2>5, <2>6, <2>7
    <2>9. QED BY <2>3, <2>8
  <1>5. QED BY <1>3, <1>4

\* The sum over nothing.
LEMMA SumEmpty ==
  ASSUME NEW f, DOMAIN f = {}
  PROVE  SumOf(f) = 0
  <1> DEFINE g == [s \in SUBSET {} |-> 0]
  <1>1. AddsUp(g, f, {}) /\ g[{}] = 0 BY DEF AddsUp
  <1>2. IsFiniteSet({}) BY FS_EmptySet
  <1> HIDE DEF g
  <1>3. SumOf(f) = g[{}]
    <2>1. IsFiniteSet(DOMAIN f) /\ AddsUp(g, f, DOMAIN f) BY <1>1, <1>2, Zenon
    <2>2. SumOf(f) = g[DOMAIN f] BY <2>1, SumIs
    <2>3. QED BY <2>2
  <1>4. QED BY <1>1, <1>3

\* No number exceeds the sum of natural numbers.
LEMMA SumBounds ==
  ASSUME NEW D, IsFiniteSet(D), NEW f \in [D -> Nat], NEW i \in D
  PROVE  f[i] <= SumOf(f)
  <1>1. /\ DOMAIN f = D /\ DOMAIN [f EXCEPT ![i] = 0] = D
        /\ \A y \in D : f[y] \in Nat /\ [f EXCEPT ![i] = 0][y] \in Nat
    OBVIOUS
  <1>2. SumOf(f) \in Nat /\ SumOf([f EXCEPT ![i] = 0]) = (SumOf(f) - f[i]) + 0
    BY <1>1, SumUpdated
  <1>3. SumOf([f EXCEPT ![i] = 0]) \in Nat
    <2> DEFINE f0 == [f EXCEPT ![i] = 0]
    <2> HIDE DEF f0
    <2>1. IsFiniteSet(DOMAIN f0) /\ i \in DOMAIN f0 /\ \A y \in DOMAIN f0 : f0[y] \in Nat BY <1>1 DEF f0
    <2>2. SumOf(f0) \in Nat BY <2>1, SumUpdated
    <2>3. QED BY <2>2 DEF f0
  <1>4. QED BY <1>1, <1>2, <1>3

-----------------------------------------------------------------------------
(* The reports: what the events of a day may still do. *)

Under(h) == handler[h].pc # "idle"
Writes(h, c) == handler[h].pc = "write" /\ handler[h].counter = c

\* The handlers whose event may still add to counter c: an order placed is also
\* a payment to come.
Owes(c) == {h \in Handler : /\ Under(h)
                            /\ \/ handler[h].counter = c
                               \/ c = "payment" /\ handler[h].counter = "orders_placed"}

\* The handlers that may create a row now, and those that may do so once more.
MayCreate == {h \in Handler : handler[h].pc \in {"list", "create"}}
Placing == {h \in Handler : Under(h) /\ handler[h].counter = "orders_placed"}

Row == [currency : Currencies, count : [Counter -> Nat]]
Record == [pc : {"idle", "list", "create", "write"}, counter : Counter,
           currency : Currencies, row : Nat, seen : Nat]

ReportShape ==
    /\ buckets \in Seq(Row)
    /\ handler \in [Handler -> Record]
    /\ orderEvents \in 0 .. MaxOrderEvents
    /\ written \in [Counter -> Nat]
    /\ contended \subseteq Counter
    /\ \A h \in Handler : handler[h].pc # "write" => handler[h].row = 0 /\ handler[h].seen = 0

\* An event adds once to a counter, and twice creates a row, at most.
EventInv ==
    /\ \A c \in Counter : /\ IsFiniteSet(Owes(c))
                          /\ written[c] + Cardinality(Owes(c)) <= orderEvents
    /\ IsFiniteSet(MayCreate) /\ IsFiniteSet(Placing)
    /\ Len(buckets) + Cardinality(MayCreate) + Cardinality(Placing) <= 2 * orderEvents

\* updates[i]: the updates of counter c that were made in row i.  A row shows no
\* more than that, nor does a handler that is about to write remember more; both
\* are exact while no two handlers have held the counter of one row.
Ledger(c, updates) ==
    /\ updates \in [DOMAIN buckets -> Nat]
    /\ SumOf(updates) = written[c]
    /\ \A i \in DOMAIN buckets : buckets[i].count[c] <= updates[i]
    /\ \A h \in Handler : Writes(h, c) => /\ handler[h].row \in DOMAIN buckets
                                          /\ handler[h].seen <= updates[handler[h].row]
    /\ c \notin contended =>
          /\ \A i \in DOMAIN buckets : buckets[i].count[c] = updates[i]
          /\ \A h \in Handler : Writes(h, c) => handler[h].seen = updates[handler[h].row]
          /\ \A h, k \in Handler : h # k /\ Writes(h, c) /\ Writes(k, c) => handler[h].row # handler[k].row

UpdateInv == \A c \in Counter : \E updates : Ledger(c, updates)

ReportInv == ReportShape /\ EventInv /\ UpdateInv

\* One more element, or one less, counts one.
LEMMA CardinalityStep ==
  ASSUME NEW S, IsFiniteSet(S), NEW T, NEW h, T \ {h} = S \ {h}
  PROVE  /\ IsFiniteSet(T) /\ Cardinality(S) \in Nat /\ Cardinality(T) \in Nat
         /\ (h \in S <=> h \in T) => Cardinality(T) = Cardinality(S)
         /\ h \in T /\ h \notin S => Cardinality(T) = Cardinality(S) + 1
         /\ h \notin T /\ h \in S => Cardinality(T) = Cardinality(S) - 1
  <1> DEFINE R == S \ {h}
  <1>1. IsFiniteSet(R) /\ Cardinality(R) = IF h \in S THEN Cardinality(S) - 1 ELSE Cardinality(S)
    BY FS_RemoveElement
  <1>2. IsFiniteSet(R \cup {h}) /\ Cardinality(R \cup {h}) = Cardinality(R) + 1
    BY <1>1, FS_AddElement
  <1>3. T = IF h \in T THEN R \cup {h} ELSE R OBVIOUS
  <1>4. Cardinality(S) \in Nat /\ Cardinality(R) \in Nat BY <1>1, FS_CardinalityType
  <1> HIDE DEF R
  <1>5. h \in T => IsFiniteSet(T) /\ Cardinality(T) = Cardinality(R) + 1 BY <1>2, <1>3
  <1>6. h \notin T => IsFiniteSet(T) /\ Cardinality(T) = Cardinality(R) BY <1>1, <1>3
  <1>7. QED BY <1>1, <1>4, <1>5, <1>6

\* What a step of one handler does to the sets.
LEMMA OthersOwe ==
  ASSUME NEW h \in Handler, \A k \in Handler \ {h} : handler'[k] = handler[k]
  PROVE  /\ \A c : Owes(c)' \ {h} = Owes(c) \ {h}
         /\ MayCreate' \ {h} = MayCreate \ {h}
         /\ Placing' \ {h} = Placing \ {h}
  BY DEF Owes, MayCreate, Placing, Under

\* At first no row has a figure and nobody owes one.
LEMMA ReportInitially == ReportInit => ReportInv
  <1> SUFFICES ASSUME ReportInit PROVE ReportInv OBVIOUS
  <1>1. ReportShape
    <2>1. NoEvent \in Record BY DEF NoEvent, Record, Counter, Currencies
    <2>2. << >> \in Seq(Row) BY EmptySeq
    <2>3. QED BY <2>1, <2>2, OrderEventsAssumption DEF ReportInit, ReportShape, NoEvent
  <1>2. EventInv
    <2>1. (\A c : Owes(c) = {}) /\ MayCreate = {} /\ Placing = {}
      BY DEF ReportInit, NoEvent, Owes, MayCreate, Placing, Under
    <2>2. IsFiniteSet({}) /\ Cardinality({}) = 0 BY FS_EmptySet
    <2>3. written = [c \in Counter |-> 0] /\ Len(buckets) = 0 /\ orderEvents = 0 BY DEF ReportInit
    <2> HIDE DEF ReportInit
    <2>4. \A c : IsFiniteSet(Owes(c)) /\ Cardinality(Owes(c)) = 0 BY <2>1, <2>2, Zenon
    <2>5. /\ IsFiniteSet(MayCreate) /\ Cardinality(MayCreate) = 0
          /\ IsFiniteSet(Placing) /\ Cardinality(Placing) = 0
      BY <2>1, <2>2, Zenon
    <2>6. QED BY <2>3, <2>4, <2>5 DEF EventInv
  <1>3. UpdateInv
    <2>1. \A c \in Counter : Ledger(c, << >>)
      <3>1. DOMAIN << >> = {} /\ SumOf(<< >>) = 0 BY SumEmpty
      <3>2. QED BY <3>1 DEF ReportInit, Ledger, Writes, NoEvent
    <2>2. QED BY <2>1 DEF UpdateInv
  <1>4. QED BY <1>1, <1>2, <1>3 DEF ReportInv

\* A handler without an event holds no row.
LEMMA NothingUnder == NoEvent \in Record /\ NoEvent.pc = "idle" /\ NoEvent.row = 0 /\ NoEvent.seen = 0
  BY DEF NoEvent, Record, Counter, Currencies

\* What an event is counted as, at first: a payment is counted after its order.
LEMMA EventKinds ==
  ASSUME NEW event \in OrderEvent, NEW ordered \in Currency
  PROVE  /\ CounterOf(event) \in Counter \ {"payment"}
         /\ CurrencyOf(event, ordered) \in Currencies
  BY DEF OrderEvent, CounterOf, CurrencyOf, Counter, Currencies

\* What a write does to a row: one counter of it, and no other, is replaced.
LEMMA RowUpdated ==
  ASSUME NEW r \in Row, NEW c \in Counter, NEW v \in Nat
  PROVE  /\ [r EXCEPT !.count[c] = v] \in Row
         /\ [r EXCEPT !.count[c] = v].currency = r.currency
         /\ [r EXCEPT !.count[c] = v].count = [r.count EXCEPT ![c] = v]
  <1>1. r.count \in [Counter -> Nat] /\ r.currency \in Currencies BY DEF Row
  <1>2. [r.count EXCEPT ![c] = v] \in [Counter -> Nat] BY <1>1
  <1>3. [r EXCEPT !.count[c] = v] = [currency |-> r.currency, count |-> [r.count EXCEPT ![c] = v]]
    BY DEF Row
  <1>4. QED BY <1>1, <1>2, <1>3 DEF Row

\* One step of a handler changes what it holds and nothing of the others.
LEMMA OneHandler ==
  ASSUME ReportInv, NEW h \in Handler, HandlerStep(h)
  PROVE  /\ handler' \in [Handler -> Record]
         /\ \A k \in Handler \ {h} : handler'[k] = handler[k]
         /\ handler'[h].pc # "write" => handler'[h].row = 0 /\ handler'[h].seen = 0
         /\ handler'[h].pc # handler[h].pc
  <1> USE DEF ReportInv, ReportShape
  <1>1. ASSUME NEW event \in OrderEvent, NEW ordered \in Currency, Deliver(h, event, ordered)
        PROVE  /\ handler' = [handler EXCEPT ![h] = handler'[h]] /\ handler'[h] \in Record
               /\ handler'[h].pc = "list" /\ handler[h].pc = "idle"
               /\ handler'[h].row = 0 /\ handler'[h].seen = 0
    BY <1>1, EventKinds, NothingUnder DEF Deliver, Record, NoEvent
  <1>2. CASE List(h)
    <2>1. CASE \E i \in DOMAIN buckets :
             handler' = [handler EXCEPT ![h].pc = "write", ![h].row = i,
                                        ![h].seen = buckets[i].count[handler[h].counter]]
      <3>1. PICK i \in DOMAIN buckets :
             handler' = [handler EXCEPT ![h].pc = "write", ![h].row = i,
                                        ![h].seen = buckets[i].count[handler[h].counter]]
        BY <2>1
      <3>2. i \in Nat /\ buckets[i] \in Row BY ElementOfSeq, LenProperties
      <3>3. handler[h] \in Record OBVIOUS
      <3>4. buckets[i].count[handler[h].counter] \in Nat BY <3>2, <3>3 DEF Row, Record
      <3>5. [handler[h] EXCEPT !.pc = "write", !.row = i, !.seen = buckets[i].count[handler[h].counter]] \in Record
        BY <3>2, <3>3, <3>4 DEF Record
      <3>6. handler' = [handler EXCEPT ![h] = [handler[h] EXCEPT !.pc = "write", !.row = i,
                                                 !.seen = buckets[i].count[handler[h].counter]]]
        BY <3>1
      <3>7. handler'[h].pc = "write" BY <3>3, <3>6 DEF Record
      <3>8. handler[h].pc = "list" BY <1>2 DEF List
      <3>9. QED BY <3>5, <3>6, <3>7, <3>8
    <2>2. CASE handler' = [handler EXCEPT ![h].pc = "create"]
      BY <1>2, <2>2 DEF List, Record
    <2>3. QED BY <1>2, <2>1, <2>2 DEF List
  <1>3. CASE Create(h)
    <2>1. Len(buckets) + 1 \in Nat BY LenProperties
    <2>2. QED BY <1>3, <2>1 DEF Create, Record
  <1>4. CASE Write(h)
    <2>1. handler[h].currency \in Currencies /\ handler[h].pc = "write" BY <1>4 DEF Write, Record
    <2>2. [NoEvent EXCEPT !.pc = "list", !.counter = "payment", !.currency = handler[h].currency] \in Record
      BY <2>1 DEF NoEvent, Record, Counter
    <2>3. handler' = [handler EXCEPT ![h] =
                        IF handler[h].counter = "orders_placed"
                        THEN [NoEvent EXCEPT !.pc = "list", !.counter = "payment", !.currency = handler[h].currency]
                        ELSE NoEvent]
      BY <1>4 DEF Write
    <2>4. handler'[h] \in Record /\ handler'[h].pc # "write" /\ handler'[h].row = 0 /\ handler'[h].seen = 0
      BY <2>2, <2>3, NothingUnder DEF NoEvent
    <2>5. QED BY <2>1, <2>3, <2>4
  <1>5. CASE HandlerFails(h)
    BY <1>5, NothingUnder DEF HandlerFails
  <1>6. QED
    <2>1. CASE \E event \in OrderEvent, ordered \in Currency : Deliver(h, event, ordered)
      BY <1>1, <2>1
    <2>2. QED BY <1>2, <1>3, <1>4, <1>5, <2>1 DEF HandlerStep

\* Who writes has found or made a row.
LEMMA WriterHasRow ==
  ASSUME ReportInv, NEW h \in Handler, handler[h].pc = "write"
  PROVE  handler[h].row \in DOMAIN buckets
  <1>1. handler[h].counter \in Counter BY DEF ReportInv, ReportShape, Record
  <1>2. PICK updates : Ledger(handler[h].counter, updates) BY <1>1 DEF ReportInv, UpdateInv
  <1>3. QED BY <1>2 DEF Ledger, Writes

\* Every step keeps rows, handlers and counts in shape.
LEMMA ShapeKept ==
  ASSUME ReportInv, NEW h \in Handler, HandlerStep(h)
  PROVE  ReportShape'
  <1> USE DEF ReportInv, ReportShape
  <1>1. handler' \in [Handler -> Record] /\ \A k \in Handler : handler'[k].pc # "write" => handler'[k].row = 0 /\ handler'[k].seen = 0
    BY OneHandler
  <1>2. contended' \subseteq Counter
    BY DEF HandlerStep, Contend
  <1>3. buckets' \in Seq(Row) /\ orderEvents' \in 0 .. MaxOrderEvents /\ written' \in [Counter -> Nat]
    <2>1. CASE \E event \in OrderEvent, ordered \in Currency : Deliver(h, event, ordered)
      BY <2>1, OrderEventsAssumption DEF Deliver
    <2>2. CASE List(h) BY <2>2 DEF List
    <2>3. CASE Create(h)
      <3>1. handler[h].currency \in Currencies BY DEF Record
      <3>2. NewBucket(handler[h].currency) \in Row BY <3>1 DEF NewBucket, Row
      <3>3. QED BY <2>3, <3>2, AppendProperties DEF Create
    <2>4. CASE Write(h)
      <3>1. handler[h].counter \in Counter /\ handler[h].seen \in Nat BY DEF Record
      <3>2. written' \in [Counter -> Nat] BY <2>4, <3>1 DEF Write
      <3>3. buckets' \in Seq(Row)
        <4>1. handler[h].row \in 1 .. Len(buckets) BY <2>4, WriterHasRow, LenProperties DEF Write
        <4>2. buckets[handler[h].row] \in Row BY <4>1, ElementOfSeq
        <4>3. [buckets[handler[h].row] EXCEPT !.count[handler[h].counter] = Sum(handler[h].seen)] \in Row
          <5>1. Sum(handler[h].seen) \in Nat BY <3>1 DEF Sum
          <5>2. QED BY <3>1, <4>2, <5>1, RowUpdated
        <4>4. [buckets EXCEPT ![handler[h].row] =
                 [buckets[handler[h].row] EXCEPT !.count[handler[h].counter] = Sum(handler[h].seen)]] \in Seq(Row)
          BY <4>1, <4>3, ExceptSeq
        <4>5. QED BY <2>4, <4>4 DEF Write
      <3>4. QED BY <2>4, <3>2, <3>3 DEF Write
    <2>5. CASE HandlerFails(h) BY <2>5 DEF HandlerFails
    <2>6. QED BY <2>1, <2>2, <2>3, <2>4, <2>5 DEF HandlerStep
  <1>4. QED BY <1>1, <1>2, <1>3

\* What a handler has when it has looked for its row.
LEMMA Listed ==
  ASSUME ReportInv, NEW h \in Handler, List(h)
  PROVE  /\ handler[h].pc = "list" /\ handler'[h].counter = handler[h].counter
         /\ UNCHANGED <<buckets, orderEvents, written>> /\ Len(buckets') = Len(buckets)
         /\ handler'[h].pc \in {"write", "create"}
         /\ handler'[h].pc = "write" =>
               /\ handler'[h].row \in DOMAIN buckets
               /\ handler'[h].seen = buckets[handler'[h].row].count[handler[h].counter]
  <1>1. handler \in [Handler -> Record] /\ handler[h] \in Record BY DEF ReportInv, ReportShape
  <1>2. CASE \E i \in DOMAIN buckets :
             handler' = [handler EXCEPT ![h].pc = "write", ![h].row = i,
                                        ![h].seen = buckets[i].count[handler[h].counter]]
    <2>1. PICK i \in DOMAIN buckets :
             handler' = [handler EXCEPT ![h].pc = "write", ![h].row = i,
                                        ![h].seen = buckets[i].count[handler[h].counter]]
      BY <1>2
    <2>2. handler'[h] = [handler[h] EXCEPT !.pc = "write", !.row = i,
                                           !.seen = buckets[i].count[handler[h].counter]]
      BY <1>1, <2>1
    <2>3. /\ handler'[h].pc = "write" /\ handler'[h].counter = handler[h].counter /\ handler'[h].row = i
          /\ handler'[h].seen = buckets[i].count[handler[h].counter]
      BY <1>1, <2>2 DEF Record
    <2>4. QED BY <2>3 DEF List
  <1>3. CASE handler' = [handler EXCEPT ![h].pc = "create"]
    <2>1. handler'[h].pc = "create" /\ handler'[h].counter = handler[h].counter BY <1>1, <1>3 DEF Record
    <2>2. QED BY <2>1 DEF List
  <1>4. QED BY <1>2, <1>3 DEF List

\* Every step keeps what events under way still owe.
LEMMA EventsKept ==
  ASSUME ReportInv, NEW h \in Handler, HandlerStep(h)
  PROVE  EventInv'
  <1> USE DEF ReportInv
  <1>1. /\ handler[h] \in Record /\ handler'[h] \in Record
        /\ written \in [Counter -> Nat] /\ orderEvents \in Nat /\ Len(buckets) \in Nat
    BY OneHandler, LenProperties, OrderEventsAssumption DEF ReportShape
  <1>2. ASSUME NEW c \in Counter
        PROVE  /\ IsFiniteSet(Owes(c)') /\ Cardinality(Owes(c)) \in Nat /\ Cardinality(Owes(c)') \in Nat
               /\ (h \in Owes(c) <=> h \in Owes(c)') => Cardinality(Owes(c)') = Cardinality(Owes(c))
               /\ h \in Owes(c)' /\ h \notin Owes(c) => Cardinality(Owes(c)') = Cardinality(Owes(c)) + 1
               /\ h \notin Owes(c)' /\ h \in Owes(c) => Cardinality(Owes(c)') = Cardinality(Owes(c)) - 1
    <2>1. IsFiniteSet(Owes(c)) BY DEF EventInv
    <2>2. Owes(c)' \ {h} = Owes(c) \ {h} BY OneHandler, OthersOwe
    <2>3. QED BY <2>1, <2>2, CardinalityStep
  <1>3. /\ IsFiniteSet(MayCreate') /\ Cardinality(MayCreate) \in Nat /\ Cardinality(MayCreate') \in Nat
        /\ (h \in MayCreate <=> h \in MayCreate') => Cardinality(MayCreate') = Cardinality(MayCreate)
        /\ h \in MayCreate' /\ h \notin MayCreate => Cardinality(MayCreate') = Cardinality(MayCreate) + 1
        /\ h \notin MayCreate' /\ h \in MayCreate => Cardinality(MayCreate') = Cardinality(MayCreate) - 1
    <2>1. IsFiniteSet(MayCreate) /\ MayCreate' \ {h} = MayCreate \ {h} BY OneHandler, OthersOwe DEF EventInv
    <2>2. QED BY <2>1, CardinalityStep
  <1>4. /\ IsFiniteSet(Placing') /\ Cardinality(Placing) \in Nat /\ Cardinality(Placing') \in Nat
        /\ (h \in Placing <=> h \in Placing') => Cardinality(Placing') = Cardinality(Placing)
        /\ h \in Placing' /\ h \notin Placing => Cardinality(Placing') = Cardinality(Placing) + 1
        /\ h \notin Placing' /\ h \in Placing => Cardinality(Placing') = Cardinality(Placing) - 1
    <2>1. IsFiniteSet(Placing) /\ Placing' \ {h} = Placing \ {h} BY OneHandler, OthersOwe DEF EventInv
    <2>2. QED BY <2>1, CardinalityStep
  <1>5. /\ \A c \in Counter : written[c] + Cardinality(Owes(c)) <= orderEvents
        /\ Len(buckets) + Cardinality(MayCreate) + Cardinality(Placing) <= 2 * orderEvents
    BY DEF EventInv
  <1>6. /\ \A c \in Counter : written'[c] + Cardinality(Owes(c)') <= orderEvents'
        /\ Len(buckets') + Cardinality(MayCreate') + Cardinality(Placing') <= 2 * orderEvents'
    <2>1. CASE \E event \in OrderEvent, ordered \in Currency : Deliver(h, event, ordered)
      <3>1. /\ orderEvents' = orderEvents + 1 /\ written' = written /\ Len(buckets') = Len(buckets)
            /\ handler[h].pc = "idle"
        BY <2>1 DEF Deliver
      <3>2. h \notin MayCreate /\ h \notin Placing /\ \A c \in Counter : h \notin Owes(c)
        BY <3>1 DEF MayCreate, Placing, Owes, Under
      <3>3. \A c \in Counter : Cardinality(Owes(c)') <= Cardinality(Owes(c)) + 1 BY <1>2, <3>2
      <3>4. Cardinality(MayCreate') <= Cardinality(MayCreate) + 1 BY <1>3, <3>2
      <3>5. Cardinality(Placing') <= Cardinality(Placing) + 1 BY <1>4, <3>2
      <3>6. QED BY <1>1, <1>2, <1>3, <1>4, <1>5, <3>1, <3>3, <3>4, <3>5
    <2>2. CASE List(h)
      <3>1. /\ orderEvents' = orderEvents /\ written' = written /\ Len(buckets') = Len(buckets)
            /\ handler[h].pc = "list" /\ handler'[h].pc \in {"write", "create"}
            /\ handler'[h].counter = handler[h].counter
        BY <2>2, Listed
      <3>2. /\ h \in MayCreate /\ (h \in Placing <=> h \in Placing')
            /\ \A c \in Counter : h \in Owes(c) <=> h \in Owes(c)'
        BY <3>1 DEF MayCreate, Placing, Owes, Under
      <3>3. Cardinality(MayCreate') <= Cardinality(MayCreate) BY <1>3, <3>2
      <3>4. QED BY <1>1, <1>2, <1>3, <1>4, <1>5, <3>1, <3>2, <3>3
    <2>3. CASE Create(h)
      <3>1. /\ orderEvents' = orderEvents /\ written' = written /\ Len(buckets') = Len(buckets) + 1
            /\ handler[h].pc = "create" /\ handler'[h].pc = "write"
            /\ handler'[h].counter = handler[h].counter
        BY <2>3, <1>1, AppendProperties DEF Create, ReportShape, Record
      <3>2. /\ h \in MayCreate /\ h \notin MayCreate' /\ (h \in Placing <=> h \in Placing')
            /\ \A c \in Counter : h \in Owes(c) <=> h \in Owes(c)'
        BY <3>1 DEF MayCreate, Placing, Owes, Under
      <3>3. QED BY <1>1, <1>2, <1>3, <1>4, <1>5, <3>1, <3>2
    <2>4. CASE Write(h)
      <3>1. /\ orderEvents' = orderEvents /\ Len(buckets') = Len(buckets)
            /\ written' = [written EXCEPT ![handler[h].counter] = @ + 1]
            /\ handler[h].pc = "write"
            /\ handler[h].counter = "orders_placed" => handler'[h].pc = "list" /\ handler'[h].counter = "payment"
            /\ handler[h].counter # "orders_placed" => handler'[h].pc = "idle"
        BY <2>4, <1>1 DEF Write, ReportShape, NoEvent
      <3>2. /\ h \notin MayCreate /\ h \notin Placing'
            /\ h \in MayCreate' => h \in Placing
            /\ \A c \in Counter : c = handler[h].counter => h \in Owes(c) /\ h \notin Owes(c)'
            /\ \A c \in Counter : h \in Owes(c)' => h \in Owes(c)
        BY <3>1 DEF MayCreate, Placing, Owes, Under
      <3>3. ASSUME NEW c \in Counter PROVE written'[c] + Cardinality(Owes(c)') <= orderEvents
        <4>1. CASE c = handler[h].counter
          <5>1. written'[c] = written[c] + 1 BY <1>1, <3>1, <4>1
          <5>2. Cardinality(Owes(c)') = Cardinality(Owes(c)) - 1 BY <1>2, <3>2, <4>1
          <5>3. QED BY <1>1, <1>2, <1>5, <5>1, <5>2
        <4>2. CASE c # handler[h].counter
          <5>1. written'[c] = written[c] BY <1>1, <3>1, <4>2
          <5>2. Cardinality(Owes(c)') <= Cardinality(Owes(c)) BY <1>2, <3>2, <4>2
          <5>3. QED BY <1>1, <1>2, <1>5, <5>1, <5>2
        <4>3. QED BY <4>1, <4>2
      <3>4. Len(buckets') + Cardinality(MayCreate') + Cardinality(Placing') <= 2 * orderEvents
        BY <1>1, <1>3, <1>4, <1>5, <3>1, <3>2
      <3>5. QED BY <3>1, <3>3, <3>4
    <2>5. CASE HandlerFails(h)
      <3>1. /\ orderEvents' = orderEvents /\ written' = written /\ Len(buckets') = Len(buckets)
            /\ handler'[h].pc = "idle"
        BY <2>5 DEF HandlerFails, ReportShape, NoEvent
      <3>2. h \notin MayCreate' /\ h \notin Placing' /\ \A c \in Counter : h \notin Owes(c)'
        BY <3>1 DEF MayCreate, Placing, Owes, Under
      <3>3. /\ Cardinality(MayCreate') <= Cardinality(MayCreate) /\ Cardinality(Placing') <= Cardinality(Placing)
            /\ \A c \in Counter : Cardinality(Owes(c)') <= Cardinality(Owes(c))
        BY <1>2, <1>3, <1>4, <3>2
      <3>4. QED BY <1>1, <1>2, <1>3, <1>4, <1>5, <3>1, <3>3
    <2>6. QED BY <2>1, <2>2, <2>3, <2>4, <2>5 DEF HandlerStep
  <1>7. QED BY <1>2, <1>3, <1>4, <1>6 DEF EventInv

\* The row a handler writes shows what it remembered and one; nothing else changes.
LEMMA Written ==
  ASSUME ReportInv, NEW h \in Handler, Write(h)
  PROVE  /\ DOMAIN buckets' = DOMAIN buckets /\ handler[h].row \in DOMAIN buckets
         /\ \A i \in DOMAIN buckets, c \in Counter :
               buckets'[i].count[c] = IF i = handler[h].row /\ c = handler[h].counter
                                      THEN handler[h].seen + 1 ELSE buckets[i].count[c]
         /\ written' = [written EXCEPT ![handler[h].counter] = @ + 1]
         /\ handler'[h].pc # "write" /\ handler[h].pc = "write"
  <1> DEFINE r == handler[h].row
             c == handler[h].counter
             v == Sum(handler[h].seen)
  <1>1. r \in DOMAIN buckets BY WriterHasRow DEF Write
  <1>2. c \in Counter /\ v \in Nat /\ v = handler[h].seen + 1
    BY DEF ReportInv, ReportShape, Record, Sum
  <1>3. \A i \in DOMAIN buckets : buckets[i] \in Row
    BY ElementOfSeq, LenProperties DEF ReportInv, ReportShape
  <1>4. buckets' = [buckets EXCEPT ![r] = [buckets[r] EXCEPT !.count[c] = v]] BY DEF Write
  <1> DEFINE new == [buckets[r] EXCEPT !.count[c] = v]
  <1>5. new.count = [buckets[r].count EXCEPT ![c] = v] /\ buckets[r].count \in [Counter -> Nat]
    <2>1. buckets[r] \in Row BY <1>1, <1>3
    <2>2. buckets[r].count \in [Counter -> Nat] BY <2>1 DEF Row
    <2>3. QED BY <1>2, <2>1, <2>2, RowUpdated
  <1>6. handler'[h].pc # "write" BY DEF Write, ReportInv, ReportShape, NoEvent
  <1> HIDE DEF new, v
  <1>7. DOMAIN buckets' = DOMAIN buckets /\ buckets'[r] = new /\ \A i \in DOMAIN buckets \ {r} : buckets'[i] = buckets[i]
    BY <1>1, <1>4 DEF new
  <1>8. ASSUME NEW i \in DOMAIN buckets, NEW d \in Counter
        PROVE  buckets'[i].count[d] = IF i = r /\ d = c THEN handler[h].seen + 1 ELSE buckets[i].count[d]
    BY <1>2, <1>5, <1>7
  <1>9. written' = [written EXCEPT ![handler[h].counter] = @ + 1] /\ handler[h].pc = "write" BY DEF Write
  <1>10. QED BY <1>1, <1>6, <1>7, <1>8, <1>9

\* What has been updated in each row follows every step.
LEMMA UpdatesKept ==
  ASSUME ReportInv, NEW h \in Handler, HandlerStep(h)
  PROVE  UpdateInv'
  <1> SUFFICES ASSUME NEW c \in Counter PROVE \E updates : Ledger(c, updates)' BY DEF UpdateInv
  <1>1. PICK updates : Ledger(c, updates) BY DEF ReportInv, UpdateInv
  <1>2. \A k \in Handler \ {h} : handler'[k] = handler[k] BY OneHandler
  <1>3. /\ c \notin contended' => c \notin contended
        /\ c \notin contended' => \A k, l \in Handler : k # l /\ Writes(k, c)' /\ Writes(l, c)' =>
                                     handler'[k].row # handler'[l].row
    BY DEF HandlerStep, Contend, Writes
  <1>4. handler[h] \in Record /\ written \in [Counter -> Nat] BY DEF ReportInv, ReportShape
  <1>5. /\ IsFiniteSet(DOMAIN buckets) /\ updates \in [DOMAIN buckets -> Nat] /\ SumOf(updates) = written[c]
        /\ Len(buckets) \in Nat /\ DOMAIN buckets = 1 .. Len(buckets)
    <2>1. DOMAIN buckets = 1 .. Len(buckets) /\ Len(buckets) \in Nat
      BY LenProperties DEF ReportInv, ReportShape
    <2>2. IsFiniteSet(1 .. Len(buckets)) BY <2>1, FS_Interval
    <2>3. QED BY <1>1, <2>1, <2>2 DEF Ledger
  <1>6. ASSUME UNCHANGED <<buckets, written>>,
               Writes(h, c)' => /\ handler'[h].row \in DOMAIN buckets
                                /\ handler'[h].seen = buckets[handler'[h].row].count[c]
        PROVE  Ledger(c, updates)'
    <2>1. ASSUME NEW k \in Handler, Writes(k, c)'
          PROVE  /\ handler'[k].row \in DOMAIN buckets
                 /\ handler'[k].seen <= updates[handler'[k].row]
                 /\ c \notin contended => handler'[k].seen = updates[handler'[k].row]
      <3>1. CASE k = h BY <1>1, <1>6, <2>1, <3>1 DEF Ledger
      <3>2. CASE k # h
        <4>1. handler'[k] = handler[k] BY <1>2, <3>2
        <4>2. Writes(k, c) BY <2>1, <4>1 DEF Writes
        <4>3. QED BY <1>1, <4>1, <4>2 DEF Ledger
      <3>3. QED BY <3>1, <3>2
    <2>2. QED BY <1>1, <1>3, <1>5, <1>6, <2>1 DEF Ledger
  <1>7. CASE \E event \in OrderEvent, ordered \in Currency : Deliver(h, event, ordered)
    <2>1. handler'[h].pc = "list" /\ UNCHANGED <<buckets, written>>
      BY <1>7 DEF Deliver, ReportInv, ReportShape, NoEvent
    <2>2. QED BY <1>6, <2>1 DEF Writes
  <1>8. CASE List(h)
    BY <1>6, <1>8, Listed DEF Writes
  <1>9. CASE HandlerFails(h)
    <2>1. handler'[h].pc = "idle" /\ UNCHANGED <<buckets, written>>
      BY <1>9 DEF HandlerFails, ReportInv, ReportShape, NoEvent
    <2>2. QED BY <1>6, <2>1 DEF Writes
  <1>10. CASE Create(h)
    <2> DEFINE n == Len(buckets) + 1
               u == [i \in DOMAIN buckets \cup {n} |-> IF i = n THEN 0 ELSE updates[i]]
    <2>1. n \notin DOMAIN buckets /\ n \in Nat BY <1>5
    <2>2. SumOf(u) = SumOf(updates) + u[n]
      <3>1. DOMAIN updates = DOMAIN buckets /\ DOMAIN u = DOMAIN buckets \cup {n} BY <1>5
      <3>2. u[n] \in Nat /\ \A i \in DOMAIN updates : u[i] = updates[i] /\ updates[i] \in Nat BY <1>5, <2>1
      <3>3. IsFiniteSet(DOMAIN updates) /\ n \notin DOMAIN updates /\ DOMAIN u = DOMAIN updates \cup {n}
        BY <1>5, <2>1, <3>1
      <3> HIDE DEF u, n
      <3>4. QED BY <3>2, <3>3, SumExtended
    <2>3. /\ buckets' = Append(buckets, NewBucket(handler[h].currency)) /\ written' = written
          /\ handler'[h].pc = "write" /\ handler'[h].row = n /\ handler'[h].seen = 0
      BY <1>10 DEF Create, ReportInv, ReportShape, Record
    <2>4. /\ DOMAIN buckets' = DOMAIN buckets \cup {n}
          /\ \A i \in DOMAIN buckets : buckets'[i] = buckets[i]
          /\ buckets'[n] = NewBucket(handler[h].currency)
      <3>1. NewBucket(handler[h].currency) \in Row BY <1>4 DEF NewBucket, Row, Record
      <3>2. buckets \in Seq(Row) BY DEF ReportInv, ReportShape
      <3>3. Len(buckets') = n /\ buckets'[n] = NewBucket(handler[h].currency) /\ DOMAIN buckets' = 1 .. n
        BY <2>3, <3>1, <3>2, AppendProperties, LenProperties
      <3>4. \A i \in 1 .. Len(buckets) : buckets'[i] = buckets[i] BY <2>3, <3>1, <3>2, AppendProperties
      <3>5. QED BY <1>5, <3>3, <3>4
    <2>5. buckets'[n].count[c] = 0 BY <2>4 DEF NewBucket
    <2>6. SumOf(u) = written'[c] BY <1>4, <1>5, <2>2, <2>3
    <2>7. u \in [DOMAIN buckets' -> Nat] BY <1>5, <2>4
    <2>8. u[n] = 0 /\ \A i \in DOMAIN buckets : u[i] = updates[i] BY <2>1
    <2> HIDE DEF u
    <2>20. PICK new : new = u OBVIOUS
    <2>9. ASSUME NEW k \in Handler, Writes(k, c)'
          PROVE  /\ handler'[k].row \in DOMAIN buckets'
                 /\ handler'[k].seen <= u[handler'[k].row]
                 /\ c \notin contended => handler'[k].seen = u[handler'[k].row]
      <3>1. CASE k = h BY <2>3, <2>4, <2>8, <3>1
      <3>2. CASE k # h
        <4>1. handler'[k] = handler[k] BY <1>2, <3>2
        <4>2. Writes(k, c) BY <2>9, <4>1 DEF Writes
        <4>3. QED BY <1>1, <2>4, <2>8, <4>1, <4>2 DEF Ledger
      <3>3. QED BY <3>1, <3>2
    <2>10. \A i \in DOMAIN buckets' : /\ buckets'[i].count[c] <= u[i]
                                      /\ c \notin contended => buckets'[i].count[c] = u[i]
      BY <1>1, <2>4, <2>5, <2>8 DEF Ledger
    <2>11. Ledger(c, new)' BY <1>3, <2>6, <2>7, <2>9, <2>10, <2>20 DEF Ledger
    <2>12. QED BY <2>11
  <1>11. CASE Write(h) /\ handler[h].counter # c
    <2>1. written'[c] = written[c] /\ DOMAIN buckets' = DOMAIN buckets
          /\ \A i \in DOMAIN buckets : buckets'[i].count[c] = buckets[i].count[c]
      BY <1>4, <1>11, Written
    <2>2. ASSUME NEW k \in Handler, Writes(k, c)' PROVE handler'[k] = handler[k] /\ Writes(k, c)
      BY <1>2, <1>11, <2>2, Written DEF Writes
    <2>3. Ledger(c, updates)' BY <1>1, <1>3, <1>5, <2>1, <2>2 DEF Ledger
    <2>4. QED BY <2>3
  <1>12. CASE Write(h) /\ handler[h].counter = c
    <2> DEFINE r == handler[h].row
               u == [updates EXCEPT ![r] = updates[r] + 1]
    <2>1. /\ DOMAIN buckets' = DOMAIN buckets /\ r \in DOMAIN buckets
          /\ \A i \in DOMAIN buckets :
                buckets'[i].count[c] = IF i = r THEN handler[h].seen + 1 ELSE buckets[i].count[c]
          /\ handler'[h].pc # "write" /\ Writes(h, c)
      BY <1>12, Written DEF Writes
    <2>2. written'[c] = written[c] + 1 BY <1>4, <1>12, Written
    <2>3. updates[r] \in Nat /\ updates[r] + 1 \in Nat BY <1>5, <2>1
    <2>4. SumOf(u) = (SumOf(updates) - updates[r]) + (updates[r] + 1)
      <3>1. /\ IsFiniteSet(DOMAIN updates) /\ r \in DOMAIN updates
            /\ \A i \in DOMAIN updates : updates[i] \in Nat
        <4>1. DOMAIN updates = DOMAIN buckets BY <1>5
        <4>2. QED BY <1>5, <2>1, <4>1
      <3>2. \A v \in Nat : SumOf([updates EXCEPT ![r] = v]) = (SumOf(updates) - updates[r]) + v
        <4> HIDE DEF r
        <4>1. QED BY <3>1, SumUpdated
      <3>3. QED BY <2>3, <3>2
    <2>5. SumOf(u) = written'[c] BY <1>4, <1>5, <2>2, <2>3, <2>4
    <2>6. u \in [DOMAIN buckets' -> Nat] BY <1>5, <2>1, <2>3
    <2>7. u[r] = updates[r] + 1 /\ \A i \in DOMAIN buckets \ {r} : u[i] = updates[i] BY <1>5, <2>1
    <2> HIDE DEF u
    <2>8. \A i \in DOMAIN buckets' : /\ buckets'[i].count[c] <= u[i]
                                     /\ c \notin contended => buckets'[i].count[c] = u[i]
      <3>1. handler[h].seen <= updates[r] /\ (c \notin contended => handler[h].seen = updates[r])
        BY <1>1, <2>1 DEF Ledger
      <3>2. handler[h].seen \in Nat BY <1>4 DEF Record
      <3>3. \A i \in DOMAIN buckets : /\ buckets[i].count[c] <= updates[i]
                                      /\ c \notin contended => buckets[i].count[c] = updates[i]
        BY <1>1 DEF Ledger
      <3>4. QED BY <2>1, <2>3, <2>7, <3>1, <3>2, <3>3
    <2>9. ASSUME NEW k \in Handler, Writes(k, c)'
          PROVE  /\ handler'[k].row \in DOMAIN buckets'
                 /\ handler'[k].seen <= u[handler'[k].row]
                 /\ c \notin contended' => handler'[k].seen = u[handler'[k].row]
      <3>1. k # h BY <2>1, <2>9 DEF Writes
      <3>2. handler'[k] = handler[k] /\ Writes(k, c) BY <1>2, <2>9, <3>1 DEF Writes
      <3>3. /\ handler[k].row \in DOMAIN buckets /\ handler[k].seen <= updates[handler[k].row]
            /\ c \notin contended => handler[k].seen = updates[handler[k].row]
            /\ c \notin contended => handler[k].row # r
        BY <1>1, <2>1, <3>1, <3>2 DEF Ledger
      <3>4. handler[k].seen \in Nat BY DEF ReportInv, ReportShape, Record
      <3>5. QED BY <1>3, <2>1, <2>3, <2>7, <3>2, <3>3, <3>4
    <2>20. PICK new : new = u OBVIOUS
    <2>10. Ledger(c, new)' BY <1>3, <2>5, <2>6, <2>8, <2>9, <2>20 DEF Ledger
    <2>11. QED BY <2>10
  <1>13. QED BY <1>7, <1>8, <1>9, <1>10, <1>11, <1>12 DEF HandlerStep

\* A restart loses handlers and what they owe, and no row.
LEMMA RestartKeeps == ReportInv /\ ReportRestart => ReportInv'
  <1> SUFFICES ASSUME ReportInv, ReportRestart PROVE ReportInv' OBVIOUS
  <1> USE DEF ReportInv
  <1>1. /\ UNCHANGED <<buckets, orderEvents, written, contended>>
        /\ handler' = [h \in Handler |-> NoEvent] /\ \A h \in Handler : handler'[h] = NoEvent
    BY DEF ReportRestart
  <1>2. ReportShape' BY <1>1, NothingUnder DEF ReportShape
  <1>3. EventInv'
    <2>1. (\A c \in Counter : Owes(c)' = {}) /\ MayCreate' = {} /\ Placing' = {}
      BY <1>1, NothingUnder DEF Owes, MayCreate, Placing, Under
    <2>2. IsFiniteSet({}) /\ Cardinality({}) = 0 BY FS_EmptySet
    <2>3. /\ IsFiniteSet(MayCreate') /\ Cardinality(MayCreate') = 0
          /\ IsFiniteSet(Placing') /\ Cardinality(Placing') = 0
          /\ \A c \in Counter : IsFiniteSet(Owes(c)') /\ Cardinality(Owes(c)') = 0
      BY <2>1, <2>2, Zenon
    <2>4. /\ written \in [Counter -> Nat] /\ orderEvents \in Nat /\ Len(buckets) \in Nat
      BY LenProperties, OrderEventsAssumption DEF ReportShape
    <2>5. /\ Cardinality(MayCreate) \in Nat /\ Cardinality(Placing) \in Nat
          /\ \A c \in Counter : Cardinality(Owes(c)) \in Nat
      BY FS_CardinalityType DEF EventInv
    <2>6. QED BY <1>1, <2>3, <2>4, <2>5 DEF EventInv
  <1>4. UpdateInv'
    <2>1. \A k \in Handler : \A c : ~ Writes(k, c)' BY <1>1, NothingUnder DEF Writes
    <2>2. ASSUME NEW c \in Counter, NEW updates, Ledger(c, updates) PROVE Ledger(c, updates)'
      BY <1>1, <2>1, <2>2 DEF Ledger
    <2>3. QED BY <2>2 DEF UpdateInv
  <1>5. QED BY <1>2, <1>3, <1>4

\* The inductive invariant of the reports, for any number of handlers, currencies,
\* events and restarts.
THEOREM ReportInvariance == ReportSpec => []ReportInv
  <1>1. ReportInv /\ [ReportNext]_reportVars => ReportInv'
    <2> SUFFICES ASSUME ReportInv, [ReportNext]_reportVars PROVE ReportInv' OBVIOUS
    <2>1. CASE ReportRestart BY <2>1, RestartKeeps
    <2>2. ASSUME NEW h \in Handler, HandlerStep(h) PROVE ReportInv'
      BY <2>2, ShapeKept, EventsKept, UpdatesKept DEF ReportInv
    <2>3. CASE UNCHANGED reportVars
      <3>1. UNCHANGED <<buckets, handler, orderEvents, written, contended>> BY <2>3 DEF reportVars
      <3>2. ReportShape' BY <3>1 DEF ReportInv, ReportShape
      <3>3. EventInv' BY <3>1 DEF ReportInv, EventInv, Owes, MayCreate, Placing, Under
      <3>4. ASSUME NEW c, NEW updates, Ledger(c, updates) PROVE Ledger(c, updates)'
        BY <3>1, <3>4 DEF Ledger, Writes
      <3>5. QED BY <3>2, <3>3, <3>4 DEF ReportInv, UpdateInv
    <2>4. QED BY <2>1, <2>2, <2>3 DEF ReportNext
  <1>2. QED BY <1>1, ReportInitially, PTL DEF ReportSpec

\* Rows, counts, handlers and counters keep their types, within the bound that
\* two updates and two rows an event can cause set.
THEOREM ReportTypes == ReportSpec => []ReportTypeOK
  <1>1. ASSUME ReportInv PROVE ReportTypeOK
    <2> USE DEF ReportInv
    <2>1. /\ orderEvents \in 0 .. MaxOrderEvents /\ written \in [Counter -> Nat] /\ Len(buckets) \in Nat
          /\ DOMAIN buckets = 1 .. Len(buckets) /\ contended \subseteq Counter
      BY <1>1, LenProperties DEF ReportShape
    <2>2. /\ Cardinality(MayCreate) \in Nat /\ Cardinality(Placing) \in Nat
          /\ \A c \in Counter : Cardinality(Owes(c)) \in Nat
      BY <1>1, FS_CardinalityType DEF EventInv
    <2>3. Len(buckets) \in Count
      BY <1>1, <2>1, <2>2, OrderEventsAssumption DEF EventInv, Count
    <2>4. \A c \in Counter : written[c] \in Count
      BY <1>1, <2>1, <2>2, OrderEventsAssumption DEF EventInv, Count
    <2>5. ASSUME NEW c \in Counter, NEW n \in Nat, NEW updates, Ledger(c, updates),
                 NEW i \in DOMAIN buckets, n <= updates[i]
          PROVE  n \in Count
      <3>1. IsFiniteSet(DOMAIN buckets) BY <2>1, FS_Interval
      <3>2. updates \in [DOMAIN buckets -> Nat] /\ SumOf(updates) = written[c] BY <2>5 DEF Ledger
      <3>3. updates[i] <= SumOf(updates) BY <3>1, <3>2, SumBounds
      <3>4. QED BY <2>1, <2>4, <2>5, <3>2, <3>3, OrderEventsAssumption DEF Count
    <2>6. buckets \in Seq(Bucket)
      <3>1. ASSUME NEW i \in DOMAIN buckets PROVE buckets[i] \in Bucket
        <4>1. buckets[i] \in Row BY <1>1, ElementOfSeq, LenProperties DEF ReportShape
        <4>2. ASSUME NEW c \in Counter PROVE buckets[i].count[c] \in Count
          <5>1. PICK updates : Ledger(c, updates) BY <1>1 DEF UpdateInv
          <5>2. buckets[i].count[c] <= updates[i] BY <5>1 DEF Ledger
          <5>3. buckets[i].count[c] \in Nat BY <4>1 DEF Row
          <5>4. QED BY <2>5, <5>1, <5>2, <5>3
        <4>3. QED BY <4>1, <4>2 DEF Row, Bucket
      <3>2. QED BY <1>1, <2>1, <3>1, IsASeq DEF ReportShape
    <2>7. handler \in [Handler -> HandlerRecord]
      <3>1. ASSUME NEW h \in Handler PROVE handler[h] \in HandlerRecord
        <4>1. handler[h] \in Record BY <1>1 DEF ReportShape
        <4>2. handler[h].row \in Count /\ handler[h].seen \in Count
          <5>1. CASE handler[h].pc # "write"
            BY <1>1, <5>1, OrderEventsAssumption DEF ReportShape, Count
          <5>2. CASE handler[h].pc = "write"
            <6>1. handler[h].counter \in Counter /\ handler[h].seen \in Nat BY <4>1 DEF Record
            <6>2. PICK updates : Ledger(handler[h].counter, updates) BY <1>1, <6>1 DEF UpdateInv
            <6>3. handler[h].row \in DOMAIN buckets /\ handler[h].seen <= updates[handler[h].row]
              BY <5>2, <6>2 DEF Ledger, Writes
            <6>4. handler[h].row \in Count BY <2>1, <2>3, <6>3, OrderEventsAssumption DEF Count
            <6>5. QED BY <2>5, <6>1, <6>2, <6>3, <6>4
          <5>3. QED BY <5>1, <5>2
        <4>3. QED BY <4>1, <4>2 DEF Record, HandlerRecord
      <3>2. QED BY <1>1, <3>1 DEF ReportShape
    <2>8. QED BY <2>1, <2>4, <2>6, <2>7 DEF ReportTypeOK
  <1>2. QED BY <1>1, ReportInvariance, PTL

\* The figures of the day never exceed the events recorded, and fall short only
\* of a counter that two handlers have held in one row, for any number of
\* handlers, rows and events.
THEOREM CountsExact == ReportSpec => []CountsExactUnlessContended
  <1>1. ASSUME ReportInv PROVE CountsExactUnlessContended
    <2> SUFFICES ASSUME NEW c \in Counter
                 PROVE  /\ Total(c) <= written[c]
                        /\ c \notin contended => Total(c) = written[c]
      BY DEF CountsExactUnlessContended
    <2> DEFINE shown == [i \in DOMAIN buckets |-> buckets[i].count[c]]
    <2>1. PICK updates : Ledger(c, updates) BY <1>1 DEF ReportInv, UpdateInv
    <2>2. Total(c) = SumOf(shown) BY DEF Total, SumOf, FoldFunction, FoldFunctionOnSet, MapThenFoldSet
    <2>3. IsFiniteSet(DOMAIN buckets)
      <3>1. DOMAIN buckets = 1 .. Len(buckets) /\ Len(buckets) \in Nat
        BY <1>1, LenProperties DEF ReportInv, ReportShape
      <3>2. QED BY <3>1, FS_Interval
    <2>4. /\ updates \in [DOMAIN buckets -> Nat] /\ SumOf(updates) = written[c]
          /\ \A i \in DOMAIN buckets : shown[i] <= updates[i]
          /\ c \notin contended => \A i \in DOMAIN buckets : shown[i] = updates[i]
      BY <2>1 DEF Ledger
    <2>5. \A i \in DOMAIN buckets : shown[i] \in Nat
      <3>1. \A i \in DOMAIN buckets : buckets[i] \in Row
        BY <1>1, ElementOfSeq, LenProperties DEF ReportInv, ReportShape
      <3>2. QED BY <3>1 DEF Row
    <2>6. DOMAIN shown = DOMAIN buckets /\ DOMAIN updates = DOMAIN buckets BY <2>4
    <2>7. shown = [i \in DOMAIN buckets |-> shown[i]] OBVIOUS
    <2> HIDE DEF shown
    <2>8. SumOf(shown) <= SumOf(updates) BY <2>3, <2>4, <2>5, <2>6, SumMonotone
    <2>9. c \notin contended => shown = updates BY <2>4, <2>7
    <2>10. QED BY <2>2, <2>4, <2>8, <2>9
  <1>2. QED BY <1>1, ReportInvariance, PTL

-----------------------------------------------------------------------------
(* The process. *)

LoadInv == load \in Loads

LEMMA LoadInvariance == Spec => []LoadInv
  <1>1. Init => LoadInv BY DEF Init, LoadInv
  <1>2. LoadInv /\ [Next]_vars => LoadInv'
    BY DEF LoadInv, Next, IndexStep, CacheStep, ReportStep, Restart, vars
  <1>3. QED BY <1>1, <1>2, PTL DEF Spec

\* The search index in the process behaves as SearchIndex says.
THEOREM ComposesSearch == Spec => SearchSpec
  <1>1. Init => SearchInit BY DEF Init
  <1>2. LoadInv /\ [Next]_vars => [SearchNext]_<<products, searchVars>>
    <2> SUFFICES ASSUME LoadInv, [Next]_vars PROVE [SearchNext]_<<products, searchVars>>
      OBVIOUS
    <2>1. CASE IndexStep
      <3>1. load.searching \subseteq Search BY LoadsAssumption DEF LoadInv
      <3>2. QED BY <2>1, <3>1 DEF IndexStep, SearchNext
    <2>2. CASE CacheStep
      BY <2>2 DEF CacheStep, RequestStep, InvalidateCache, PurgeRedis
    <2>3. CASE ReportStep BY <2>3 DEF ReportStep
    <2>4. CASE Restart BY <2>4 DEF Restart, SearchNext
    <2>5. CASE WriteProduct /\ UNCHANGED searchVars BY <2>5 DEF SearchNext
    <2>6. CASE UNCHANGED vars BY <2>6 DEF vars
    <2>7. QED BY <2>1, <2>2, <2>3, <2>4, <2>5, <2>6 DEF Next
  <1>3. QED BY <1>1, <1>2, LoadInvariance, PTL DEF Spec, SearchSpec

\* The catalogue cache in the process behaves as CatalogCache says.
THEOREM ComposesCache == Spec => CacheSpec
  <1>1. Init => CacheInit BY DEF Init
  <1>2. [Next]_vars => [CacheNext]_<<products, cacheVars>>
    <2> SUFFICES ASSUME [Next]_vars PROVE [CacheNext]_<<products, cacheVars>>
      OBVIOUS
    <2>1. CASE IndexStep
      <3>1. UNCHANGED products
        BY <2>1 DEF IndexStep, SearchStep, BeginSearch, ResumeSearch, Fetch, Install, RebuildFails,
                    Finally, QueryAnswers, EndSearch, InvalidateIndex, IndexAges
      <3>2. QED BY <2>1, <3>1 DEF IndexStep
    <2>2. CASE CacheStep BY <2>2 DEF CacheStep, CacheNext
    <2>3. CASE ReportStep BY <2>3 DEF ReportStep
    <2>4. CASE Restart BY <2>4 DEF Restart, CacheNext
    <2>5. CASE WriteProduct /\ UNCHANGED cacheVars BY <2>5 DEF CacheNext
    <2>6. CASE UNCHANGED vars BY <2>6 DEF vars
    <2>7. QED BY <2>1, <2>2, <2>3, <2>4, <2>5, <2>6 DEF Next
  <1>3. QED BY <1>1, <1>2, PTL DEF Spec, CacheSpec

\* The reporting subscriber in the process behaves as CommerceReporting says.
THEOREM ComposesReport == Spec => ReportSpec
  <1>1. Init => ReportInit BY DEF Init
  <1>2. LoadInv /\ [Next]_vars => [ReportNext]_reportVars
    <2> SUFFICES ASSUME LoadInv, [Next]_vars PROVE [ReportNext]_reportVars
      OBVIOUS
    <2>1. CASE ReportStep
      <3>1. load.handling \subseteq Handler BY LoadsAssumption DEF LoadInv
      <3>2. QED BY <2>1, <3>1 DEF ReportStep, ReportNext
    <2>2. CASE IndexStep BY <2>2 DEF IndexStep
    <2>3. CASE CacheStep BY <2>3 DEF CacheStep
    <2>4. CASE Restart BY <2>4 DEF Restart, ReportNext
    <2>5. CASE UNCHANGED reportVars BY <2>5
    <2>6. CASE UNCHANGED vars BY <2>6 DEF vars
    <2>7. QED BY <2>1, <2>2, <2>3, <2>4, <2>5, <2>6 DEF Next
  <1>3. QED BY <1>1, <1>2, LoadInvariance, PTL DEF Spec, ReportSpec

-----------------------------------------------------------------------------
\* Every part of the process keeps its types.
THEOREM ProcessTypes == Spec => []TypeOK
  <1>1. SearchTypeOK /\ CacheTypeOK /\ ReportTypeOK => TypeOK BY DEF TypeOK
  <1>2. QED BY <1>1, ComposesSearch, ComposesCache, ComposesReport, SearchTypes, CacheTypes, ReportTypes, PTL

\* In the composed process, under any load: rebuilds are shared, what is stale is
\* so in the named circumstances only, nobody waits for what has ended, and
\* the day's figures are right.
THEOREM ProcessSafe ==
  Spec => [](/\ RebuildsCoalesced /\ StaleOnlyIfOverlapped /\ PromiseLive
             /\ StaleOnlyAcrossRestart /\ SingleFlight /\ JoinedIsBuilding
             /\ CountsExactUnlessContended)
  BY ComposesSearch, ComposesCache, ComposesReport, Coalescing, IndexFreshness, PromisesSettle,
     AnswersFresh, OneBuild, JoinedBuilds, CountsExact, PTL
=============================================================================
