---------------------------- MODULE CatalogCache ----------------------------
(***************************************************************************)
(* The cache of the shop's listings and facets in the Medusa process:      *)
(* modules/shopCatalog over lib/tiered-cache (memory, then Redis).         *)
(*                                                                         *)
(* Keys carry a generation that a product event raises; so whatever an     *)
(* overtaken request still writes goes under a key nobody will ask for.    *)
(* Redis outlives the process and the generation does not: it counts from  *)
(* 1 again after a restart.                                                *)
(*                                                                         *)
(* One region, one category scope.  A request runs from await to await;    *)
(* what it gathers has the version of the oldest data in it and the life   *)
(* of the process that read them.  Entries expire at any time: a lookup    *)
(* may miss what is there.                                                 *)
(***************************************************************************)
EXTENDS ProductStore

CONSTANTS
    Request,     \* requests that may be under way at the same time
    Asked,       \* bound: the kinds of request made
    MaxRequests, \* bound: requests begun
    MaxFaults,   \* bound: entries that expire and Redis calls that fail
    MaxLives     \* bound: lives of the process

ASSUME LivesAssumption == MaxLives \in Nat \ {0}
ASSUME RequestsAssumption == MaxRequests \in Nat /\ MaxFaults \in Nat /\ Asked \subseteq {"facets", "index", "sorted"}
ASSUME RequestAssumption == None \notin Request

VARIABLES
    cacheGeneration, \* counts the invalidations of this life, from 1
    scopeBuilds,     \* scopeBuilds[g]: the request building the scope of generation g
    memory, redis,   \* the two tiers: what is stored under each key
    purging,         \* is the deletion of the Redis keys still to come
    request,         \* request[r]: where request r is and what it holds
    life,            \* which life of the process this is
    begun, faults,   \* requests begun; expiries and failures so far
    cacheEvents,     \* product events handled
    bornAt           \* history: the version when a generation of this life began

tierVars  == <<memory, redis, faults>>
cacheVars == <<cacheGeneration, scopeBuilds, tierVars, purging, request, life, begun, cacheEvents, bornAt>>

Generation == 1 .. MaxProducts + 1
Life       == 1 .. MaxLives
Data       == [version : Version, life : Life]
Maybe      == Data \cup {None}

ASSUME NoDataAssumption == None \notin Data

\* What a request asks for: facets, a filtered listing, a sorted one with facets.
Kind == {"facets", "index", "sorted"}

ScopeKey(g)          == <<"scope", g, g>>
SortedKey(g, scope)  == <<"sorted list", g, scope>>
ResponseKey(kind, g) == <<kind, g, g>>
Key == {ScopeKey(g) : g \in Generation} \cup {SortedKey(g, s) : g, s \in Generation}
       \cup {ResponseKey(kind, g) : kind \in Kind, g \in Generation}

Owner == {"getScope", "fetch", "keepScope", "putScope", "getBuilt"}
RequestPoint ==
    Owner \cup {"idle", "getResponse", "scope", "joined", "sort", "getSorted", "order",
                "keepSorted", "putSorted", "page", "keepResponse", "putResponse", "done"}

\* "gen", "scope", "sorted": the generations in its keys; "of": the build it joined;
\* "built": what its own build has read; "data": what it answers from; "again": asks
\* for the scope a second time, for the facets.
RequestRecord ==
    [pc : RequestPoint, kind : Kind, gen : Generation, scope : Generation,
     sorted : Generation, of : Request \cup {None}, built : Maybe, data : Maybe,
     again : BOOLEAN]
NoRequest == [pc |-> "idle", kind |-> "facets", gen |-> 1, scope |-> 1, sorted |-> 1,
              of |-> None, built |-> None, data |-> None, again |-> FALSE]

Tier == [Key -> Maybe]
EmptyTier == [k \in Key |-> None]

CacheTypeOK ==
    /\ products \in Version
    /\ cacheGeneration \in Generation
    /\ scopeBuilds \in [Generation -> Request \cup {None}]
    /\ memory \in Tier
    /\ redis \in Tier
    /\ purging \in BOOLEAN
    /\ request \in [Request -> RequestRecord]
    /\ life \in Life
    /\ begun \in 0 .. MaxRequests
    /\ faults \in 0 .. MaxFaults
    /\ cacheEvents \in Version
    /\ bornAt \in [Generation -> Version]

CacheInit ==
    /\ products = 0
    /\ cacheGeneration = 1
    /\ scopeBuilds = [g \in Generation |-> None]
    /\ memory = EmptyTier
    /\ purging = FALSE
    /\ request = [r \in Request |-> NoRequest]
    /\ bornAt = [g \in Generation |-> 0]
    /\ redis = EmptyTier
    /\ life = 1
    /\ begun = 0
    /\ faults = 0
    /\ cacheEvents = 0


-----------------------------------------------------------------------------
(***************************************************************************)
(* The tiered cache                                                        *)
(***************************************************************************)
Fault == faults < MaxFaults /\ faults' = faults + 1

\* tieredCacheGet: a hit in memory, else what Redis has, which memory then keeps.
\* A fault: the entry in memory, or in both tiers, has expired, or Redis fails.
Lookup(key, found) ==
    /\ \/ found = (IF memory[key] # None THEN memory[key] ELSE redis[key]) /\ UNCHANGED faults
       \/ found \in {redis[key], None} /\ Fault
    /\ memory' = IF found = None THEN memory ELSE [memory EXCEPT ![key] = found]
    /\ UNCHANGED redis

WriteMemory(key, data) == memory' = [memory EXCEPT ![key] = data] /\ UNCHANGED <<redis, faults>>

\* redis.set; a failure is swallowed.
WriteRedis(key, data) ==
    /\ \/ redis' = [redis EXCEPT ![key] = data] /\ UNCHANGED faults
       \/ UNCHANGED redis /\ Fault
    /\ UNCHANGED memory

-----------------------------------------------------------------------------
(***************************************************************************)
(* A request                                                               *)
(***************************************************************************)
Go(r, point) == request' = [request EXCEPT ![r].pc = point]

\* The response key is computed now; the result will be stored under it.
BeginRequest(r, kind) ==
    /\ request[r].pc = "idle"
    /\ begun < MaxRequests
    /\ begun' = begun + 1
    /\ request' = [request EXCEPT ![r] = [NoRequest EXCEPT !.pc = "getResponse", !.kind = kind,
                                                           !.gen = cacheGeneration]]
    /\ UNCHANGED <<scopeBuilds, tierVars>>

GetResponse(r) ==
    LET key == ResponseKey(request[r].kind, request[r].gen) IN
    /\ request[r].pc = "getResponse"
    /\ \E found \in Maybe :
          /\ Lookup(key, found)
          /\ request' = [request EXCEPT ![r].pc = IF found = None THEN "scope" ELSE "done",
                                        ![r].data = found]
    /\ UNCHANGED scopeBuilds

\* Mutant: the build is not registered.
EnterScopeAlone(r) ==
    /\ request[r].pc = "scope"
    /\ request' = [request EXCEPT ![r].pc = "getScope", ![r].scope = cacheGeneration]
    /\ UNCHANGED <<scopeBuilds, tierVars>>

\* getOrCreateScopeBuild: join the build of the current generation, or be it.
EnterScope(r) ==
    /\ request[r].pc = "scope"
    /\ LET owner == scopeBuilds[cacheGeneration] IN
       IF owner # None
       THEN /\ request' = [request EXCEPT ![r].pc = "joined", ![r].of = owner,
                                          ![r].scope = cacheGeneration]
            /\ UNCHANGED scopeBuilds
       ELSE /\ request' = [request EXCEPT ![r].pc = "getScope", ![r].scope = cacheGeneration]
            /\ scopeBuilds' = [scopeBuilds EXCEPT ![cacheGeneration] = r]
    /\ UNCHANGED tierVars

\* The oldest of what an answer is made of.
Older(a, b) ==
    IF a = None THEN b
    ELSE [version |-> IF a.version < b.version THEN a.version ELSE b.version,
          life    |-> IF a.life < b.life THEN a.life ELSE b.life]

\* Where a request goes on once it has the scope.
AfterScope(q) ==
    IF q.kind = "index" THEN "page"
    ELSE IF q.kind = "sorted" /\ ~q.again THEN "sort" ELSE "keepResponse"

Shares(p, r) == p = r \/ (request[p].pc = "joined" /\ request[p].of = r)

\* Mutant: only the request that built the scope goes on.
SettledAlone(r, data) ==
    /\ request' = [request EXCEPT ![r].pc = AfterScope(request[r]), ![r].built = None,
                                  ![r].data = Older(request[r].data, data)]
    /\ scopeBuilds' = [scopeBuilds EXCEPT ![request[r].scope] = None]

\* The build ends: its entry leaves scopeBuilds, all who share it have its data.
Settled(r, data) ==
    /\ request' = [p \in Request |->
                     IF Shares(p, r)
                     THEN [request[p] EXCEPT !.pc = AfterScope(request[p]), !.of = None, !.built = None,
                                             !.data = Older(request[p].data, data)]
                     ELSE request[p]]
    /\ scopeBuilds' = [scopeBuilds EXCEPT ![request[r].scope] = None]

GetScope(r) ==
    LET key == ScopeKey(request[r].scope) IN
    /\ request[r].pc = "getScope"
    /\ \E found \in Maybe :
          /\ Lookup(key, found)
          /\ IF found = None THEN Go(r, "fetch") /\ UNCHANGED scopeBuilds ELSE Settled(r, found)

FetchScope(r) ==
    /\ request[r].pc = "fetch"
    /\ request' = [request EXCEPT ![r].pc = "keepScope",
                                  ![r].built = [version |-> products, life |-> life]]
    /\ UNCHANGED <<scopeBuilds, tierVars>>

\* The database throws: all who share the build answer with an error.
FetchFails(r) ==
    /\ request[r].pc = "fetch"
    /\ request' = [p \in Request |-> IF Shares(p, r) THEN NoRequest ELSE request[p]]
    /\ scopeBuilds' = [scopeBuilds EXCEPT ![request[r].scope] = None]
    /\ UNCHANGED tierVars

KeepScope(r) ==
    /\ request[r].pc = "keepScope"
    /\ WriteMemory(ScopeKey(request[r].scope), request[r].built)
    /\ Go(r, "putScope")
    /\ UNCHANGED scopeBuilds

PutScope(r) ==
    /\ request[r].pc = "putScope"
    /\ WriteRedis(ScopeKey(request[r].scope), request[r].built)
    /\ Go(r, "getBuilt")
    /\ UNCHANGED scopeBuilds

\* const stored = await getCachedShopScopeData(key): the build's own data if it is gone.
GetBuilt(r) ==
    LET key == ScopeKey(request[r].scope) IN
    /\ request[r].pc = "getBuilt"
    /\ \E found \in Maybe :
          /\ Lookup(key, found)
          /\ Settled(r, IF found = None THEN request[r].built ELSE found)

\* The key of the sorted ids has the current generation and the scope's.
Sort(r) ==
    /\ request[r].pc = "sort"
    /\ request' = [request EXCEPT ![r].pc = "getSorted", ![r].sorted = cacheGeneration]
    /\ UNCHANGED <<scopeBuilds, tierVars>>

GetSorted(r) ==
    LET key == SortedKey(request[r].sorted, request[r].scope) IN
    /\ request[r].pc = "getSorted"
    /\ \E found \in Maybe :
          /\ Lookup(key, found)
          /\ request' = [request EXCEPT
                           ![r].pc = IF found = None THEN "order" ELSE "page",
                           ![r].data = IF found = None THEN @ ELSE found]
    /\ UNCHANGED scopeBuilds

\* fetchProductsByIds of the scope's entries, to order them.
Order(r) ==
    /\ request[r].pc = "order"
    /\ Go(r, "keepSorted")
    /\ UNCHANGED <<scopeBuilds, tierVars>>

KeepSorted(r) ==
    /\ request[r].pc = "keepSorted"
    /\ WriteMemory(SortedKey(request[r].sorted, request[r].scope), request[r].data)
    /\ Go(r, "putSorted")
    /\ UNCHANGED scopeBuilds

PutSorted(r) ==
    /\ request[r].pc = "putSorted"
    /\ WriteRedis(SortedKey(request[r].sorted, request[r].scope), request[r].data)
    /\ Go(r, "page")
    /\ UNCHANGED scopeBuilds

\* The products of the page are read from the database; a sorted listing then
\* asks for the scope again, for its facets.
Page(r) ==
    /\ request[r].pc = "page"
    /\ request' = [request EXCEPT ![r].pc = IF request[r].kind = "sorted" THEN "scope" ELSE "keepResponse",
                                  ![r].again = TRUE]
    /\ UNCHANGED <<scopeBuilds, tierVars>>

ReadFails(r) ==
    /\ request[r].pc \in {"order", "page"}
    /\ request' = [request EXCEPT ![r] = NoRequest]
    /\ UNCHANGED <<scopeBuilds, tierVars>>

\* Mutant: the response key is computed when the result is stored.
KeepResponseNow(r) ==
    /\ request[r].pc = "keepResponse"
    /\ WriteMemory(ResponseKey(request[r].kind, cacheGeneration), request[r].data)
    /\ Go(r, "putResponse")
    /\ UNCHANGED scopeBuilds

KeepResponse(r) ==
    /\ request[r].pc = "keepResponse"
    /\ WriteMemory(ResponseKey(request[r].kind, request[r].gen), request[r].data)
    /\ Go(r, "putResponse")
    /\ UNCHANGED scopeBuilds

PutResponse(r) ==
    /\ request[r].pc = "putResponse"
    /\ WriteRedis(ResponseKey(request[r].kind, request[r].gen), request[r].data)
    /\ Go(r, "done")
    /\ UNCHANGED scopeBuilds

EndRequest(r) ==
    /\ request[r].pc = "done"
    /\ request' = [request EXCEPT ![r] = NoRequest]
    /\ UNCHANGED <<scopeBuilds, tierVars>>

OnRequest(r) ==
    \/ GetResponse(r) \/ EnterScope(r) \/ GetScope(r) \/ FetchScope(r) \/ FetchFails(r)
    \/ KeepScope(r) \/ PutScope(r) \/ GetBuilt(r) \/ Sort(r) \/ GetSorted(r) \/ Order(r)
    \/ KeepSorted(r) \/ PutSorted(r) \/ Page(r) \/ ReadFails(r)
    \/ KeepResponse(r) \/ PutResponse(r) \/ EndRequest(r)

RequestStep(r) ==
    /\ \/ \E kind \in Asked : BeginRequest(r, kind)
       \/ OnRequest(r) /\ UNCHANGED begun
    /\ UNCHANGED <<products, cacheGeneration, purging, life, cacheEvents, bornAt>>

-----------------------------------------------------------------------------
(***************************************************************************)
(* Events and restarts                                                     *)
(***************************************************************************)
\* invalidateShopCatalogCache up to its first await.
InvalidateCache ==
    /\ cacheEvents < products
    /\ cacheEvents' = cacheEvents + 1
    /\ cacheGeneration' = cacheGeneration + 1
    /\ scopeBuilds' = [g \in Generation |-> None]
    /\ memory' = EmptyTier
    /\ purging' = TRUE
    /\ bornAt' = [bornAt EXCEPT ![cacheGeneration + 1] = products]
    /\ UNCHANGED <<products, redis, faults, request, life, begun>>

\* The scan deletes every key, or breaks off: what it left expires.
PurgeRedis ==
    /\ purging
    /\ purging' = FALSE
    /\ \/ redis' = EmptyTier /\ UNCHANGED faults
       \/ UNCHANGED redis /\ Fault
    /\ UNCHANGED <<products, cacheGeneration, scopeBuilds, memory, request, life, begun, cacheEvents, bornAt>>

CacheRestart ==
    /\ life < MaxLives
    /\ life' = life + 1
    /\ cacheGeneration' = 1
    /\ scopeBuilds' = [g \in Generation |-> None]
    /\ memory' = EmptyTier
    /\ purging' = FALSE
    /\ request' = [r \in Request |-> NoRequest]
    /\ bornAt' = [g \in Generation |-> 0]
    /\ UNCHANGED <<products, redis, faults, begun, cacheEvents>>

CacheNext ==
    \/ \E r \in Request : RequestStep(r)
    \/ InvalidateCache
    \/ PurgeRedis
    \/ CacheRestart
    \/ WriteProduct /\ UNCHANGED cacheVars

CacheSpec == CacheInit /\ [][CacheNext]_<<products, cacheVars>>

-----------------------------------------------------------------------------
(***************************************************************************)
(* What shoppers and the database may rely on                              *)
(***************************************************************************)
\* No answer is older than the last product event handled before its request
\* began, unless it comes from what an earlier process left in Redis.
StaleOnlyAcrossRestart ==
    \A r \in Request : request[r].pc = "done" =>
        \/ request[r].data.version >= bornAt[request[r].gen]
        \/ request[r].data.life < life

\* One build of a scope at a time, however many requests need it.
SingleFlight ==
    \A r, q \in Request :
        /\ request[r].pc \in Owner /\ request[q].pc \in Owner
        /\ request[r].scope = request[q].scope
        => r = q

\* A request that joined a build waits for one that is still under way.
JoinedIsBuilding ==
    \A r \in Request : request[r].pc = "joined" =>
        /\ request[r].of \in Request
        /\ request[request[r].of].pc \in Owner
        /\ request[request[r].of].scope = request[r].scope
=============================================================================
