------------------------ MODULE CatalogCache_proofs ------------------------
(***************************************************************************)
(* Proofs about the catalogue cache, for any number of requests, writes,   *)
(* faults and lives of the process.                                        *)
(*                                                                         *)
(* Whatever is stored under a key was read by an earlier process, or is as *)
(* new as the beginning of the generation in the key; and a request only   *)
(* asks for keys of its own generation or of later ones.  A build that an  *)
(* invalidation overtakes keeps the generation it began in, so what it     *)
(* stores is good enough for those who still share its keys.               *)
(***************************************************************************)
EXTENDS CatalogCache, TLAPS

\* Good enough for generation g of this life, or left by an earlier process.
Fresh(data, g) ==
    /\ data \in Data
    /\ data.life <= life
    /\ data.life < life \/ (g <= cacheGeneration /\ data.version >= bornAt[g])

TierInv ==
    \A k \in Key : /\ memory[k] # None => Fresh(memory[k], k[3])
                   /\ redis[k] # None => Fresh(redis[k], k[3])

\* Generations begin one after the other, the latest with the last event.
GenerationInv ==
    /\ cacheGeneration <= cacheEvents + 1
    /\ \A g \in Generation : bornAt[g] <= products
    /\ \A g, h \in Generation : g <= h /\ h <= cacheGeneration => bornAt[g] <= bornAt[h]

Sorting == {"sort", "getSorted", "order", "keepSorted", "putSorted"}
Scoped  == Owner \cup Sorting \cup {"joined"}

RequestFresh(q) ==
    /\ q.pc # "idle" => q.gen <= cacheGeneration
    /\ q.pc \in Scoped => q.gen <= q.scope /\ q.scope <= cacheGeneration
    /\ q.data # None => Fresh(q.data, q.gen)
    /\ q.pc \in Sorting => q.data # None /\ Fresh(q.data, q.scope)
    /\ q.pc \in {"page", "keepResponse", "putResponse", "done"} => q.data # None
    /\ q.pc \in {"keepScope", "putScope", "getBuilt"} => Fresh(q.built, q.scope)
    /\ q.pc \in Owner \cup {"scope", "joined"} /\ ~q.again => q.data = None

RequestInv == \A r \in Request : RequestFresh(request[r])

\* scopeBuilds names owners; the owner of the current generation is in it.
BuildInv ==
    /\ \A g \in Generation : scopeBuilds[g] # None =>
          request[scopeBuilds[g]].pc \in Owner /\ request[scopeBuilds[g]].scope = g
    /\ \A r \in Request : request[r].pc \in Owner /\ request[r].scope = cacheGeneration =>
          scopeBuilds[cacheGeneration] = r

SharingInv == BuildInv /\ SingleFlight /\ JoinedIsBuilding

IInv == CacheTypeOK /\ GenerationInv /\ TierInv /\ RequestInv /\ SharingInv

-----------------------------------------------------------------------------
(***************************************************************************)
(* Keys and data.                                                          *)
(***************************************************************************)
LEMMA ScopeKeys ==
    ASSUME NEW g \in Generation
    PROVE  ScopeKey(g) \in Key /\ ScopeKey(g)[3] = g
  <1>1. ScopeKey(g) \in Key BY DEF Key
  <1>2. ScopeKey(g)[3] = g BY DEF ScopeKey
  <1>3. QED BY <1>1, <1>2

LEMMA Keys ==
    ASSUME NEW g \in Generation, NEW s \in Generation, NEW kind \in Kind
    PROVE  /\ SortedKey(g, s) \in Key /\ SortedKey(g, s)[3] = s
           /\ ResponseKey(kind, g) \in Key /\ ResponseKey(kind, g)[3] = g
  <1>1. SortedKey(g, s) \in Key BY DEF Key
  <1>2. ResponseKey(kind, g) \in Key BY DEF Key
  <1>3. SortedKey(g, s)[3] = s /\ ResponseKey(kind, g)[3] = g
    BY DEF SortedKey, ResponseKey
  <1>4. QED BY <1>1, <1>2, <1>3

LEMMA KeyGeneration == \A k \in Key : k[3] \in Generation
  <1> SUFFICES ASSUME NEW k \in Key PROVE k[3] \in Generation
    OBVIOUS
  <1>1. CASE \E g \in Generation : k = ScopeKey(g)
    BY <1>1, ScopeKeys
  <1>2. CASE \E g, s \in Generation : k = SortedKey(g, s)
    <2>1. PICK g \in Generation, s \in Generation : k = SortedKey(g, s) BY <1>2
    <2>2. k[3] = s BY <2>1 DEF SortedKey
    <2>3. QED BY <2>2
  <1>3. CASE \E kind \in Kind, g \in Generation : k = ResponseKey(kind, g)
    BY <1>3 DEF ResponseKey
  <1>4. QED BY <1>1, <1>2, <1>3 DEF Key

LEMMA Numbers == Version \subseteq Nat /\ Life \subseteq Nat /\ Generation \subseteq Nat
  BY ProductsAssumption, LivesAssumption DEF Version, Life, Generation

LEMMA OlderType ==
    ASSUME NEW a \in Maybe, NEW b \in Data
    PROVE  Older(a, b) \in Data
  BY DEF Older, Maybe, Data

LEMMA OlderFresh ==
    ASSUME CacheTypeOK, NEW g \in Generation, NEW a \in Maybe, a # None => Fresh(a, g),
           NEW b, Fresh(b, g)
    PROVE  Fresh(Older(a, b), g)
  <1>1. b \in Data BY DEF Fresh
  <1>2. CASE a = None BY <1>2 DEF Older
  <1>3. CASE a # None
    <2>1. a \in Data BY <1>3 DEF Maybe
    <2>2. Older(a, b) \in Data BY <1>1, OlderType
    <2>3. /\ a.version \in Nat /\ b.version \in Nat /\ a.life \in Nat /\ b.life \in Nat
          /\ life \in Nat /\ bornAt[g] \in Nat
      BY <1>1, <2>1, Numbers DEF Data, CacheTypeOK
    <2>4. /\ Older(a, b).version = a.version \/ Older(a, b).version = b.version
          /\ Older(a, b).life <= a.life /\ Older(a, b).life <= b.life
      BY <1>3, <2>3 DEF Older
    <2>5. Older(a, b).life \in Nat BY <2>2, Numbers DEF Data
    <2>6. QED BY <1>3, <2>2, <2>3, <2>4, <2>5 DEF Fresh
  <1>4. QED BY <1>2, <1>3

\* What is fresh for a generation is so for the ones before it.
LEMMA FreshEarlier ==
    ASSUME CacheTypeOK, GenerationInv, NEW g \in Generation, NEW h \in Generation,
           g <= h, h <= cacheGeneration, NEW data, Fresh(data, h)
    PROVE  Fresh(data, g)
  <1>1. bornAt[g] <= bornAt[h] BY DEF GenerationInv
  <1>2. /\ data \in Data /\ data.version \in Nat /\ bornAt[g] \in Nat /\ bornAt[h] \in Nat
        /\ g \in Nat /\ h \in Nat /\ cacheGeneration \in Nat
    BY Numbers DEF Fresh, Data, CacheTypeOK
  <1>3. QED BY <1>1, <1>2 DEF Fresh

\* A lookup finds what is fresh for its key, and leaves the tiers so.
LEMMA LookupFresh ==
    ASSUME CacheTypeOK, TierInv, NEW key \in Key, NEW found \in Maybe, Lookup(key, found),
           UNCHANGED <<cacheGeneration, life, bornAt>>
    PROVE  /\ found # None => Fresh(found, key[3])
           /\ TierInv'
           /\ memory' \in Tier /\ redis' \in Tier /\ faults' \in 0 .. MaxFaults
  <1>1. found # None => Fresh(found, key[3])
    BY DEF Lookup, TierInv
  <1>2. memory' \in Tier /\ redis' \in Tier
    BY DEF Lookup, CacheTypeOK, Tier
  <1>3. faults' \in 0 .. MaxFaults
    BY RequestsAssumption DEF Lookup, Fault, CacheTypeOK
  <1>4. \A k \in Key : memory'[k] # None => Fresh(memory'[k], k[3])
    BY <1>1 DEF Lookup, TierInv, CacheTypeOK, Tier
  <1>5. TierInv' BY <1>4 DEF Lookup, TierInv, Fresh
  <1>6. QED BY <1>1, <1>2, <1>3, <1>5

\* So does a write of what is fresh for its key.
LEMMA WriteFresh ==
    ASSUME CacheTypeOK, TierInv, NEW key \in Key, NEW data, Fresh(data, key[3]),
           WriteMemory(key, data) \/ WriteRedis(key, data),
           UNCHANGED <<cacheGeneration, life, bornAt>>
    PROVE  /\ TierInv'
           /\ memory' \in Tier /\ redis' \in Tier /\ faults' \in 0 .. MaxFaults
  <1>1. data \in Maybe BY DEF Fresh, Maybe
  <1>2. memory' \in Tier /\ redis' \in Tier
    BY <1>1 DEF WriteMemory, WriteRedis, CacheTypeOK, Tier
  <1>3. faults' \in 0 .. MaxFaults
    BY RequestsAssumption DEF WriteMemory, WriteRedis, Fault, CacheTypeOK
  <1>4. \A k \in Key : /\ memory'[k] # None => Fresh(memory'[k], k[3])
                       /\ redis'[k] # None => Fresh(redis'[k], k[3])
    BY DEF WriteMemory, WriteRedis, TierInv, CacheTypeOK, Tier
  <1>5. TierInv' BY <1>4 DEF TierInv, Fresh
  <1>6. QED BY <1>2, <1>3, <1>5

-----------------------------------------------------------------------------
(***************************************************************************)
(* Requests that move: one alone, one that builds, all that share a build. *)
(***************************************************************************)
Still == UNCHANGED <<cacheGeneration, life, bornAt>>

LEMMA FreshStill ==
    ASSUME Still, NEW q, RequestFresh(q)
    PROVE  RequestFresh(q)'
  BY DEF Still, RequestFresh, Fresh

LEMMA OneMoves ==
    ASSUME CacheTypeOK, RequestInv, Still, NEW r \in Request, NEW q \in RequestRecord,
           RequestFresh(q), request' = [request EXCEPT ![r] = q]
    PROVE  request' \in [Request -> RequestRecord] /\ RequestInv'
  <1>1. request \in [Request -> RequestRecord] BY DEF CacheTypeOK
  <1>2. \A p \in Request : RequestFresh(request'[p]) BY <1>1 DEF RequestInv
  <1>3. RequestInv' BY <1>2, FreshStill DEF RequestInv, RequestFresh, Fresh, Still
  <1>4. QED BY <1>1, <1>3

\* A step of a request that neither builds nor waits, nor begins to.
LEMMA Solo ==
    ASSUME CacheTypeOK, RequestInv, SharingInv, Still, NEW r \in Request,
           NEW q \in RequestRecord, RequestFresh(q), request' = [request EXCEPT ![r] = q],
           request[r].pc \notin Owner, q.pc \notin Owner \cup {"joined"}, UNCHANGED scopeBuilds
    PROVE  request' \in [Request -> RequestRecord] /\ RequestInv' /\ SharingInv'
  <1>1. request \in [Request -> RequestRecord] BY DEF CacheTypeOK
  <1>2. BuildInv' BY <1>1 DEF SharingInv, BuildInv, Still, CacheTypeOK
  <1>3. SingleFlight' BY <1>1 DEF SharingInv, SingleFlight
  <1>4. JoinedIsBuilding' BY <1>1 DEF SharingInv, JoinedIsBuilding
  <1>5. QED BY <1>2, <1>3, <1>4, OneMoves DEF SharingInv

\* A step of a request that goes on building.
LEMMA BuildsOn ==
    ASSUME CacheTypeOK, RequestInv, SharingInv, Still, NEW r \in Request,
           NEW q \in RequestRecord, RequestFresh(q), request' = [request EXCEPT ![r] = q],
           request[r].pc \in Owner, q.pc \in Owner, q.scope = request[r].scope,
           UNCHANGED scopeBuilds
    PROVE  request' \in [Request -> RequestRecord] /\ RequestInv' /\ SharingInv'
  <1>1. request \in [Request -> RequestRecord] BY DEF CacheTypeOK
  <1>2. BuildInv' BY <1>1 DEF SharingInv, BuildInv, Still, CacheTypeOK
  <1>3. SingleFlight' BY <1>1 DEF SharingInv, SingleFlight
  <1>4. JoinedIsBuilding' BY <1>1 DEF SharingInv, JoinedIsBuilding, Owner
  <1>5. QED BY <1>2, <1>3, <1>4, OneMoves DEF SharingInv

\* A build that ends leaves no owner of its scope, and nobody waiting for it.
LEMMA ShareEnds ==
    ASSUME CacheTypeOK, SharingInv, NEW r \in Request, request[r].pc \in Owner, Still,
           NEW f, \A p \in Request : f[p].pc \notin Owner \cup {"joined"},
           request' = [p \in Request |-> IF Shares(p, r) THEN f[p] ELSE request[p]],
           scopeBuilds' = [scopeBuilds EXCEPT ![request[r].scope] = None]
    PROVE  SharingInv'
  <1>1. /\ request \in [Request -> RequestRecord]
        /\ scopeBuilds \in [Generation -> Request \cup {None}]
        /\ request[r].scope \in Generation
        /\ cacheGeneration \in Generation
    BY DEF CacheTypeOK, RequestRecord
  <1>2. \A p \in Request : request[p].pc \in Owner /\ p # r =>
           ~Shares(p, r) /\ request'[p] = request[p] /\ request[p].scope # request[r].scope
    BY DEF Shares, Owner, SharingInv, SingleFlight
  <1>3. \A p \in Request : request'[p].pc \in Owner \cup {"joined"} =>
           ~Shares(p, r) /\ request'[p] = request[p]
    OBVIOUS
  <1>4. BuildInv'
    <2>1. ASSUME NEW g \in Generation, scopeBuilds'[g] # None
          PROVE  request'[scopeBuilds'[g]].pc \in Owner /\ request'[scopeBuilds'[g]].scope = g
      <3>1. scopeBuilds'[g] = scopeBuilds[g] /\ g # request[r].scope /\ scopeBuilds[g] \in Request
        BY <2>1, <1>1
      <3>2. request[scopeBuilds[g]].pc \in Owner /\ request[scopeBuilds[g]].scope = g
        BY <3>1, <2>1 DEF SharingInv, BuildInv
      <3>3. QED BY <3>1, <3>2, <1>2
    <2>2. ASSUME NEW p \in Request, request'[p].pc \in Owner, request'[p].scope = cacheGeneration'
          PROVE  scopeBuilds'[cacheGeneration'] = p
      <3>1. request'[p] = request[p] /\ p # r BY <2>2, <1>3 DEF Shares
      <3>2. scopeBuilds[cacheGeneration] = p /\ request[r].scope # cacheGeneration
        BY <3>1, <2>2, <1>2 DEF SharingInv, BuildInv, Still
      <3>3. QED BY <3>2, <1>1 DEF Still
    <2>3. QED BY <2>1, <2>2 DEF BuildInv
  <1>5. SingleFlight' BY <1>3 DEF SharingInv, SingleFlight
  <1>6. JoinedIsBuilding'
    <2> SUFFICES ASSUME NEW p \in Request, request'[p].pc = "joined"
                 PROVE  /\ request'[p].of \in Request
                        /\ request'[request'[p].of].pc \in Owner
                        /\ request'[request'[p].of].scope = request'[p].scope
      BY DEF JoinedIsBuilding
    <2>1. request'[p] = request[p] /\ ~Shares(p, r) BY <1>3
    <2>2. /\ request[p].of \in Request /\ request[p].of # r
          /\ request[request[p].of].pc \in Owner
          /\ request[request[p].of].scope = request[p].scope
      BY <2>1 DEF Shares, SharingInv, JoinedIsBuilding
    <2>3. QED BY <2>1, <2>2, <1>2
  <1>7. QED BY <1>4, <1>5, <1>6 DEF SharingInv

\* Who shares a build needs its generation or an earlier one.
LEMMA Sharers ==
    ASSUME CacheTypeOK, RequestInv, SharingInv, NEW r \in Request, request[r].pc \in Owner,
           NEW p \in Request, Shares(p, r)
    PROVE  /\ request[p].pc \in Owner \cup {"joined"}
           /\ request[p].scope = request[r].scope
           /\ request[p].gen <= request[p].scope
           /\ request[p].scope <= cacheGeneration
  BY DEF Shares, SharingInv, JoinedIsBuilding, RequestInv, RequestFresh, Scoped

LEMMA SettledInv ==
    ASSUME CacheTypeOK, GenerationInv, RequestInv, SharingInv, Still, NEW r \in Request,
           request[r].pc \in Owner, NEW data, Fresh(data, request[r].scope), Settled(r, data)
    PROVE  /\ request' \in [Request -> RequestRecord] /\ RequestInv' /\ SharingInv'
           /\ scopeBuilds' \in [Generation -> Request \cup {None}]
  <1> DEFINE after(p) == [request[p] EXCEPT !.pc = AfterScope(request[p]), !.of = None, !.built = None,
                                            !.data = Older(request[p].data, data)]
             f == [p \in Request |-> after(p)]
  <1>1. \A p \in Request : request[p] \in RequestRecord BY DEF CacheTypeOK
  <1>2. data \in Data BY DEF Fresh
  <1>a. ASSUME NEW p \in Request
        PROVE  /\ AfterScope(request[p]) \in {"page", "sort", "keepResponse"}
               /\ AfterScope(request[p]) = "sort" => ~request[p].again
    BY DEF AfterScope
  <1>3. ASSUME NEW p \in Request
        PROVE  /\ after(p) \in RequestRecord
               /\ after(p).pc = AfterScope(request[p])
               /\ after(p).data = Older(request[p].data, data)
               /\ after(p).data \in Data
               /\ after(p).gen = request[p].gen
               /\ after(p).scope = request[p].scope
    <2>1. request[p].data \in Maybe /\ request[p] \in RequestRecord BY <1>1 DEF RequestRecord
    <2>2. Older(request[p].data, data) \in Data BY <2>1, <1>2, OlderType
    <2>3. AfterScope(request[p]) \in RequestPoint BY <1>a DEF RequestPoint
    <2>4. after(p).data = Older(request[p].data, data) BY <2>1 DEF RequestRecord
    <2>5. after(p) \in RequestRecord BY <2>1, <2>2, <2>3 DEF RequestRecord, Maybe
    <2>6. QED BY <2>1, <2>2, <2>4, <2>5 DEF RequestRecord
  <1>5. request' = [p \in Request |-> IF Shares(p, r) THEN f[p] ELSE request[p]]
    BY DEF Settled
  <1> HIDE DEF after
  <1>4. ASSUME NEW p \in Request, Shares(p, r)
        PROVE  RequestFresh(after(p))
    <2>1. /\ request[p].gen \in Generation /\ request[p].scope \in Generation
          /\ request[p].data \in Maybe /\ RequestFresh(request[p])
          /\ request[r].scope \in Generation
      BY <1>1 DEF RequestRecord, RequestInv
    <2>2. /\ request[p].pc \in Owner \cup {"joined"}
          /\ request[p].scope = request[r].scope
          /\ request[p].gen <= request[p].scope
          /\ request[p].scope <= cacheGeneration
      BY <1>4, Sharers
    <2>3. Fresh(data, request[p].gen) BY <2>1, <2>2, FreshEarlier
    <2>4. Fresh(after(p).data, request[p].gen)
      BY <2>1, <2>3, <1>3, OlderFresh DEF RequestFresh
    <2>5. AfterScope(request[p]) = "sort" => after(p).data = data
      <3>1. ~request[p].again => request[p].data = None
        BY <2>1, <2>2 DEF RequestFresh
      <3>2. QED BY <1>a, <1>3, <3>1 DEF Older
    <2>6. request[p].gen <= cacheGeneration
      BY <2>1, <2>2 DEF RequestFresh, Owner
    <2>7. after(p).data # None BY <1>3, NoDataAssumption
    <2>8. QED
      BY <1>a, <1>3, <2>1, <2>2, <2>4, <2>5, <2>6, <2>7
         DEF RequestFresh, Sorting, Owner, Scoped
  <1>6. request' \in [Request -> RequestRecord] BY <1>1, <1>3, <1>5
  <1>7. \A p \in Request : RequestFresh(request'[p]) BY <1>4, <1>5 DEF RequestInv
  <1>8. RequestInv' BY <1>7, FreshStill DEF RequestInv, RequestFresh, Fresh, Still
  <1>9. \A p \in Request : f[p].pc \notin Owner \cup {"joined"}
    BY <1>3, <1>a DEF Owner
  <1> HIDE DEF f
  <1>10. SharingInv' BY <1>5, <1>9, ShareEnds DEF Settled
  <1>11. scopeBuilds' \in [Generation -> Request \cup {None}] BY DEF Settled, CacheTypeOK
  <1>12. QED BY <1>6, <1>8, <1>10, <1>11

-----------------------------------------------------------------------------
(***************************************************************************)
(* The steps of a request.                                                 *)
(***************************************************************************)
Kept == TierInv' /\ RequestInv' /\ SharingInv'
Typed ==
    /\ request' \in [Request -> RequestRecord]
    /\ scopeBuilds' \in [Generation -> Request \cup {None}]
    /\ memory' \in Tier /\ redis' \in Tier /\ faults' \in 0 .. MaxFaults

\* What is known of a request, and of the tiers it leaves alone.
LEMMA Facts ==
    ASSUME IInv, NEW r \in Request
    PROVE  /\ request \in [Request -> RequestRecord]
           /\ scopeBuilds \in [Generation -> Request \cup {None}]
           /\ request[r] \in RequestRecord /\ RequestFresh(request[r])
           /\ request[r].gen \in Generation /\ request[r].scope \in Generation
           /\ request[r].kind \in Kind /\ cacheGeneration \in Generation
           /\ cacheGeneration \in Nat
           /\ Still /\ UNCHANGED tierVars =>
                TierInv' /\ memory' \in Tier /\ redis' \in Tier /\ faults' \in 0 .. MaxFaults
  <1>1. request \in [Request -> RequestRecord] /\ scopeBuilds \in [Generation -> Request \cup {None}]
    BY DEF IInv, CacheTypeOK
  <1>2. request[r] \in RequestRecord /\ RequestFresh(request[r])
    BY <1>1 DEF IInv, RequestInv
  <1>3. /\ request[r].gen \in Generation /\ request[r].scope \in Generation
        /\ request[r].kind \in Kind
    BY <1>2 DEF RequestRecord
  <1>4. cacheGeneration \in Generation /\ cacheGeneration \in Nat
    BY Numbers DEF IInv, CacheTypeOK
  <1>5. ASSUME Still, UNCHANGED tierVars
        PROVE  TierInv' /\ memory' \in Tier /\ redis' \in Tier /\ faults' \in 0 .. MaxFaults
    BY <1>5 DEF IInv, CacheTypeOK, TierInv, Fresh, Still, tierVars
  <1>6. QED BY <1>1, <1>2, <1>3, <1>4, <1>5

LEMMA NoRequestGood == NoRequest \in RequestRecord /\ RequestFresh(NoRequest)
  <1>1. 1 \in Generation BY ProductsAssumption DEF Generation
  <1>2. QED
    BY <1>1 DEF NoRequest, RequestRecord, RequestPoint, Owner, Kind, Maybe, RequestFresh,
                Scoped, Sorting

\* Ending, for whatever reason but the end of a build.
LEMMA Ends ==
    ASSUME IInv, Still, NEW r \in Request, request[r].pc \notin Owner,
           request' = [request EXCEPT ![r] = NoRequest], UNCHANGED <<scopeBuilds, tierVars>>
    PROVE  Kept /\ Typed
  <1>1. NoRequest.pc \notin Owner \cup {"joined"} BY DEF NoRequest, Owner
  <1>2. request' \in [Request -> RequestRecord] /\ RequestInv' /\ SharingInv'
    BY <1>1, NoRequestGood, Solo DEF IInv
  <1>3. QED BY <1>2, Facts DEF Kept, Typed

LEMMA StepBegin ==
    ASSUME IInv, Still, NEW r \in Request, NEW kind \in Asked, BeginRequest(r, kind)
    PROVE  Kept /\ Typed
  <1> DEFINE q == [NoRequest EXCEPT !.pc = "getResponse", !.kind = kind, !.gen = cacheGeneration]
  <1>1. kind \in Kind BY RequestsAssumption DEF Kind
  <1>2. /\ q.pc = "getResponse" /\ q.gen = cacheGeneration /\ q.data = None
        /\ q \in RequestRecord
    <2>1. "getResponse" \in RequestPoint BY DEF RequestPoint
    <2>2. cacheGeneration \in Generation BY Facts
    <2>3. QED BY <1>1, <2>1, <2>2, NoRequestGood DEF RequestRecord, NoRequest
  <1>7. request' = [request EXCEPT ![r] = q] BY DEF BeginRequest
  <1>6. request[r].pc \notin Owner /\ q.pc \notin Owner \cup {"joined"}
    BY <1>2 DEF BeginRequest, Owner
  <1> HIDE DEF q
  <1>4. cacheGeneration \in Nat BY Facts
  <1>5. RequestFresh(q) BY <1>2, <1>4 DEF RequestFresh, Owner, Scoped, Sorting
  <1>8. request' \in [Request -> RequestRecord] /\ RequestInv' /\ SharingInv'
    BY <1>2, <1>5, <1>6, <1>7, Solo DEF IInv, BeginRequest
  <1>9. QED BY <1>8, Facts DEF Kept, Typed, BeginRequest

LEMMA StepGetResponse ==
    ASSUME IInv, Still, NEW r \in Request, GetResponse(r)
    PROVE  Kept /\ Typed
  <1> DEFINE key == ResponseKey(request[r].kind, request[r].gen)
  <1>1. PICK found \in Maybe :
          /\ Lookup(key, found)
          /\ request' = [request EXCEPT ![r].pc = IF found = None THEN "scope" ELSE "done",
                                        ![r].data = found]
    BY DEF GetResponse
  <1>2. key \in Key /\ key[3] = request[r].gen BY Facts, Keys
  <1> HIDE DEF key
  <1>3. /\ found # None => Fresh(found, request[r].gen)
        /\ TierInv' /\ memory' \in Tier /\ redis' \in Tier /\ faults' \in 0 .. MaxFaults
    BY <1>1, <1>2, LookupFresh DEF IInv, Still
  <1> DEFINE q == [request[r] EXCEPT !.pc = IF found = None THEN "scope" ELSE "done", !.data = found]
  <1>4. request' = [request EXCEPT ![r] = q] BY <1>1, Facts
  <1>5. /\ q.pc = IF found = None THEN "scope" ELSE "done"
        /\ q.data = found /\ q.gen = request[r].gen /\ q \in RequestRecord
    BY Facts DEF RequestRecord, RequestPoint
  <1>6. request[r].gen <= cacheGeneration /\ request[r].pc \notin Owner
    BY Facts DEF RequestFresh, GetResponse, Owner
  <1> HIDE DEF q
  <1>7. RequestFresh(q) BY <1>3, <1>5, <1>6 DEF RequestFresh, Owner, Scoped, Sorting
  <1>8. q.pc \notin Owner \cup {"joined"} BY <1>5 DEF Owner
  <1>9. request' \in [Request -> RequestRecord] /\ RequestInv' /\ SharingInv'
    BY <1>4, <1>5, <1>6, <1>7, <1>8, Solo DEF IInv, GetResponse
  <1>10. QED BY <1>3, <1>9, Facts DEF Kept, Typed, GetResponse

\* A request joins the build of the current generation, or becomes it.
LEMMA StepEnterScope ==
    ASSUME IInv, Still, NEW r \in Request, EnterScope(r)
    PROVE  Kept /\ Typed
  <1>p. /\ request[r].pc = "scope" /\ request[r].gen <= cacheGeneration
        /\ request[r] \in RequestRecord /\ cacheGeneration \in Nat /\ cacheGeneration \in Generation
        /\ request \in [Request -> RequestRecord]
        /\ scopeBuilds \in [Generation -> Request \cup {None}]
        /\ RequestFresh(request[r])
        /\ TierInv' /\ memory' \in Tier /\ redis' \in Tier /\ faults' \in 0 .. MaxFaults
    BY Facts DEF EnterScope, RequestFresh
  <1> DEFINE owner == scopeBuilds[cacheGeneration]
  <1>s. BuildInv /\ SingleFlight /\ JoinedIsBuilding BY DEF IInv, SharingInv
  <1>1. CASE owner # None
    <2> DEFINE q == [request[r] EXCEPT !.pc = "joined", !.of = owner, !.scope = cacheGeneration]
    <2>1. request' = [request EXCEPT ![r] = q] /\ UNCHANGED scopeBuilds
      BY <1>1, <1>p DEF EnterScope
    <2>2. owner \in Request /\ request[owner].pc \in Owner /\ request[owner].scope = cacheGeneration
      BY <1>1, <1>p, <1>s DEF BuildInv
    <2>3. /\ q.pc = "joined" /\ q.of = owner /\ q.scope = cacheGeneration
          /\ q.gen = request[r].gen /\ q.data = request[r].data /\ q.again = request[r].again
          /\ q \in RequestRecord
      BY <2>2, <1>p DEF RequestRecord, RequestPoint
    <2> HIDE DEF q
    <2>4. RequestFresh(q) BY <2>3, <1>p DEF RequestFresh, Scoped, Owner, Sorting
    <2>5. request' \in [Request -> RequestRecord] /\ RequestInv'
      BY <2>1, <2>3, <2>4, OneMoves DEF IInv
    <2>6. "joined" \notin Owner /\ "scope" \notin Owner BY DEF Owner
    <2>7. owner # r BY <2>2, <2>6, <1>p
    <2>8. BuildInv' BY <2>1, <2>3, <2>6, <1>p, <1>s DEF BuildInv, Still
    <2>9. SingleFlight' BY <2>1, <2>3, <2>6, <1>p, <1>s DEF SingleFlight
    <2>10. JoinedIsBuilding' BY <2>1, <2>2, <2>3, <2>6, <2>7, <1>p, <1>s DEF JoinedIsBuilding
    <2>11. QED BY <2>1, <2>5, <2>8, <2>9, <2>10, <1>p DEF Kept, Typed, SharingInv
  <1>2. CASE owner = None
    <2> DEFINE q == [request[r] EXCEPT !.pc = "getScope", !.scope = cacheGeneration]
    <2>1. /\ request' = [request EXCEPT ![r] = q]
          /\ scopeBuilds' = [scopeBuilds EXCEPT ![cacheGeneration] = r]
      BY <1>2, <1>p DEF EnterScope
    <2>2. \A p \in Request : request[p].pc \in Owner => request[p].scope # cacheGeneration
      BY <1>2, <1>s, RequestAssumption DEF BuildInv
    <2>3. /\ q.pc = "getScope" /\ q.scope = cacheGeneration
          /\ q.gen = request[r].gen /\ q.data = request[r].data /\ q.again = request[r].again
          /\ q \in RequestRecord
      BY <1>p DEF RequestRecord, RequestPoint, Owner
    <2> HIDE DEF q
    <2>4. RequestFresh(q) BY <2>3, <1>p DEF RequestFresh, Scoped, Owner, Sorting
    <2>5. request' \in [Request -> RequestRecord] /\ RequestInv'
      BY <2>1, <2>3, <2>4, OneMoves DEF IInv
    <2>6. "getScope" \in Owner /\ "scope" \notin Owner /\ "joined" # "getScope" BY DEF Owner
    <2>7. scopeBuilds' \in [Generation -> Request \cup {None}] BY <2>1, <1>p
    <2>8. BuildInv' BY <2>1, <2>2, <2>3, <2>6, <1>p, <1>s DEF BuildInv, Still
    <2>9. SingleFlight' BY <2>1, <2>2, <2>3, <2>6, <1>p, <1>s DEF SingleFlight
    <2>10. JoinedIsBuilding' BY <2>1, <2>3, <2>6, <1>p, <1>s DEF JoinedIsBuilding
    <2>11. QED BY <2>5, <2>7, <2>8, <2>9, <2>10, <1>p DEF Kept, Typed, SharingInv
  <1>3. QED BY <1>1, <1>2

\* A request that builds goes on, with what it has read if it has.
LEMMA StepBuilder ==
    ASSUME IInv, Still, NEW r \in Request, request[r].pc \in Owner,
           NEW q \in RequestRecord, request' = [request EXCEPT ![r] = q],
           q.pc \in Owner, q.scope = request[r].scope, q.gen = request[r].gen,
           q.data = request[r].data, q.again = request[r].again,
           q.pc \in {"keepScope", "putScope", "getBuilt"} => Fresh(q.built, q.scope),
           UNCHANGED scopeBuilds, TierInv', memory' \in Tier, redis' \in Tier,
           faults' \in 0 .. MaxFaults
    PROVE  Kept /\ Typed
  <1>1. RequestFresh(request[r]) BY Facts
  <1>2. RequestFresh(q) BY <1>1 DEF RequestFresh, Scoped, Owner, Sorting
  <1>3. request' \in [Request -> RequestRecord] /\ RequestInv' /\ SharingInv'
    BY <1>2, BuildsOn DEF IInv
  <1>4. QED BY <1>3, Facts DEF Kept, Typed

\* A request that has the scope goes on.
Answering == {"page", "keepResponse", "putResponse"}

LEMMA StepOn ==
    ASSUME IInv, Still, NEW r \in Request, request[r].pc \in Sorting \cup Answering,
           NEW q \in RequestRecord, request' = [request EXCEPT ![r] = q],
           q.gen = request[r].gen, q.scope = request[r].scope, Fresh(q.data, q.gen),
           q.pc \in Sorting \cup Answering \cup {"done", "scope"},
           q.pc \in Sorting => request[r].pc \in Sorting /\ Fresh(q.data, q.scope),
           q.pc = "scope" => q.again,
           UNCHANGED scopeBuilds, TierInv', memory' \in Tier, redis' \in Tier,
           faults' \in 0 .. MaxFaults
    PROVE  Kept /\ Typed
  <1>1. request[r].pc \notin Owner /\ q.pc \notin Owner \cup {"joined"}
    BY DEF Owner, Sorting, Answering
  <1>2. q.data # None BY NoDataAssumption DEF Fresh
  <1>3. /\ request[r].gen <= cacheGeneration
        /\ request[r].pc \in Sorting =>
              request[r].gen <= request[r].scope /\ request[r].scope <= cacheGeneration
    BY Facts DEF RequestFresh, Scoped, Owner, Sorting, Answering
  <1>4. RequestFresh(q)
    BY <1>1, <1>2, <1>3 DEF RequestFresh, Scoped, Owner, Sorting, Answering
  <1>5. request' \in [Request -> RequestRecord] /\ RequestInv' /\ SharingInv'
    BY <1>1, <1>4, Solo DEF IInv
  <1>6. QED BY <1>5, Facts DEF Kept, Typed

\* What such a request has.
LEMMA Holds ==
    ASSUME IInv, NEW r \in Request, request[r].pc \in Sorting \cup Answering
    PROVE  /\ Fresh(request[r].data, request[r].gen)
           /\ request[r].pc \in Sorting =>
                 /\ Fresh(request[r].data, request[r].scope)
                 /\ request[r].gen <= request[r].scope /\ request[r].scope <= cacheGeneration
  <1>1. RequestFresh(request[r]) BY Facts
  <1>2. request[r].data # None BY <1>1 DEF RequestFresh, Sorting, Answering
  <1>3. QED BY <1>1, <1>2 DEF RequestFresh, Scoped

\* The steps that change only where the request is, or the key it will use.
LEMMA StepPlain ==
    ASSUME IInv, Still, NEW r \in Request, Sort(r) \/ Order(r) \/ Page(r)
    PROVE  Kept /\ Typed
  <1>p. request[r] \in RequestRecord /\ request \in [Request -> RequestRecord]
    BY Facts
  <1>g. cacheGeneration \in Generation BY Facts
  <1>t. /\ UNCHANGED <<scopeBuilds, tierVars>>
        /\ request[r].pc \in Sorting \cup Answering
        /\ TierInv' /\ memory' \in Tier /\ redis' \in Tier /\ faults' \in 0 .. MaxFaults
    BY Facts DEF Sort, Order, Page, Sorting, Answering
  <1>h. /\ Fresh(request[r].data, request[r].gen)
        /\ request[r].pc \in Sorting => Fresh(request[r].data, request[r].scope)
    BY <1>t, Holds
  <1>1. CASE Sort(r)
    <2> DEFINE q == [request[r] EXCEPT !.pc = "getSorted", !.sorted = cacheGeneration]
    <2>1. request' = [request EXCEPT ![r] = q] BY <1>1, <1>p DEF Sort
    <2>2. /\ q.pc = "getSorted" /\ q.gen = request[r].gen /\ q.scope = request[r].scope
          /\ q.data = request[r].data /\ q \in RequestRecord
      BY <1>p, <1>g DEF RequestRecord, RequestPoint
    <2> HIDE DEF q
    <2>3. request[r].pc \in Sorting /\ q.pc \in Sorting /\ q.pc # "scope"
      BY <1>1, <2>2 DEF Sort, Sorting
    <2>4. QED BY <2>1, <2>2, <2>3, <1>t, <1>h, StepOn
  <1>2. CASE Order(r)
    <2> DEFINE q == [request[r] EXCEPT !.pc = "keepSorted"]
    <2>1. request' = [request EXCEPT ![r] = q] BY <1>2, <1>p DEF Order, Go
    <2>2. /\ q.pc = "keepSorted" /\ q.gen = request[r].gen /\ q.scope = request[r].scope
          /\ q.data = request[r].data /\ q \in RequestRecord
      BY <1>p DEF RequestRecord, RequestPoint
    <2> HIDE DEF q
    <2>3. request[r].pc \in Sorting /\ q.pc \in Sorting /\ q.pc # "scope"
      BY <1>2, <2>2 DEF Order, Sorting
    <2>4. QED BY <2>1, <2>2, <2>3, <1>t, <1>h, StepOn
  <1>3. CASE Page(r)
    <2> DEFINE q == [request[r] EXCEPT
                       !.pc = IF request[r].kind = "sorted" THEN "scope" ELSE "keepResponse",
                       !.again = TRUE]
    <2>1. request' = [request EXCEPT ![r] = q] BY <1>3, <1>p DEF Page
    <2>2. /\ q.pc \in {"scope", "keepResponse"} /\ q.again
          /\ q.gen = request[r].gen /\ q.scope = request[r].scope
          /\ q.data = request[r].data /\ q \in RequestRecord
      BY <1>p DEF RequestRecord, RequestPoint
    <2> HIDE DEF q
    <2>3. q.pc \in Answering \cup {"scope"} /\ q.pc \notin Sorting
      BY <2>2 DEF Answering, Sorting
    <2>4. QED BY <2>1, <2>2, <2>3, <1>t, <1>h, StepOn
  <1>4. QED BY <1>1, <1>2, <1>3

-----------------------------------------------------------------------------
(***************************************************************************)
(* The steps that store a listing.                                         *)
(***************************************************************************)
LEMMA StepKeepSorted ==
    ASSUME IInv, Still, NEW r \in Request, KeepSorted(r)
    PROVE  Kept /\ Typed
  <1> DEFINE key == SortedKey(request[r].sorted, request[r].scope)
             q == [request[r] EXCEPT !.pc = "putSorted"]
  <1>p. /\ request[r] \in RequestRecord /\ request \in [Request -> RequestRecord]
        /\ request[r].pc \in Sorting \cup Answering
    BY Facts DEF KeepSorted, Sorting, Answering
  <1>h. /\ Fresh(request[r].data, request[r].gen)
        /\ request[r].pc \in Sorting => Fresh(request[r].data, request[r].scope)
    BY <1>p, Holds
  <1>1. request' = [request EXCEPT ![r] = q] BY <1>p DEF KeepSorted, Go
  <1>2. /\ q.pc = "putSorted" /\ q.gen = request[r].gen /\ q.scope = request[r].scope
        /\ q.data = request[r].data /\ q \in RequestRecord
    BY <1>p DEF RequestRecord, RequestPoint
  <1> HIDE DEF q
  <1>3. /\ request[r].pc = "keepSorted"
        /\ WriteMemory(key, request[r].data)
        /\ UNCHANGED scopeBuilds
    BY DEF KeepSorted
  <1>4. key \in Key /\ key[3] = request[r].scope
    BY <1>p, Keys DEF RequestRecord
  <1> HIDE DEF key
  <1>5. Fresh(request[r].data, key[3]) BY <1>3, <1>4, <1>h DEF Sorting
  <1>6. TierInv' /\ memory' \in Tier /\ redis' \in Tier /\ faults' \in 0 .. MaxFaults
    BY <1>3, <1>4, <1>5, WriteFresh DEF IInv, Still
  <1>7. /\ q.pc \in Sorting \cup Answering \cup {"done", "scope"} /\ q.pc # "scope"
        /\ q.pc \in Sorting => request[r].pc \in Sorting
    BY <1>2, <1>3 DEF Sorting, Answering
  <1>8. QED BY <1>p, <1>h, <1>1, <1>2, <1>3, <1>6, <1>7, StepOn

LEMMA StepPutSorted ==
    ASSUME IInv, Still, NEW r \in Request, PutSorted(r)
    PROVE  Kept /\ Typed
  <1> DEFINE key == SortedKey(request[r].sorted, request[r].scope)
             q == [request[r] EXCEPT !.pc = "page"]
  <1>p. /\ request[r] \in RequestRecord /\ request \in [Request -> RequestRecord]
        /\ request[r].pc \in Sorting \cup Answering
    BY Facts DEF PutSorted, Sorting, Answering
  <1>h. /\ Fresh(request[r].data, request[r].gen)
        /\ request[r].pc \in Sorting => Fresh(request[r].data, request[r].scope)
    BY <1>p, Holds
  <1>1. request' = [request EXCEPT ![r] = q] BY <1>p DEF PutSorted, Go
  <1>2. /\ q.pc = "page" /\ q.gen = request[r].gen /\ q.scope = request[r].scope
        /\ q.data = request[r].data /\ q \in RequestRecord
    BY <1>p DEF RequestRecord, RequestPoint
  <1> HIDE DEF q
  <1>3. /\ request[r].pc = "putSorted"
        /\ WriteRedis(key, request[r].data)
        /\ UNCHANGED scopeBuilds
    BY DEF PutSorted
  <1>4. key \in Key /\ key[3] = request[r].scope
    BY <1>p, Keys DEF RequestRecord
  <1> HIDE DEF key
  <1>5. Fresh(request[r].data, key[3]) BY <1>3, <1>4, <1>h DEF Sorting
  <1>6. TierInv' /\ memory' \in Tier /\ redis' \in Tier /\ faults' \in 0 .. MaxFaults
    BY <1>3, <1>4, <1>5, WriteFresh DEF IInv, Still
  <1>7. /\ q.pc \in Sorting \cup Answering \cup {"done", "scope"} /\ q.pc # "scope"
        /\ q.pc \in Sorting => request[r].pc \in Sorting
    BY <1>2, <1>3 DEF Sorting, Answering
  <1>8. QED BY <1>p, <1>h, <1>1, <1>2, <1>3, <1>6, <1>7, StepOn

LEMMA StepKeepResponse ==
    ASSUME IInv, Still, NEW r \in Request, KeepResponse(r)
    PROVE  Kept /\ Typed
  <1> DEFINE key == ResponseKey(request[r].kind, request[r].gen)
             q == [request[r] EXCEPT !.pc = "putResponse"]
  <1>p. /\ request[r] \in RequestRecord /\ request \in [Request -> RequestRecord]
        /\ request[r].pc \in Sorting \cup Answering
    BY Facts DEF KeepResponse, Sorting, Answering
  <1>h. /\ Fresh(request[r].data, request[r].gen)
        /\ request[r].pc \in Sorting => Fresh(request[r].data, request[r].scope)
    BY <1>p, Holds
  <1>1. request' = [request EXCEPT ![r] = q] BY <1>p DEF KeepResponse, Go
  <1>2. /\ q.pc = "putResponse" /\ q.gen = request[r].gen /\ q.scope = request[r].scope
        /\ q.data = request[r].data /\ q \in RequestRecord
    BY <1>p DEF RequestRecord, RequestPoint
  <1> HIDE DEF q
  <1>3. /\ request[r].pc = "keepResponse"
        /\ WriteMemory(key, request[r].data)
        /\ UNCHANGED scopeBuilds
    BY DEF KeepResponse
  <1>4. key \in Key /\ key[3] = request[r].gen
    BY <1>p, Keys DEF RequestRecord
  <1> HIDE DEF key
  <1>5. Fresh(request[r].data, key[3]) BY <1>3, <1>4, <1>h DEF Sorting
  <1>6. TierInv' /\ memory' \in Tier /\ redis' \in Tier /\ faults' \in 0 .. MaxFaults
    BY <1>3, <1>4, <1>5, WriteFresh DEF IInv, Still
  <1>7. /\ q.pc \in Sorting \cup Answering \cup {"done", "scope"} /\ q.pc # "scope"
        /\ q.pc \in Sorting => request[r].pc \in Sorting
    BY <1>2, <1>3 DEF Sorting, Answering
  <1>8. QED BY <1>p, <1>h, <1>1, <1>2, <1>3, <1>6, <1>7, StepOn

LEMMA StepPutResponse ==
    ASSUME IInv, Still, NEW r \in Request, PutResponse(r)
    PROVE  Kept /\ Typed
  <1> DEFINE key == ResponseKey(request[r].kind, request[r].gen)
             q == [request[r] EXCEPT !.pc = "done"]
  <1>p. /\ request[r] \in RequestRecord /\ request \in [Request -> RequestRecord]
        /\ request[r].pc \in Sorting \cup Answering
    BY Facts DEF PutResponse, Sorting, Answering
  <1>h. /\ Fresh(request[r].data, request[r].gen)
        /\ request[r].pc \in Sorting => Fresh(request[r].data, request[r].scope)
    BY <1>p, Holds
  <1>1. request' = [request EXCEPT ![r] = q] BY <1>p DEF PutResponse, Go
  <1>2. /\ q.pc = "done" /\ q.gen = request[r].gen /\ q.scope = request[r].scope
        /\ q.data = request[r].data /\ q \in RequestRecord
    BY <1>p DEF RequestRecord, RequestPoint
  <1> HIDE DEF q
  <1>3. /\ request[r].pc = "putResponse"
        /\ WriteRedis(key, request[r].data)
        /\ UNCHANGED scopeBuilds
    BY DEF PutResponse
  <1>4. key \in Key /\ key[3] = request[r].gen
    BY <1>p, Keys DEF RequestRecord
  <1> HIDE DEF key
  <1>5. Fresh(request[r].data, key[3]) BY <1>3, <1>4, <1>h DEF Sorting
  <1>6. TierInv' /\ memory' \in Tier /\ redis' \in Tier /\ faults' \in 0 .. MaxFaults
    BY <1>3, <1>4, <1>5, WriteFresh DEF IInv, Still
  <1>7. /\ q.pc \in Sorting \cup Answering \cup {"done", "scope"} /\ q.pc # "scope"
        /\ q.pc \in Sorting => request[r].pc \in Sorting
    BY <1>2, <1>3 DEF Sorting, Answering
  <1>8. QED BY <1>p, <1>h, <1>1, <1>2, <1>3, <1>6, <1>7, StepOn

\* A stored order is as good as one's own.
LEMMA StepGetSorted ==
    ASSUME IInv, Still, NEW r \in Request, GetSorted(r)
    PROVE  Kept /\ Typed
  <1> DEFINE key == SortedKey(request[r].sorted, request[r].scope)
  <1>p. /\ request[r] \in RequestRecord /\ request \in [Request -> RequestRecord]
        /\ request[r].pc = "getSorted" /\ request[r].pc \in Sorting \cup Answering
        /\ request[r].gen \in Generation /\ request[r].scope \in Generation
        /\ UNCHANGED scopeBuilds
    BY Facts DEF GetSorted, Sorting, Answering
  <1>h. /\ Fresh(request[r].data, request[r].gen) /\ Fresh(request[r].data, request[r].scope)
        /\ request[r].gen <= request[r].scope /\ request[r].scope <= cacheGeneration
    BY <1>p, Holds DEF Sorting
  <1>1. PICK found \in Maybe :
          /\ Lookup(key, found)
          /\ request' = [request EXCEPT ![r].pc = IF found = None THEN "order" ELSE "page",
                                        ![r].data = IF found = None THEN @ ELSE found]
    BY DEF GetSorted
  <1>2. key \in Key /\ key[3] = request[r].scope BY <1>p, Keys DEF RequestRecord
  <1> HIDE DEF key
  <1>3. /\ found # None => Fresh(found, request[r].scope)
        /\ TierInv' /\ memory' \in Tier /\ redis' \in Tier /\ faults' \in 0 .. MaxFaults
    BY <1>1, <1>2, LookupFresh DEF IInv, Still
  <1> DEFINE q == [request[r] EXCEPT !.pc = IF found = None THEN "order" ELSE "page",
                                     !.data = IF found = None THEN @ ELSE found]
  <1>4. request' = [request EXCEPT ![r] = q] BY <1>1, <1>p
  <1>5. /\ q.pc = (IF found = None THEN "order" ELSE "page")
        /\ q.data = (IF found = None THEN request[r].data ELSE found)
        /\ q.gen = request[r].gen /\ q.scope = request[r].scope /\ q \in RequestRecord
    BY <1>p DEF RequestRecord, RequestPoint
  <1> HIDE DEF q
  <1>6. Fresh(q.data, q.scope) BY <1>3, <1>5, <1>h
  <1>7. Fresh(q.data, q.gen) BY <1>5, <1>6, <1>p, <1>h, FreshEarlier DEF IInv
  <1>8. /\ q.pc \in Sorting \cup Answering \cup {"done", "scope"} /\ q.pc # "scope"
        /\ q.pc \in Sorting => request[r].pc \in Sorting
    BY <1>5, <1>p DEF Sorting, Answering
  <1>9. QED BY <1>p, <1>3, <1>4, <1>5, <1>6, <1>7, <1>8, StepOn

-----------------------------------------------------------------------------
(***************************************************************************)
(* The steps of a build.                                                   *)
(***************************************************************************)
LEMMA StepGetScope ==
    ASSUME IInv, Still, NEW r \in Request, GetScope(r)
    PROVE  Kept /\ Typed
  <1> DEFINE key == ScopeKey(request[r].scope)
  <1>p. /\ request[r] \in RequestRecord /\ request \in [Request -> RequestRecord]
        /\ request[r].pc = "getScope" /\ request[r].pc \in Owner
        /\ request[r].scope \in Generation
    BY Facts DEF GetScope, Owner
  <1>1. PICK found \in Maybe :
          /\ Lookup(key, found)
          /\ IF found = None THEN Go(r, "fetch") /\ UNCHANGED scopeBuilds ELSE Settled(r, found)
    BY DEF GetScope
  <1>2. key \in Key /\ key[3] = request[r].scope BY <1>p, ScopeKeys
  <1> HIDE DEF key
  <1>3. /\ found # None => Fresh(found, request[r].scope)
        /\ TierInv' /\ memory' \in Tier /\ redis' \in Tier /\ faults' \in 0 .. MaxFaults
    BY <1>1, <1>2, LookupFresh DEF IInv, Still
  <1>4. CASE found = None
    <2> DEFINE q == [request[r] EXCEPT !.pc = "fetch"]
    <2>1. request' = [request EXCEPT ![r] = q] /\ UNCHANGED scopeBuilds
      BY <1>1, <1>4, <1>p DEF Go
    <2>2. /\ q.pc = "fetch" /\ q.gen = request[r].gen /\ q.scope = request[r].scope
          /\ q.data = request[r].data /\ q.again = request[r].again /\ q \in RequestRecord
      BY <1>p DEF RequestRecord, RequestPoint, Owner
    <2> HIDE DEF q
    <2>3. q.pc \in Owner /\ q.pc \notin {"keepScope", "putScope", "getBuilt"} BY <2>2 DEF Owner
    <2>4. QED BY <1>p, <1>3, <2>1, <2>2, <2>3, StepBuilder
  <1>5. CASE found # None
    <2>1. Settled(r, found) /\ Fresh(found, request[r].scope) BY <1>1, <1>3, <1>5
    <2>2. QED BY <2>1, <1>p, <1>3, SettledInv DEF IInv, Kept, Typed
  <1>6. QED BY <1>4, <1>5

LEMMA StepFetchScope ==
    ASSUME IInv, Still, NEW r \in Request, FetchScope(r)
    PROVE  Kept /\ Typed
  <1> DEFINE now == [version |-> products, life |-> life]
             q == [request[r] EXCEPT !.pc = "keepScope", !.built = now]
  <1>p. /\ request[r] \in RequestRecord /\ request \in [Request -> RequestRecord]
        /\ request[r].pc = "fetch" /\ request[r].pc \in Owner
        /\ request[r].scope \in Generation /\ UNCHANGED <<scopeBuilds, tierVars>>
        /\ TierInv' /\ memory' \in Tier /\ redis' \in Tier /\ faults' \in 0 .. MaxFaults
    BY Facts DEF FetchScope, Owner
  <1>1. now \in Data BY DEF IInv, CacheTypeOK, Data
  <1>2. Fresh(now, request[r].scope)
    <2>1. request[r].scope <= cacheGeneration /\ bornAt[request[r].scope] <= products
      BY <1>p, Facts DEF RequestFresh, Scoped, IInv, GenerationInv
    <2>2. /\ products \in Nat /\ life \in Nat /\ bornAt[request[r].scope] \in Nat
      BY <1>p, Numbers DEF IInv, CacheTypeOK
    <2>3. QED BY <1>1, <2>1, <2>2 DEF Fresh
  <1>3. request' = [request EXCEPT ![r] = q] BY <1>p DEF FetchScope
  <1> HIDE DEF now
  <1>4. /\ q.pc = "keepScope" /\ q.built = now /\ q.gen = request[r].gen
        /\ q.scope = request[r].scope /\ q.data = request[r].data
        /\ q.again = request[r].again /\ q \in RequestRecord
    BY <1>p, <1>1 DEF RequestRecord, RequestPoint, Owner, Maybe
  <1> HIDE DEF q
  <1>5. q.pc \in Owner BY <1>4 DEF Owner
  <1>6. QED BY <1>p, <1>2, <1>3, <1>4, <1>5, StepBuilder

\* All who share the build end with the error.
LEMMA StepFetchFails ==
    ASSUME IInv, Still, NEW r \in Request, FetchFails(r)
    PROVE  Kept /\ Typed
  <1> DEFINE f == [p \in Request |-> NoRequest]
  <1>p. /\ request \in [Request -> RequestRecord] /\ request[r].pc \in Owner
        /\ scopeBuilds \in [Generation -> Request \cup {None}]
        /\ scopeBuilds' = [scopeBuilds EXCEPT ![request[r].scope] = None]
        /\ TierInv' /\ memory' \in Tier /\ redis' \in Tier /\ faults' \in 0 .. MaxFaults
    BY Facts DEF FetchFails, Owner
  <1>1. request' = [p \in Request |-> IF Shares(p, r) THEN f[p] ELSE request[p]]
    BY DEF FetchFails
  <1>2. \A p \in Request : f[p].pc \notin Owner \cup {"joined"} BY DEF NoRequest, Owner
  <1>3. request' \in [Request -> RequestRecord] BY <1>1, <1>p, NoRequestGood
  <1>4. \A p \in Request : RequestFresh(request'[p])
    BY <1>1, NoRequestGood DEF IInv, RequestInv
  <1>5. RequestInv' BY <1>4, FreshStill DEF RequestInv, RequestFresh, Fresh, Still
  <1> HIDE DEF f
  <1>6. SharingInv' BY <1>1, <1>2, <1>p, ShareEnds DEF IInv
  <1>7. scopeBuilds' \in [Generation -> Request \cup {None}] BY <1>p
  <1>8. QED BY <1>p, <1>3, <1>5, <1>6, <1>7 DEF Kept, Typed

LEMMA StepKeepScope ==
    ASSUME IInv, Still, NEW r \in Request, KeepScope(r)
    PROVE  Kept /\ Typed
  <1> DEFINE key == ScopeKey(request[r].scope)
             q == [request[r] EXCEPT !.pc = "putScope"]
  <1>p. /\ request[r] \in RequestRecord /\ request \in [Request -> RequestRecord]
        /\ request[r].pc = "keepScope" /\ request[r].pc \in Owner
        /\ request[r].scope \in Generation /\ RequestFresh(request[r])
        /\ UNCHANGED scopeBuilds
    BY Facts DEF KeepScope, Owner
  <1>1. Fresh(request[r].built, request[r].scope) BY <1>p DEF RequestFresh
  <1>2. key \in Key /\ key[3] = request[r].scope BY <1>p, ScopeKeys
  <1>3. WriteMemory(key, request[r].built) BY DEF KeepScope
  <1> HIDE DEF key
  <1>4. TierInv' /\ memory' \in Tier /\ redis' \in Tier /\ faults' \in 0 .. MaxFaults
    BY <1>1, <1>2, <1>3, WriteFresh DEF IInv, Still
  <1>5. request' = [request EXCEPT ![r] = q] BY <1>p DEF KeepScope, Go
  <1>6. /\ q.pc = "putScope" /\ q.built = request[r].built /\ q.gen = request[r].gen
        /\ q.scope = request[r].scope /\ q.data = request[r].data
        /\ q.again = request[r].again /\ q \in RequestRecord
    BY <1>p DEF RequestRecord, RequestPoint, Owner
  <1> HIDE DEF q
  <1>7. q.pc \in Owner BY <1>6 DEF Owner
  <1>8. QED BY <1>p, <1>1, <1>4, <1>5, <1>6, <1>7, StepBuilder

LEMMA StepPutScope ==
    ASSUME IInv, Still, NEW r \in Request, PutScope(r)
    PROVE  Kept /\ Typed
  <1> DEFINE key == ScopeKey(request[r].scope)
             q == [request[r] EXCEPT !.pc = "getBuilt"]
  <1>p. /\ request[r] \in RequestRecord /\ request \in [Request -> RequestRecord]
        /\ request[r].pc = "putScope" /\ request[r].pc \in Owner
        /\ request[r].scope \in Generation /\ RequestFresh(request[r])
        /\ UNCHANGED scopeBuilds
    BY Facts DEF PutScope, Owner
  <1>1. Fresh(request[r].built, request[r].scope) BY <1>p DEF RequestFresh
  <1>2. key \in Key /\ key[3] = request[r].scope BY <1>p, ScopeKeys
  <1>3. WriteRedis(key, request[r].built) BY DEF PutScope
  <1> HIDE DEF key
  <1>4. TierInv' /\ memory' \in Tier /\ redis' \in Tier /\ faults' \in 0 .. MaxFaults
    BY <1>1, <1>2, <1>3, WriteFresh DEF IInv, Still
  <1>5. request' = [request EXCEPT ![r] = q] BY <1>p DEF PutScope, Go
  <1>6. /\ q.pc = "getBuilt" /\ q.built = request[r].built /\ q.gen = request[r].gen
        /\ q.scope = request[r].scope /\ q.data = request[r].data
        /\ q.again = request[r].again /\ q \in RequestRecord
    BY <1>p DEF RequestRecord, RequestPoint, Owner
  <1> HIDE DEF q
  <1>7. q.pc \in Owner BY <1>6 DEF Owner
  <1>8. QED BY <1>p, <1>1, <1>4, <1>5, <1>6, <1>7, StepBuilder

\* The build answers with what is stored by now, or with its own data.
LEMMA StepGetBuilt ==
    ASSUME IInv, Still, NEW r \in Request, GetBuilt(r)
    PROVE  Kept /\ Typed
  <1> DEFINE key == ScopeKey(request[r].scope)
  <1>p. /\ request[r].pc = "getBuilt" /\ request[r].pc \in Owner
        /\ request[r].scope \in Generation /\ RequestFresh(request[r])
    BY Facts DEF GetBuilt, Owner
  <1>1. PICK found \in Maybe :
          Lookup(key, found) /\ Settled(r, IF found = None THEN request[r].built ELSE found)
    BY DEF GetBuilt
  <1>2. key \in Key /\ key[3] = request[r].scope BY <1>p, ScopeKeys
  <1> HIDE DEF key
  <1>3. /\ found # None => Fresh(found, request[r].scope)
        /\ TierInv' /\ memory' \in Tier /\ redis' \in Tier /\ faults' \in 0 .. MaxFaults
    BY <1>1, <1>2, LookupFresh DEF IInv, Still
  <1> DEFINE data == IF found = None THEN request[r].built ELSE found
  <1>4. Fresh(data, request[r].scope) BY <1>3, <1>p DEF RequestFresh
  <1>5. Settled(r, data) BY <1>1
  <1> HIDE DEF data
  <1>6. QED BY <1>3, <1>4, <1>5, <1>p, SettledInv DEF IInv, Kept, Typed

-----------------------------------------------------------------------------
(***************************************************************************)
(* The invariant.                                                          *)
(***************************************************************************)
LEMMA StepRequest ==
    ASSUME IInv, NEW r \in Request, RequestStep(r)
    PROVE  IInv'
  <1>1. Still /\ UNCHANGED <<products, purging, cacheEvents>> BY DEF RequestStep, Still
  <1>2. begun' \in 0 .. MaxRequests
    <2>1. begun \in 0 .. MaxRequests BY DEF IInv, CacheTypeOK
    <2>2. begun' = begun \/ (begun < MaxRequests /\ begun' = begun + 1)
      BY DEF RequestStep, BeginRequest
    <2>3. QED BY <2>1, <2>2, RequestsAssumption
  <1>3. ASSUME EndRequest(r) \/ ReadFails(r)
        PROVE  Kept /\ Typed
    <2>1. request[r].pc \notin Owner BY <1>3 DEF EndRequest, ReadFails, Owner
    <2>2. QED BY <1>1, <1>3, <2>1, Ends DEF EndRequest, ReadFails
  <1>4. Kept /\ Typed
    BY <1>1, <1>3, StepBegin, StepGetResponse, StepEnterScope, StepGetScope, StepFetchScope,
       StepFetchFails, StepKeepScope, StepPutScope, StepGetBuilt, StepPlain, StepGetSorted,
       StepKeepSorted, StepPutSorted, StepKeepResponse, StepPutResponse
       DEF RequestStep, OnRequest
  <1>5. CacheTypeOK' BY <1>1, <1>2, <1>4 DEF IInv, CacheTypeOK, Still, Typed
  <1>6. GenerationInv' BY <1>1 DEF IInv, GenerationInv, Still
  <1>7. QED BY <1>4, <1>5, <1>6 DEF IInv, Kept

\* An event begins a generation, as new as the data; what is in Redis keeps
\* its own.
LEMMA StepInvalidate ==
    ASSUME IInv, InvalidateCache
    PROVE  IInv'
  <1> DEFINE new == cacheGeneration + 1
  <1>n. /\ cacheEvents \in Nat /\ products \in Nat /\ cacheGeneration \in Nat /\ MaxProducts \in Nat
        /\ products <= MaxProducts /\ life \in Nat
    BY ProductsAssumption, Numbers DEF IInv, CacheTypeOK, Version
  <1>1. new \in Generation
    BY <1>n DEF InvalidateCache, IInv, GenerationInv, Generation
  <1>2. /\ cacheGeneration' = new /\ bornAt' = [bornAt EXCEPT ![new] = products]
        /\ UNCHANGED <<products, redis, faults, request, life, begun>>
        /\ memory' = EmptyTier /\ scopeBuilds' = [g \in Generation |-> None]
        /\ purging' = TRUE /\ cacheEvents' = cacheEvents + 1 /\ cacheEvents < products
    BY DEF InvalidateCache
  <1>b. bornAt \in [Generation -> Version] BY DEF IInv, CacheTypeOK
  <1>e. EmptyTier \in Tier /\ \A k \in Key : EmptyTier[k] = None
    BY DEF EmptyTier, Tier, Maybe
  <1>3. CacheTypeOK'
    <2>1. bornAt' \in [Generation -> Version] BY <1>b, <1>2 DEF IInv, CacheTypeOK
    <2>2. cacheEvents' \in Version BY <1>2, <1>n DEF Version
    <2>3. QED BY <1>1, <1>2, <1>e, <2>1, <2>2 DEF IInv, CacheTypeOK
  <1>4. \A g \in Generation : g <= cacheGeneration => bornAt'[g] = bornAt[g]
    BY <1>n, <1>1, <1>2, <1>b, Numbers
  <1>5. GenerationInv'
    <2>1. cacheGeneration' <= cacheEvents' + 1 BY <1>2, <1>n DEF IInv, GenerationInv
    <2>2. \A g \in Generation : bornAt'[g] <= products'
      BY <1>2, <1>n, <1>b, <1>1 DEF IInv, GenerationInv
    <2>3. ASSUME NEW g \in Generation, NEW h \in Generation, g <= h, h <= cacheGeneration'
          PROVE  bornAt'[g] <= bornAt'[h]
      <3>1. CASE h = new
        BY <3>1, <2>2, <1>2, <1>b, <1>1
      <3>2. CASE h # new
        <4>1. g \in Nat /\ h \in Nat BY Numbers
        <4>2. h <= cacheGeneration /\ g <= cacheGeneration BY <3>2, <4>1, <2>3, <1>2, <1>n
        <4>3. QED BY <4>2, <2>3, <1>4 DEF IInv, GenerationInv
      <3>3. QED BY <3>1, <3>2
    <2>4. QED BY <2>1, <2>2, <2>3 DEF GenerationInv
  <1>6. ASSUME NEW data, NEW g \in Generation, Fresh(data, g)
        PROVE  Fresh(data, g)'
    BY <1>6, <1>4, <1>2, <1>n, Numbers DEF Fresh
  <1>7. TierInv'
    <2>1. ASSUME NEW k \in Key, NEW data, data = redis[k], data # None
          PROVE  Fresh(data, k[3])'
      <3>1. Fresh(data, k[3]) BY <2>1 DEF IInv, TierInv
      <3>2. QED BY <3>1, <1>6, KeyGeneration
    <2>2. QED BY <1>2, <1>e, <2>1 DEF TierInv, Fresh
  <1>8. RequestInv'
    <2> SUFFICES ASSUME NEW r \in Request PROVE RequestFresh(request[r])'
      BY <1>2 DEF RequestInv, RequestFresh, Fresh
    <2>1. /\ RequestFresh(request[r]) /\ request[r].gen \in Generation
          /\ request[r].scope \in Generation /\ request' = request
      BY <1>2, Facts
    <2>2. request[r].gen \in Nat /\ request[r].scope \in Nat BY <2>1, Numbers
    <2>3. QED BY <2>1, <2>2, <1>2, <1>6, <1>n DEF RequestFresh
  <1>9. SharingInv'
    <2>1. \A r \in Request : request[r].pc \in Owner => request[r].scope # new
      <3> SUFFICES ASSUME NEW r \in Request, request[r].pc \in Owner PROVE request[r].scope # new
        OBVIOUS
      <3>1. request[r].scope <= cacheGeneration /\ request[r].scope \in Nat
        BY Facts, Numbers DEF RequestFresh, Scoped
      <3>2. QED BY <3>1, <1>n
    <2>2. BuildInv' BY <1>2, <2>1 DEF BuildInv
    <2>3. SingleFlight' /\ JoinedIsBuilding'
      BY <1>2 DEF IInv, SharingInv, SingleFlight, JoinedIsBuilding
    <2>4. QED BY <2>2, <2>3 DEF SharingInv
  <1>10. QED BY <1>3, <1>5, <1>7, <1>8, <1>9 DEF IInv

\* Purging and restarting only forget; what Redis keeps was read by an earlier life.
LEMMA StepPurge ==
    ASSUME IInv, PurgeRedis
    PROVE  IInv'
  <1>1. EmptyTier \in Tier /\ \A k \in Key : EmptyTier[k] = None
    BY DEF EmptyTier, Tier, Maybe
  <1>2. faults' \in 0 .. MaxFaults
    BY RequestsAssumption DEF PurgeRedis, Fault, IInv, CacheTypeOK
  <1>3. CacheTypeOK' BY <1>1, <1>2 DEF PurgeRedis, IInv, CacheTypeOK
  <1>4. TierInv' BY <1>1 DEF PurgeRedis, IInv, TierInv, Fresh
  <1>5. GenerationInv' BY DEF PurgeRedis, IInv, GenerationInv
  <1>6. RequestInv' BY DEF PurgeRedis, IInv, RequestInv, RequestFresh, Fresh
  <1>7. SharingInv'
    BY DEF PurgeRedis, IInv, SharingInv, BuildInv, SingleFlight, JoinedIsBuilding
  <1>8. QED BY <1>3, <1>4, <1>5, <1>6, <1>7 DEF IInv

LEMMA StepRestart ==
    ASSUME IInv, CacheRestart
    PROVE  IInv'
  <1>n. /\ life \in Nat /\ MaxLives \in Nat /\ cacheEvents \in Nat /\ products \in Nat
        /\ MaxProducts \in Nat
    BY LivesAssumption, ProductsAssumption, Numbers DEF IInv, CacheTypeOK
  <1>1. EmptyTier \in Tier /\ \A k \in Key : EmptyTier[k] = None
    BY DEF EmptyTier, Tier, Maybe
  <1>2. CacheTypeOK'
    <2>1. 1 \in Generation /\ 0 \in Version BY <1>n DEF Generation, Version
    <2>2. life' \in Life BY <1>n DEF CacheRestart, IInv, CacheTypeOK, Life
    <2>3. QED BY <1>1, <2>1, <2>2, NoRequestGood DEF CacheRestart, IInv, CacheTypeOK
  <1>3. GenerationInv' BY <1>n DEF CacheRestart, GenerationInv
  <1>4. ASSUME NEW data, NEW g, Fresh(data, g)
        PROVE  Fresh(data, g)'
    <2>1. data.life \in Nat BY <1>4, Numbers DEF Fresh, Data
    <2>2. QED BY <1>4, <2>1, <1>n DEF Fresh, CacheRestart
  <1>5. TierInv'
    <2>1. ASSUME NEW k \in Key, NEW data, data = redis[k], data # None
          PROVE  Fresh(data, k[3])'
      BY <2>1, <1>4 DEF IInv, TierInv
    <2>2. QED BY <1>1, <2>1 DEF TierInv, Fresh, CacheRestart
  <1>6. RequestInv'
    BY DEF CacheRestart, RequestInv, RequestFresh, NoRequest, Owner, Scoped, Sorting
  <1>7. SharingInv'
    BY DEF CacheRestart, SharingInv, BuildInv, SingleFlight, JoinedIsBuilding, NoRequest, Owner
  <1>8. QED BY <1>2, <1>3, <1>5, <1>6, <1>7 DEF IInv

LEMMA IInvInit == CacheInit => IInv
  <1> SUFFICES ASSUME CacheInit PROVE IInv
    OBVIOUS
  <1>1. EmptyTier \in Tier /\ \A k \in Key : EmptyTier[k] = None
    BY DEF EmptyTier, Tier, Maybe
  <1>2. CacheTypeOK
    <2>1. 1 \in Generation /\ 0 \in Version /\ 1 \in Life
      BY ProductsAssumption, LivesAssumption DEF Generation, Version, Life
    <2>2. 0 \in 0 .. MaxRequests /\ 0 \in 0 .. MaxFaults BY RequestsAssumption
    <2>3. request \in [Request -> RequestRecord] BY NoRequestGood DEF CacheInit
    <2>4. QED BY <1>1, <2>1, <2>2, <2>3 DEF CacheInit, CacheTypeOK
  <1>3. GenerationInv BY DEF CacheInit, GenerationInv
  <1>4. TierInv BY <1>1 DEF CacheInit, TierInv
  <1>5. RequestInv
    BY DEF CacheInit, RequestInv, RequestFresh, NoRequest, Owner, Scoped, Sorting
  <1>6. SharingInv
    BY DEF CacheInit, SharingInv, BuildInv, SingleFlight, JoinedIsBuilding, NoRequest, Owner
  <1>7. QED BY <1>2, <1>3, <1>4, <1>5, <1>6 DEF IInv

LEMMA IInvNext == IInv /\ [CacheNext]_<<products, cacheVars>> => IInv'
  <1> SUFFICES ASSUME IInv, [CacheNext]_<<products, cacheVars>> PROVE IInv'
    OBVIOUS
  <1>1. CASE \E r \in Request : RequestStep(r) BY <1>1, StepRequest
  <1>2. CASE InvalidateCache BY <1>2, StepInvalidate
  <1>3. CASE PurgeRedis BY <1>3, StepPurge
  <1>4. CASE CacheRestart BY <1>4, StepRestart
  <1>5. ASSUME UNCHANGED cacheVars, products <= products', products' \in Version
        PROVE  IInv'
    <2> USE <1>5 DEF cacheVars, tierVars
    <2>1. CacheTypeOK' BY DEF IInv, CacheTypeOK
    <2>2. GenerationInv'
      <3>1. products \in Nat /\ products' \in Nat /\ \A g \in Generation : bornAt[g] \in Nat
        BY Numbers DEF IInv, CacheTypeOK
      <3>2. QED BY <3>1 DEF IInv, GenerationInv
    <2>3. TierInv' BY DEF IInv, TierInv, Fresh
    <2>4. RequestInv' BY DEF IInv, RequestInv, RequestFresh, Fresh
    <2>5. SharingInv' BY DEF IInv, SharingInv, BuildInv, SingleFlight, JoinedIsBuilding
    <2>6. QED BY <2>1, <2>2, <2>3, <2>4, <2>5 DEF IInv
  <1>6. CASE WriteProduct /\ UNCHANGED cacheVars
    <2>1. products <= products' /\ products' \in Version
      BY <1>6, ProductsAssumption DEF WriteProduct, IInv, CacheTypeOK, Version
    <2>2. QED BY <1>5, <1>6, <2>1
  <1>7. CASE UNCHANGED <<products, cacheVars>>
    <2>1. products <= products' /\ products' \in Version
      BY <1>7, Numbers DEF IInv, CacheTypeOK
    <2>2. QED BY <1>5, <1>7, <2>1
  <1>8. QED BY <1>1, <1>2, <1>3, <1>4, <1>6, <1>7 DEF CacheNext

-----------------------------------------------------------------------------
\* Every reachable state of the cache satisfies the invariant.
THEOREM CacheInvariance == CacheSpec => []IInv
  BY IInvInit, IInvNext, PTL DEF CacheSpec

\* The tiers, the builds and the requests keep their types: a generation in
\* a key is one that has begun.
THEOREM CacheTypes == CacheSpec => []CacheTypeOK
  <1>1. IInv => CacheTypeOK BY DEF IInv
  <1>2. QED BY CacheInvariance, <1>1, PTL

\* The generation in the keys keeps what an overtaken request stores away
\* from those who come later (shop-catalog-cache.ts), within one process.
THEOREM AnswersFresh == CacheSpec => []StaleOnlyAcrossRestart
  <1>1. IInv => StaleOnlyAcrossRestart
    <2> SUFFICES ASSUME IInv, NEW r \in Request, request[r].pc = "done"
                 PROVE  \/ request[r].data.version >= bornAt[request[r].gen]
                        \/ request[r].data.life < life
      BY DEF StaleOnlyAcrossRestart
    <2>1. RequestFresh(request[r]) BY Facts
    <2>2. QED BY <2>1 DEF RequestFresh, Fresh
  <1>2. QED BY CacheInvariance, <1>1, PTL

\* getOrCreateScopeBuild: no scope is built twice at a time.
THEOREM OneBuild == CacheSpec => []SingleFlight
  <1>1. IInv => SingleFlight BY DEF IInv, SharingInv
  <1>2. QED BY CacheInvariance, <1>1, PTL

\* A request that joined a build waits for one that is under way.
THEOREM JoinedBuilds == CacheSpec => []JoinedIsBuilding
  <1>1. IInv => JoinedIsBuilding BY DEF IInv, SharingInv
  <1>2. QED BY CacheInvariance, <1>1, PTL
=============================================================================
