------------------------------ MODULE Backend ------------------------------
(***************************************************************************)
(* The Medusa process of the shop: the search index, the catalogue cache   *)
(* and the reporting subscriber in one Node process.  They share the       *)
(* product data, whose events reach the two product subscribers            *)
(* independently, and a restart, which forgets what is in memory and keeps *)
(* Redis and the database.                                                 *)
(*                                                                         *)
(* Each behaviour has a load: what is asked of the process.  A load only   *)
(* says which requests and events come, never how they interleave.         *)
(***************************************************************************)
EXTENDS SearchIndex, CatalogCache, CommerceReporting

CONSTANT Loads  \* bound: the loads considered

\* "writes": the writes to the product data; "searching": the searches used; "kinds", "requests": what is asked of the
\* catalogue, how often; "handling": the handlers of order events used;
\* "restarts": may the process restart.
ASSUME LoadsAssumption ==
    \A l \in Loads : /\ l.searching \subseteq Search /\ l.handling \subseteq Handler
                     /\ l.kinds \subseteq Kind /\ l.requests \in Nat /\ l.writes \in Nat /\ l.restarts \in BOOLEAN

VARIABLE load

vars == <<products, searchVars, cacheVars, reportVars, load>>

TypeOK == SearchTypeOK /\ CacheTypeOK /\ ReportTypeOK

Init == SearchInit /\ CacheInit /\ ReportInit /\ load \in Loads

\* Each component moves by itself; one that nobody asks is left out of the load,
\* with its subscriber: it has nothing to invalidate.
IndexStep ==
    /\ load.searching # {}
    /\ UNCHANGED <<cacheVars, reportVars, load>>
    /\ \/ \E s \in load.searching : SearchStep(s) /\ Remember(FALSE)
       \/ InvalidateIndex /\ Remember(TRUE)
       \/ IndexAges /\ UNCHANGED overtaken

CacheStep ==
    /\ load.requests > 0
    /\ UNCHANGED <<searchVars, reportVars, load>>
    /\ \/ \E r \in Request :
             RequestStep(r) /\ begun' <= load.requests /\ request'[r].kind \in load.kinds \cup {NoRequest.kind}
       \/ InvalidateCache
       \/ PurgeRedis

ReportStep ==
    /\ UNCHANGED <<products, searchVars, cacheVars, load>>
    /\ \E h \in load.handling : HandlerStep(h)

\* The process dies and a new one starts.
Restart ==
    /\ load.restarts
    /\ CacheRestart
    /\ SearchRestart
    /\ ReportRestart
    /\ UNCHANGED load

Next ==
    \/ IndexStep
    \/ CacheStep
    \/ ReportStep
    \/ Restart
    \/ products < load.writes /\ WriteProduct /\ UNCHANGED <<searchVars, cacheVars, reportVars, load>>

Spec == Init /\ [][Next]_vars
=============================================================================
