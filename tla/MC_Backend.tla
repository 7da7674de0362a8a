---------------------------- MODULE MC_Backend ----------------------------
(***************************************************************************)
(* Small instances of the Medusa process for TLC.                          *)
(***************************************************************************)
EXTENDS Backend, TLC

Nothing == [writes |-> 1, searching |-> {}, kinds |-> {}, requests |-> 0,
            handling |-> {}, restarts |-> FALSE]

\* Searches; requests for facets, with a restart; a listing and another request;
\* a search and a request; order events.
MCLoads == {
    [Nothing EXCEPT !.writes = 2, !.searching = Search],
    [Nothing EXCEPT !.kinds = {"facets"}, !.requests = 3, !.restarts = TRUE],
    [Nothing EXCEPT !.writes = 2, !.kinds = {"facets"}, !.requests = 2, !.restarts = TRUE],
    [Nothing EXCEPT !.kinds = {"facets", "sorted"}, !.requests = 2],
    [Nothing EXCEPT !.kinds = {"facets", "index"}, !.requests = 2, !.restarts = TRUE],
    [Nothing EXCEPT !.searching = {CHOOSE s \in Search : TRUE}, !.kinds = {"facets"},
                    !.requests = 1, !.restarts = TRUE],
    [Nothing EXCEPT !.handling = Handler, !.restarts = TRUE]}

\* The requests for the catalogue are interchangeable.
Symmetry == Permutations(Request)
=============================================================================
