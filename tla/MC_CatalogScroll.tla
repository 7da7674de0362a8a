-------------------------- MODULE MC_CatalogScroll --------------------------
(***************************************************************************)
(* Small instances of the product list for TLC.                            *)
(***************************************************************************)
EXTENDS CatalogScroll

\* Prices that disagree with the dates; the oldest product sells best.
Plenty == [price |-> <<30, 10, 20, 40, 20>>, demo |-> <<90, 90, 90, 90, 90>>,
           sold |-> <<5, 1, 0, 2, 1>>, stock |-> [p \in Product |-> TRUE],
           published |-> [p \in Product |-> TRUE],
           size |-> <<"S", "M", "S", "M", "S">>, ranked |-> <<>>]

\* The one that sells best and the newest are out of stock, three are on sale, one of them
\* for nothing.
Sales == [Plenty EXCEPT !.stock = [p \in Product |-> p \notin {1, 5}], !.demo = <<8, 90, 15, 90, 0>>]

\* One product is no longer published, but ranked.
Ranked == [Sales EXCEPT !.published[3] = FALSE, !.ranked = Ranking(Sales)]

MCCatalogues == {Plenty, Sales, Ranked}

By(sort) == [Anything EXCEPT !.sort = sort]
MCQueries == {Anything, By("price-asc"), By("bestsellers"),
              [Anything EXCEPT !.size = "S"], [Anything EXCEPT !.sale = TRUE],
              [By("oldest") EXCEPT !.max = 10], [By("price-desc") EXCEPT !.min = 15],
              [By("bestsellers") EXCEPT !.min = 0]}
=============================================================================
