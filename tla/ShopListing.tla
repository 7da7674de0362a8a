---------------------------- MODULE ShopListing ----------------------------
(***************************************************************************)
(* What GET /store/shop/catalog answers: the shop's backend filters, sorts *)
(* and cuts the catalogue into pages, along one of two ways                *)
(* (shop-catalog-service.ts).  A request without filters is served from a  *)
(* sorted list of ids, a request with filters from the index entries.      *)
(*                                                                         *)
(* A product has one variant and its number is its date of creation.  A    *)
(* catalogue c holds, for each product p, the price, the demo sale price   *)
(* (no sale unless it is lower), the units sold, whether it is in stock,   *)
(* published, its size, and the ranking stored by the last run of the      *)
(* bestseller job (empty: none, or the listing of a category).             *)
(***************************************************************************)
EXTENDS Integers, Sequences, FiniteSets, SequencesExt

CONSTANTS
    Products,   \* how many products there are
    PageSize,   \* SHOP_PAGE_SIZE
    Sizes,      \* the sizes there are
    None        \* no value

ASSUME ProductsAssumption == Products \in Nat
ASSUME PageSizeAssumption == PageSize \in Nat \ {0}
ASSUME NoneAssumption == None \notin Nat

Product == 1..Products

Sort == {"latest", "oldest", "price-asc", "price-desc", "bestsellers"}

Catalogue ==
    [price : [Product -> Nat], demo : [Product -> Nat], sold : [Product -> Nat],
     stock : [Product -> BOOLEAN], published : [Product -> BOOLEAN],
     size : [Product -> Sizes], ranked : Seq(Product)]

Request ==
    [sort : Sort, size : Sizes \cup {None}, min : Nat \cup {None},
     max : Nat \cup {None}, sale : BOOLEAN]

Published(c) == {p \in Product : c.published[p]}

\* The price with a demo sale; a sale price that is not lower is no sale.
OnSale(c, p) == c.demo[p] < c.price[p]
Paid(c, p) == IF OnSale(c, p) THEN c.demo[p] ELSE c.price[p]

\* Whether a comes before b; the number decides where the sort leaves the
\* order of the database.
Precedes(c, sort, amount, a, b) ==
    CASE sort = "latest"      -> a > b
      [] sort = "oldest"      -> a < b
      [] sort = "price-asc"   -> amount[a] < amount[b] \/ (amount[a] = amount[b] /\ a < b)
      [] sort = "price-desc"  -> amount[a] > amount[b] \/ (amount[a] = amount[b] /\ a < b)
      [] sort = "bestsellers" -> c.sold[a] > c.sold[b] \/ (c.sold[a] = c.sold[b] /\ a > b)

\* An order is a set of pairs.
Order(c, sort, amount) == {ab \in Product \X Product : Precedes(c, sort, amount, ab[1], ab[2])}
Rising(I) == {ij \in I \X I : ij[1] < ij[2]}

\* The sequence of what is in S: each has as many before it as it has in S in the
\* order.
Place(S, order, x) == Cardinality({y \in S : <<y, x>> \in order})
InOrder(S, order) ==
    [k \in 1..Cardinality(S) |-> CHOOSE x \in S : Place(S, order, x) = k - 1]

\* Mutant: what is out of stock stays where the sort put it.
SortedOnly(c, S, sort, amount) == InOrder(S, Order(c, sort, amount))

\* Sorted, and what is out of stock moved behind what is not.
Arranged(c, S, sort, amount) ==
    LET order == Order(c, sort, amount)
    IN  InOrder({p \in S : c.stock[p]}, order) \o InOrder({p \in S : ~c.stock[p]}, order)

\* What the bestseller job stores: every product there is, published or not.
Ranking(c) == InOrder(Product, Order(c, "bestsellers", c.price))

\* A request r has a sort, a size, a lowest and a highest price (or None) and
\* whether it asks for sale items only.
Filtered(r) == r.sale \/ r.size # None \/ r.min # None \/ r.max # None

Scope(c, r) == {p \in Published(c) : r.sale => OnSale(c, p)}

\* The low end of the price slider for a set of products.
LowestPrice(c, S) == IF S = {} THEN 0 ELSE Min({Paid(c, p) : p \in S})

\* The price the price filter looks at: a sale price of nothing counts as none.
Effective(c, p) == IF Paid(c, p) = 0 THEN c.price[p] ELSE Paid(c, p)

Or(value, default) == IF value = None THEN default ELSE value

\* An end of the slider that is not in the request is that of the whole scope and
\* turns nothing away.
Matches(c, r, p) ==
    /\ r.size # None => c.size[p] = r.size
    /\ r.min # None => r.min <= Effective(c, p)
    /\ r.max # None => Effective(c, p) <= r.max

\* The two ways: the entries of the index carry the regular price, the products
\* of the sorted list the sale price.
Chosen(c, r) == {p \in Scope(c, r) : Matches(c, r, p)}
ByIndex(c, r) == Arranged(c, Chosen(c, r), r.sort, c.price)

BySortedIds(c, r) ==
    IF r.sort = "bestsellers" /\ c.ranked # <<>>
    THEN c.ranked
    ELSE Arranged(c, Published(c), r.sort, [p \in Product |-> Paid(c, p)])

Listing(c, r) == IF Filtered(r) THEN ByIndex(c, r) ELSE BySortedIds(c, r)

\* What is left of s when all that is not in S is taken out of it.
Keep(s, S) ==
    LET I == {i \in DOMAIN s : s[i] \in S}
        kept == InOrder(I, Rising(I))
    IN  [k \in DOMAIN kept |-> s[kept[k]]]

\* The pages from..to of a list of ids; ids of unpublished products find nothing.
Pages(c, ids, from, to) ==
    LET last == IF to * PageSize < Len(ids) THEN to * PageSize ELSE Len(ids)
    IN  Keep(SubSeq(ids, (from - 1) * PageSize + 1, last), Published(c))

PageCount(ids) == IF ids = <<>> THEN 1 ELSE (Len(ids) + PageSize - 1) \div PageSize
=============================================================================
