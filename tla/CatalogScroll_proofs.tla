-------------------------- MODULE CatalogScroll_proofs ----------------------
(***************************************************************************)
(* Proofs about the product list, for any catalogues, queries and page     *)
(* size: types, that the pages on the screen join up to the listing, and   *)
(* that what is in stock comes first.                                      *)
(*                                                                         *)
(* The order of a listing is a matter of places: in a strict order of a    *)
(* finite set, no two have the same number before them, so InOrder lists   *)
(* each once, in the order (InOrderIs).  Hence the part of an arrangement  *)
(* that is in stock ends at one place (ArrangedIs), and a page of it is    *)
(* known by its places (PageOf).                                           *)
(*                                                                         *)
(* The invariant: a page under way for the list on the screen is the next  *)
(* one, asked for with a lowest price that turns nothing away (LoadInv,    *)
(* FloorIs); so it is cut from the same listing and continues what is      *)
(* shown (PageJoins), or at least from one with as many in stock, and once *)
(* something sold out is shown no page to come has room for more           *)
(* (StockShown, StockJoins).                                               *)
(***************************************************************************)
EXTENDS CatalogScroll, FiniteSetTheorems, SequenceTheorems, TLAPS

-----------------------------------------------------------------------------
(* Orders and places. *)

\* A strict order of what is in S.
Orders(S, order) ==
    /\ \A x \in S : <<x, x>> \notin order
    /\ \A x, y, z \in S : <<x, y>> \in order /\ <<y, z>> \in order => <<x, z>> \in order
    /\ \A x, y \in S : x # y => <<x, y>> \in order \/ <<y, x>> \in order

Below(S, order, x) == {y \in S : <<y, x>> \in order}

\* Who comes later has a higher place; so two have different places, all below
\* the number there are.
LEMMA PlacesRise ==
  ASSUME NEW S, IsFiniteSet(S), NEW order, Orders(S, order)
  PROVE  /\ \A x \in S : Place(S, order, x) \in 0..(Cardinality(S) - 1)
         /\ \A x, y \in S : <<x, y>> \in order => Place(S, order, x) < Place(S, order, y)
  <1>1. ASSUME NEW x \in S
        PROVE  /\ IsFiniteSet(Below(S, order, x)) /\ Cardinality(Below(S, order, x)) \in Nat
               /\ Cardinality(Below(S, order, x)) < Cardinality(S)
    <2>1. Below(S, order, x) \in SUBSET S /\ x \notin Below(S, order, x) BY DEF Below, Orders
    <2>2. /\ IsFiniteSet(Below(S, order, x)) /\ Cardinality(Below(S, order, x)) <= Cardinality(S)
          /\ Cardinality(S) = Cardinality(Below(S, order, x)) => S = Below(S, order, x)
      BY <2>1, FS_Subset
    <2>3. Cardinality(S) \in Nat /\ Cardinality(Below(S, order, x)) \in Nat BY <2>2, FS_CardinalityType
    <2>4. QED BY <2>1, <2>2, <2>3
  <1>2. ASSUME NEW x \in S, NEW y \in S, <<x, y>> \in order
        PROVE  Cardinality(Below(S, order, x)) < Cardinality(Below(S, order, y))
    <2>1. /\ Below(S, order, x) \in SUBSET Below(S, order, y)
          /\ x \in Below(S, order, y) /\ x \notin Below(S, order, x)
      BY <1>2 DEF Below, Orders
    <2>2. IsFiniteSet(Below(S, order, y)) BY <1>1
    <2>3. /\ Cardinality(Below(S, order, x)) <= Cardinality(Below(S, order, y))
          /\ Cardinality(Below(S, order, y)) = Cardinality(Below(S, order, x))
                => Below(S, order, y) = Below(S, order, x)
      BY <2>1, <2>2, FS_Subset
    <2>4. QED BY <1>1, <2>1, <2>3
  <1>3. Cardinality(S) \in Nat BY FS_CardinalityType
  <1>4. \A x : Place(S, order, x) = Cardinality(Below(S, order, x)) BY DEF Place, Below
  <1>5. QED BY <1>1, <1>2, <1>3, <1>4

\* InOrder lists what is in S, each once, in the order.
LEMMA InOrderIs ==
  ASSUME NEW S, IsFiniteSet(S), NEW order, Orders(S, order)
  PROVE  /\ Cardinality(S) \in Nat
         /\ InOrder(S, order) \in [1..Cardinality(S) -> S]
         /\ \A x \in S : \E k \in 1..Cardinality(S) : InOrder(S, order)[k] = x
         /\ \A j, k \in 1..Cardinality(S) :
               j < k => <<InOrder(S, order)[j], InOrder(S, order)[k]>> \in order
         /\ \A k \in 1..Cardinality(S) : Place(S, order, InOrder(S, order)[k]) = k - 1
  <1> DEFINE n == Cardinality(S)
             f == [x \in S |-> Place(S, order, x) + 1]
  <1>1. n \in Nat BY FS_CardinalityType
  <1>2. \A x \in S : Place(S, order, x) \in 0..(n - 1) BY PlacesRise
  <1>3. \A x, y \in S : <<x, y>> \in order => Place(S, order, x) < Place(S, order, y) BY PlacesRise
  <1>4. \A x, y \in S : Place(S, order, x) = Place(S, order, y) => x = y
    <2> SUFFICES ASSUME NEW x \in S, NEW y \in S, Place(S, order, x) = Place(S, order, y), x # y
                 PROVE  FALSE
      OBVIOUS
    <2>1. <<x, y>> \in order \/ <<y, x>> \in order BY DEF Orders
    <2>2. Place(S, order, x) < Place(S, order, y) \/ Place(S, order, y) < Place(S, order, x) BY <1>3, <2>1
    <2>3. Place(S, order, x) \in Int /\ Place(S, order, y) \in Int BY <1>1, <1>2
    <2>4. QED BY <2>2, <2>3
  <1>5. \A k \in 1..n : \E x \in S : Place(S, order, x) = k - 1
    <2>1. f \in [S -> 1..n] BY <1>1, <1>2
    <2>2. f \in Injection(S, 1..n)
      <3>1. \A x, y \in S : f[x] = f[y] => x = y BY <1>2, <1>4
      <3>2. QED BY <2>1, <3>1 DEF Injection, IsInjective
    <2>3. IsFiniteSet(1..n) /\ Cardinality(1..n) = n BY <1>1, FS_Interval
    <2>4. f \in Surjection(S, 1..n) BY <2>2, <2>3, FS_Injection
    <2>5. \A k \in 1..n : \E x \in S : f[x] = k BY <2>4 DEF Surjection
    <2>6. QED BY <1>2, <2>5
  <1>6. ASSUME NEW k \in 1..n
        PROVE  InOrder(S, order)[k] \in S /\ Place(S, order, InOrder(S, order)[k]) = k - 1
    <2>1. InOrder(S, order)[k] = CHOOSE x \in S : Place(S, order, x) = k - 1 BY DEF InOrder
    <2>2. QED BY <1>5, <2>1
  <1>7. InOrder(S, order) \in [1..n -> S] BY <1>6 DEF InOrder
  <1>8. ASSUME NEW x \in S PROVE \E k \in 1..n : InOrder(S, order)[k] = x
    <2>1. Place(S, order, x) + 1 \in 1..n BY <1>1, <1>2
    <2>2. InOrder(S, order)[Place(S, order, x) + 1] = x BY <1>2, <1>4, <1>6, <2>1
    <2>3. QED BY <2>1, <2>2
  <1>9. ASSUME NEW j \in 1..n, NEW k \in 1..n, j < k
        PROVE  <<InOrder(S, order)[j], InOrder(S, order)[k]>> \in order
    <2> DEFINE x == InOrder(S, order)[j]
               y == InOrder(S, order)[k]
    <2>1. x \in S /\ y \in S /\ Place(S, order, x) = j - 1 /\ Place(S, order, y) = k - 1 BY <1>6
    <2> HIDE DEF x, y
    <2>2. x # y /\ <<y, x>> \notin order BY <1>3, <1>9, <2>1
    <2>3. <<x, y>> \in order BY <2>1, <2>2 DEF Orders
    <2>4. QED BY <2>3 DEF x, y
  <1>10. QED BY <1>1, <1>6, <1>7, <1>8, <1>9

\* The orders in use are orders.
LEMMA SortOrders ==
  ASSUME NEW c \in Catalogue, NEW S \in SUBSET Product, NEW sort \in Sort, NEW amount \in [Product -> Nat]
  PROVE  Orders(S, Order(c, sort, amount))
  <1>1. /\ \A p \in Product : p \in Nat /\ amount[p] \in Nat /\ c.sold[p] \in Nat
    BY ProductsAssumption DEF Product, Catalogue
  <1>2. \A x, y \in S : <<x, y>> \in Order(c, sort, amount) <=> Precedes(c, sort, amount, x, y)
    BY DEF Order
  <1>3. /\ \A x \in S : ~Precedes(c, sort, amount, x, x)
        /\ \A x, y, z \in S : Precedes(c, sort, amount, x, y) /\ Precedes(c, sort, amount, y, z)
                                 => Precedes(c, sort, amount, x, z)
        /\ \A x, y \in S : x # y => Precedes(c, sort, amount, x, y) \/ Precedes(c, sort, amount, y, x)
    <2>1. CASE sort = "latest" BY <1>1, <2>1 DEF Precedes
    <2>2. CASE sort = "oldest" BY <1>1, <2>2 DEF Precedes
    <2>3. CASE sort = "price-asc" BY <1>1, <2>3 DEF Precedes
    <2>4. CASE sort = "price-desc" BY <1>1, <2>4 DEF Precedes
    <2>5. CASE sort = "bestsellers" BY <1>1, <2>5 DEF Precedes
    <2>6. QED BY <2>1, <2>2, <2>3, <2>4, <2>5 DEF Sort
  <1>4. QED BY <1>2, <1>3 DEF Orders

\* Numbers in their natural order.
LEMMA RisingOrders ==
  ASSUME NEW I \in SUBSET Int
  PROVE  Orders(I, Rising(I))
  BY DEF Orders, Rising

\* There are finitely many products.
LEMMA ProductsFinite == IsFiniteSet(Product) /\ \A S \in SUBSET Product : IsFiniteSet(S)
  <1>1. IsFiniteSet(Product) BY ProductsAssumption, FS_Interval DEF Product
  <1>2. QED BY <1>1, FS_Subset

\* What Keep leaves of a sequence: its elements that are in S, by rising positions.
Positions(s, S) == LET I == {i \in DOMAIN s : s[i] \in S} IN InOrder(I, Rising(I))

\* What is kept of a sequence: its elements that are in S, in the order they had.
LEMMA KeepIs ==
  ASSUME NEW P, NEW s \in Seq(P), NEW S
  PROVE  /\ Keep(s, S) \in Seq(P) /\ Len(Keep(s, S)) \in Nat
         /\ \A k \in 1..Len(Keep(s, S)) :
               Positions(s, S)[k] \in 1..Len(s) /\ Keep(s, S)[k] = s[Positions(s, S)[k]]
         /\ \A j, k \in 1..Len(Keep(s, S)) : j < k => Positions(s, S)[j] < Positions(s, S)[k]
  <1> DEFINE I == {i \in 1..Len(s) : s[i] \in S}
             at == InOrder(I, Rising(I))
             n == Cardinality(I)
  <1>1. Len(s) \in Nat /\ DOMAIN s = 1..Len(s) /\ \A i \in 1..Len(s) : s[i] \in P
    BY LenProperties, ElementOfSeq
  <1>2. I \in SUBSET (1..Len(s)) /\ IsFiniteSet(I) /\ I \in SUBSET Int
    <2>1. IsFiniteSet(1..Len(s)) BY <1>1, FS_Interval
    <2>2. I \in SUBSET (1..Len(s)) OBVIOUS
    <2>3. QED BY <1>1, <2>1, <2>2, FS_Subset
  <1>3. Orders(I, Rising(I)) BY <1>2, RisingOrders
  <1>4. /\ n \in Nat /\ at \in [1..n -> I]
        /\ \A j, k \in 1..n : j < k => <<at[j], at[k]>> \in Rising(I)
    <2> HIDE DEF I
    <2>1. QED BY <1>2, <1>3, InOrderIs
  <1>5. Keep(s, S) = [k \in 1..n |-> s[at[k]]] /\ Positions(s, S) = at
    BY <1>1, <1>4 DEF Keep, Positions
  <1> HIDE DEF at, n
  <1>6. at \in [1..n -> 1..Len(s)] BY <1>2, <1>4
  <1>7. \A j, k \in 1..n : j < k => at[j] < at[k] BY <1>4 DEF Rising
  <1>8. Keep(s, S) \in Seq(P) /\ Len(Keep(s, S)) = n
    <2>1. [k \in 1..n |-> s[at[k]]] \in [1..n -> P] BY <1>1, <1>6
    <2>2. QED BY <1>4, <1>5, <2>1, LenProperties, SeqDef
  <1>9. QED BY <1>4, <1>5, <1>6, <1>7, <1>8

\* Nothing is taken out of a sequence of elements of S.
LEMMA KeepAll ==
  ASSUME NEW P, NEW s \in Seq(P), NEW S, \A i \in 1..Len(s) : s[i] \in S
  PROVE  Keep(s, S) = s
  <1>1. Len(s) \in Nat /\ DOMAIN s = 1..Len(s) BY LenProperties
  <1> DEFINE m == Len(s)
             R == Rising(1..m)
             at == InOrder(1..m, R)
  <1>2. IsFiniteSet(1..m) /\ Cardinality(1..m) = m BY <1>1, FS_Interval
  <1>3. Orders(1..m, R) BY <1>1, RisingOrders
  <1>4. \A k \in 1..m : at[k] \in 1..m /\ Place(1..m, R, at[k]) = k - 1
    <2> DEFINE I == 1..m
               n == Cardinality(I)
    <2>1. n = m /\ IsFiniteSet(I) /\ Orders(I, R) BY <1>2, <1>3
    <2> HIDE DEF I, R
    <2>2. /\ InOrder(I, R) \in [1..n -> I]
          /\ \A k \in 1..n : Place(I, R, InOrder(I, R)[k]) = k - 1
      BY <2>1, InOrderIs
    <2>3. QED BY <2>1, <2>2 DEF I
  <1>5. ASSUME NEW k \in 1..m PROVE Place(1..m, R, k) = k - 1
    <2>1. {j \in 1..m : <<j, k>> \in R} = 1..(k - 1) BY <1>1 DEF Rising
    <2>2. Cardinality(1..(k - 1)) = k - 1 BY <1>1, FS_Interval
    <2>3. QED BY <2>1, <2>2 DEF Place
  <1>6. \A k \in 1..m : at[k] = k
    <2> HIDE DEF R, at
    <2> SUFFICES ASSUME NEW k \in 1..m PROVE at[k] = k OBVIOUS
    <2>1. at[k] \in 1..m /\ Place(1..m, R, at[k]) = k - 1 BY <1>4
    <2>2. Place(1..m, R, at[k]) = at[k] - 1 BY <1>5, <2>1
    <2>3. at[k] \in Int /\ k \in Int BY <1>1, <2>1
    <2>4. QED BY <2>1, <2>2, <2>3
  <1>7. DOMAIN at = 1..m BY <1>2 DEF InOrder
  <1>8. {i \in DOMAIN s : s[i] \in S} = 1..m BY <1>1
  <1>9. Keep(s, S) = [k \in 1..m |-> s[at[k]]] BY <1>7, <1>8 DEF Keep
  <1>10. Keep(s, S) = [k \in 1..m |-> s[k]] BY <1>6, <1>9
  <1>11. QED BY <1>1, <1>10, LenProperties
-----------------------------------------------------------------------------
(* What a listing contains. *)

InStock(c, S) == Cardinality({p \in S : c.stock[p]})

\* A sorted listing as a sequence of products.
LEMMA SortedSeq ==
  ASSUME NEW c \in Catalogue, NEW S \in SUBSET Product, NEW sort \in Sort, NEW amount \in [Product -> Nat]
  PROVE  LET o == InOrder(S, Order(c, sort, amount))
         IN  /\ o \in Seq(Product) /\ Len(o) = Cardinality(S) /\ Len(o) \in Nat
             /\ \A i \in 1..Len(o) : o[i] \in S
             /\ \A i, j \in 1..Len(o) : o[i] = o[j] => i = j
  <1> DEFINE R == Order(c, sort, amount)
             o == InOrder(S, R)
             n == Cardinality(S)
  <1>1. IsFiniteSet(S) /\ Orders(S, R) BY ProductsFinite, SortOrders
  <1> HIDE DEF R
  <1>2. /\ n \in Nat /\ o \in [1..n -> S]
        /\ \A j, k \in 1..n : j < k => <<o[j], o[k]>> \in R
    BY <1>1, InOrderIs
  <1> HIDE DEF o, n
  <1>3. o \in [1..n -> Product] BY <1>2
  <1>4. o \in Seq(Product) /\ Len(o) = n BY <1>2, <1>3, SeqDef, LenProperties
  <1>5. ASSUME NEW i \in 1..n, NEW j \in 1..n, o[i] = o[j] PROVE i = j
    <2>1. ~(i < j) BY <1>1, <1>2, <1>5 DEF Orders
    <2>2. ~(j < i) BY <1>1, <1>2, <1>5 DEF Orders
    <2>3. QED BY <1>2, <2>1, <2>2
  <1>6. o \in Seq(Product) /\ Len(o) = n /\ Len(o) \in Nat
        /\ (\A i \in 1..Len(o) : o[i] \in S)
        /\ (\A i, j \in 1..Len(o) : o[i] = o[j] => i = j)
    BY <1>2, <1>4, <1>5
  <1>7. QED BY <1>6 DEF o, n, R

\* An arrangement has each of its products once, those in stock first.
LEMMA ArrangedIs ==
  ASSUME NEW c \in Catalogue, NEW S \in SUBSET Product, NEW sort \in Sort, NEW amount \in [Product -> Nat]
  PROVE  LET A == Arranged(c, S, sort, amount)
         IN  /\ A \in Seq(Product) /\ Len(A) \in Nat /\ InStock(c, S) \in Nat
             /\ \A i \in 1..Len(A) : A[i] \in S /\ (c.stock[A[i]] <=> i <= InStock(c, S))
             /\ \A i, j \in 1..Len(A) : A[i] = A[j] => i = j
  <1> DEFINE R == Order(c, sort, amount)
             In == {p \in S : c.stock[p]}
             Out == {p \in S : ~c.stock[p]}
             a == InOrder(In, R)
             b == InOrder(Out, R)
  <1>1. /\ a \in Seq(Product) /\ Len(a) = Cardinality(In) /\ Len(a) \in Nat
        /\ \A i \in 1..Len(a) : a[i] \in In
        /\ \A i, j \in 1..Len(a) : a[i] = a[j] => i = j
    <2>1. In \in SUBSET Product OBVIOUS
    <2> HIDE DEF In
    <2>2. QED BY <2>1, SortedSeq
  <1>2. /\ b \in Seq(Product) /\ Len(b) \in Nat
        /\ \A i \in 1..Len(b) : b[i] \in Out
        /\ \A i, j \in 1..Len(b) : b[i] = b[j] => i = j
    <2>1. Out \in SUBSET Product OBVIOUS
    <2> HIDE DEF Out
    <2>2. QED BY <2>1, SortedSeq
  <1>3. InStock(c, S) = Len(a) BY <1>1 DEF InStock
  <1>4. Arranged(c, S, sort, amount) = a \o b BY DEF Arranged
  <1> HIDE DEF a, b
  <1>5. /\ a \o b \in Seq(Product) /\ Len(a \o b) = Len(a) + Len(b)
        /\ \A i \in 1..Len(a) + Len(b) : (a \o b)[i] = IF i <= Len(a) THEN a[i] ELSE b[i - Len(a)]
    <2>1. a \in Seq(Product) /\ b \in Seq(Product) BY <1>1, <1>2
    <2>2. QED BY ONLY <2>1, ConcatProperties
  <1> DEFINE A == a \o b
  <1>6. A \in Seq(Product) /\ Len(A) \in Nat /\ Len(A) = Len(a) + Len(b) BY <1>1, <1>2, <1>5
  <1>7. ASSUME NEW i \in 1..Len(A)
        PROVE  /\ i <= Len(a) => A[i] = a[i] /\ A[i] \in In
               /\ ~(i <= Len(a)) => A[i] = b[i - Len(a)] /\ A[i] \in Out /\ i - Len(a) \in 1..Len(b)
    BY <1>1, <1>2, <1>5, <1>6
  <1>8. \A i \in 1..Len(A) : A[i] \in S /\ (c.stock[A[i]] <=> i <= Len(a)) BY <1>7
  <1>9. ASSUME NEW i \in 1..Len(A), NEW j \in 1..Len(A), A[i] = A[j] PROVE i = j
    <2>1. i <= Len(a) <=> j <= Len(a) BY <1>8, <1>9
    <2>2. CASE i <= Len(a)
      <3>1. i \in 1..Len(a) /\ j \in 1..Len(a) BY <1>1, <1>6, <2>1, <2>2
      <3>2. a[i] = a[j] BY <1>7, <1>9, <2>1, <2>2
      <3>3. QED BY <1>1, <3>1, <3>2
    <2>3. CASE ~(i <= Len(a))
      <3>1. i - Len(a) = j - Len(a) BY <1>2, <1>7, <1>9, <2>1, <2>3
      <3>2. QED BY <1>1, <1>6, <3>1
    <2>4. QED BY <2>2, <2>3
  <1> HIDE DEF A
  <1>10. Arranged(c, S, sort, amount) = A BY <1>4 DEF A
  <1>11. QED BY <1>1, <1>3, <1>6, <1>8, <1>9, <1>10

\* Only the amounts of what is listed matter.
LEMMA ArrangedAgrees ==
  ASSUME NEW c, NEW S \in SUBSET Product, NEW sort, NEW amount, NEW other,
         \A a, b \in S : Precedes(c, sort, amount, a, b) <=> Precedes(c, sort, other, a, b)
  PROVE  Arranged(c, S, sort, amount) = Arranged(c, S, sort, other)
  <1>1. ASSUME NEW T \in SUBSET S
        PROVE  InOrder(T, Order(c, sort, amount)) = InOrder(T, Order(c, sort, other))
    <2> DEFINE Q == Order(c, sort, amount)
               R == Order(c, sort, other)
    <2>1. \A x, y \in T : <<y, x>> \in Q <=> <<y, x>> \in R BY DEF Order
    <2> HIDE DEF Q, R
    <2>2. \A x \in T : {y \in T : <<y, x>> \in Q} = {y \in T : <<y, x>> \in R} BY <2>1
    <2>3. \A x \in T : Place(T, Q, x) = Place(T, R, x) BY <2>2 DEF Place
    <2>4. \A k : (CHOOSE x \in T : Place(T, Q, x) = k - 1) = CHOOSE x \in T : Place(T, R, x) = k - 1
      BY <2>3
    <2>5. InOrder(T, Q) = InOrder(T, R) BY <2>4 DEF InOrder
    <2>6. QED BY <2>5 DEF Q, R
  <1>2. {p \in S : c.stock[p]} \in SUBSET S /\ {p \in S : ~c.stock[p]} \in SUBSET S OBVIOUS
  <1>3. QED BY <1>1, <1>2 DEF Arranged

\* Prices are numbers, sale or not.
LEMMA PaidType ==
  ASSUME NEW c \in Catalogue
  PROVE  /\ [p \in Product |-> Paid(c, p)] \in [Product -> Nat]
         /\ c.price \in [Product -> Nat]
         /\ \A p \in Product : Paid(c, p) \in Nat
  BY DEF Catalogue, Paid, OnSale

\* The stored ranking is not what is shown.
Direct(c, r) == r.sort = "bestsellers" /\ ~Filtered(r) => c.ranked = <<>>

\* What a request chooses is published; one that asks for nothing chooses it all.
LEMMA ChosenAre ==
  ASSUME NEW c \in Catalogue, NEW r \in Request
  PROVE  /\ Chosen(c, r) \in SUBSET Product /\ Chosen(c, r) \in SUBSET Published(c)
         /\ Published(c) \in SUBSET Product
         /\ ~Filtered(r) => Chosen(c, r) = Published(c)
  BY DEF Chosen, Scope, Published, Filtered, Matches, Request

\* A listing that is not the stored ranking arranges what the request chooses.
LEMMA ListingIs ==
  ASSUME NEW c \in Catalogue, NEW r \in Request, Direct(c, r)
  PROVE  \E amount \in [Product -> Nat] : Listing(c, r) = Arranged(c, Chosen(c, r), r.sort, amount)
  <1>1. CASE Filtered(r) BY <1>1, PaidType DEF Listing, ByIndex
  <1>2. CASE ~Filtered(r)
    <2>1. Listing(c, r) = Arranged(c, Published(c), r.sort, [p \in Product |-> Paid(c, p)])
      BY <1>2 DEF Direct, Listing, BySortedIds
    <2>2. QED BY <1>2, <2>1, PaidType, ChosenAre
  <1>3. QED BY <1>1, <1>2

\* A listing is a sequence of products.
LEMMA ListingType ==
  ASSUME NEW c \in Catalogue, NEW r \in Request
  PROVE  Listing(c, r) \in Seq(Product)
  <1>1. r.sort \in Sort /\ c.ranked \in Seq(Product) BY DEF Request, Catalogue
  <1>2. CASE Direct(c, r)
    <2>1. PICK amount \in [Product -> Nat] : Listing(c, r) = Arranged(c, Chosen(c, r), r.sort, amount)
      BY <1>2, ListingIs
    <2>2. Chosen(c, r) \in SUBSET Product BY ChosenAre
    <2>3. Arranged(c, Chosen(c, r), r.sort, amount) \in Seq(Product) BY <1>1, <2>2, ArrangedIs
    <2>4. QED BY <2>1, <2>3
  <1>3. CASE ~Direct(c, r)
    <2>1. Listing(c, r) = BySortedIds(c, r) BY <1>3 DEF Direct, Listing
    <2>2. BySortedIds(c, r) = c.ranked BY <1>3 DEF Direct, BySortedIds
    <2>3. QED BY <1>1, <2>1, <2>2
  <1>4. QED BY <1>2, <1>3

-----------------------------------------------------------------------------
(* Pages. *)

\* The place before page p begins.
Before(p) == (p - 1) * PageSize
Upto(ids, p) == IF p * PageSize < Len(ids) THEN p * PageSize ELSE Len(ids)

\* Multiples of the page size.
LEMMA Times ==
  /\ \A p \in Nat : p * PageSize \in Nat /\ (p + 1) * PageSize = p * PageSize + PageSize
  /\ \A p, q \in Nat : p <= q => p * PageSize <= q * PageSize
  <1> USE PageSizeAssumption
  <1>1. \A p \in Nat : p * PageSize \in Nat OBVIOUS
  <1>2. \A p \in Nat : (p + 1) * PageSize = p * PageSize + PageSize OBVIOUS
  <1>3. \A p, q \in Nat : p <= q => p * PageSize <= q * PageSize
    <2> SUFFICES ASSUME NEW p \in Nat, NEW q \in Nat, p <= q PROVE p * PageSize <= q * PageSize OBVIOUS
    <2>1. q - p \in Nat /\ (q - p) * PageSize >= 0 OBVIOUS
    <2>2. q * PageSize = p * PageSize + (q - p) * PageSize OBVIOUS
    <2>3. QED BY <1>1, <2>1, <2>2
  <1>4. QED BY <1>1, <1>2, <1>3

\* Where a page begins and ends.
LEMMA Ends ==
  ASSUME NEW ids \in Seq(Product), NEW from \in Nat \ {0}, NEW to \in Nat \ {0}
  PROVE  /\ Len(ids) \in Nat /\ DOMAIN ids = 1..Len(ids) /\ Before(from) \in Nat
         /\ Upto(ids, to) \in 0..Len(ids) /\ Upto(ids, to) <= to * PageSize
         /\ from <= to => Before(from) + PageSize <= to * PageSize
         /\ Before(to + 1) = to * PageSize
  <1>1. Len(ids) \in Nat /\ DOMAIN ids = 1..Len(ids) BY LenProperties
  <1>2. from - 1 \in Nat /\ to - 1 \in Nat /\ (to + 1) - 1 = to OBVIOUS
  <1>3. Before(from) \in Nat /\ to * PageSize \in Nat BY <1>2, Times DEF Before
  <1>4. ASSUME from <= to PROVE Before(from) + PageSize <= to * PageSize
    <2>1. ((from - 1) + 1) * PageSize = (from - 1) * PageSize + PageSize BY <1>2, Times
    <2>2. (from - 1) + 1 = from OBVIOUS
    <2>3. from * PageSize <= to * PageSize BY <1>4, Times
    <2>4. QED BY <2>1, <2>2, <2>3 DEF Before
  <1>5. Before(to + 1) = to * PageSize BY <1>2 DEF Before
  <1>6. QED BY <1>1, <1>3, <1>4, <1>5 DEF Upto

\* A page is a part of the list.
LEMMA PagesType ==
  ASSUME NEW c \in Catalogue, NEW ids \in Seq(Product), NEW from \in Nat \ {0}, NEW to \in Nat \ {0}
  PROVE  Pages(c, ids, from, to) \in Seq(Product)
  <1> DEFINE part == SubSeq(ids, Before(from) + 1, Upto(ids, to))
  <1>1. part \in Seq(Product)
    <2>1. Before(from) \in Nat /\ Upto(ids, to) \in 0..Len(ids) /\ Len(ids) \in Nat BY Ends
    <2>2. \A i \in 1..Len(ids) : ids[i] \in Product BY ElementOfSeq
    <2>3. \A i \in Before(from) + 1 .. Upto(ids, to) : ids[i] \in Product BY <2>1, <2>2
    <2>4. Before(from) + 1 \in Int /\ Upto(ids, to) \in Int BY <2>1
    <2>5. QED BY <2>3, <2>4, SubSeqProperties
  <1>2. Pages(c, ids, from, to) = Keep(part, Published(c)) BY DEF Pages, Before, Upto
  <1> HIDE DEF part
  <1>3. Keep(part, Published(c)) \in Seq(Product) BY <1>1, KeepIs
  <1>4. QED BY <1>2, <1>3

\* A page of what is published is all of that part.
LEMMA PagesAre ==
  ASSUME NEW c \in Catalogue, NEW ids \in Seq(Product), NEW from \in Nat \ {0}, NEW to \in Nat \ {0},
         \A i \in 1..Len(ids) : ids[i] \in Published(c)
  PROVE  LET page == Pages(c, ids, from, to)
         IN  /\ page = SubSeq(ids, Before(from) + 1, Upto(ids, to))
             /\ page \in Seq(Product) /\ Len(page) \in Nat
             /\ Len(page) = IF Before(from) < Upto(ids, to) THEN Upto(ids, to) - Before(from) ELSE 0
             /\ \A i \in 1..Len(page) : /\ Before(from) + i \in 1..Len(ids)
                                        /\ Before(from) + i <= to * PageSize
                                        /\ page[i] = ids[Before(from) + i]
  <1> DEFINE a == Before(from)
             n == Upto(ids, to)
             part == SubSeq(ids, a + 1, n)
  <1>1. /\ a \in Nat /\ n \in 0..Len(ids) /\ Len(ids) \in Nat /\ n <= to * PageSize
        /\ a + 1 \in Int /\ n \in Int
    <2>1. a \in Nat /\ n \in 0..Len(ids) /\ Len(ids) \in Nat /\ n <= to * PageSize BY Ends
    <2> HIDE DEF a, n
    <2>2. QED BY <2>1
  <1>2. \A i \in a + 1 .. n : ids[i] \in Product
    <2>1. \A i \in 1..Len(ids) : ids[i] \in Product BY ElementOfSeq
    <2> HIDE DEF a, n
    <2>2. QED BY <1>1, <2>1
  <1>3. Pages(c, ids, from, to) = Keep(part, Published(c)) BY DEF Pages, Before, Upto
  <1> HIDE DEF a, n
  <1>4. /\ part \in Seq(Product)
        /\ Len(part) = IF a + 1 <= n THEN n - (a + 1) + 1 ELSE 0
        /\ \A i \in 1 .. n - (a + 1) + 1 : part[i] = ids[(a + 1) + i - 1]
    BY <1>1, <1>2, SubSeqProperties
  <1> HIDE DEF part
  <1>5. Len(part) = (IF a < n THEN n - a ELSE 0) /\ Len(part) \in Nat BY <1>1, <1>4
  <1>6. ASSUME NEW i \in 1..Len(part)
        PROVE  a + i \in 1..Len(ids) /\ a + i <= n /\ part[i] = ids[a + i]
    <2>1. i \in 1 .. n - (a + 1) + 1 /\ (a + 1) + i - 1 = a + i BY <1>1, <1>5
    <2>2. part[i] = ids[(a + 1) + i - 1] BY <1>4, <2>1
    <2>3. QED BY <1>1, <1>5, <2>1, <2>2
  <1>7. \A i \in 1..Len(part) : part[i] \in Published(c) BY <1>6
  <1>8. Keep(part, Published(c)) = part BY <1>4, <1>7, KeepAll
  <1>9. Pages(c, ids, from, to) = part BY <1>3, <1>8
  <1>10. \A i \in 1..Len(part) : a + i <= to * PageSize
    <2>1. to * PageSize \in Nat BY Times
    <2>2. QED BY <1>1, <1>6, <2>1
  <1>11. QED BY <1>4, <1>5, <1>6, <1>9, <1>10 DEF part, a, n

\* The next page joins up.
LEMMA NextPage ==
  ASSUME NEW c \in Catalogue, NEW ids \in Seq(Product), NEW from \in Nat \ {0}, NEW to \in Nat \ {0},
         from <= to, \A i \in 1..Len(ids) : ids[i] \in Published(c),
         Pages(c, ids, to + 1, to + 1) # <<>>
  PROVE  Pages(c, ids, from, to) \o Pages(c, ids, to + 1, to + 1) = Pages(c, ids, from, to + 1)
  <1> DEFINE a == Before(from)
             b == to * PageSize
             n == Upto(ids, to + 1)
  <1>1. to + 1 \in Nat \ {0} OBVIOUS
  <1>2. /\ a \in Nat /\ b \in Nat /\ n \in 0..Len(ids) /\ Len(ids) \in Nat /\ a <= b
        /\ Before(to + 1) = b
    <2>1. a \in Nat /\ a + PageSize <= b /\ Before(to + 1) = b /\ Len(ids) \in Nat BY Ends
    <2>2. n \in 0..Len(ids) BY <1>1, Ends
    <2>3. b \in Nat /\ PageSize \in Nat BY Times, PageSizeAssumption
    <2> HIDE DEF a, b, n
    <2>4. QED BY <2>1, <2>2, <2>3
  <1>3. b < n
    <2>1. Pages(c, ids, to + 1, to + 1) = SubSeq(ids, Before(to + 1) + 1, n) BY <1>1, PagesAre
    <2>2. ~(n < b + 1)
      <3> HIDE DEF a, b, n
      <3>1. n < b + 1 => SubSeq(ids, b + 1, n) = <<>> BY <1>2, SubSeqEmpty
      <3>2. QED BY <1>2, <2>1, <3>1
    <2> HIDE DEF a, b, n
    <2>3. QED BY <1>2, <2>2
  <1>4. Upto(ids, to) = b BY <1>2, <1>3 DEF Upto
  <1>5. /\ Pages(c, ids, from, to) = SubSeq(ids, a + 1, b)
        /\ Pages(c, ids, to + 1, to + 1) = SubSeq(ids, b + 1, n)
        /\ Pages(c, ids, from, to + 1) = SubSeq(ids, a + 1, n)
    <2>1. Pages(c, ids, from, to) = SubSeq(ids, a + 1, Upto(ids, to)) BY PagesAre
    <2>2. Pages(c, ids, to + 1, to + 1) = SubSeq(ids, Before(to + 1) + 1, n) BY <1>1, PagesAre
    <2>3. Pages(c, ids, from, to + 1) = SubSeq(ids, a + 1, n) BY <1>1, PagesAre
    <2> HIDE DEF a, b, n
    <2>4. QED BY <1>2, <1>4, <2>1, <2>2, <2>3
  <1> HIDE DEF a, b, n
  <1>6. a + 1 \in 1 .. Len(ids) + 1 /\ b \in (a + 1) - 1 .. Len(ids) /\ n \in b .. Len(ids) BY <1>2, <1>3
  <1>7. QED BY <1>5, <1>6, ConcatAdjacentSubSeq

\* There is always a page, if only an empty one.
LEMMA PageCountType ==
  ASSUME NEW ids \in Seq(Product)
  PROVE  PageCount(ids) \in Nat \ {0}
  <1>1. CASE ids = <<>> BY <1>1 DEF PageCount
  <1>2. CASE ids # <<>>
    <2>1. Len(ids) \in Nat \ {0} BY <1>2, EmptySeq
    <2>2. PageSize \in Nat \ {0} BY PageSizeAssumption
    <2>3. (Len(ids) + PageSize - 1) \div PageSize \in Nat \ {0} BY <2>1, <2>2
    <2>4. QED BY <1>2, <2>3 DEF PageCount
  <1>3. QED BY <1>1, <1>2

-----------------------------------------------------------------------------
(* The lowest price and the address of the further pages. *)

\* A set of numbers that is not empty has a least one.
LEMMA LeastNumber ==
  ASSUME NEW M \in SUBSET Nat, M # {}
  PROVE  \E m \in M : \A k \in M : m <= k
  <1>1. OpToRel(<, Nat) = {ss \in Nat \X Nat : ss[1] < ss[2]} BY Zenon DEF OpToRel
  <1>2. PICK m \in M : \A k \in M : ~(<<k, m>> \in OpToRel(<, Nat))
    BY WFMin, NatLessThanWellFounded, Zenon
  <1>3. \A k \in M : ~(k < m) BY <1>1, <1>2
  <1>4. QED BY <1>3

\* The lowest price of the slider is a number that no product undercuts.
LEMMA LowestPriceIs ==
  ASSUME NEW c \in Catalogue, NEW S \in SUBSET Product
  PROVE  /\ LowestPrice(c, S) \in Nat
         /\ \A p \in S : LowestPrice(c, S) <= Paid(c, p)
  <1>1. CASE S = {} BY <1>1 DEF LowestPrice
  <1>2. CASE S # {}
    <2> DEFINE M == {Paid(c, p) : p \in S}
    <2>1. M \in SUBSET Nat /\ M # {} BY <1>2, PaidType
    <2> HIDE DEF M
    <2>2. \E m \in M : \A k \in M : m <= k BY <2>1, LeastNumber
    <2>3. Min(M) \in M /\ \A k \in M : Min(M) <= k BY <2>2 DEF Min
    <2>4. LowestPrice(c, S) = Min(M) BY <1>2 DEF LowestPrice, M
    <2>5. \A p \in S : Paid(c, p) \in M BY DEF M
    <2>6. QED BY <2>1, <2>3, <2>4, <2>5
  <1>3. QED BY <1>1, <1>2

\* The address of a further page is a request without a highest price.
LEMMA ScrollRequestIs ==
  ASSUME NEW q \in Request, NEW floor \in Nat
  PROVE  LET r == ScrollRequest(q, floor)
         IN  /\ r \in Request /\ r.max = None /\ r.sort = q.sort /\ r.size = q.size /\ r.sale = q.sale
             /\ r.min = IF floor > 0 THEN floor ELSE None
  BY DEF ScrollRequest, Request

\* The lowest price shown turns nothing away that the query asks for.
LEMMA SameChosen ==
  ASSUME NEW c \in Catalogue, NEW q \in Request, NEW floor, q.max = None,
         floor = Or(q.min, LowestPrice(c, Scope(c, q))) \/ floor = Or(q.min, 0)
  PROVE  LET r == ScrollRequest(q, floor)
         IN  /\ floor \in Nat
             /\ Chosen(c, r) = Chosen(c, q)
             /\ ~Filtered(q) => AsksNothing(q)
             /\ ~Filtered(r) => AsksNothing(q)
             /\ ~AsksNothing(q) => Filtered(q) /\ Filtered(r)
  <1> DEFINE r == ScrollRequest(q, floor)
             S == Scope(c, q)
             z == ScrollRequest(q, Or(q.min, 0))
  <1>1. S \in SUBSET Product BY DEF Scope, Published
  <1>2. LowestPrice(c, S) \in Nat /\ \A p \in S : LowestPrice(c, S) <= Paid(c, p) BY <1>1, LowestPriceIs
  <1>3. q.min \in Nat \cup {None} /\ None \notin Nat BY NoneAssumption DEF Request
  <1>4. floor \in Nat /\ Or(q.min, 0) \in Nat BY <1>2, <1>3 DEF Or
  <1>5. /\ r.max = None /\ r.size = q.size /\ r.sale = q.sale
        /\ r.min = IF floor > 0 THEN floor ELSE None
    BY <1>4, ScrollRequestIs
  <1>6. /\ z.max = None /\ z.size = q.size /\ z.sale = q.sale
        /\ z.min = IF Or(q.min, 0) > 0 THEN Or(q.min, 0) ELSE None
    BY <1>4, ScrollRequestIs
  <1> HIDE DEF r, z
  <1>7. Scope(c, r) = S BY <1>5 DEF Scope
  <1>8. ASSUME NEW p \in S PROVE Matches(c, r, p) <=> Matches(c, q, p)
    <2>1. Effective(c, p) \in Nat /\ Paid(c, p) <= Effective(c, p)
      <3>1. Paid(c, p) \in Nat /\ c.price[p] \in Nat BY <1>1, PaidType DEF Catalogue
      <3>2. QED BY <3>1 DEF Effective
    <2>2. LowestPrice(c, S) <= Effective(c, p) BY <1>1, <1>2, <2>1, PaidType
    <2>3. (r.min # None => r.min <= Effective(c, p)) <=> (q.min # None => q.min <= Effective(c, p))
      BY <1>2, <1>3, <1>4, <1>5, <2>1, <2>2 DEF Or
    <2>4. QED BY <1>5, <2>3 DEF Matches
  <1>9. Chosen(c, r) = Chosen(c, q) BY <1>7, <1>8 DEF Chosen
  <1>10. AsksNothing(q) <=> ~q.sale /\ q.size = None /\ q.min \in {None, 0}
    <2>1. AsksNothing(q) <=> ~Filtered(z) BY DEF AsksNothing, z
    <2>2. z.min = None <=> q.min \in {None, 0} BY <1>3, <1>6 DEF Or
    <2>3. QED BY <1>6, <2>1, <2>2 DEF Filtered
  <1>11. /\ ~Filtered(q) => AsksNothing(q)
         /\ ~Filtered(r) => AsksNothing(q)
         /\ ~AsksNothing(q) => Filtered(q) /\ Filtered(r)
    BY <1>2, <1>3, <1>4, <1>5, <1>10 DEF Filtered, Or
  <1>12. QED BY <1>4, <1>9, <1>11 DEF r

-----------------------------------------------------------------------------
(* Types. *)

\* What a list was asked for is a request.
LEMMA QueryType == Queries \cup {[Anything EXCEPT !.sort = s] : s \in Sort} \subseteq Request
  BY QueriesAssumption DEF Request, Anything

\* The plain list of the fallback is a sequence of products.
LEMMA PlainType ==
  ASSUME NEW c \in Catalogue
  PROVE  Plain(c) \in Seq(Product)
  <1> DEFINE S == Published(c)
             R == Rising(S)
             n == Cardinality(S)
  <1>1. S \in SUBSET Product /\ S \in SUBSET Int BY ProductsAssumption DEF Published, Product
  <1>2. IsFiniteSet(S) /\ Orders(S, R) BY <1>1, ProductsFinite, RisingOrders
  <1> HIDE DEF S, R
  <1>3. n \in Nat /\ InOrder(S, R) \in [1..n -> S] BY <1>2, InOrderIs
  <1>4. InOrder(S, R) \in [1..n -> Product] BY <1>1, <1>3
  <1>5. InOrder(S, R) \in Seq(Product) BY <1>3, <1>4, SeqDef
  <1>6. QED BY <1>5 DEF Plain, S, R

\* Whatever catalogue was read, it is one of those there may be.
LEMMA CatalogueType ==
  ASSUME TypeOK, NEW i \in DOMAIN catalogues
  PROVE  catalogues[i] \in Catalogue /\ catalogues[i] \in Catalogues /\ i \in 1..Len(catalogues)
  BY CataloguesAssumption, LenProperties, ElementOfSeq DEF TypeOK

\* A new list keeps the types.
LEMMA ShowTypes ==
  ASSUME TypeOK, NEW query, NEW floor, NEW page, NEW total, NEW items,
         lists < MaxLists, Show(query, floor, page, total, items), UNCHANGED catalogues,
         [query |-> query, floor |-> floor, page |-> page, total |-> total] \in Props,
         items \in Seq(Product), readFrom' \subseteq 1..Len(catalogues), upset' \subseteq Mishap
  PROVE  TypeOK'
  <1>1. page \in Nat \ {0} BY DEF Props
  <1>2. load' \in Load \cup {None} BY DEF Show, TypeOK, Load
  <1>3. lists' \in 0..MaxLists BY BoundsAssumption DEF Show, TypeOK
  <1>4. QED BY <1>1, <1>2, <1>3 DEF Show, TypeOK

\* The types hold at first.
LEMMA TypeInit == Init => TypeOK
  <1> SUFFICES ASSUME Init PROVE TypeOK OBVIOUS
  <1>1. PICK c \in Catalogues : catalogues = <<c>> BY DEF Init
  <1>2. catalogues \in Seq(Catalogues) /\ catalogues # <<>> BY <1>1
  <1>3. Anything \in {[Anything EXCEPT !.sort = s] : s \in Sort}
    <2>1. [Anything EXCEPT !.sort = "latest"] = Anything
      <3>1. /\ DOMAIN Anything = {"sort", "size", "min", "max", "sale"} /\ Anything.sort = "latest"
            /\ Anything = [x \in DOMAIN Anything |-> Anything[x]]
        BY DEF Anything
      <3>2. QED BY <3>1
    <2>2. "latest" \in Sort BY DEF Sort
    <2>3. QED BY <2>1, <2>2
  <1>4. props \in Props BY <1>3 DEF Init, Props
  <1>5. visible \in Seq(Product) BY DEF Init
  <1>6. /\ loadedPage \in Nat \ {0} /\ armed \in BOOLEAN /\ load \in Load \cup {None}
        /\ readFrom \subseteq 1..Len(catalogues) /\ upset \subseteq Mishap
    <2>1. loadedPage \in Nat \ {0} BY DEF Init
    <2>2. armed \in BOOLEAN BY DEF Init
    <2>3. load \in Load \cup {None} BY DEF Init
    <2>4. readFrom \subseteq 1..Len(catalogues) /\ upset \subseteq Mishap BY DEF Init
    <2>5. QED BY <2>1, <2>2, <2>3, <2>4
  <1>7. lists \in 0..MaxLists BY BoundsAssumption DEF Init
  <1>8. QED BY <1>2, <1>4, <1>5, <1>6, <1>7 DEF TypeOK

\* Every step keeps the types.
LEMMA TypeNext == TypeOK /\ [Next]_vars => TypeOK'
  <1> SUFFICES ASSUME TypeOK, [Next]_vars PROVE TypeOK' OBVIOUS
  <1>1. ASSUME NEW query \in Queries, NEW page \in 1..(Products + 1), Arrive(query, page)
        PROVE  TypeOK'
    <2>1. page \in Nat \ {0} BY ProductsAssumption
    <2>2. query \in Request BY QueriesAssumption
    <2>3. PICK i \in DOMAIN catalogues :
             \E j \in DOMAIN catalogues :
             \E least \in {LowestPrice(catalogues[j], Scope(catalogues[j], query))}
                           \cup (IF page > 1 THEN {0} ELSE {}) :
                /\ Show(query, Or(query.min, least), page, PageCount(Listing(catalogues[i], query)),
                        Pages(catalogues[i], Listing(catalogues[i], query), page, page))
                /\ readFrom' = {i, j}
      BY <1>1 DEF Arrive
    <2>4. PICK j \in DOMAIN catalogues :
             \E least \in {LowestPrice(catalogues[j], Scope(catalogues[j], query))}
                           \cup (IF page > 1 THEN {0} ELSE {}) :
                /\ Show(query, Or(query.min, least), page, PageCount(Listing(catalogues[i], query)),
                        Pages(catalogues[i], Listing(catalogues[i], query), page, page))
                /\ readFrom' = {i, j}
      BY <2>3
    <2>5. PICK least \in {LowestPrice(catalogues[j], Scope(catalogues[j], query))}
                           \cup (IF page > 1 THEN {0} ELSE {}) :
                /\ Show(query, Or(query.min, least), page, PageCount(Listing(catalogues[i], query)),
                        Pages(catalogues[i], Listing(catalogues[i], query), page, page))
                /\ readFrom' = {i, j}
      BY <2>4
    <2> DEFINE ids == Listing(catalogues[i], query)
               items == Pages(catalogues[i], ids, page, page)
    <2>6. /\ catalogues[i] \in Catalogue /\ i \in 1..Len(catalogues)
          /\ catalogues[j] \in Catalogue /\ j \in 1..Len(catalogues)
      BY CatalogueType
    <2>7. ids \in Seq(Product) BY <2>2, <2>6, ListingType
    <2> HIDE DEF ids
    <2>8. items \in Seq(Product) /\ PageCount(ids) \in Nat \ {0}
      BY <2>1, <2>6, <2>7, PagesType, PageCountType
    <2>9. least \in Nat
      <3>1. Scope(catalogues[j], query) \in SUBSET Product BY DEF Scope, Published
      <3>2. LowestPrice(catalogues[j], Scope(catalogues[j], query)) \in Nat BY <2>6, <3>1, LowestPriceIs
      <3>3. QED BY <2>5, <3>2
    <2>10. Or(query.min, least) \in Nat BY <2>2, <2>9 DEF Or, Request
    <2>11. [query |-> query, floor |-> Or(query.min, least), page |-> page, total |-> PageCount(ids)] \in Props
      BY <2>1, <2>8, <2>10 DEF Props
    <2>12. lists < MaxLists /\ UNCHANGED catalogues /\ upset' \subseteq Mishap
      BY <1>1 DEF Arrive, Linked
    <2>13. Show(query, Or(query.min, least), page, PageCount(ids), items) BY <2>5 DEF ids
    <2>14. readFrom' \subseteq 1..Len(catalogues) BY <2>5, <2>6
    <2> HIDE DEF items
    <2>15. QED BY <2>8, <2>11, <2>12, <2>13, <2>14, ShowTypes
  <1>2. ASSUME NEW query \in Queries, NEW page \in 1..(Products + 1), ArriveDegraded(query, page)
        PROVE  TypeOK'
    <2>1. page \in Nat \ {0} BY ProductsAssumption
    <2>2. query \in Request BY QueriesAssumption
    <2>3. PICK i \in DOMAIN catalogues :
             /\ Show([Anything EXCEPT !.sort = query.sort],
                     LowestPrice(catalogues[i], ToSet(Pages(catalogues[i], Plain(catalogues[i]), page, page))),
                     page, PageCount(Plain(catalogues[i])),
                     Pages(catalogues[i], Plain(catalogues[i]), page, page))
             /\ readFrom' = {i}
      BY <1>2 DEF ArriveDegraded
    <2> DEFINE ids == Plain(catalogues[i])
               items == Pages(catalogues[i], ids, page, page)
               least == LowestPrice(catalogues[i], ToSet(items))
               q == [Anything EXCEPT !.sort = query.sort]
    <2>4. catalogues[i] \in Catalogue /\ i \in 1..Len(catalogues) BY CatalogueType
    <2>5. ids \in Seq(Product) BY <2>4, PlainType
    <2> HIDE DEF ids
    <2>6. items \in Seq(Product) /\ PageCount(ids) \in Nat \ {0}
      BY <2>1, <2>4, <2>5, PagesType, PageCountType
    <2> HIDE DEF items
    <2>7. ToSet(items) \in SUBSET Product BY <2>6, LenProperties, ElementOfSeq DEF ToSet
    <2>8. least \in Nat BY <2>4, <2>7, LowestPriceIs
    <2>9. Show(q, least, page, PageCount(ids), items) BY <2>3 DEF ids, items
    <2> HIDE DEF least
    <2>10. query.sort \in Sort BY <2>2 DEF Request
    <2>11. [query |-> q, floor |-> least, page |-> page, total |-> PageCount(ids)] \in Props
      BY <2>1, <2>6, <2>8, <2>10 DEF Props
    <2>12. lists < MaxLists /\ UNCHANGED catalogues /\ upset' \subseteq Mishap
      BY <1>2 DEF ArriveDegraded, Linked, Mishap
    <2>13. readFrom' \subseteq 1..Len(catalogues) BY <2>3, <2>4
    <2> HIDE DEF q
    <2>14. QED BY <2>6, <2>9, <2>11, <2>12, <2>13, ShowTypes
  <1>3. CASE SentinelSeen
    <2>1. props.query \in Request /\ props.floor \in Nat BY QueryType DEF TypeOK, Props
    <2>2. /\ ScrollRequest(props.query, props.floor) \in Request
          /\ ScrollRequest(props.query, props.floor).max = None
      BY <2>1, ScrollRequestIs
    <2>3. ToSet(visible) \in SUBSET Product BY LenProperties, ElementOfSeq DEF TypeOK, ToSet
    <2>4. load' \in Load \cup {None} BY <1>3, <2>2, <2>3 DEF SentinelSeen, TypeOK, Load
    <2>5. QED BY <1>3, <2>4 DEF SentinelSeen, TypeOK, historyVars
  <1>4. CASE ScrollBack BY <1>4 DEF ScrollBack, TypeOK, historyVars
  <1>5. CASE LoadArrives
    <2>1. load \in Load BY <1>5 DEF LoadArrives, TypeOK
    <2>2. PICK i \in DOMAIN catalogues, degraded \in BOOLEAN :
             LET ids == IF degraded THEN Plain(catalogues[i]) ELSE Listing(catalogues[i], load.request)
             IN  /\ AppendPage(Pages(catalogues[i], ids, load.page, load.page))
                 /\ readFrom' = readFrom \cup {i}
                 /\ upset' = upset \cup (IF load.stale THEN {"overtaken"} ELSE {})
                                   \cup (IF degraded THEN {"degraded"} ELSE {})
      BY <1>5 DEF LoadArrives
    <2> DEFINE ids == IF degraded THEN Plain(catalogues[i]) ELSE Listing(catalogues[i], load.request)
               items == Pages(catalogues[i], ids, load.page, load.page)
               new == Keep(items, Product \ (load.seen \cup ToSet(visible)))
    <2>3. catalogues[i] \in Catalogue /\ i \in 1..Len(catalogues) BY CatalogueType
    <2>4. load.request \in Request /\ load.page \in Nat \ {0} BY <2>1 DEF Load
    <2>5. ids \in Seq(Product) BY <2>3, <2>4, PlainType, ListingType
    <2> HIDE DEF ids
    <2>6. items \in Seq(Product) BY <2>3, <2>4, <2>5, PagesType
    <2> HIDE DEF items
    <2>7. new \in Seq(Product) BY <2>6, KeepIs
    <2>8. AppendPage(items) BY <2>2 DEF ids, items
    <2>9. visible' = visible \o new BY <2>8 DEF AppendPage
    <2> HIDE DEF new
    <2>10. visible' \in Seq(Product) BY <2>7, <2>9, ConcatProperties DEF TypeOK
    <2>11. upset' \subseteq Mishap BY <2>2 DEF TypeOK, Mishap
    <2>12. readFrom' \subseteq 1..Len(catalogues) BY <2>2, <2>3 DEF TypeOK
    <2>13. UNCHANGED <<catalogues, props, lists>> BY <1>5 DEF LoadArrives
    <2>14. QED BY <2>4, <2>8, <2>10, <2>11, <2>12, <2>13 DEF AppendPage, TypeOK
  <1>6. CASE LoadBringsNothing BY <1>6 DEF LoadBringsNothing, TypeOK, Mishap
  <1>7. CASE CatalogueChanges
    <2>1. PICK c \in Catalogues : catalogues' = Append(catalogues, c) BY <1>7 DEF CatalogueChanges
    <2>2. catalogues \in Seq(Catalogues) BY DEF TypeOK
    <2>3. /\ catalogues' \in Seq(Catalogues) /\ catalogues' # <<>>
          /\ Len(catalogues') = Len(catalogues) + 1 /\ Len(catalogues) \in Nat
      BY <2>1, <2>2, AppendProperties, LenProperties
    <2>4. 1..Len(catalogues) \subseteq 1..Len(catalogues') BY <2>3
    <2>5. QED BY <1>7, <2>3, <2>4 DEF CatalogueChanges, TypeOK, historyVars
  <1>8. CASE UNCHANGED vars BY <1>8 DEF vars, TypeOK
  <1>9. QED BY <1>1, <1>2, <1>3, <1>4, <1>5, <1>6, <1>7, <1>8 DEF Next, Navigation

\* The list, its page under way and its history keep their types.
THEOREM ListTypes == Spec => []TypeOK
  BY TypeInit, TypeNext, PTL DEF Spec
-----------------------------------------------------------------------------
(* What is on the screen. *)

\* Everything on the screen was read from catalogue c.
From(c) == readFrom # {} /\ \A i \in readFrom : catalogues[i] = c
Undisturbed == upset \subseteq {"nothing"} /\ props.query.max = None

\* The lowest price shown turns nothing away.
FloorIs(c) == \/ props.floor = Or(props.query.min, LowestPrice(c, Scope(c, props.query)))
              \/ props.floor = Or(props.query.min, 0)

\* The two ways disagree on c.
Disagree(c) ==
    /\ AsksNothing(props.query)
    /\ \/ props.query.sort = "bestsellers" /\ c.ranked # <<>>
       \/ /\ props.query.sort \in {"price-asc", "price-desc"}
          /\ \E p \in Published(c) : OnSale(c, p)

Ranks(c, q) == q.sort = "bestsellers" => c.ranked = <<>> \/ ~AsksNothing(q)

\* What is in stock comes first, and once something that is not has been shown,
\* the pages loaded have room for all that is.
StockShown(c) ==
    /\ \A i, j \in 1..Len(visible) : i < j /\ c.stock[visible[j]] => c.stock[visible[i]]
    /\ (\E i \in 1..Len(visible) : ~c.stock[visible[i]])
          => InStock(c, Chosen(c, props.query)) <= loadedPage * PageSize

\* Nothing but what the server rendered is on the screen before the first list.
BlankInv == readFrom = {} => props.total = 1 /\ loadedPage = 1 /\ load = None

\* A page under way for the list on the screen is the next one.
LoadInv ==
    load # None /\ ~load.stale =>
        /\ load.page = loadedPage + 1
        /\ load.request = ScrollRequest(props.query, props.floor)
        /\ load.seen \subseteq ToSet(visible)

ShownInv ==
    \A c \in Catalogues : From(c) /\ Undisturbed =>
        /\ FloorIs(c)
        /\ props.page <= loadedPage
        /\ ~Disagree(c) => visible = Pages(c, Listing(c, props.query), props.page, loadedPage)
        /\ Ranks(c, props.query) => StockShown(c)

ListInv == BlankInv /\ LoadInv /\ ShownInv

\* A page of a listing that is not the stored ranking: its products are published,
\* each is there once, and which are in stock is a matter of their places.
LEMMA PageOf ==
  ASSUME NEW c \in Catalogue, NEW r \in Request, Direct(c, r), NEW p \in Nat \ {0}
  PROVE  LET ids == Listing(c, r)
             V == Pages(c, ids, p, p)
         IN  /\ ids \in Seq(Product) /\ \A k \in 1..Len(ids) : ids[k] \in Published(c)
             /\ \A k, l \in 1..Len(ids) : ids[k] = ids[l] => k = l
             /\ V \in Seq(Product) /\ Len(V) \in Nat /\ InStock(c, Chosen(c, r)) \in Nat
             /\ \A i \in 1..Len(V) : /\ Before(p) + i \in 1..Len(ids)
                                     /\ Before(p) + i <= p * PageSize
                                     /\ V[i] = ids[Before(p) + i]
                                     /\ c.stock[V[i]] <=> Before(p) + i <= InStock(c, Chosen(c, r))
  <1> DEFINE ids == Listing(c, r)
             V == Pages(c, ids, p, p)
             n == InStock(c, Chosen(c, r))
  <1>1. PICK amount \in [Product -> Nat] : ids = Arranged(c, Chosen(c, r), r.sort, amount)
    BY ListingIs
  <1>2. /\ Chosen(c, r) \in SUBSET Product /\ Chosen(c, r) \in SUBSET Published(c) /\ r.sort \in Sort
    BY ChosenAre DEF Request
  <1>3. /\ ids \in Seq(Product) /\ Len(ids) \in Nat /\ n \in Nat
        /\ \A k \in 1..Len(ids) : ids[k] \in Chosen(c, r) /\ (c.stock[ids[k]] <=> k <= n)
        /\ \A k, l \in 1..Len(ids) : ids[k] = ids[l] => k = l
    <2> DEFINE S == Chosen(c, r)
               A == Arranged(c, S, r.sort, amount)
    <2>1. S \in SUBSET Product BY <1>2
    <2> HIDE DEF S
    <2>2. /\ A \in Seq(Product) /\ Len(A) \in Nat /\ InStock(c, S) \in Nat
          /\ \A i \in 1..Len(A) : A[i] \in S /\ (c.stock[A[i]] <=> i <= InStock(c, S))
          /\ \A i, j \in 1..Len(A) : A[i] = A[j] => i = j
      BY <1>2, <2>1, ArrangedIs
    <2>3. ids = A BY <1>1 DEF S
    <2> HIDE DEF ids, A
    <2>4. QED BY <2>2, <2>3 DEF S
  <1>4. \A k \in 1..Len(ids) : ids[k] \in Published(c) BY <1>2, <1>3
  <1> HIDE DEF ids, n
  <1>5. /\ V \in Seq(Product) /\ Len(V) \in Nat
        /\ \A i \in 1..Len(V) : /\ Before(p) + i \in 1..Len(ids)
                                /\ Before(p) + i <= p * PageSize
                                /\ V[i] = ids[Before(p) + i]
    BY <1>3, <1>4, PagesAre
  <1> HIDE DEF V
  <1>6. \A i \in 1..Len(V) : c.stock[V[i]] <=> Before(p) + i <= n BY <1>3, <1>5
  <1>7. QED BY <1>3, <1>4, <1>5, <1>6 DEF V, ids, n

\* Where the two ways agree, the further pages are pages of the same listing.
LEMMA SameListing ==
  ASSUME NEW c \in Catalogue, props.query \in Request, props.query.max = None, FloorIs(c)
  PROVE  LET q == props.query
             r == ScrollRequest(q, props.floor)
         IN  /\ r \in Request /\ Chosen(c, r) = Chosen(c, q)
             /\ Ranks(c, q) => Direct(c, q) /\ Direct(c, r)
             /\ ~Disagree(c) => Ranks(c, q) /\ Listing(c, r) = Listing(c, q)
  <1> DEFINE q == props.query
             r == ScrollRequest(q, props.floor)
             S == Chosen(c, q)
             paid == [p \in Product |-> Paid(c, p)]
  <1>1. /\ props.floor \in Nat /\ Chosen(c, r) = S
        /\ ~Filtered(q) => AsksNothing(q)
        /\ ~Filtered(r) => AsksNothing(q)
        /\ ~AsksNothing(q) => Filtered(q) /\ Filtered(r)
    BY SameChosen DEF FloorIs
  <1>2. r \in Request /\ r.sort = q.sort /\ q.sort \in Sort BY <1>1, ScrollRequestIs DEF Request
  <1>3. S \in SUBSET Product /\ S \in SUBSET Published(c) BY ChosenAre
  <1> HIDE DEF r, S
  <1>4. ASSUME Ranks(c, q) PROVE Direct(c, q) /\ Direct(c, r) BY <1>1, <1>2, <1>4 DEF Ranks, Direct
  <1>5. ASSUME ~Disagree(c) PROVE Ranks(c, q) BY <1>5 DEF Disagree, Ranks
  <1>6. ASSUME ~Disagree(c) PROVE Listing(c, r) = Listing(c, q)
    <2>1. Direct(c, q) /\ Direct(c, r) BY <1>4, <1>5, <1>6
    <2>2. /\ Filtered(q) => Listing(c, q) = Arranged(c, S, q.sort, c.price)
          /\ ~Filtered(q) => Listing(c, q) = Arranged(c, S, q.sort, paid)
      <3>1. ~Filtered(q) => S = Published(c) BY ChosenAre DEF S
      <3>2. QED BY <2>1, <3>1 DEF Direct, Listing, ByIndex, BySortedIds, S
    <2>3. /\ Filtered(r) => Listing(c, r) = Arranged(c, S, q.sort, c.price)
          /\ ~Filtered(r) => Listing(c, r) = Arranged(c, S, q.sort, paid)
      <3>1. ~Filtered(r) => S = Published(c) BY <1>1, <1>2, ChosenAre
      <3>2. QED BY <1>1, <1>2, <2>1, <3>1 DEF Direct, Listing, ByIndex, BySortedIds
    <2>4. CASE ~AsksNothing(q) BY <1>1, <2>2, <2>3, <2>4
    <2>5. CASE AsksNothing(q)
      <3>1. \A a, b \in S : Precedes(c, q.sort, c.price, a, b) <=> Precedes(c, q.sort, paid, a, b)
        <4>1. CASE q.sort \notin {"price-asc", "price-desc"} BY <4>1 DEF Precedes
        <4>2. CASE q.sort \in {"price-asc", "price-desc"}
          <5>1. \A p \in S : paid[p] = c.price[p] BY <1>3, <1>6, <2>5, <4>2 DEF Disagree, Paid
          <5>2. QED BY <4>2, <5>1 DEF Precedes
        <4>3. QED BY <4>1, <4>2
      <3> HIDE DEF paid, q
      <3>2. Arranged(c, S, q.sort, c.price) = Arranged(c, S, q.sort, paid) BY <1>3, <3>1, ArrangedAgrees
      <3>3. QED BY <2>2, <2>3, <3>2
    <2>6. QED BY <2>4, <2>5
  <1>7. QED BY <1>1, <1>2, <1>4, <1>5, <1>6 DEF r, S

\* The page that the server renders shows what is in stock first.
LEMMA FirstPageStock ==
  ASSUME NEW c \in Catalogue, NEW r \in Request, Direct(c, r), NEW p \in Nat \ {0}
  PROVE  LET V == Pages(c, Listing(c, r), p, p)
         IN  /\ \A i, j \in 1..Len(V) : i < j /\ c.stock[V[j]] => c.stock[V[i]]
             /\ (\E i \in 1..Len(V) : ~c.stock[V[i]]) => InStock(c, Chosen(c, r)) <= p * PageSize
  <1> DEFINE V == Pages(c, Listing(c, r), p, p)
             n == InStock(c, Chosen(c, r))
             a == Before(p)
             b == p * PageSize
  <1>1. /\ Len(V) \in Nat /\ n \in Nat
        /\ \A i \in 1..Len(V) : a + i <= b /\ (c.stock[V[i]] <=> a + i <= n)
    BY PageOf
  <1>2. a \in Nat /\ b \in Nat
    <2>1. p - 1 \in Nat /\ p \in Nat OBVIOUS
    <2>2. QED BY <2>1, Times DEF Before
  <1> HIDE DEF V, n, a, b
  <1>3. \A i, j \in 1..Len(V) : i < j /\ c.stock[V[j]] => c.stock[V[i]] BY <1>1, <1>2
  <1>4. (\E i \in 1..Len(V) : ~c.stock[V[i]]) => n <= b BY <1>1, <1>2
  <1>5. QED BY <1>3, <1>4 DEF V, n, b
-----------------------------------------------------------------------------
(* The steps. *)

\* Before the first list nothing has been read.
LEMMA ListInit == Init => ListInv
  BY DEF Init, ListInv, BlankInv, LoadInv, ShownInv, From

\* A new list of the server.
LEMMA ArriveKeeps ==
  ASSUME TypeOK, ListInv, NEW query \in Queries, NEW page \in 1..(Products + 1), Arrive(query, page)
  PROVE  ListInv'
  <1>1. page \in Nat \ {0} /\ query \in Request BY ProductsAssumption, QueriesAssumption
  <1>2. PICK i \in DOMAIN catalogues :
           \E j \in DOMAIN catalogues :
           \E least \in {LowestPrice(catalogues[j], Scope(catalogues[j], query))}
                         \cup (IF page > 1 THEN {0} ELSE {}) :
              /\ Show(query, Or(query.min, least), page, PageCount(Listing(catalogues[i], query)),
                      Pages(catalogues[i], Listing(catalogues[i], query), page, page))
              /\ readFrom' = {i, j}
    BY DEF Arrive
  <1>3. PICK j \in DOMAIN catalogues :
           \E least \in {LowestPrice(catalogues[j], Scope(catalogues[j], query))}
                         \cup (IF page > 1 THEN {0} ELSE {}) :
              /\ Show(query, Or(query.min, least), page, PageCount(Listing(catalogues[i], query)),
                      Pages(catalogues[i], Listing(catalogues[i], query), page, page))
              /\ readFrom' = {i, j}
    BY <1>2
  <1>4. PICK least \in {LowestPrice(catalogues[j], Scope(catalogues[j], query))}
                         \cup (IF page > 1 THEN {0} ELSE {}) :
              /\ Show(query, Or(query.min, least), page, PageCount(Listing(catalogues[i], query)),
                      Pages(catalogues[i], Listing(catalogues[i], query), page, page))
              /\ readFrom' = {i, j}
    BY <1>3
  <1>5. /\ props'.query = query /\ props'.floor = Or(query.min, least) /\ props'.page = page
        /\ visible' = Pages(catalogues[i], Listing(catalogues[i], query), page, page)
        /\ loadedPage' = page
        /\ load' # None => load # None /\ load' = [load EXCEPT !.stale = TRUE]
    BY <1>4 DEF Show
  <1>6. catalogues' = catalogues /\ readFrom' # {} BY <1>4 DEF Arrive
  <1>7. load' # None => load'.stale BY <1>5 DEF TypeOK, Load
  <1>8. ASSUME NEW c \in Catalogues, From(c)', Undisturbed'
        PROVE  /\ FloorIs(c)'
               /\ (props.page <= loadedPage)'
               /\ (~Disagree(c) => visible = Pages(c, Listing(c, props.query), props.page, loadedPage))'
               /\ (Ranks(c, props.query) => StockShown(c))'
    <2>1. catalogues[i] = c /\ catalogues[j] = c BY <1>4, <1>6, <1>8 DEF From
    <2>2. c \in Catalogue BY CataloguesAssumption
    <2>3. FloorIs(c)' BY <1>4, <1>5, <2>1 DEF FloorIs
    <2>4. (props.page <= loadedPage)' BY <1>1, <1>5
    <2>5. visible' = Pages(c, Listing(c, props'.query), props'.page, loadedPage') BY <1>5, <2>1
    <2>6. ASSUME Ranks(c, query) PROVE StockShown(c)'
      <3>1. query.max = None BY <1>5, <1>8 DEF Undisturbed
      <3>2. ~Filtered(query) => AsksNothing(query)
        BY <1>1, <2>2, <3>1, SameChosen
      <3>3. Direct(c, query) BY <2>6, <3>2 DEF Ranks, Direct
      <3> DEFINE V == Pages(c, Listing(c, query), page, page)
      <3>4. /\ \A k, l \in 1..Len(V) : k < l /\ c.stock[V[l]] => c.stock[V[k]]
            /\ (\E k \in 1..Len(V) : ~c.stock[V[k]]) => InStock(c, Chosen(c, query)) <= page * PageSize
        BY <1>1, <2>2, <3>3, FirstPageStock
      <3>5. visible' = V BY <1>5, <2>1
      <3> HIDE DEF V
      <3>6. QED BY <1>5, <3>4, <3>5 DEF StockShown
    <2>7. QED BY <1>5, <2>3, <2>4, <2>5, <2>6
  <1>9. QED BY <1>6, <1>7, <1>8 DEF ListInv, BlankInv, LoadInv, ShownInv

\* After a page of the fallback nothing is promised.
LEMMA DegradedKeeps ==
  ASSUME TypeOK, ListInv, NEW query \in Queries, NEW page \in 1..(Products + 1), ArriveDegraded(query, page)
  PROVE  ListInv'
  <1>1. readFrom' # {} /\ upset' = {"degraded"} BY DEF ArriveDegraded
  <1>2. load' # None => load # None /\ load' = [load EXCEPT !.stale = TRUE] BY DEF ArriveDegraded, Show
  <1>3. load' # None => load'.stale BY <1>2 DEF TypeOK, Load
  <1>4. ~Undisturbed' BY <1>1 DEF Undisturbed
  <1>5. QED BY <1>1, <1>3, <1>4 DEF ListInv, BlankInv, LoadInv, ShownInv

\* What a step that leaves the list alone keeps.
LEMMA ShownKept ==
  ASSUME ShownInv, UNCHANGED <<props, visible, loadedPage, readFrom>>,
         upset \subseteq upset', \A i \in readFrom : catalogues'[i] = catalogues[i]
  PROVE  ShownInv'
  <1> SUFFICES ASSUME NEW c \in Catalogues, From(c)', Undisturbed'
               PROVE  /\ FloorIs(c)'
                      /\ (props.page <= loadedPage)'
                      /\ (~Disagree(c) => visible = Pages(c, Listing(c, props.query), props.page, loadedPage))'
                      /\ (Ranks(c, props.query) => StockShown(c))'
    BY DEF ShownInv
  <1>1. From(c) /\ Undisturbed BY DEF From, Undisturbed
  <1>2. /\ FloorIs(c) /\ props.page <= loadedPage
        /\ ~Disagree(c) => visible = Pages(c, Listing(c, props.query), props.page, loadedPage)
        /\ Ranks(c, props.query) => StockShown(c)
    BY <1>1 DEF ShownInv
  <1>3. (FloorIs(c)' <=> FloorIs(c)) /\ (Disagree(c)' <=> Disagree(c)) /\ (StockShown(c)' <=> StockShown(c))
    BY DEF FloorIs, Disagree, StockShown
  <1>4. QED BY <1>2, <1>3

\* The page asked for at the end of the list is the next one.
LEMMA SentinelKeeps ==
  ASSUME TypeOK, ListInv, SentinelSeen
  PROVE  ListInv'
  <1>1. UNCHANGED <<catalogues, props, visible, loadedPage, readFrom, upset, lists>>
    BY DEF SentinelSeen, historyVars
  <1>2. ShownInv' BY <1>1, ShownKept DEF ListInv
  <1>3. readFrom # {}
    <2>1. loadedPage < props.total BY DEF SentinelSeen
    <2>2. QED BY <2>1 DEF ListInv, BlankInv
  <1>4. LoadInv'
    <2>1. CASE load # None BY <1>1, <2>1 DEF SentinelSeen, ListInv, LoadInv
    <2>2. CASE load = None
      <3>1. load' = [page |-> loadedPage + 1,
                     request |-> ScrollRequest(props.query, props.floor),
                     seen |-> IF props.page > 1 THEN ToSet(visible) ELSE {},
                     stale |-> FALSE]
        BY <2>2 DEF SentinelSeen
      <3>2. load'.seen \subseteq ToSet(visible) BY <3>1
      <3>3. QED BY <1>1, <3>1, <3>2 DEF LoadInv
    <2>3. QED BY <2>1, <2>2
  <1>5. QED BY <1>1, <1>2, <1>3, <1>4 DEF ListInv, BlankInv

\* A page that comes to nothing changes nothing on the screen.
LEMMA NothingKeeps ==
  ASSUME TypeOK, ListInv, LoadBringsNothing
  PROVE  ListInv'
  <1>1. UNCHANGED <<catalogues, props, visible, loadedPage, readFrom>> /\ upset \subseteq upset' /\ load' = None
    BY DEF LoadBringsNothing
  <1>2. ShownInv' BY <1>1, ShownKept DEF ListInv
  <1>3. QED BY <1>1, <1>2 DEF ListInv, BlankInv, LoadInv

\* A change of the catalogue leaves what was read as it was.
LEMMA ChangeKeeps ==
  ASSUME TypeOK, ListInv, CatalogueChanges
  PROVE  ListInv'
  <1>1. UNCHANGED <<props, visible, loadedPage, load, readFrom, upset>>
    BY DEF CatalogueChanges, historyVars
  <1>2. PICK c \in Catalogues : catalogues' = Append(catalogues, c) BY DEF CatalogueChanges
  <1>3. \A i \in 1..Len(catalogues) : catalogues'[i] = catalogues[i] BY <1>2, AppendProperties DEF TypeOK
  <1>4. ShownInv' BY <1>1, <1>3, ShownKept DEF ListInv, TypeOK
  <1>5. QED BY <1>1, <1>4 DEF ListInv, BlankInv, LoadInv

\* The next page of the listing holds nothing that is shown: all of it is appended,
\* and it joins up.
LEMMA PageJoins ==
  ASSUME NEW c \in Catalogue, NEW r \in Request, Direct(c, r),
         NEW from \in Nat \ {0}, NEW to \in Nat \ {0}, from <= to,
         Pages(c, Listing(c, r), to + 1, to + 1) # <<>>
  PROVE  LET ids == Listing(c, r)
             V == Pages(c, ids, from, to)
             items == Pages(c, ids, to + 1, to + 1)
         IN  V \o Keep(items, Product \ ToSet(V)) = Pages(c, ids, from, to + 1)
  <1> DEFINE ids == Listing(c, r)
             V == Pages(c, ids, from, to)
             items == Pages(c, ids, to + 1, to + 1)
             b == to * PageSize
  <1>1. to + 1 \in Nat \ {0} OBVIOUS
  <1>2. /\ ids \in Seq(Product) /\ \A k \in 1..Len(ids) : ids[k] \in Published(c)
        /\ \A k, l \in 1..Len(ids) : ids[k] = ids[l] => k = l
        /\ items \in Seq(Product)
        /\ \A k \in 1..Len(items) : /\ Before(to + 1) + k \in 1..Len(ids)
                                    /\ items[k] = ids[Before(to + 1) + k]
    BY <1>1, PageOf
  <1>3. Before(to + 1) = b /\ b \in Nat /\ Len(ids) \in Nat BY <1>2, Ends, Times
  <1> HIDE DEF ids
  <1>4. /\ V \in Seq(Product)
        /\ \A j \in 1..Len(V) : /\ Before(from) + j \in 1..Len(ids)
                                /\ Before(from) + j <= b
                                /\ V[j] = ids[Before(from) + j]
    BY <1>2, PagesAre
  <1>5. V \o items = Pages(c, ids, from, to + 1)
    <2>1. items # <<>> BY DEF ids
    <2>2. QED BY <1>2, <2>1, NextPage
  <1> HIDE DEF V, items, b
  <1>7. DOMAIN V = 1..Len(V) BY <1>4, LenProperties
  <1>8. ASSUME NEW k \in 1..Len(items) PROVE items[k] \in Product \ ToSet(V)
    <2>1. items[k] \in Product BY <1>2, ElementOfSeq
    <2>2. ASSUME NEW j \in 1..Len(V), V[j] = items[k] PROVE FALSE
      <3>1. Before(from) + j = Before(to + 1) + k BY <1>2, <1>4, <2>2
      <3>2. Before(from) + j \in Int /\ Before(from) + j <= b /\ k \in Nat /\ k >= 1 BY <1>2, <1>3, <1>4, LenProperties
      <3>3. QED BY <1>3, <3>1, <3>2
    <2>3. QED BY <1>7, <2>1, <2>2 DEF ToSet
  <1>9. Keep(items, Product \ ToSet(V)) = items BY <1>2, <1>8, KeepAll
  <1>10. QED BY <1>5, <1>9 DEF V, items, ids

\* What is appended comes after what is shown, in stock or not.
LEMMA StockJoins ==
  ASSUME NEW c \in Catalogue, NEW r \in Request, Direct(c, r), NEW to \in Nat \ {0},
         NEW V \in Seq(Product), NEW S,
         \A i, j \in 1..Len(V) : i < j /\ c.stock[V[j]] => c.stock[V[i]],
         (\E i \in 1..Len(V) : ~c.stock[V[i]]) => InStock(c, Chosen(c, r)) <= to * PageSize
  PROVE  LET new == V \o Keep(Pages(c, Listing(c, r), to + 1, to + 1), S)
         IN  /\ \A i, j \in 1..Len(new) : i < j /\ c.stock[new[j]] => c.stock[new[i]]
             /\ (\E i \in 1..Len(new) : ~c.stock[new[i]])
                   => InStock(c, Chosen(c, r)) <= (to + 1) * PageSize
  <1> DEFINE items == Pages(c, Listing(c, r), to + 1, to + 1)
             n == InStock(c, Chosen(c, r))
             b == to * PageSize
             e == (to + 1) * PageSize
             K == Keep(items, S)
             new == V \o K
  <1>1. to + 1 \in Nat \ {0} OBVIOUS
  <1>2. /\ items \in Seq(Product) /\ n \in Nat
        /\ \A k \in 1..Len(items) : /\ Before(to + 1) + k <= e
                                    /\ c.stock[items[k]] <=> Before(to + 1) + k <= n
    BY <1>1, PageOf
  <1>3. Before(to + 1) = b /\ b \in Nat /\ e \in Nat /\ b <= e
    <2>1. to \in Nat /\ to + 1 \in Nat /\ (to + 1) - 1 = to /\ to <= to + 1 OBVIOUS
    <2>2. QED BY <2>1, Times DEF Before
  <1>4. /\ \A i, j \in 1..Len(V) : i < j /\ c.stock[V[j]] => c.stock[V[i]]
        /\ (\E i \in 1..Len(V) : ~c.stock[V[i]]) => n <= b
    OBVIOUS
  <1> HIDE DEF items, n, b, e
  <1> DEFINE m == Len(K)
             at == Positions(items, S)
  <1>5. /\ K \in Seq(Product) /\ m \in Nat
        /\ \A k \in 1..m : at[k] \in 1..Len(items) /\ K[k] = items[at[k]]
        /\ \A j, k \in 1..m : j < k => at[j] < at[k]
    BY <1>2, KeepIs
  <1> HIDE DEF K, m, at
  <1>7. Len(V) \in Nat /\ Len(items) \in Nat BY <1>2, LenProperties
  <1>8. ASSUME NEW k \in 1..m
        PROVE  at[k] \in Nat /\ b + at[k] <= e /\ (c.stock[K[k]] <=> b + at[k] <= n) /\ at[k] >= 1
    <2>1. at[k] \in 1..Len(items) /\ K[k] = items[at[k]] BY <1>5
    <2>2. Before(to + 1) + at[k] <= e /\ (c.stock[items[at[k]]] <=> Before(to + 1) + at[k] <= n)
      BY <1>2, <2>1
    <2>3. at[k] \in Nat /\ at[k] >= 1 BY <1>7, <2>1
    <2>4. QED BY <1>3, <2>1, <2>2, <2>3
  <1> DEFINE bounds == b \in Nat /\ e \in Nat /\ n \in Nat /\ b <= e
  <1>0. bounds BY <1>2, <1>3
  <1>9. /\ Len(new) = Len(V) + m
        /\ \A i \in 1..Len(new) : new[i] = IF i <= Len(V) THEN V[i] ELSE K[i - Len(V)]
    <2>1. V \in Seq(Product) /\ K \in Seq(Product) BY <1>5
    <2>2. /\ Len(V \o K) = Len(V) + Len(K)
          /\ \A i \in 1..Len(V) + Len(K) : (V \o K)[i] = IF i <= Len(V) THEN V[i] ELSE K[i - Len(V)]
      BY ONLY <2>1, ConcatProperties
    <2>3. QED BY <2>2 DEF m
  <1> HIDE DEF new
  <1>10. ASSUME NEW i \in 1..Len(new)
         PROVE  \/ i \in 1..Len(V) /\ new[i] = V[i]
                \/ ~(i <= Len(V)) /\ i - Len(V) \in 1..m /\ new[i] = K[i - Len(V)]
    BY <1>5, <1>7, <1>9
  <1>11. ASSUME NEW i \in 1..Len(new), NEW j \in 1..Len(new), i < j, c.stock[new[j]]
         PROVE  c.stock[new[i]]
    <2>1. CASE j \in 1..Len(V) /\ new[j] = V[j]
      <3>1. i \in 1..Len(V) /\ new[i] = V[i] BY <1>7, <1>10, <1>11, <2>1
      <3>2. QED BY <1>4, <1>11, <2>1, <3>1
    <2>2. CASE ~(j <= Len(V)) /\ j - Len(V) \in 1..m /\ new[j] = K[j - Len(V)]
      <3>1. b + at[j - Len(V)] <= n /\ at[j - Len(V)] \in Nat /\ at[j - Len(V)] >= 1 BY <1>8, <1>11, <2>2
      <3>2. CASE i \in 1..Len(V) /\ new[i] = V[i]
        <4>1. ~(n <= b) BY <1>2, <1>3, <3>1
        <4>2. QED BY <1>4, <3>2, <4>1
      <3>3. CASE ~(i <= Len(V)) /\ i - Len(V) \in 1..m /\ new[i] = K[i - Len(V)]
        <4>1. i - Len(V) < j - Len(V) BY <1>7, <1>11, <2>2, <3>3
        <4>2. at[i - Len(V)] < at[j - Len(V)] /\ at[i - Len(V)] \in Nat BY <1>5, <1>8, <2>2, <3>3, <4>1
        <4>3. b + at[i - Len(V)] <= n
          <5> DEFINE x == at[i - Len(V)]
                     y == at[j - Len(V)]
          <5>1. x < y /\ x \in Nat /\ y \in Nat /\ b + y <= n BY <3>1, <4>2
          <5> HIDE DEF x, y
          <5>2. b + x <= n BY <1>0, <5>1
          <5>3. QED BY <5>2 DEF x
        <4>4. QED BY <1>8, <3>3, <4>3
      <3>4. QED BY <1>10, <3>2, <3>3
    <2>3. QED BY <1>10, <2>1, <2>2
  <1>12. ASSUME NEW i \in 1..Len(new), ~c.stock[new[i]] PROVE n <= e
    <2>1. CASE i \in 1..Len(V) /\ new[i] = V[i] BY <1>2, <1>3, <1>4, <1>12, <2>1
    <2>2. CASE i - Len(V) \in 1..m /\ new[i] = K[i - Len(V)]
      <3> DEFINE x == at[i - Len(V)]
      <3>1. x \in Nat /\ b + x <= e /\ ~(b + x <= n) BY <1>8, <1>12, <2>2
      <3> HIDE DEF x
      <3>2. QED BY <1>0, <3>1
    <2>3. QED BY <1>10, <2>1, <2>2
  <1>13. QED BY <1>11, <1>12 DEF new, K, items, n, e

\* The page arrives for the list it was asked for.
LEMMA LoadKeeps ==
  ASSUME TypeOK, ListInv, LoadArrives
  PROVE  ListInv'
  <1>1. load # None /\ load \in Load BY DEF LoadArrives, TypeOK
  <1>2. PICK i \in DOMAIN catalogues, degraded \in BOOLEAN :
           LET ids == IF degraded THEN Plain(catalogues[i]) ELSE Listing(catalogues[i], load.request)
               items == Pages(catalogues[i], ids, load.page, load.page)
           IN  /\ items # <<>>
               /\ AppendPage(items)
               /\ readFrom' = readFrom \cup {i}
               /\ upset' = upset \cup (IF load.stale THEN {"overtaken"} ELSE {})
                                 \cup (IF degraded THEN {"degraded"} ELSE {})
    BY DEF LoadArrives
  <1>3. UNCHANGED <<catalogues, props>> BY DEF LoadArrives
  <1>4. loadedPage' = load.page /\ load' = None /\ readFrom' # {} BY <1>2 DEF AppendPage
  <1>5. ASSUME NEW c \in Catalogues, From(c)', Undisturbed'
        PROVE  /\ FloorIs(c)'
               /\ (props.page <= loadedPage)'
               /\ (~Disagree(c) => visible = Pages(c, Listing(c, props.query), props.page, loadedPage))'
               /\ (Ranks(c, props.query) => StockShown(c))'
    <2>1. ~load.stale /\ ~degraded /\ Undisturbed BY <1>2, <1>3, <1>5 DEF Undisturbed
    <2>2. From(c) /\ catalogues[i] = c
      <3>1. readFrom # {} BY <1>1 DEF ListInv, BlankInv
      <3>2. QED BY <1>2, <1>3, <1>5, <3>1 DEF From
    <2> DEFINE q == props.query
               r == ScrollRequest(q, props.floor)
               items == Pages(c, Listing(c, r), loadedPage + 1, loadedPage + 1)
               fresh == Product \ (load.seen \cup ToSet(visible))
    <2>3. /\ load.page = loadedPage + 1 /\ load.request = r /\ load.seen \subseteq ToSet(visible)
      BY <1>1, <2>1 DEF ListInv, LoadInv
    <2>4. /\ FloorIs(c) /\ props.page <= loadedPage
          /\ ~Disagree(c) => visible = Pages(c, Listing(c, q), props.page, loadedPage)
          /\ Ranks(c, q) => StockShown(c)
      BY <2>1, <2>2 DEF ListInv, ShownInv
    <2>5. c \in Catalogue /\ q \in Request /\ q.max = None
      BY <2>1, CataloguesAssumption, QueryType DEF TypeOK, Props, Undisturbed
    <2>6. /\ r \in Request /\ Chosen(c, r) = Chosen(c, q)
          /\ Ranks(c, q) => Direct(c, r)
          /\ ~Disagree(c) => Ranks(c, q) /\ Listing(c, r) = Listing(c, q)
      BY <2>4, <2>5, SameListing
    <2>7. props.page \in Nat \ {0} /\ loadedPage \in Nat \ {0} /\ visible \in Seq(Product)
      BY DEF TypeOK, Props
    <2>8. items # <<>> /\ visible' = visible \o Keep(items, fresh) /\ loadedPage' = loadedPage + 1
      BY <1>2, <1>4, <2>1, <2>2, <2>3 DEF AppendPage
    <2>9. FloorIs(c)' /\ (Disagree(c)' <=> Disagree(c)) BY <1>3, <2>4 DEF FloorIs, Disagree
    <2>10. (props.page <= loadedPage)' BY <1>3, <2>4, <2>7, <2>8
    <2>11. ASSUME ~Disagree(c) PROVE visible' = Pages(c, Listing(c, q), props.page, loadedPage + 1)
      <3>1. /\ Direct(c, r) /\ Listing(c, r) = Listing(c, q)
            /\ visible = Pages(c, Listing(c, r), props.page, loadedPage)
        BY <2>4, <2>6, <2>11
      <3>2. visible \o Keep(items, fresh) = Pages(c, Listing(c, r), props.page, loadedPage + 1)
        <4> DEFINE V == Pages(c, Listing(c, r), props.page, loadedPage)
        <4> HIDE DEF r
        <4>1. V = visible /\ fresh = Product \ ToSet(V) BY <2>3, <3>1
        <4>2. V \o Keep(items, Product \ ToSet(V))
                = Pages(c, Listing(c, r), props.page, loadedPage + 1)
          <5>1. /\ c \in Catalogue /\ r \in Request /\ Direct(c, r)
                /\ props.page \in Nat \ {0} /\ loadedPage \in Nat \ {0} /\ props.page <= loadedPage
            BY <2>4, <2>5, <2>6, <2>7, <3>1
          <5>2. items # <<>> BY <2>8
          <5>3. QED BY <5>1, <5>2, PageJoins
        <4>3. QED BY <4>1, <4>2
      <3>3. QED BY <2>8, <3>1, <3>2
    <2>12. ASSUME Ranks(c, q) PROVE StockShown(c)'
      <3>1. Direct(c, r) /\ StockShown(c) BY <2>4, <2>6, <2>12
      <3>2. /\ \A k, l \in 1..Len(visible) : k < l /\ c.stock[visible[l]] => c.stock[visible[k]]
            /\ (\E k \in 1..Len(visible) : ~c.stock[visible[k]])
                  => InStock(c, Chosen(c, r)) <= loadedPage * PageSize
        BY <2>6, <3>1 DEF StockShown
      <3> DEFINE new == visible \o Keep(items, fresh)
      <3>3. /\ \A k, l \in 1..Len(new) : k < l /\ c.stock[new[l]] => c.stock[new[k]]
            /\ (\E k \in 1..Len(new) : ~c.stock[new[k]])
                  => InStock(c, Chosen(c, r)) <= (loadedPage + 1) * PageSize
        <4> HIDE DEF r, fresh
        <4>1. QED BY <2>5, <2>6, <2>7, <3>1, <3>2, StockJoins
      <3> HIDE DEF new, r
      <3>4. visible' = new BY <2>8 DEF new
      <3>5. InStock(c, Chosen(c, props'.query)) = InStock(c, Chosen(c, r)) BY <1>3, <2>6
      <3>6. QED BY <2>8, <3>3, <3>4, <3>5 DEF StockShown
    <2>13. QED BY <1>3, <2>8, <2>9, <2>10, <2>11, <2>12
  <1>6. QED BY <1>4, <1>5 DEF ListInv, BlankInv, LoadInv, ShownInv

\* Every step keeps the invariant.
LEMMA ListNext == TypeOK /\ ListInv /\ [Next]_vars => ListInv'
  <1> SUFFICES ASSUME TypeOK, ListInv, [Next]_vars PROVE ListInv' OBVIOUS
  <1>1. ASSUME NEW query \in Queries, NEW page \in 1..(Products + 1), Arrive(query, page)
        PROVE  ListInv'
    BY <1>1, ArriveKeeps
  <1>2. ASSUME NEW query \in Queries, NEW page \in 1..(Products + 1), ArriveDegraded(query, page)
        PROVE  ListInv'
    BY <1>2, DegradedKeeps
  <1>3. CASE SentinelSeen BY <1>3, SentinelKeeps
  <1>4. CASE ScrollBack
    <2>1. UNCHANGED <<catalogues, props, visible, loadedPage, load, readFrom, upset>>
      BY <1>4 DEF ScrollBack, historyVars
    <2>2. ShownInv' BY <2>1, ShownKept DEF ListInv
    <2>3. QED BY <2>1, <2>2 DEF ListInv, BlankInv, LoadInv
  <1>5. CASE LoadArrives BY <1>5, LoadKeeps
  <1>6. CASE LoadBringsNothing BY <1>6, NothingKeeps
  <1>7. CASE CatalogueChanges BY <1>7, ChangeKeeps
  <1>8. CASE UNCHANGED vars
    <2>1. UNCHANGED <<catalogues, props, visible, loadedPage, load, readFrom, upset>> BY <1>8 DEF vars
    <2>2. ShownInv' BY <2>1, ShownKept DEF ListInv
    <2>3. QED BY <2>1, <2>2 DEF ListInv, BlankInv, LoadInv
  <1>9. QED BY <1>1, <1>2, <1>3, <1>4, <1>5, <1>6, <1>7, <1>8 DEF Next, Navigation

\* For any catalogues, queries and pages: what the list on the screen was read from
\* is known, and the page under way for it is the next one.
THEOREM ListInvariance == Spec => []ListInv
  BY ListTypes, ListInit, ListNext, PTL DEF Spec

\* Of what was read from one catalogue, Source is that one.
LEMMA SourceIs ==
  ASSUME TypeOK, OneCatalogue
  PROVE  Source \in Catalogues /\ From(Source)
  <1> DEFINE T == {catalogues[i] : i \in readFrom}
             f == [i \in readFrom |-> catalogues[i]]
  <1>1. IsFiniteSet(readFrom)
    <2>1. IsFiniteSet(1..Len(catalogues)) /\ readFrom \in SUBSET (1..Len(catalogues))
      BY LenProperties, FS_Interval DEF TypeOK
    <2>2. QED BY <2>1, FS_Subset
  <1>2. f \in Surjection(readFrom, T) BY DEF Surjection
  <1>3. IsFiniteSet(T)
    <2> HIDE DEF f, T
    <2>1. QED BY <1>1, <1>2, FS_Surjection
  <1>4. PICK c : T = {c}
    <2> HIDE DEF T
    <2>1. Cardinality(T) = 1 BY DEF OneCatalogue, T
    <2>2. QED BY <1>3, <2>1, FS_Singleton
  <1>5. readFrom # {} /\ \A i \in readFrom : catalogues[i] = c BY <1>4
  <1>6. Source = c BY <1>5 DEF Source
  <1>7. PICK i \in readFrom : TRUE BY <1>5
  <1>8. catalogues[i] \in Catalogues BY <1>7, ElementOfSeq DEF TypeOK
  <1>9. QED BY <1>5, <1>6, <1>7, <1>8 DEF From

\* The pages on the screen are those of the listing, from the one landed on to the
\* last one loaded (useShopCatalogInfiniteScroll): for any catalogues and page size.
THEOREM PagesJoin == Spec => []PagesJoinUp
  <1>1. TypeOK /\ ListInv => PagesJoinUp
    <2> SUFFICES ASSUME TypeOK, ListInv, upset \subseteq {"nothing"}, OneCatalogue,
                        props.query.max = None, ~WaysDisagree
                 PROVE  visible = Pages(Source, Listing(Source, props.query), props.page, loadedPage)
      BY DEF PagesJoinUp
    <2>1. Source \in Catalogues /\ From(Source) BY SourceIs
    <2>2. Undisturbed /\ ~Disagree(Source) BY DEF Undisturbed, Disagree, WaysDisagree
    <2>3. QED BY <2>1, <2>2 DEF ListInv, ShownInv
  <1>2. QED BY <1>1, ListTypes, ListInvariance, PTL

\* What is in stock comes first on the whole list, although each page is cut out of
\* an arrangement of its own (deprioritizeOutOfStockProducts).
THEOREM InStockFirst == Spec => []StockFirst
  <1>1. TypeOK /\ ListInv => StockFirst
    <2> SUFFICES ASSUME TypeOK, ListInv, upset \subseteq {"nothing"}, OneCatalogue,
                        props.query.max = None,
                        props.query.sort = "bestsellers" => Source.ranked = <<>> \/ ~AsksNothing(props.query)
                 PROVE  \A i, j \in DOMAIN visible :
                           i < j /\ Source.stock[visible[j]] => Source.stock[visible[i]]
      BY DEF StockFirst
    <2>1. Source \in Catalogues /\ From(Source) BY SourceIs
    <2>2. Undisturbed /\ Ranks(Source, props.query) BY DEF Undisturbed, Ranks
    <2>3. StockShown(Source) BY <2>1, <2>2 DEF ListInv, ShownInv
    <2>4. DOMAIN visible = 1..Len(visible) BY LenProperties DEF TypeOK
    <2>5. QED BY <2>3, <2>4 DEF StockShown
  <1>2. QED BY <1>1, ListTypes, ListInvariance, PTL
=============================================================================
