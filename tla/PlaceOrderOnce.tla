-------------------------- MODULE PlaceOrderOnce --------------------------
(***************************************************************************)
(* What the checkout promises of an order, whichever of the form, the      *)
(* payment return page and their tabs brings it about: a cart becomes an   *)
(* order once and for all, and the customer is told of an order only when  *)
(* there is one.                                                           *)
(***************************************************************************)
CONSTANT Cart

VARIABLES
    ordered,  \* carts that have become an order
    told      \* carts whose customer has been told so

Init == ordered = {} /\ told = {}

Order(c) ==
    /\ c \notin ordered
    /\ ordered' = ordered \cup {c}
    /\ UNCHANGED told

Tell(c) ==
    /\ c \in ordered
    /\ told' = told \cup {c}
    /\ UNCHANGED ordered

Next == \E c \in Cart : Order(c) \/ Tell(c)

Spec == Init /\ [][Next]_<<ordered, told>>
=============================================================================
