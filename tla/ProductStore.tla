---------------------------- MODULE ProductStore ----------------------------
(***************************************************************************)
(* The product data that the shop's in-memory copies are made from: a      *)
(* Medusa database outside the repository, here the number of writes to it.*)
(* A copy made when the number was v is "of version v".                    *)
(***************************************************************************)
EXTENDS Naturals

CONSTANTS
    MaxProducts,  \* bound: writes to the product data
    None          \* no copy, no task

ASSUME ProductsAssumption == MaxProducts \in Nat
ASSUME NoneAssumption == None \notin Nat

VARIABLE products  \* how often the product data have been written

Version == 0 .. MaxProducts

WriteProduct ==
    /\ products < MaxProducts
    /\ products' = products + 1
=============================================================================
