--------------------------- MODULE MCOrderSystem ---------------------------
(* Small instances of OrderSystem for TLC. *)
EXTENDS OrderSystem, TLC

CONSTANTS Stocked   \* servings of every dish at the start

MCInitStock == [d \in Dish |-> Stocked]

\* Every order, dish, intent and request is like any other of its kind.
Symmetry == Permutations(Order) \cup Permutations(Dish)
            \cup Permutations(Intent) \cup Permutations(Request)
=============================================================================
