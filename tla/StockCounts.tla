---------------------------- MODULE StockCounts ----------------------------
(***************************************************************************)
(* What the stock tables promise the rest of the API: the amounts an order *)
(* needs are taken all at once or not at all, never below zero; amounts    *)
(* given back all come back at once; and any other change is of one count. *)
(* OrderData's DeductStockForOrder and ReturnStockForLines are these steps.*)
(***************************************************************************)
EXTENDS Integers

CONSTANTS
    Item,     \* what is counted: a product's own units, or a raw material
    Amounts,  \* what the lines of an order may need of every item
    InitStock

VARIABLE stock

Init == stock = InitStock

Take(need) ==
    /\ \A i \in Item : need[i] <= stock[i]
    /\ stock' = [i \in Item |-> stock[i] - need[i]]

GiveBack(need) == stock' = [i \in Item |-> stock[i] + need[i]]

Recount(i) ==
    /\ stock'[i] \in Nat
    /\ stock' = [stock EXCEPT ![i] = stock'[i]]

Next ==
    \/ \E need \in Amounts : Take(need) \/ GiveBack(need)
    \/ \E i \in Item : Recount(i)

Spec == Init /\ [][Next]_stock
=============================================================================
