------------------------ MODULE MCStockTransactions ------------------------
(* A bottled drink counted by itself, and two dishes that share an ingredient. *)
EXTENDS StockTransactions, TLC

MCItem    == {"cola", "egg", "pork"}
MCCounted == {"cola"}
MCRank    == [i \in MCItem |-> CASE i = "cola" -> 0 [] i = "egg" -> 1 [] i = "pork" -> 2]
MCDish    == {"colaBottle", "sisig", "bulalo"}
MCRecipe  ==
    [d \in MCDish |-> [i \in MCItem |->
        CASE d = "colaBottle" /\ i = "cola" -> 1
          [] d = "sisig" /\ i = "egg" -> 1
          [] d = "sisig" /\ i = "pork" -> 2
          [] d = "bulalo" /\ i = "pork" -> 1
          [] OTHER -> 0]]
MCStock   == [i \in MCItem |-> CASE i = "cola" -> 1 [] i = "egg" -> 1 [] i = "pork" -> 3]

\* One of each, a sisig, or, once staff have deleted every item, nothing.
MCLines ==
    {[d \in MCDish |-> IF d \in ds THEN 1 ELSE 0] :
        ds \in {{}, {"sisig"}, MCDish}}

MCDelta == {-1, 1}

Symmetry == Permutations(Job) \cup Permutations(Order)
=============================================================================
