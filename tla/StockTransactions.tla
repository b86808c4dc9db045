------------------------- MODULE StockTransactions -------------------------
(***************************************************************************)
(* Stock, statement by statement (apps/api/src/modules/inventory and       *)
(* raw-materials).  A paid order's stock is deducted, and a cancelled      *)
(* one's given back, row by row inside a transaction: PostgreSQL locks     *)
(* every row it changes until the transaction ends, and others go on       *)
(* reading the committed count.  Staff correct one row at a time.  After   *)
(* the commit, and outside it, the dishes concerned are put on sale or     *)
(* marked sold out.                                                        *)
(***************************************************************************)
EXTENDS Integers, FiniteSetsExt

CONSTANTS
    Item,       \* rows: a unit product's count in inventory, or a raw material
    Counted,    \* those of them that are unit products'
    Rank,       \* the order rows are updated in: units by id, then materials by id
    LastRank,
    Dish,
    Recipe,     \* what one serving of a dish takes of every item
    Order,
    Lines,      \* the lines an order may have: servings of every dish
    InitStock,
    SetTo,      \* counts staff may set
    Delta,      \* amounts staff may add or, below zero, take away
    MaxAdjust,  \* corrections staff make (bounds the model)
    Job,        \* requests that may be in progress at the same time
    MayStop,    \* may a request stop between its commit and its last statement?
    Nobody

\* computeStockNeeds: what lines need, with items shared by dishes added up.
ComputeStockNeeds(q) == [i \in Item |-> MapThenSumSet(LAMBDA d : q[d] * Recipe[d][i], Dish)]

ASSUME StockAssumption ==
    /\ Counted \subseteq Item /\ Nobody \notin Job
    /\ LastRank \in Nat /\ Rank \in [Item -> 0 .. LastRank]
    /\ \A i, k \in Item : Rank[i] = Rank[k] => i = k
    /\ Recipe \in [Dish -> [Item -> Nat]]
    /\ Lines \subseteq [Dish -> Nat] /\ InitStock \in [Item -> Nat]
    /\ SetTo \subseteq Nat /\ Delta \subseteq Int /\ MaxAdjust \in Nat /\ MayStop \in BOOLEAN
    \* Sums of naturals are naturals; TLC checks it for the lines of every run.
    /\ \A q \in Lines : ComputeStockNeeds(q) \in [Item -> Nat]

VARIABLES
    stock,      \* committed counts
    lockedBy,   \* the transaction that holds a row's lock
    phase,      \* orders: "pending", "confirmed" or "cancelled"
    lines,      \* orders: their lines
    available,  \* products.is_available
    job,        \* the requests in progress
    \* History, read by no guard but the bound on corrections.
    logged,     \* sum of the changes in the log of an item
    recounted,  \* items whose count was set rather than changed by an amount
    adjusted,   \* corrections so far
    muddled     \* dishes whose stock changed between a refresh's read and its write

vars == <<stock, lockedBy, phase, lines, available, job, logged, recounted, adjusted, muddled>>
orderVars == <<phase, lines>>
history == <<logged, recounted, adjusted>>

-----------------------------------------------------------------------------
Idle        == [op |-> "idle"]
Transaction == [op : {"rows"}, kind : {"sale", "return"}, order : Order, of : Lines,
                done : SUBSET Item, short : BOOLEAN]
Change      == [how : {"set"}, by : SetTo] \cup [how : {"delta"}, by : Delta]
Adjustment  == [op : {"adjust"}, item : Item, change : Change, read : Nat]
LogEntry    == [op : {"log"}, item : Item, delta : Int]
ToRefresh   == [op : {"refresh"}, items : SUBSET Item]
ToWrite     == [op : {"write"}, onSale : SUBSET Dish, soldOut : SUBSET Dish]
Jobs == {Idle} \cup Transaction \cup Adjustment \cup LogEntry \cup ToRefresh \cup ToWrite

\* Every column holds a value of its type; no count is below zero.
StockTypeOK ==
    /\ stock \in [Item -> Nat]
    /\ lockedBy \in [Item -> Job \cup {Nobody}]
    /\ phase \in [Order -> {"pending", "confirmed", "cancelled"}]
    /\ lines \in [Order -> Lines]
    /\ available \in [Dish -> BOOLEAN]
    /\ job \in [Job -> Jobs]
    /\ logged \in [Item -> Int] /\ recounted \subseteq Item /\ adjusted \in Nat
    /\ muddled \subseteq Dish

-----------------------------------------------------------------------------
(* Availability.                                                             *)

Uses(d, items) == \E i \in items : Recipe[d][i] > 0

\* servingsAvailable: the smallest stock / amount per serving; none without a recipe.
ServingsAvailable(d, count) ==
    LET recipe == {i \in Item : Recipe[d][i] > 0}
    IN  IF recipe = {} THEN 0 ELSE Min({count[i] \div Recipe[d][i] : i \in recipe})

CanServe(d, count) == ServingsAvailable(d, count) > 0

PendingWrites(c) == IF c.op = "write" THEN c.onSale \cup c.soldOut ELSE {}

\* History: the dishes some other request is about to write an old answer for.
Overtaken(j, items) ==
    {d \in Dish : Uses(d, items) /\ \E k \in Job \ {j} : d \in PendingWrites(job[k])}

Init ==
    /\ stock = InitStock
    /\ lockedBy = [i \in Item |-> Nobody]
    /\ phase = [o \in Order |-> "pending"]
    /\ lines \in [Order -> Lines]
    /\ available = [d \in Dish |-> CanServe(d, InitStock)]
    /\ job = [j \in Job |-> Idle]
    /\ logged = [i \in Item |-> 0]
    /\ recounted = {}
    /\ adjusted = 0
    /\ muddled = {}

-----------------------------------------------------------------------------
(* Deducting and giving back, row by row.                                    *)

GoOn(j, c)   == job' = [job EXCEPT ![j] = c]
Need(c)      == ComputeStockNeeds(c.of)
NeededIn(q)  == {i \in Item : ComputeStockNeeds(q)[i] > 0}
Todo(c)      == NeededIn(c.of) \ c.done
LockFree(j, i) == lockedBy[i] \in {Nobody, j}
Release(j)   == lockedBy' = [i \in Item |-> IF lockedBy[i] = j THEN Nobody ELSE lockedBy[i]]

\* In the order the rows come: the last first when they are given back.
IsNext_Unsorted(c, i) ==
    /\ i \in Todo(c)
    /\ \A k \in Todo(c) : IF c.kind = "sale" THEN Rank[i] <= Rank[k] ELSE Rank[i] >= Rank[k]

\* Sorted, so two transactions at the same moment can't deadlock each other.
IsNext(c, i) == i \in Todo(c) /\ \A k \in Todo(c) : Rank[i] <= Rank[k]

\* A payment's transaction reaches deductStockForOrder.  That it does so for a
\* pending order, and once, is OrderSystem's ReachesKitchenOnce.
BeginSale(j, o) ==
    /\ job[j] = Idle
    /\ phase[o] = "pending"
    /\ \A k \in Job : job[k].op = "rows" => job[k].order # o
    /\ GoOn(j, [op |-> "rows", kind |-> "sale", order |-> o, of |-> lines[o], done |-> {},
                short |-> FALSE])
    /\ UNCHANGED <<stock, lockedBy, orderVars, available, history, muddled>>

\* The kitchen cancels: the lines nobody has started, which may be all of them.
BeginReturn(j, o) ==
    /\ job[j] = Idle
    /\ phase[o] = "confirmed"
    /\ \A k \in Job : job[k].op = "rows" => job[k].order # o
    /\ \E unstarted \in Lines :
         /\ \A d \in Dish : unstarted[d] \in {0, lines[o][d]}
         /\ GoOn(j, [op |-> "rows", kind |-> "return", order |-> o, of |-> unstarted,
                     done |-> {}, short |-> FALSE])
    /\ UNCHANGED <<stock, lockedBy, orderVars, available, history, muddled>>

\* Without the condition in the update.
Enough_NotChecked(c, i) == TRUE

Enough(c, i) == c.kind = "sale" => Need(c)[i] <= stock[i]

\* An update of enough stock waits for the row's lock.  With too little it
\* changes nothing and waits for nobody, or waited and keeps the lock; either
\* way the other shortages are still collected.
UpdateRow(j) ==
    LET c == job[j] IN
    /\ c.op = "rows"
    /\ \E i \in Item :
         /\ IsNext(c, i)
         /\ \/ /\ Enough(c, i) /\ LockFree(j, i)
               /\ lockedBy' = [lockedBy EXCEPT ![i] = j]
               /\ GoOn(j, [c EXCEPT !.done = @ \cup {i}])
            \/ /\ ~Enough(c, i)
               /\ \/ UNCHANGED lockedBy
                  \/ LockFree(j, i) /\ lockedBy' = [lockedBy EXCEPT ![i] = j]
               /\ GoOn(j, [c EXCEPT !.done = @ \cup {i}, !.short = TRUE])
    /\ UNCHANGED <<stock, orderVars, available, history, muddled>>

\* What a transaction does to a row, once it is committed.
RowChange(c, i) == IF i \notin c.done THEN 0 ELSE IF c.kind = "sale" THEN - Need(c)[i] ELSE Need(c)[i]

\* Sales of unit products are not in the log of adjustments.
Commit(j) ==
    LET c == job[j] IN
    /\ c.op = "rows" /\ Todo(c) = {} /\ ~c.short
    /\ stock' = [i \in Item |-> stock[i] + RowChange(c, i)]
    /\ logged' = [i \in Item |-> IF c.kind = "sale" /\ i \in Counted THEN logged[i]
                                 ELSE logged[i] + RowChange(c, i)]
    /\ phase' = [phase EXCEPT ![c.order] = IF c.kind = "sale" THEN "confirmed" ELSE "cancelled"]
    /\ Release(j)
    /\ muddled' = muddled \cup Overtaken(j, c.done)
    /\ GoOn(j, [op |-> "refresh", items |-> c.done])
    /\ UNCHANGED <<lines, available, recounted, adjusted>>

\* The rows already deducted stay deducted.
RollBack_KeepsRows(j) ==
    /\ job[j].op = "rows"
    /\ stock' = [i \in Item |-> IF lockedBy[i] = j THEN stock[i] + RowChange(job[j], i) ELSE stock[i]]
    /\ Release(j)
    /\ GoOn(j, Idle)
    /\ UNCHANGED <<orderVars, available, history, muddled>>

\* A shortage, an order cancelled meanwhile, or the process stopping.
RollBack(j) ==
    /\ job[j].op = "rows"
    /\ Release(j)
    /\ GoOn(j, Idle)
    /\ UNCHANGED <<stock, orderVars, available, history, muddled>>

-----------------------------------------------------------------------------
(* Corrections by staff: adjustRawMaterialStock and adjustStock.             *)

\* The count is read first; damaged and spoiled stock must lower it.
BeginAdjust(j, i) ==
    /\ job[j] = Idle /\ adjusted < MaxAdjust
    /\ \E change \in Change, decreaseOnly \in BOOLEAN :
         /\ decreaseOnly =>
              IF change.how = "set" THEN change.by < stock[i] ELSE change.by < 0
         /\ GoOn(j, [op |-> "adjust", item |-> i, change |-> change, read |-> stock[i]])
    /\ adjusted' = adjusted + 1
    /\ UNCHANGED <<stock, lockedBy, orderVars, available, logged, recounted, muddled>>

NewCount(c) == IF c.change.how = "set" THEN c.change.by ELSE stock[c.item] + c.change.by

\* The change of a material's count, taken from the count read before.
MaterialDelta_FromRead(c) == NewCount(c) - c.read

\* An amount is logged as it is; a count set, by the difference to what was read.
MaterialDelta(c) == IF c.change.how = "set" THEN c.change.by - c.read ELSE c.change.by

\* Below zero the change is refused.  A raw material's is logged in the same
\* transaction and its dishes refreshed after it; a unit product is put on sale
\* or marked sold out in the transaction, and logged after it.
WriteAdjust(j) ==
    LET c == job[j] i == c.item IN
    /\ c.op = "adjust" /\ LockFree(j, i) /\ NewCount(c) >= 0
    /\ stock' = [stock EXCEPT ![i] = NewCount(c)]
    /\ recounted' = IF c.change.how = "set" THEN recounted \cup {i} ELSE recounted
    /\ IF i \in Counted
       THEN /\ available' = [d \in Dish |-> IF Uses(d, {i}) THEN CanServe(d, stock') ELSE available[d]]
            /\ GoOn(j, [op |-> "log", item |-> i, delta |-> NewCount(c) - c.read])
            /\ UNCHANGED logged
       ELSE /\ logged' = [logged EXCEPT ![i] = @ + MaterialDelta(c)]
            /\ GoOn(j, [op |-> "refresh", items |-> {i}])
            /\ UNCHANGED available
    /\ muddled' = muddled \cup Overtaken(j, {i})
    /\ UNCHANGED <<lockedBy, orderVars, adjusted>>

RefuseAdjust(j) ==
    LET c == job[j] IN
    /\ c.op = "adjust" /\ NewCount(c) < 0
    /\ GoOn(j, Idle)
    /\ UNCHANGED <<stock, lockedBy, orderVars, available, history, muddled>>

WriteLog(j) ==
    LET c == job[j] IN
    /\ c.op = "log"
    /\ logged' = [logged EXCEPT ![c.item] = @ + c.delta]
    /\ GoOn(j, Idle)
    /\ UNCHANGED <<stock, lockedBy, orderVars, available, recounted, adjusted, muddled>>

-----------------------------------------------------------------------------
(* refreshAvailability, after the commit.                                    *)

\* Only the dishes of which the request has changed every ingredient.
Touched_WholeRecipe(items) ==
    {d \in Dish : Uses(d, items) /\ \A i \in Item : Recipe[d][i] > 0 => i \in items}

\* Every dish that uses a touched item.
Touched(items) == {d \in Dish : Uses(d, items)}

\* Stock and availability are read; dishes that should change are kept.
ReadAvailability(j) ==
    LET c == job[j]
        changed == {d \in Touched(c.items) : available[d] # CanServe(d, stock)}
    IN
    /\ c.op = "refresh"
    /\ GoOn(j, IF changed = {} THEN Idle
               ELSE [op |-> "write", onSale |-> {d \in changed : CanServe(d, stock)},
                     soldOut |-> {d \in changed : ~CanServe(d, stock)}])
    \* A refresh nobody is writing across clears up what was muddled before.
    /\ muddled' = muddled \ (Touched(c.items) \ Overtaken(j, c.items))
    /\ UNCHANGED <<stock, lockedBy, orderVars, available, history>>

\* One statement for every dish.
WriteAvailability(j, d) ==
    LET c == job[j]
        rest == [c EXCEPT !.onSale = @ \ {d}, !.soldOut = @ \ {d}]
    IN
    /\ c.op = "write" /\ d \in PendingWrites(c)
    /\ available' = [available EXCEPT ![d] = d \in c.onSale]
    /\ GoOn(j, IF PendingWrites(rest) = {} THEN Idle ELSE rest)
    /\ UNCHANGED <<stock, lockedBy, orderVars, history, muddled>>

\* The process stops after the commit: what is left isn't done.
StopAfterCommit(j) ==
    /\ MayStop /\ job[j].op \in {"log", "refresh", "write"}
    /\ muddled' = muddled \cup IF job[j].op = "refresh" THEN Touched(job[j].items)
                               ELSE PendingWrites(job[j])
    /\ GoOn(j, Idle)
    /\ UNCHANGED <<stock, lockedBy, orderVars, available, history>>

-----------------------------------------------------------------------------
Next ==
    \E j \in Job :
       \/ \E o \in Order : BeginSale(j, o) \/ BeginReturn(j, o)
       \/ UpdateRow(j) \/ Commit(j) \/ RollBack(j)
       \/ \E i \in Item : BeginAdjust(j, i)
       \/ WriteAdjust(j) \/ RefuseAdjust(j) \/ WriteLog(j)
       \/ ReadAvailability(j) \/ StopAfterCommit(j)
       \/ \E d \in Dish : WriteAvailability(j, d)

Spec == Init /\ [][Next]_vars

-----------------------------------------------------------------------------
\* Row by row under locks, an order's stock is still taken all at once or not
\* at all: the committed counts behave as StockCounts, whatever runs between.
Counts == INSTANCE StockCounts WITH Amounts <- {ComputeStockNeeds(q) : q \in Lines}

ImplementsCounts == Counts!Spec

\* Transactions never wait for each other in a circle: while any is halfway,
\* one of them can take its next step.
InTransaction(j) == job[j].op = "rows"

CanGoOn(j) ==
    \/ Todo(job[j]) = {}
    \/ \E i \in Item : IsNext(job[j], i) /\ LockFree(j, i)

SomeoneCanGoOn == (\E j \in Job : InTransaction(j)) => \E j \in Job : InTransaction(j) /\ CanGoOn(j)

\* A raw material's log adds up to its count, however sales, returns and
\* corrections overlap, until someone sets the count itself.
LogAddsUp ==
    \A i \in Item \ Counted : i \notin recounted => stock[i] = InitStock[i] + logged[i]

AboutToRefresh(d) ==
    \E j \in Job : \/ job[j].op = "refresh" /\ d \in Touched(job[j].items)
                   \/ d \in PendingWrites(job[j])

\* Once the refreshes of a dish are done it is on sale exactly when a serving
\* can be made, unless its stock changed between another refresh's read and
\* write, or a request stopped before its refresh.
AvailabilityIsRight ==
    \A d \in Dish : ~AboutToRefresh(d) /\ d \notin muddled => available[d] = CanServe(d, stock)

\* A dish that isn't being refreshed is on sale only when, and whenever, at
\* least one serving can be made.
AvailableWhenServable ==
    \A d \in Dish : ~AboutToRefresh(d) => available[d] = CanServe(d, stock)
=============================================================================
