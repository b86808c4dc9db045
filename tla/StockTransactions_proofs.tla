---------------------- MODULE StockTransactions_proofs ----------------------
(* Proofs about StockTransactions, for every number of items, dishes, orders *)
(* and requests, and for every recipe.                                       *)
EXTENDS StockTransactions, WellFoundedInduction, TLAPS

-----------------------------------------------------------------------------
(* What the requests in progress hold.                                       *)

\* A request's kind tells which fields it has.
LEMMA JobKinds ==
    ASSUME NEW c \in Jobs
    PROVE  /\ c.op = "rows" => c \in Transaction
           /\ c.op = "adjust" => c \in Adjustment
           /\ c.op = "log" => c \in LogEntry
           /\ c.op = "refresh" => c \in ToRefresh
           /\ c.op = "write" => c \in ToWrite
  BY DEF Jobs, Idle, Transaction, Adjustment, LogEntry, ToRefresh, ToWrite

\* Every kind of request is a request.
LEMMA KindsAreJobs ==
    /\ Idle \in Jobs /\ Transaction \subseteq Jobs /\ Adjustment \subseteq Jobs
    /\ LogEntry \subseteq Jobs /\ ToRefresh \subseteq Jobs /\ ToWrite \subseteq Jobs
  BY DEF Jobs

\* computeStockNeeds gives every item an amount.
LEMMA NeedType ==
    ASSUME NEW c \in Transaction
    PROVE  Need(c) \in [Item -> Nat] /\ Todo(c) \subseteq Item
  BY StockAssumption DEF Need, Transaction, Todo, NeededIn

\* What a transaction does to a row is a whole number.
LEMMA RowChangeType ==
    ASSUME NEW c \in Transaction, NEW i \in Item
    PROVE  RowChange(c, i) \in Int
  BY NeedType DEF RowChange

-----------------------------------------------------------------------------
(* The inductive invariant.                                                  *)

\* A transaction updates only rows it needs, the lower ranks first; unless it
\* met a shortage it holds every row it updated, and a sale's rows still
\* suffice, whatever others have committed since.
RowsHeld(j) ==
    LET c == job[j] IN
    c.op = "rows" =>
        /\ c.done \subseteq NeededIn(c.of)
        /\ \A i \in c.done, k \in Todo(c) : Rank[i] < Rank[k]
        /\ ~c.short => \A i \in c.done : lockedBy[i] = j /\ Enough(c, i)

\* A locked row was updated by the transaction that holds it.
HeldByUpdater ==
    \A i \in Item : lockedBy[i] # Nobody =>
        LET c == job[lockedBy[i]] IN c.op = "rows" /\ i \in c.done

\* Log entries written after the transaction are of unit products.
LogsCounted == \A j \in Job : job[j].op = "log" => job[j].item \in Counted

StockInv == StockTypeOK /\ (\A j \in Job : RowsHeld(j)) /\ HeldByUpdater /\ LogsCounted

\* The rows a transaction will change when it commits are its own.
LEMMA OthersRows ==
    ASSUME StockInv, NEW j \in Job, NEW k \in Job, j # k,
           job[j].op = "rows", job[k].op = "rows", ~job[j].short, ~job[k].short
    PROVE  job[j].done \cap job[k].done = {}
  <1>1. \A i \in job[j].done : lockedBy[i] = j
    BY DEF StockInv, RowsHeld
  <1>2. \A i \in job[k].done : lockedBy[i] = k
    BY DEF StockInv, RowsHeld
  <1> QED BY <1>1, <1>2

\* A correction is by a whole number.
LEMMA ChangeType ==
    ASSUME NEW change \in Change
    PROVE  change.by \in Int
  <1>1. SetTo \subseteq Int /\ Delta \subseteq Int
    BY StockAssumption
  <1>2. change.by \in SetTo \/ change.by \in Delta
    BY DEF Change
  <1> QED BY <1>1, <1>2

\* A dish can be served or not.
LEMMA CanServeType ==
    ASSUME NEW d, NEW count
    PROVE  CanServe(d, count) \in BOOLEAN
  BY DEF CanServe

\* Committing, a transaction leaves no count below zero.
LEMMA CommitType ==
    ASSUME StockInv, NEW j \in Job, Commit(j)
    PROVE  /\ \A i \in Item : stock[i] + RowChange(job[j], i) \in Nat
           /\ stock' \in [Item -> Nat]
  <1> DEFINE c == job[j]
  <1>1. c \in Transaction
    BY JobKinds DEF StockInv, StockTypeOK, Commit
  <1>2. ASSUME NEW i \in Item
        PROVE  stock[i] + RowChange(c, i) \in Nat
    <2>1. stock[i] \in Nat /\ Need(c)[i] \in Nat
      BY <1>1, NeedType DEF StockInv, StockTypeOK
    <2>2. i \in c.done => Enough(c, i)
      BY DEF StockInv, RowsHeld, Commit
    <2> QED BY <2>1, <2>2 DEF RowChange, Enough
  <1> QED BY <1>2 DEF Commit

\* Releasing its locks, a request keeps nobody else's.
LEMMA ReleaseType ==
    ASSUME StockTypeOK, NEW j \in Job, Release(j)
    PROVE  lockedBy' \in [Item -> Job \cup {Nobody}]
  BY DEF StockTypeOK, Release

\* The dishes of a pending write are dishes.
LEMMA PendingType ==
    ASSUME NEW c \in Jobs
    PROVE  PendingWrites(c) \subseteq Dish
  BY JobKinds DEF PendingWrites, ToWrite

-----------------------------------------------------------------------------
(* Type correctness.                                                         *)

\* The tables as they are first filled are well typed.
LEMMA StockTypeInit == Init => StockTypeOK
  <1> SUFFICES ASSUME Init
               PROVE  StockTypeOK
    OBVIOUS
  <1>1. available \in [Dish -> BOOLEAN]
    BY CanServeType DEF Init
  <1> QED BY <1>1, StockAssumption, KindsAreJobs DEF Init, StockTypeOK

\* No step stores a value of the wrong type, or a count below zero.
LEMMA StockTypeNext == StockInv /\ [Next]_vars => StockTypeOK'
  <1> SUFFICES ASSUME StockInv, [Next]_vars
               PROVE  StockTypeOK'
    OBVIOUS
  <1> USE DEF StockInv
  <1>1. ASSUME NEW j \in Job, NEW o \in Order, BeginSale(j, o)
        PROVE  StockTypeOK'
    <2>1. [op |-> "rows", kind |-> "sale", order |-> o, of |-> lines[o], done |-> {},
           short |-> FALSE] \in Jobs
      BY KindsAreJobs DEF StockTypeOK, Transaction
    <2> QED BY <1>1, <2>1 DEF BeginSale, GoOn, StockTypeOK, orderVars, history
  <1>2. ASSUME NEW j \in Job, NEW o \in Order, BeginReturn(j, o)
        PROVE  StockTypeOK'
    <2>1. PICK q \in Lines :
            GoOn(j, [op |-> "rows", kind |-> "return", order |-> o, of |-> q,
                     done |-> {}, short |-> FALSE])
      BY <1>2 DEF BeginReturn
    <2>2. [op |-> "rows", kind |-> "return", order |-> o, of |-> q, done |-> {},
           short |-> FALSE] \in Jobs
      BY KindsAreJobs DEF Transaction
    <2> QED BY <1>2, <2>1, <2>2 DEF BeginReturn, GoOn, StockTypeOK, orderVars, history
  <1>3. ASSUME NEW j \in Job, UpdateRow(j)
        PROVE  StockTypeOK'
    <2> DEFINE c == job[j]
    <2>1. c \in Transaction
      BY <1>3, JobKinds DEF UpdateRow, StockTypeOK
    <2>2. PICK i \in Item :
            /\ lockedBy' \in {lockedBy, [lockedBy EXCEPT ![i] = j]}
            /\ \/ job' = [job EXCEPT ![j] = [c EXCEPT !.done = @ \cup {i}]]
               \/ job' = [job EXCEPT ![j] = [c EXCEPT !.done = @ \cup {i}, !.short = TRUE]]
      BY <1>3 DEF UpdateRow, GoOn
    <2>3. /\ [c EXCEPT !.done = @ \cup {i}] \in Jobs
          /\ [c EXCEPT !.done = @ \cup {i}, !.short = TRUE] \in Jobs
      BY <2>1, KindsAreJobs DEF Transaction
    <2>4. lockedBy' \in [Item -> Job \cup {Nobody}]
      BY <2>2 DEF StockTypeOK
    <2>5. job' \in [Job -> Jobs]
      BY <2>2, <2>3 DEF StockTypeOK
    <2> QED BY <1>3, <2>4, <2>5 DEF UpdateRow, StockTypeOK, orderVars, history
  <1>4. ASSUME NEW j \in Job, Commit(j)
        PROVE  StockTypeOK'
    <2> DEFINE c == job[j]
    <2>1. c \in Transaction
      BY <1>4, JobKinds DEF Commit, StockTypeOK
    <2>2. stock' \in [Item -> Nat] /\ lockedBy' \in [Item -> Job \cup {Nobody}]
      BY <1>4, CommitType, ReleaseType DEF Commit
    <2>3. logged' \in [Item -> Int]
      BY <1>4, <2>1, RowChangeType DEF Commit, StockTypeOK
    <2>4. phase' \in [Order -> {"pending", "confirmed", "cancelled"}]
      BY <1>4, <2>1 DEF Commit, StockTypeOK, Transaction
    <2>5. job' \in [Job -> Jobs]
      BY <1>4, <2>1, KindsAreJobs DEF Commit, GoOn, StockTypeOK, Transaction, ToRefresh
    <2>6. muddled' \subseteq Dish
      BY <1>4 DEF Commit, Overtaken, StockTypeOK
    <2> QED BY <1>4, <2>2, <2>3, <2>4, <2>5, <2>6 DEF Commit, StockTypeOK
  <1>5. ASSUME NEW j \in Job, RollBack(j)
        PROVE  StockTypeOK'
    BY <1>5, ReleaseType, KindsAreJobs DEF RollBack, GoOn, StockTypeOK, orderVars, history
  <1>6. ASSUME NEW j \in Job, NEW i \in Item, BeginAdjust(j, i)
        PROVE  StockTypeOK'
    <2>1. PICK change \in Change :
            GoOn(j, [op |-> "adjust", item |-> i, change |-> change, read |-> stock[i]])
      BY <1>6 DEF BeginAdjust
    <2>2. [op |-> "adjust", item |-> i, change |-> change, read |-> stock[i]] \in Jobs
      BY KindsAreJobs DEF Adjustment, StockTypeOK
    <2>3. job' \in [Job -> Jobs]
      BY <2>1, <2>2 DEF GoOn, StockTypeOK
    <2> QED BY <1>6, <2>3 DEF BeginAdjust, StockTypeOK, orderVars
  <1>7. ASSUME NEW j \in Job, WriteAdjust(j)
        PROVE  StockTypeOK'
    <2> DEFINE c == job[j]
               i == c.item
    <2>1. c \in Adjustment
      BY <1>7, JobKinds DEF WriteAdjust, StockTypeOK
    <2>2. i \in Item /\ c.read \in Nat /\ stock[i] \in Nat
      BY <2>1 DEF Adjustment, StockTypeOK
    <2>3. c.change.by \in Int
      BY <2>1, ChangeType DEF Adjustment
    <2>4. NewCount(c) \in Nat
      BY <1>7, <2>2, <2>3 DEF NewCount, WriteAdjust
    <2>5. MaterialDelta(c) \in Int
      BY <2>2, <2>3 DEF MaterialDelta
    <2>6. stock' \in [Item -> Nat]
      BY <1>7, <2>2, <2>4 DEF WriteAdjust, StockTypeOK
    <2>7. CASE i \in Counted
      <3>1. available' \in [Dish -> BOOLEAN]
        <4>1. available' = [d \in Dish |-> IF Uses(d, {i}) THEN CanServe(d, stock') ELSE available[d]]
          BY <1>7, <2>7 DEF WriteAdjust
        <4> QED BY <4>1, CanServeType DEF StockTypeOK
      <3>2. [op |-> "log", item |-> i, delta |-> NewCount(c) - c.read] \in Jobs
        BY <2>2, <2>4, KindsAreJobs DEF LogEntry
      <3>3. job' \in [Job -> Jobs]
        BY <1>7, <2>7, <3>2 DEF WriteAdjust, GoOn, StockTypeOK
      <3> QED BY <1>7, <2>2, <2>6, <2>7, <3>1, <3>3 DEF WriteAdjust, StockTypeOK, orderVars, Overtaken
    <2>8. CASE i \notin Counted
      <3>1. [op |-> "refresh", items |-> {i}] \in Jobs
        BY <2>2, KindsAreJobs DEF ToRefresh
      <3>2. job' \in [Job -> Jobs]
        BY <1>7, <2>8, <3>1 DEF WriteAdjust, GoOn, StockTypeOK
      <3>3. logged' \in [Item -> Int]
        BY <1>7, <2>2, <2>5, <2>8 DEF WriteAdjust, StockTypeOK
      <3> QED BY <1>7, <2>2, <2>6, <2>8, <3>2, <3>3 DEF WriteAdjust, StockTypeOK, orderVars, Overtaken
    <2> QED BY <2>7, <2>8
  <1>8. ASSUME NEW j \in Job, RefuseAdjust(j)
        PROVE  StockTypeOK'
    BY <1>8, KindsAreJobs DEF RefuseAdjust, GoOn, StockTypeOK, orderVars, history
  <1>9. ASSUME NEW j \in Job, WriteLog(j)
        PROVE  StockTypeOK'
    <2>1. job[j] \in LogEntry
      BY <1>9, JobKinds DEF WriteLog, StockTypeOK
    <2>2. logged' \in [Item -> Int]
      BY <1>9, <2>1 DEF WriteLog, LogEntry, StockTypeOK
    <2> QED BY <1>9, <2>2, KindsAreJobs DEF WriteLog, GoOn, StockTypeOK, orderVars
  <1>10. ASSUME NEW j \in Job, ReadAvailability(j)
         PROVE  StockTypeOK'
    <2> DEFINE changed == {d \in Touched(job[j].items) : available[d] # CanServe(d, stock)}
               w == [op |-> "write", onSale |-> {d \in changed : CanServe(d, stock)},
                     soldOut |-> {d \in changed : ~CanServe(d, stock)}]
    <2>1. job' = [job EXCEPT ![j] = Idle] \/ job' = [job EXCEPT ![j] = w]
      BY <1>10 DEF ReadAvailability, GoOn
    <2>2. w \in Jobs
      BY KindsAreJobs DEF ToWrite, Touched
    <2>3. job' \in [Job -> Jobs]
      BY <2>1, <2>2, KindsAreJobs DEF StockTypeOK
    <2> QED BY <1>10, <2>3 DEF ReadAvailability, StockTypeOK, orderVars, history
  <1>11. ASSUME NEW j \in Job, StopAfterCommit(j)
         PROVE  StockTypeOK'
    <2>1. muddled' \subseteq Dish
      BY <1>11, PendingType DEF StopAfterCommit, StockTypeOK, Touched
    <2> QED BY <1>11, <2>1, KindsAreJobs DEF StopAfterCommit, GoOn, StockTypeOK, orderVars, history
  <1>12. ASSUME NEW j \in Job, NEW d \in Dish, WriteAvailability(j, d)
         PROVE  StockTypeOK'
    <2> DEFINE rest == [job[j] EXCEPT !.onSale = @ \ {d}, !.soldOut = @ \ {d}]
    <2>1. rest \in Jobs
      <3>1. job[j] \in ToWrite
        BY <1>12, JobKinds DEF WriteAvailability, StockTypeOK
      <3>2. rest \in ToWrite
        BY <3>1 DEF ToWrite
      <3> QED BY <3>2, KindsAreJobs
    <2>2. job' = [job EXCEPT ![j] = Idle] \/ job' = [job EXCEPT ![j] = rest]
      BY <1>12 DEF WriteAvailability, GoOn
    <2>3. job' \in [Job -> Jobs]
      BY <2>1, <2>2, KindsAreJobs DEF StockTypeOK
    <2> QED BY <1>12, <2>3 DEF WriteAvailability, StockTypeOK, orderVars, history
  <1>13. CASE UNCHANGED vars
    BY <1>13 DEF vars, StockTypeOK, orderVars, history
  <1> QED
    BY <1>1, <1>2, <1>3, <1>4, <1>5, <1>6, <1>7, <1>8, <1>9, <1>10, <1>11, <1>12, <1>13 DEF Next

-----------------------------------------------------------------------------
(* Row locks.                                                                *)

\* A request that is in no transaction over rows leaves locks and locked rows
\* alone.
LEMMA OtherSteps ==
    ASSUME StockInv, NEW j \in Job, NEW n, GoOn(j, n),
           job[j].op # "rows", n.op # "rows", n.op = "log" => n.item \in Counted,
           lockedBy' = lockedBy,
           \A i \in Item : lockedBy[i] # Nobody => stock'[i] = stock[i]
    PROVE  (\A k \in Job : RowsHeld(k)') /\ HeldByUpdater' /\ LogsCounted'
  <1>1. \A k \in Job : job'[k] = IF k = j THEN n ELSE job[k]
    BY DEF GoOn, StockInv, StockTypeOK
  <1>2. ASSUME NEW k \in Job PROVE RowsHeld(k)'
    <2> SUFFICES ASSUME job[k].op = "rows", job'[k] = job[k] PROVE RowsHeld(k)'
      BY <1>1 DEF RowsHeld
    <2>1. RowsHeld(k)
      BY DEF StockInv
    <2>2. job[k] \in Transaction
      BY JobKinds DEF StockInv, StockTypeOK
    <2>3. ASSUME ~job[k].short, NEW i \in job[k].done
          PROVE  lockedBy'[i] = k /\ Enough(job[k], i)'
      <3>1. i \in Item /\ lockedBy[i] = k /\ Enough(job[k], i)
        BY <2>1, <2>2, <2>3 DEF RowsHeld, Transaction
      <3>2. stock'[i] = stock[i]
        BY <3>1, StockAssumption
      <3> QED BY <3>1, <3>2 DEF Enough, Need
    <2> QED BY <2>1, <2>3 DEF RowsHeld, Todo, NeededIn
  <1>3. HeldByUpdater'
    <2> SUFFICES ASSUME NEW i \in Item, lockedBy[i] # Nobody
                 PROVE  job'[lockedBy[i]].op = "rows" /\ i \in job'[lockedBy[i]].done
      BY DEF HeldByUpdater
    <2>1. lockedBy[i] \in Job /\ job[lockedBy[i]].op = "rows" /\ i \in job[lockedBy[i]].done
      BY DEF StockInv, StockTypeOK, HeldByUpdater
    <2> QED BY <1>1, <2>1
  <1>4. LogsCounted'
    BY <1>1 DEF LogsCounted, StockInv
  <1> QED BY <1>2, <1>3, <1>4

\* A transaction over rows begins with none of them updated.
LEMMA BeginHeld ==
    ASSUME StockInv, NEW j \in Job, NEW n \in Transaction, n.done = {}, GoOn(j, n),
           job[j] = Idle, UNCHANGED <<stock, lockedBy>>
    PROVE  (\A k \in Job : RowsHeld(k)') /\ HeldByUpdater' /\ LogsCounted'
  <1>1. \A k \in Job : job'[k] = IF k = j THEN n ELSE job[k]
    BY DEF GoOn, StockInv, StockTypeOK
  <1>2. n.op = "rows" /\ Idle.op = "idle"
    BY DEF Transaction, Idle
  <1>3. ASSUME NEW k \in Job PROVE RowsHeld(k)'
    <2>1. CASE k = j
      BY <1>1, <2>1 DEF RowsHeld, Todo, NeededIn
    <2>2. CASE k # j
      BY <1>1, <2>2 DEF RowsHeld, Todo, NeededIn, StockInv, Enough, Need
    <2> QED BY <2>1, <2>2
  <1>4. HeldByUpdater'
    BY <1>1, <1>2 DEF HeldByUpdater, StockInv, StockTypeOK
  <1>5. LogsCounted'
    BY <1>1, <1>2 DEF LogsCounted, StockInv
  <1> QED BY <1>3, <1>4, <1>5

\* A row that a transaction updates is the lowest it had left; the update
\* locks it, and a sale goes on without a shortage only where there is enough.
LEMMA UpdateRowHeld ==
    ASSUME StockInv, NEW j \in Job, UpdateRow(j)
    PROVE  (\A k \in Job : RowsHeld(k)') /\ HeldByUpdater' /\ LogsCounted'
  <1> DEFINE c == job[j]
  <1>1. c \in Transaction /\ c.op = "rows"
    BY JobKinds DEF UpdateRow, StockInv, StockTypeOK
  <1>2. PICK i \in Item :
          /\ IsNext(c, i)
          /\ lockedBy' = lockedBy \/ (LockFree(j, i) /\ lockedBy' = [lockedBy EXCEPT ![i] = j])
          /\ \/ /\ Enough(c, i)
                /\ lockedBy' = [lockedBy EXCEPT ![i] = j]
                /\ job' = [job EXCEPT ![j] = [c EXCEPT !.done = @ \cup {i}]]
             \/ job' = [job EXCEPT ![j] = [c EXCEPT !.done = @ \cup {i}, !.short = TRUE]]
    BY DEF UpdateRow, GoOn
  <1> DEFINE n == job'[j]
  <1>3. /\ n.op = "rows" /\ n.of = c.of /\ n.kind = c.kind /\ n.done = c.done \cup {i}
        /\ ~n.short => ~c.short /\ Enough(c, i) /\ lockedBy' = [lockedBy EXCEPT ![i] = j]
        /\ \A k \in Job : k # j => job'[k] = job[k]
    <2>1. CASE /\ Enough(c, i) /\ lockedBy' = [lockedBy EXCEPT ![i] = j]
               /\ job' = [job EXCEPT ![j] = [c EXCEPT !.done = @ \cup {i}]]
      <3>1. n = [c EXCEPT !.done = @ \cup {i}] /\ \A k \in Job : k # j => job'[k] = job[k]
        BY <2>1 DEF StockInv, StockTypeOK
      <3> QED BY <1>1, <2>1, <3>1 DEF Transaction
    <2>2. CASE job' = [job EXCEPT ![j] = [c EXCEPT !.done = @ \cup {i}, !.short = TRUE]]
      <3>1. /\ n = [c EXCEPT !.done = @ \cup {i}, !.short = TRUE]
            /\ \A k \in Job : k # j => job'[k] = job[k]
        BY <2>2 DEF StockInv, StockTypeOK
      <3> QED BY <1>1, <3>1 DEF Transaction
    <2> QED BY <1>2, <2>1, <2>2
  <1>4. lockedBy'[i] \in {lockedBy[i], j} /\ \A k \in Item : k # i => lockedBy'[k] = lockedBy[k]
    BY <1>2 DEF StockInv, StockTypeOK
  <1>5. UNCHANGED stock
    BY DEF UpdateRow
  <1>6. ASSUME NEW k \in Job, k # j PROVE RowsHeld(k)'
    <2> SUFFICES ASSUME job[k].op = "rows", ~job[k].short, NEW e \in job[k].done
                 PROVE  lockedBy'[e] = k
      BY <1>3, <1>5, <1>6 DEF RowsHeld, Todo, NeededIn, StockInv, Enough, Need
    <2>1. lockedBy[e] = k /\ e \in Item
      BY JobKinds DEF RowsHeld, StockInv, StockTypeOK, Transaction
    <2>2. lockedBy' = lockedBy \/ e # i
      BY <1>2, <1>6, <2>1, StockAssumption DEF LockFree
    <2> QED BY <1>4, <2>1, <2>2
  <1>7. RowsHeld(j)'
    <2>1. i \in Todo(c) /\ \A k \in Todo(c) : Rank[i] <= Rank[k]
      BY <1>2 DEF IsNext
    <2>2. RowsHeld(j)
      BY DEF StockInv
    <2>3. Todo(n) = Todo(c) \ {i} /\ n.done \subseteq NeededIn(n.of)
      BY <1>1, <1>3, <2>1, <2>2 DEF Todo, RowsHeld
    <2>4. ASSUME NEW e \in n.done, NEW k \in Todo(n) PROVE Rank[e] < Rank[k]
      <3>1. /\ k \in Item /\ e \in Item /\ i \in Item /\ k # i
            /\ Rank[k] \in Nat /\ Rank[e] \in Nat /\ Rank[i] \in Nat
        BY <1>1, <1>3, <2>3, StockAssumption DEF Todo, NeededIn, Transaction
      <3>2. Rank[i] # Rank[k]
        BY <3>1, StockAssumption
      <3>3. CASE e = i
        BY <2>1, <2>3, <3>1, <3>2, <3>3
      <3>4. CASE e # i
        BY <1>1, <1>3, <2>2, <2>3, <3>4 DEF RowsHeld
      <3> QED BY <3>3, <3>4
    <2>5. ASSUME ~n.short, NEW e \in n.done
          PROVE  lockedBy'[e] = j /\ Enough(job[j], e)'
      <3>1. Enough(c, e)
        BY <1>1, <1>3, <2>2, <2>5 DEF RowsHeld
      <3>2. lockedBy'[e] = j
        BY <1>1, <1>3, <1>4, <2>2, <2>5 DEF RowsHeld, StockInv, StockTypeOK, Transaction
      <3> QED BY <1>3, <1>5, <3>1, <3>2 DEF Enough, Need
    <2> QED BY <1>3, <2>3, <2>4, <2>5 DEF RowsHeld, Todo, NeededIn
  <1>8. HeldByUpdater'
    <2> SUFFICES ASSUME NEW e \in Item, lockedBy'[e] # Nobody
                 PROVE  job'[lockedBy'[e]].op = "rows" /\ e \in job'[lockedBy'[e]].done
      BY DEF HeldByUpdater
    <2>1. lockedBy'[e] = lockedBy[e] \/ (e = i /\ lockedBy'[e] = j)
      BY <1>4
    <2>2. CASE lockedBy'[e] = lockedBy[e]
      <3>1. lockedBy[e] \in Job /\ job[lockedBy[e]].op = "rows" /\ e \in job[lockedBy[e]].done
        BY <2>2 DEF StockInv, StockTypeOK, HeldByUpdater
      <3> QED BY <1>3, <2>2, <3>1
    <2> QED BY <1>3, <2>1, <2>2
  <1>9. LogsCounted'
    BY <1>3 DEF LogsCounted, StockInv
  <1> QED BY <1>6, <1>7, <1>8, <1>9

\* A transaction that ends releases its rows and nobody else's, and a commit
\* changes no row another transaction holds.
LEMMA EndHeld ==
    ASSUME StockInv, NEW j \in Job, NEW n, GoOn(j, n), Release(j),
           job[j].op = "rows", n.op \in {"idle", "refresh"},
           \A i \in Item : lockedBy[i] # j => stock'[i] = stock[i] \/ lockedBy[i] = Nobody
    PROVE  (\A k \in Job : RowsHeld(k)') /\ HeldByUpdater' /\ LogsCounted'
  <1>1. \A k \in Job : job'[k] = IF k = j THEN n ELSE job[k]
    BY DEF GoOn, StockInv, StockTypeOK
  <1>2. \A i \in Item : lockedBy'[i] = IF lockedBy[i] = j THEN Nobody ELSE lockedBy[i]
    BY DEF Release
  <1>3. ASSUME NEW k \in Job PROVE RowsHeld(k)'
    <2> SUFFICES ASSUME k # j, job[k].op = "rows", job'[k] = job[k] PROVE RowsHeld(k)'
      BY <1>1 DEF RowsHeld
    <2>1. RowsHeld(k)
      BY DEF StockInv
    <2>2. ASSUME ~job[k].short, NEW i \in job[k].done
          PROVE  lockedBy'[i] = k /\ Enough(job[k], i)'
      <3>1. i \in Item /\ lockedBy[i] = k /\ Enough(job[k], i)
        BY <2>1, <2>2, JobKinds DEF RowsHeld, Transaction, StockInv, StockTypeOK
      <3>2. stock'[i] = stock[i]
        BY <3>1, StockAssumption
      <3> QED BY <1>2, <3>1, <3>2 DEF Enough, Need
    <2> QED BY <2>1, <2>2 DEF RowsHeld, Todo, NeededIn
  <1>4. HeldByUpdater'
    <2> SUFFICES ASSUME NEW i \in Item, lockedBy'[i] # Nobody
                 PROVE  job'[lockedBy'[i]].op = "rows" /\ i \in job'[lockedBy'[i]].done
      BY DEF HeldByUpdater
    <2>1. lockedBy'[i] = lockedBy[i] /\ lockedBy[i] # j
      BY <1>2
    <2>2. lockedBy[i] \in Job /\ job[lockedBy[i]].op = "rows" /\ i \in job[lockedBy[i]].done
      BY <2>1 DEF StockInv, StockTypeOK, HeldByUpdater
    <2> QED BY <1>1, <2>1, <2>2
  <1>5. LogsCounted'
    BY <1>1 DEF LogsCounted, StockInv
  <1> QED BY <1>3, <1>4, <1>5

\* The row a correction writes is locked by nobody.
LEMMA AdjustedRowIsFree ==
    ASSUME StockInv, NEW j \in Job, WriteAdjust(j)
    PROVE  /\ job[j] \in Adjustment /\ job[j].item \in Item
           /\ lockedBy[job[j].item] = Nobody
           /\ \A k \in Item : k # job[j].item => stock'[k] = stock[k]
  <1>1. job[j] \in Adjustment /\ job[j].item \in Item /\ job[j].op = "adjust"
    BY JobKinds DEF WriteAdjust, StockInv, StockTypeOK, Adjustment
  <1>2. lockedBy[job[j].item] \in {Nobody, j}
    BY DEF WriteAdjust, LockFree
  <1>3. lockedBy[job[j].item] # j
    BY <1>1, StockAssumption DEF StockInv, HeldByUpdater
  <1> QED BY <1>1, <1>2, <1>3 DEF WriteAdjust, StockInv, StockTypeOK

\* The rows a transaction commits are locked by it.
LEMMA CommittedRowsAreHeld ==
    ASSUME StockInv, NEW j \in Job, Commit(j)
    PROVE  /\ job[j] \in Transaction
           /\ \A i \in job[j].done : lockedBy[i] = j /\ Enough(job[j], i)
           /\ \A i \in Item : i \notin job[j].done => stock'[i] = stock[i]
  <1>1. job[j] \in Transaction
    BY JobKinds DEF Commit, StockInv, StockTypeOK
  <1>2. \A i \in job[j].done : lockedBy[i] = j /\ Enough(job[j], i)
    BY DEF Commit, StockInv, RowsHeld
  <1>3. \A i \in Item : i \notin job[j].done => stock'[i] = stock[i]
    BY DEF Commit, RowChange, StockInv, StockTypeOK
  <1> QED BY <1>1, <1>2, <1>3

\* Every step keeps the locks in order.
LEMMA HeldNext ==
    StockInv /\ [Next]_vars => (\A k \in Job : RowsHeld(k)') /\ HeldByUpdater' /\ LogsCounted'
  <1> SUFFICES ASSUME StockInv, [Next]_vars
               PROVE  (\A k \in Job : RowsHeld(k)') /\ HeldByUpdater' /\ LogsCounted'
    OBVIOUS
  <1> DEFINE Held == (\A k \in Job : RowsHeld(k)') /\ HeldByUpdater' /\ LogsCounted'
  <1>1. ASSUME NEW j \in Job, NEW o \in Order, BeginSale(j, o)
        PROVE  Held
    <2>1. [op |-> "rows", kind |-> "sale", order |-> o, of |-> lines[o], done |-> {},
           short |-> FALSE] \in Transaction
      BY DEF StockInv, StockTypeOK, Transaction
    <2> QED BY <1>1, <2>1, BeginHeld DEF BeginSale
  <1>2. ASSUME NEW j \in Job, NEW o \in Order, BeginReturn(j, o)
        PROVE  Held
    <2>1. PICK q \in Lines :
            GoOn(j, [op |-> "rows", kind |-> "return", order |-> o, of |-> q,
                     done |-> {}, short |-> FALSE])
      BY <1>2 DEF BeginReturn
    <2>2. [op |-> "rows", kind |-> "return", order |-> o, of |-> q, done |-> {},
           short |-> FALSE] \in Transaction
      BY DEF Transaction
    <2> QED BY <1>2, <2>1, <2>2, BeginHeld DEF BeginReturn
  <1>3. ASSUME NEW j \in Job, UpdateRow(j)
        PROVE  Held
    BY <1>3, UpdateRowHeld
  <1>4. ASSUME NEW j \in Job, Commit(j)
        PROVE  Held
    <2>1. \A i \in Item : lockedBy[i] # j => stock'[i] = stock[i]
      BY <1>4, CommittedRowsAreHeld
    <2> QED BY <1>4, <2>1, EndHeld DEF Commit
  <1>5. ASSUME NEW j \in Job, RollBack(j)
        PROVE  Held
    BY <1>5, EndHeld DEF RollBack, Idle
  <1>6. ASSUME NEW j \in Job, NEW i \in Item, BeginAdjust(j, i)
        PROVE  Held
    BY <1>6, OtherSteps DEF BeginAdjust, Idle
  <1>7. ASSUME NEW j \in Job, WriteAdjust(j)
        PROVE  Held
    <2>1. \A i \in Item : lockedBy[i] # Nobody => stock'[i] = stock[i]
      BY <1>7, AdjustedRowIsFree
    <2>2. job[j].op # "rows" /\ lockedBy' = lockedBy
      BY <1>7 DEF WriteAdjust
    <2>3. PICK n : GoOn(j, n) /\ n.op \in {"log", "refresh"}
                   /\ (n.op = "log" => n.item \in Counted)
      BY <1>7 DEF WriteAdjust
    <2> QED BY <2>1, <2>2, <2>3, OtherSteps
  <1>8. ASSUME NEW j \in Job, RefuseAdjust(j)
        PROVE  Held
    BY <1>8, OtherSteps DEF RefuseAdjust, Idle
  <1>9. ASSUME NEW j \in Job, WriteLog(j)
        PROVE  Held
    BY <1>9, OtherSteps DEF WriteLog, Idle
  <1>10. ASSUME NEW j \in Job, ReadAvailability(j)
         PROVE  Held
    <2>1. PICK n : GoOn(j, n) /\ n.op \in {"idle", "write"}
      BY <1>10 DEF ReadAvailability, Idle
    <2> QED BY <1>10, <2>1, OtherSteps DEF ReadAvailability
  <1>11. ASSUME NEW j \in Job, StopAfterCommit(j)
         PROVE  Held
    BY <1>11, OtherSteps DEF StopAfterCommit, Idle
  <1>12. ASSUME NEW j \in Job, NEW d \in Dish, WriteAvailability(j, d)
         PROVE  Held
    <2>1. job[j] \in ToWrite /\ job[j].op = "write"
      BY <1>12, JobKinds DEF WriteAvailability, StockInv, StockTypeOK
    <2> DEFINE rest == [job[j] EXCEPT !.onSale = @ \ {d}, !.soldOut = @ \ {d}]
    <2>2. rest.op = "write" /\ (GoOn(j, Idle) \/ GoOn(j, rest))
      BY <1>12, <2>1 DEF WriteAvailability, ToWrite
    <2> QED BY <1>12, <2>1, <2>2, OtherSteps DEF WriteAvailability, Idle
  <1>13. CASE UNCHANGED vars
    BY <1>13 DEF vars, StockInv, RowsHeld, HeldByUpdater, LogsCounted, Enough, Need, Todo, NeededIn
  <1> QED
    BY <1>1, <1>2, <1>3, <1>4, <1>5, <1>6, <1>7, <1>8, <1>9, <1>10, <1>11, <1>12, <1>13 DEF Next

\* The locks, and what they protect, are in order in every state.
THEOREM StockInvHolds == Spec => []StockInv
  <1>1. Init => StockInv
    BY StockTypeInit DEF Init, StockInv, RowsHeld, HeldByUpdater, LogsCounted, Idle
  <1>2. StockInv /\ [Next]_vars => StockInv'
    BY StockTypeNext, HeldNext DEF StockInv
  <1> QED BY <1>1, <1>2, PTL DEF Spec

\* Every column holds a value of its type, and no count is ever below zero,
\* although sales lower rows one at a time (StockTypeOK).
THEOREM StockTypeCorrect == Spec => []StockTypeOK
  <1>1. StockInv => StockTypeOK
    BY DEF StockInv
  <1> QED BY <1>1, StockInvHolds, PTL

-----------------------------------------------------------------------------
(* No circle of waiting transactions.                                        *)

\* Among ranks no larger than LastRank, some set of them has a largest.
LEMMA HighestRank ==
    ASSUME NEW R, R \subseteq 0 .. LastRank, R # {}
    PROVE  \E r \in R : \A s \in R : s <= r
  <1> DEFINE T == {n \in 0 .. LastRank : LastRank - n \in R}
  <1>1. LastRank \in Nat
    BY StockAssumption
  <1>2. T \subseteq Nat /\ T # {}
    <2>1. PICK r \in R : TRUE
      OBVIOUS
    <2>2. LastRank - r \in T
      BY <1>1, <2>1
    <2> QED BY <2>2
  <1>3. PICK n \in T : \A m \in T : ~(<<m, n>> \in OpToRel(<, Nat))
    BY <1>2, NatLessThanWellFounded, WFMin
  <1>4. \A m \in T : ~(m < n)
    BY <1>2, <1>3 DEF OpToRel
  <1>5. ASSUME NEW s \in R PROVE s <= LastRank - n
    <2>1. LastRank - s \in T
      BY <1>1
    <2> QED BY <1>1, <1>4, <2>1
  <1> QED BY <1>5

\* A transaction with rows left has a next one, the lowest.
LEMMA NextRowExists ==
    ASSUME NEW c \in Transaction, Todo(c) # {}
    PROVE  \E i \in Item : IsNext(c, i)
  <1> DEFINE T == {Rank[i] : i \in Todo(c)}
  <1>1. Todo(c) \subseteq Item
    BY NeedType
  <1>2. T \subseteq Nat /\ T # {}
    BY <1>1, StockAssumption
  <1>3. PICK n \in T : \A m \in T : ~(<<m, n>> \in OpToRel(<, Nat))
    BY <1>2, NatLessThanWellFounded, WFMin
  <1>4. \A m \in T : n <= m
    <2> HIDE DEF T
    <2>1. \A m \in T : ~(m < n)
      BY <1>2, <1>3 DEF OpToRel
    <2> QED BY <1>2, <2>1
  <1>5. PICK i \in Todo(c) : n = Rank[i]
    OBVIOUS
  <1> QED BY <1>1, <1>4, <1>5 DEF IsNext

\* Of the transactions that wait, the one whose next row has the highest rank
\* waits for nobody: whoever held that row would have a later one to wait for.
LEMMA SomeoneNeverWaits == StockInv => SomeoneCanGoOn
  <1> SUFFICES ASSUME StockInv, NEW first \in Job, InTransaction(first),
                      \A j \in Job : InTransaction(j) => ~CanGoOn(j)
               PROVE  FALSE
    BY DEF SomeoneCanGoOn
  <1> DEFINE Next1(j, i) == InTransaction(j) /\ IsNext(job[j], i)
             R == {r \in 0 .. LastRank : \E j \in Job, i \in Item : Next1(j, i) /\ Rank[i] = r}
  <1>1. ASSUME NEW j \in Job, InTransaction(j)
        PROVE  \E i \in Item : Next1(j, i)
    <2>1. job[j] \in Transaction
      BY <1>1, JobKinds DEF InTransaction, StockInv, StockTypeOK
    <2> QED BY <1>1, <2>1, NextRowExists DEF CanGoOn
  <1>2. \A i \in Item : Rank[i] \in 0 .. LastRank
    BY StockAssumption
  <1>3. R # {}
    BY <1>1, <1>2
  <1>4. PICK r \in R : \A s \in R : s <= r
    BY <1>3, HighestRank
  <1>5. PICK j \in Job, i \in Item : Next1(j, i) /\ Rank[i] = r
    BY <1>4
  <1> DEFINE k == lockedBy[i]
  <1>6. k \in Job /\ InTransaction(k) /\ i \in job[k].done
    BY <1>5 DEF CanGoOn, LockFree, StockInv, HeldByUpdater, StockTypeOK, InTransaction
  <1>7. PICK e \in Item : Next1(k, e)
    BY <1>1, <1>6
  <1>8. Rank[i] < Rank[e]
    BY <1>6, <1>7 DEF IsNext, StockInv, RowsHeld, InTransaction
  <1>9. Rank[e] \in R
    BY <1>2, <1>6, <1>7
  <1> QED BY <1>2, <1>4, <1>5, <1>8, <1>9

\* Transactions over shared rows never wait for each other in a circle,
\* because every one of them goes through its rows by rank (SomeoneCanGoOn).
THEOREM NoCircularWait == Spec => []SomeoneCanGoOn
  BY SomeoneNeverWaits, StockInvHolds, PTL

-----------------------------------------------------------------------------
(* The log of a raw material.                                                *)

\* What LogAddsUp says is kept by every step.
LEMMA LogNext == StockInv /\ LogAddsUp /\ [Next]_vars => LogAddsUp'
  <1> SUFFICES ASSUME StockInv, LogAddsUp, [Next]_vars,
                      NEW i \in Item \ Counted, i \notin recounted'
               PROVE  stock'[i] = InitStock[i] + logged'[i]
    BY DEF LogAddsUp
  <1>1. stock[i] \in Nat /\ logged[i] \in Int /\ InitStock[i] \in Nat
    BY StockAssumption DEF StockInv, StockTypeOK
  <1>2. i \notin recounted => stock[i] = InitStock[i] + logged[i]
    BY DEF LogAddsUp
  <1>3. ASSUME UNCHANGED <<stock, logged, recounted>>
        PROVE  stock'[i] = InitStock[i] + logged'[i]
    BY <1>2, <1>3
  <1>4. ASSUME NEW j \in Job, Commit(j)
        PROVE  stock'[i] = InitStock[i] + logged'[i]
    <2>1. RowChange(job[j], i) \in Int
      BY <1>4, CommittedRowsAreHeld, RowChangeType
    <2>2. stock'[i] = stock[i] + RowChange(job[j], i) /\ logged'[i] = logged[i] + RowChange(job[j], i)
      BY <1>4 DEF Commit
    <2>3. i \notin recounted
      BY <1>4 DEF Commit
    <2> QED BY <1>1, <1>2, <2>1, <2>2, <2>3
  <1>5. ASSUME NEW j \in Job, WriteAdjust(j)
        PROVE  stock'[i] = InitStock[i] + logged'[i]
    <2> DEFINE c == job[j]
    <2>1. /\ c \in Adjustment /\ c.item \in Item /\ c.change \in Change /\ c.change.by \in Int
          /\ \A k \in Item : k # c.item => stock'[k] = stock[k]
      BY <1>5, AdjustedRowIsFree, ChangeType DEF Adjustment
    <2>2. i \notin recounted /\ (c.item = i => c.change.how # "set")
      BY <1>5 DEF WriteAdjust
    <2>3. CASE c.item = i
      <3>1. stock'[i] = stock[i] + c.change.by
        BY <1>5, <2>2, <2>3 DEF WriteAdjust, NewCount, StockInv, StockTypeOK
      <3>2. logged'[i] = logged[i] + c.change.by
        BY <1>5, <2>2, <2>3 DEF WriteAdjust, MaterialDelta, StockInv, StockTypeOK
      <3> QED BY <1>1, <1>2, <2>1, <2>2, <3>1, <3>2
    <2>4. CASE c.item # i
      BY <1>2, <1>5, <2>1, <2>2, <2>4 DEF WriteAdjust, StockInv, StockTypeOK
    <2> QED BY <2>3, <2>4
  <1>6. ASSUME NEW j \in Job, WriteLog(j)
        PROVE  stock'[i] = InitStock[i] + logged'[i]
    <2>1. job[j].item \in Counted
      BY <1>6 DEF WriteLog, StockInv, LogsCounted
    <2> QED BY <1>2, <1>6, <2>1 DEF WriteLog, StockInv, StockTypeOK
  <1> QED
    BY <1>3, <1>4, <1>5, <1>6
    DEF Next, vars, BeginSale, BeginReturn, UpdateRow, RollBack, BeginAdjust, RefuseAdjust,
        ReadAvailability, StopAfterCommit, WriteAvailability, history

\* The movements of a raw material add up to its count however requests
\* overlap, until someone sets the count itself (LogAddsUp).
THEOREM LogsAddUp == Spec => []LogAddsUp
  <1>1. Init => LogAddsUp
    BY StockAssumption DEF Init, LogAddsUp
  <1> QED BY <1>1, LogNext, StockInvHolds, PTL DEF Spec

-----------------------------------------------------------------------------
(* All at once or not at all.                                                *)

\* A commit is the taking, or the giving back, of all that the lines need.
LEMMA CommitIsAtomic ==
    ASSUME StockInv, NEW j \in Job, Commit(j)
    PROVE  Counts!Next
  <1> DEFINE c == job[j]
             need == ComputeStockNeeds(c.of)
  <1>1. c \in Transaction /\ need \in [Item -> Nat] /\ c.of \in Lines
    BY CommittedRowsAreHeld, StockAssumption DEF Transaction
  <1>2. \A i \in Item : i \notin c.done => need[i] = 0
    BY <1>1 DEF Commit, Todo, NeededIn
  <1>3. stock \in [Item -> Nat]
    BY DEF StockInv, StockTypeOK
  <1>4. CASE c.kind = "sale"
    <2>1. ASSUME NEW i \in Item
          PROVE  need[i] <= stock[i] /\ stock[i] + RowChange(c, i) = stock[i] - need[i]
      <3>1. CASE i \in c.done
        BY <1>1, <1>3, <1>4, <3>1, CommittedRowsAreHeld DEF Enough, Need, RowChange
      <3>2. CASE i \notin c.done
        BY <1>1, <1>2, <1>3, <3>2 DEF RowChange
      <3> QED BY <3>1, <3>2
    <2>2. stock' = [i \in Item |-> stock[i] - need[i]]
      BY <2>1 DEF Commit
    <2>3. Counts!Take(need)
      BY <2>1, <2>2 DEF Counts!Take
    <2> QED BY <1>1, <2>3 DEF Counts!Next
  <1>5. CASE c.kind # "sale"
    <2>1. ASSUME NEW i \in Item
          PROVE  stock[i] + RowChange(c, i) = stock[i] + need[i]
      BY <1>1, <1>2, <1>3, <1>5 DEF Need, RowChange
    <2>2. stock' = [i \in Item |-> stock[i] + need[i]]
      BY <2>1 DEF Commit
    <2>3. Counts!GiveBack(need)
      BY <2>2 DEF Counts!GiveBack
    <2> QED BY <1>1, <2>3 DEF Counts!Next
  <1> QED BY <1>4, <1>5

\* Every step is a step of StockCounts or leaves the counts alone.
LEMMA CountsNext == StockInv /\ StockInv' /\ [Next]_vars => [Counts!Next]_stock
  <1> SUFFICES ASSUME StockInv, StockInv', [Next]_vars
               PROVE  Counts!Next \/ UNCHANGED stock
    OBVIOUS
  <1>1. ASSUME NEW j \in Job, Commit(j)
        PROVE  Counts!Next
    BY <1>1, CommitIsAtomic
  <1>2. ASSUME NEW j \in Job, WriteAdjust(j)
        PROVE  Counts!Next
    <2> DEFINE i == job[j].item
    <2>1. i \in Item
      BY <1>2, AdjustedRowIsFree
    <2>2. stock' = [stock EXCEPT ![i] = stock'[i]] /\ stock'[i] \in Nat
      BY <1>2, <2>1 DEF WriteAdjust, StockInv, StockTypeOK
    <2>3. Counts!Recount(i)
      BY <2>2 DEF Counts!Recount
    <2> QED BY <2>1, <2>3 DEF Counts!Next
  <1> QED
    BY <1>1, <1>2
    DEF Next, vars, BeginSale, BeginReturn, UpdateRow, RollBack, BeginAdjust, RefuseAdjust,
        WriteLog, ReadAvailability, StopAfterCommit, WriteAvailability

\* However transactions over shared rows interleave and roll back, the
\* committed counts behave as if every order took what it needs, or gave it
\* back, in one step (ImplementsCounts).
THEOREM CountsImplemented == Spec => ImplementsCounts
  <1>1. Init => Counts!Init
    BY DEF Init, Counts!Init
  <1> QED BY <1>1, CountsNext, StockInvHolds, PTL DEF Spec, ImplementsCounts, Counts!Spec

-----------------------------------------------------------------------------
(* On sale exactly when a serving can be made.                               *)

\* servingsAvailable looks at nothing but the dish's own ingredients.
LEMMA SameIngredients ==
    ASSUME NEW d \in Dish, NEW s, NEW t,
           \A i \in Item : Recipe[d][i] > 0 => s[i] = t[i]
    PROVE  CanServe(d, s) = CanServe(d, t)
  <1> DEFINE recipe == {i \in Item : Recipe[d][i] > 0}
  <1>1. {s[i] \div Recipe[d][i] : i \in recipe} = {t[i] \div Recipe[d][i] : i \in recipe}
    OBVIOUS
  <1>2. ServingsAvailable(d, s) = ServingsAvailable(d, t)
    BY <1>1 DEF ServingsAvailable
  <1> QED BY <1>2 DEF CanServe

\* A dish none of whose items changed can be served as before.
LEMMA UnchangedItems ==
    ASSUME NEW d \in Dish, NEW items, ~Uses(d, items),
           \A i \in Item : i \notin items => stock'[i] = stock[i]
    PROVE  CanServe(d, stock') = CanServe(d, stock)
  <1>1. \A i \in Item : Recipe[d][i] > 0 => stock'[i] = stock[i]
    BY DEF Uses
  <1> QED BY <1>1, SameIngredients

\* Unless muddled, what is about to be written for a dish is still the answer,
\* and if nothing is about to be done for it, it is what the menu says.
MenuIsRight(d) ==
    d \notin muddled =>
        /\ \A j \in Job : d \in PendingWrites(job[j]) =>
              (d \in job[j].onSale <=> CanServe(d, stock))
        /\ AboutToRefresh(d) \/ available[d] = CanServe(d, stock)

MenuInv == \A d \in Dish : MenuIsRight(d)

\* A step that neither changes stock nor the menu, and begins or ends no
\* refresh, keeps the menu right.
LEMMA MenuUntouched ==
    ASSUME StockInv, MenuInv, NEW j \in Job, NEW n, GoOn(j, n),
           job[j].op \notin {"refresh", "write"}, n.op \notin {"refresh", "write"},
           UNCHANGED <<stock, available, muddled>>
    PROVE  MenuInv'
  <1>1. \A k \in Job : job'[k] = IF k = j THEN n ELSE job[k]
    BY DEF GoOn, StockInv, StockTypeOK
  <1>2. \A k \in Job : k # j => job'[k] = job[k]
    BY <1>1
  <1>3. PendingWrites(job'[j]) = {} /\ job'[j].op # "refresh"
    BY <1>1 DEF PendingWrites
  <1>4. ASSUME NEW d \in Dish, d \notin muddled PROVE MenuIsRight(d)'
    <2>1. MenuIsRight(d)
      BY DEF MenuInv
    <2>2. \A k \in Job : d \in PendingWrites(job'[k]) => d \in job'[k].onSale <=> CanServe(d, stock)
      BY <1>2, <1>3, <1>4, <2>1 DEF MenuIsRight
    <2>3. AboutToRefresh(d) => AboutToRefresh(d)'
      BY <1>2 DEF AboutToRefresh, PendingWrites
    <2> QED BY <1>4, <2>1, <2>2, <2>3 DEF MenuIsRight, PendingWrites
  <1> QED BY <1>4 DEF MenuInv, MenuIsRight

\* After a change of some items, the dishes that use them are about to be
\* refreshed or already right; those with an old answer on its way are muddled.
LEMMA MenuAfterChange ==
    ASSUME StockInv, MenuInv, NEW j \in Job, NEW n, GoOn(j, n), NEW items,
           job[j].op \notin {"refresh", "write"}, n.op # "write",
           \A i \in Item : i \notin items => stock'[i] = stock[i],
           muddled' = muddled \cup Overtaken(j, items),
           \A d \in Dish : Uses(d, items) =>
              \/ n.op = "refresh" /\ d \in Touched(n.items)
              \/ available'[d] = CanServe(d, stock'),
           \A d \in Dish : ~Uses(d, items) => available'[d] = available[d]
    PROVE  MenuInv'
  <1>1. \A k \in Job : job'[k] = IF k = j THEN n ELSE job[k]
    BY DEF GoOn, StockInv, StockTypeOK
  <1>2. PendingWrites(job'[j]) = {} /\ PendingWrites(job[j]) = {} /\ job[j].op # "refresh"
    BY <1>1 DEF PendingWrites
  <1>3. SUFFICES ASSUME NEW d \in Dish, d \notin muddled' PROVE MenuIsRight(d)'
    BY DEF MenuInv, MenuIsRight
  <1>4. d \notin muddled /\ d \notin Overtaken(j, items) /\ MenuIsRight(d)
    BY <1>3 DEF MenuInv
  <1>5. CASE Uses(d, items)
    <2>1. \A k \in Job : d \notin PendingWrites(job'[k])
      BY <1>1, <1>2, <1>4, <1>5 DEF Overtaken
    <2>2. AboutToRefresh(d)' \/ available'[d] = CanServe(d, stock')
      BY <1>1, <1>5 DEF AboutToRefresh, Touched
    <2> QED BY <2>1, <2>2 DEF MenuIsRight, PendingWrites
  <1>6. CASE ~Uses(d, items)
    <2>1. CanServe(d, stock') = CanServe(d, stock) /\ available'[d] = available[d]
      BY <1>6, UnchangedItems
    <2>2. AboutToRefresh(d) => AboutToRefresh(d)'
      BY <1>1, <1>2 DEF AboutToRefresh, Touched, PendingWrites
    <2>3. \A k \in Job : d \in PendingWrites(job'[k]) => d \in job'[k].onSale <=> CanServe(d, stock')
      BY <1>1, <1>2, <1>4, <2>1 DEF MenuIsRight
    <2> QED BY <1>4, <2>1, <2>2, <2>3 DEF MenuIsRight, PendingWrites
  <1> QED BY <1>5, <1>6

\* A refresh's read leaves the right answers to write, and clears up what no
\* other request is about to write.
LEMMA MenuAfterRead ==
    ASSUME StockInv, MenuInv, NEW j \in Job, ReadAvailability(j)
    PROVE  MenuInv'
  <1> DEFINE touched == Touched(job[j].items)
             changed == {d \in touched : available[d] # CanServe(d, stock)}
             w == [op |-> "write", onSale |-> {d \in changed : CanServe(d, stock)},
                   soldOut |-> {d \in changed : ~CanServe(d, stock)}]
  <1>1. \A k \in Job : k # j => job'[k] = job[k]
    BY DEF ReadAvailability, GoOn, StockInv, StockTypeOK
  <1>2. job'[j] = IF changed = {} THEN Idle ELSE w
    BY DEF ReadAvailability, GoOn, StockInv, StockTypeOK
  <1>3. PendingWrites(job'[j]) = changed
    BY <1>2 DEF PendingWrites, Idle
  <1>4. PendingWrites(job[j]) = {} /\ job[j].op = "refresh"
    BY DEF ReadAvailability, PendingWrites
  <1>5. SUFFICES ASSUME NEW d \in Dish, d \notin muddled' PROVE MenuIsRight(d)'
    BY DEF MenuInv, MenuIsRight
  <1>6. UNCHANGED <<stock, available>>
    BY DEF ReadAvailability
  <1>7. d \in changed => (d \in job'[j].onSale <=> CanServe(d, stock))
    BY <1>2
  <1>8. CASE d \notin muddled
    <2>1. MenuIsRight(d)
      BY DEF MenuInv
    <2>2. \A k \in Job : d \in PendingWrites(job'[k]) => (d \in job'[k].onSale <=> CanServe(d, stock))
      BY <1>1, <1>3, <1>7, <1>8, <2>1 DEF MenuIsRight
    <2>3. CASE d \in touched
      <3>1. d \in PendingWrites(job'[j]) \/ available[d] = CanServe(d, stock)
        BY <1>3, <2>3
      <3>2. AboutToRefresh(d)' \/ available[d] = CanServe(d, stock)
        BY <3>1 DEF AboutToRefresh, PendingWrites
      <3> QED BY <1>6, <2>2, <3>2 DEF MenuIsRight, PendingWrites
    <2>4. CASE d \notin touched
      <3>1. AboutToRefresh(d) => AboutToRefresh(d)'
        BY <1>1, <1>4, <2>4 DEF AboutToRefresh, PendingWrites
      <3> QED BY <1>6, <1>8, <2>1, <2>2, <3>1 DEF MenuIsRight, PendingWrites
    <2> QED BY <2>3, <2>4
  <1>9. CASE d \in muddled
    <2>1. d \in touched /\ d \notin Overtaken(j, job[j].items)
      BY <1>5, <1>9 DEF ReadAvailability
    <2>2. \A k \in Job : k # j => d \notin PendingWrites(job'[k])
      BY <1>1, <2>1 DEF Overtaken, Touched
    <2>3. d \in PendingWrites(job'[j]) \/ available[d] = CanServe(d, stock)
      BY <1>3, <2>1
    <2>4. AboutToRefresh(d)' \/ available[d] = CanServe(d, stock)
      BY <2>3 DEF AboutToRefresh, PendingWrites
    <2>5. \A k \in Job : d \in PendingWrites(job'[k]) => (d \in job'[k].onSale <=> CanServe(d, stock))
      BY <1>3, <1>7, <2>2
    <2> QED BY <1>6, <2>4, <2>5 DEF MenuIsRight, PendingWrites
  <1> QED BY <1>8, <1>9

\* A write puts the answer that was read on the menu, for one dish.
LEMMA MenuAfterWrite ==
    ASSUME StockInv, MenuInv, NEW j \in Job, NEW e \in Dish, WriteAvailability(j, e)
    PROVE  MenuInv'
  <1> DEFINE c == job[j]
             rest == [c EXCEPT !.onSale = @ \ {e}, !.soldOut = @ \ {e}]
  <1>1. c \in ToWrite /\ c.op = "write" /\ e \in PendingWrites(c)
    BY JobKinds DEF WriteAvailability, StockInv, StockTypeOK
  <1>2. rest.op = "write" /\ rest.onSale = c.onSale \ {e} /\ rest.soldOut = c.soldOut \ {e}
    BY <1>1 DEF ToWrite
  <1>3. /\ \A k \in Job : k # j => job'[k] = job[k]
        /\ job'[j] = IF PendingWrites(rest) = {} THEN Idle ELSE rest
    BY DEF WriteAvailability, GoOn, StockInv, StockTypeOK
  <1>4. PendingWrites(c) = c.onSale \cup c.soldOut /\ PendingWrites(rest) = PendingWrites(c) \ {e}
    BY <1>1, <1>2 DEF PendingWrites
  <1>5. PendingWrites(job'[j]) = PendingWrites(c) \ {e}
    BY <1>3, <1>4 DEF PendingWrites, Idle
  <1>6. UNCHANGED <<stock, muddled>> /\ \A d \in Dish : available'[d] = IF d = e THEN e \in c.onSale ELSE available[d]
    BY DEF WriteAvailability, StockInv, StockTypeOK
  <1>7. SUFFICES ASSUME NEW d \in Dish, d \notin muddled PROVE MenuIsRight(d)'
    BY <1>6 DEF MenuInv, MenuIsRight
  <1>8. MenuIsRight(d)
    BY DEF MenuInv
  <1>9. d \in PendingWrites(job'[j]) => (d \in job'[j].onSale <=> CanServe(d, stock))
    <2> SUFFICES ASSUME d \in PendingWrites(job'[j])
                 PROVE  d \in job'[j].onSale <=> CanServe(d, stock)
      OBVIOUS
    <2>1. d \in PendingWrites(c) /\ d # e /\ job'[j] = rest
      BY <1>3, <1>4, <1>5
    <2> QED BY <1>2, <1>7, <1>8, <2>1 DEF MenuIsRight
  <1>10. \A k \in Job : d \in PendingWrites(job'[k]) => (d \in job'[k].onSale <=> CanServe(d, stock))
    BY <1>3, <1>7, <1>8, <1>9 DEF MenuIsRight
  <1>11. AboutToRefresh(d)' \/ available'[d] = CanServe(d, stock)
    <2>1. CASE d = e
      <3>1. e \in c.onSale <=> CanServe(d, stock)
        BY <1>1, <1>7, <1>8, <2>1 DEF MenuIsRight
      <3> QED BY <1>6, <2>1, <3>1, CanServeType
    <2>2. CASE d # e
      <3>1. AboutToRefresh(d) => AboutToRefresh(d)'
        BY <1>1, <1>3, <1>5, <2>2 DEF AboutToRefresh, PendingWrites
      <3> QED BY <1>6, <1>7, <1>8, <2>2, <3>1 DEF MenuIsRight
    <2> QED BY <2>1, <2>2
  <1> QED BY <1>6, <1>10, <1>11 DEF MenuIsRight, PendingWrites

\* A request that stops muddles what it had still to refresh.
LEMMA MenuAfterStop ==
    ASSUME StockInv, MenuInv, NEW j \in Job, StopAfterCommit(j)
    PROVE  MenuInv'
  <1>1. \A k \in Job : job'[k] = IF k = j THEN Idle ELSE job[k]
    BY DEF StopAfterCommit, GoOn, StockInv, StockTypeOK
  <1>2. PendingWrites(job'[j]) = {}
    BY <1>1 DEF PendingWrites, Idle
  <1>3. UNCHANGED <<stock, available>>
    BY DEF StopAfterCommit
  <1>4. SUFFICES ASSUME NEW d \in Dish, d \notin muddled' PROVE MenuIsRight(d)'
    BY DEF MenuInv, MenuIsRight
  <1>5. d \notin muddled /\ MenuIsRight(d)
    BY <1>4 DEF StopAfterCommit, MenuInv
  <1>6. d \notin PendingWrites(job[j]) /\ ~(job[j].op = "refresh" /\ d \in Touched(job[j].items))
    BY <1>4 DEF StopAfterCommit, PendingWrites
  <1>7. \A k \in Job : d \in PendingWrites(job'[k]) => (d \in job'[k].onSale <=> CanServe(d, stock))
    BY <1>1, <1>2, <1>5 DEF MenuIsRight
  <1>8. AboutToRefresh(d) => AboutToRefresh(d)'
    BY <1>1, <1>6 DEF AboutToRefresh, PendingWrites
  <1> QED BY <1>3, <1>5, <1>7, <1>8 DEF MenuIsRight, PendingWrites

\* Every step keeps the menu right.
LEMMA MenuNext == StockInv /\ MenuInv /\ [Next]_vars => MenuInv'
  <1> SUFFICES ASSUME StockInv, MenuInv, [Next]_vars
               PROVE  MenuInv'
    OBVIOUS
  <1>1. ASSUME NEW j \in Job, NEW o \in Order, BeginSale(j, o)
        PROVE  MenuInv'
    BY <1>1, MenuUntouched DEF BeginSale, Idle
  <1>2. ASSUME NEW j \in Job, NEW o \in Order, BeginReturn(j, o)
        PROVE  MenuInv'
    <2>1. PICK q \in Lines :
            GoOn(j, [op |-> "rows", kind |-> "return", order |-> o, of |-> q,
                     done |-> {}, short |-> FALSE])
      BY <1>2 DEF BeginReturn
    <2> QED BY <1>2, <2>1, MenuUntouched DEF BeginReturn, Idle
  <1>3. ASSUME NEW j \in Job, UpdateRow(j)
        PROVE  MenuInv'
    <2>1. job[j] \in Transaction /\ job[j].op = "rows"
      BY <1>3, JobKinds DEF UpdateRow, StockInv, StockTypeOK
    <2>2. PICK i \in Item : \/ GoOn(j, [job[j] EXCEPT !.done = @ \cup {i}])
                           \/ GoOn(j, [job[j] EXCEPT !.done = @ \cup {i}, !.short = TRUE])
      BY <1>3 DEF UpdateRow
    <2>3. /\ [job[j] EXCEPT !.done = @ \cup {i}].op = "rows"
          /\ [job[j] EXCEPT !.done = @ \cup {i}, !.short = TRUE].op = "rows"
      BY <2>1 DEF Transaction
    <2> QED BY <1>3, <2>1, <2>2, <2>3, MenuUntouched DEF UpdateRow
  <1>4. ASSUME NEW j \in Job, Commit(j)
        PROVE  MenuInv'
    <2> DEFINE n == [op |-> "refresh", items |-> job[j].done]
    <2>1. \A i \in Item : i \notin job[j].done => stock'[i] = stock[i]
      BY <1>4, CommittedRowsAreHeld
    <2>2. \A d \in Dish : Uses(d, job[j].done) => d \in Touched(n.items)
      BY DEF Touched
    <2>3. /\ GoOn(j, n) /\ job[j].op = "rows" /\ available' = available
          /\ muddled' = muddled \cup Overtaken(j, job[j].done)
      BY <1>4 DEF Commit
    <2> QED BY <2>1, <2>2, <2>3, MenuAfterChange
  <1>5. ASSUME NEW j \in Job, RollBack(j)
        PROVE  MenuInv'
    BY <1>5, MenuUntouched DEF RollBack, Idle
  <1>6. ASSUME NEW j \in Job, NEW i \in Item, BeginAdjust(j, i)
        PROVE  MenuInv'
    BY <1>6, MenuUntouched DEF BeginAdjust, Idle
  <1>7. ASSUME NEW j \in Job, WriteAdjust(j)
        PROVE  MenuInv'
    <2> DEFINE i == job[j].item
    <2>1. i \in Item /\ \A k \in Item : k \notin {i} => stock'[k] = stock[k]
      BY <1>7, AdjustedRowIsFree
    <2>2. /\ job[j].op = "adjust"
          /\ muddled' = muddled \cup Overtaken(j, {i})
      BY <1>7 DEF WriteAdjust
    <2>3. CASE i \in Counted
      <3>1. PICK n : GoOn(j, n) /\ n.op = "log"
        BY <1>7, <2>3 DEF WriteAdjust
      <3>2. \A d \in Dish : available'[d] = IF Uses(d, {i}) THEN CanServe(d, stock') ELSE available[d]
        BY <1>7, <2>3 DEF WriteAdjust
      <3> QED BY <2>1, <2>2, <3>1, <3>2, MenuAfterChange
    <2>4. CASE i \notin Counted
      <3> DEFINE n == [op |-> "refresh", items |-> {i}]
      <3>1. GoOn(j, n) /\ available' = available
        BY <1>7, <2>4 DEF WriteAdjust
      <3>2. \A d \in Dish : Uses(d, {i}) => d \in Touched(n.items)
        BY DEF Touched
      <3> QED BY <2>1, <2>2, <3>1, <3>2, MenuAfterChange
    <2> QED BY <2>3, <2>4
  <1>8. ASSUME NEW j \in Job, RefuseAdjust(j)
        PROVE  MenuInv'
    BY <1>8, MenuUntouched DEF RefuseAdjust, Idle
  <1>9. ASSUME NEW j \in Job, WriteLog(j)
        PROVE  MenuInv'
    BY <1>9, MenuUntouched DEF WriteLog, Idle
  <1>10. ASSUME NEW j \in Job, ReadAvailability(j)
         PROVE  MenuInv'
    BY <1>10, MenuAfterRead
  <1>11. ASSUME NEW j \in Job, StopAfterCommit(j)
         PROVE  MenuInv'
    BY <1>11, MenuAfterStop
  <1>12. ASSUME NEW j \in Job, NEW d \in Dish, WriteAvailability(j, d)
         PROVE  MenuInv'
    BY <1>12, MenuAfterWrite
  <1>13. CASE UNCHANGED vars
    BY <1>13 DEF vars, MenuInv, MenuIsRight, AboutToRefresh, PendingWrites
  <1> QED
    BY <1>1, <1>2, <1>3, <1>4, <1>5, <1>6, <1>7, <1>8, <1>9, <1>10, <1>11, <1>12, <1>13 DEF Next

\* Once its refreshes are done a dish is on sale exactly when a serving can be
\* made, unless its stock changed between another refresh's read and write or
\* a request stopped before its refresh (AvailabilityIsRight).
THEOREM AvailabilityCorrect == Spec => []AvailabilityIsRight
  <1>1. Init => MenuInv
    BY DEF Init, MenuInv, MenuIsRight, PendingWrites, Idle
  <1>2. MenuInv => AvailabilityIsRight
    BY DEF MenuInv, MenuIsRight, AvailabilityIsRight
  <1> QED BY <1>1, <1>2, MenuNext, StockInvHolds, PTL DEF Spec
=============================================================================
