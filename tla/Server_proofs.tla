--------------------------- MODULE Server_proofs ----------------------------
(* Proofs about what the API and the worker do besides orders: RateLimiter,  *)
(* LowStockAlerts, SignInCodes and Backups, for every value of their         *)
(* constants.                                                                *)
EXTENDS SignInCodes, RateLimiter, LowStockAlerts, Backups,
        FiniteSetTheorems, SequenceTheorems, WellFoundedInduction, TLAPS

-----------------------------------------------------------------------------
(***************************************************************************)
(* The rate limiter: for any limit, number of keys, requests and windows.  *)
(***************************************************************************)

(* Slots.                                                                    *)

\* The requests that hold a slot of a window can be counted.
LEMMA HoldersAreFinite ==
    ASSUME NEW w
    PROVE  IsFiniteSet(HoldersOf(w)) /\ Cardinality(HoldersOf(w)) \in Nat
  <1>1. HoldersOf(w) \in SUBSET LimitedRequest
    BY DEF HoldersOf
  <1>2. IsFiniteSet(HoldersOf(w))
    BY <1>1, FS_Subset, LimiterAssumption
  <1> QED
    BY <1>2, FS_CardinalityType

\* Taking a slot makes one holder more, of that window only.
LEMMA SlotTaken ==
    ASSUME slot \in [LimitedRequest -> Slot],
           NEW q \in LimitedRequest, NEW k \in LimitKey, NEW w \in Window, ~slot[q].held,
           slot' = [slot EXCEPT ![q] = [held |-> TRUE, key |-> k, window |-> w]],
           NEW v \in Window
    PROVE  Cardinality(HoldersOf(v)') = Cardinality(HoldersOf(v)) + (IF v = w THEN 1 ELSE 0)
  <1>1. q \notin HoldersOf(v)
    BY DEF HoldersOf
  <1>2. CASE v = w
    <2>1. HoldersOf(v)' = HoldersOf(v) \cup {q}
      BY <1>2 DEF HoldersOf
    <2> QED
      BY <2>1, <1>1, <1>2, HoldersAreFinite, FS_AddElement
  <1>3. CASE v # w
    <2>1. HoldersOf(v)' = HoldersOf(v)
      BY <1>3, <1>1 DEF HoldersOf
    <2> QED
      BY <2>1, <1>3, HoldersAreFinite
  <1> QED
    BY <1>2, <1>3

\* Letting it go makes one less.
LEMMA SlotLeft ==
    ASSUME slot \in [LimitedRequest -> Slot],
           NEW q \in LimitedRequest, slot[q].held,
           slot' = [slot EXCEPT ![q] = [held |-> FALSE]],
           NEW v \in Window
    PROVE  Cardinality(HoldersOf(v)') = Cardinality(HoldersOf(v)) - (IF v = slot[q].window THEN 1 ELSE 0)
  <1>1. HoldersOf(v)' = HoldersOf(v) \ {q}
    BY DEF HoldersOf
  <1>2. q \in HoldersOf(v) <=> v = slot[q].window
    BY DEF HoldersOf
  <1>3. IsFiniteSet(HoldersOf(v)) /\ Cardinality(HoldersOf(v)) \in Nat
    BY HoldersAreFinite
  <1>4. Cardinality(HoldersOf(v) \ {q})
          = IF q \in HoldersOf(v) THEN Cardinality(HoldersOf(v)) - 1 ELSE Cardinality(HoldersOf(v))
    BY <1>3, FS_RemoveElement
  <1> QED
    BY <1>1, <1>2, <1>3, <1>4

\* A held slot has a key and a window.
LEMMA HeldSlot ==
    ASSUME slot \in [LimitedRequest -> Slot], NEW q \in LimitedRequest, slot[q].held
    PROVE  slot[q].key \in LimitKey /\ slot[q].window \in Window
  <1>1. slot[q] \in Slot /\ slot[q] # [held |-> FALSE]
    OBVIOUS
  <1> QED
    BY <1>1 DEF Slot

-----------------------------------------------------------------------------
(* The inductive invariant.                                                  *)

\* Values of their types; how full the Map may be doesn't matter to the counts.
Typed ==
    /\ instant \in Nat /\ entries \subseteq Entry
    /\ \A e, f \in entries : e.key = f.key => e = f
    /\ slot \in [LimitedRequest -> Slot]
    /\ counted \in [Window -> Nat] /\ lost \in [Window -> Nat]
    /\ arrived \in 0 .. Arrivals /\ windows \in Nat /\ windows <= arrived

\* A window belongs to one entry at most, of one key, and none is used before
\* it began: so a slot's own entry is found by its key and its window.
WindowsAreOwned ==
    /\ \A e \in entries : e.window <= windows
    /\ \A e, f \in entries : e.window = f.window => e = f
    /\ \A q \in LimitedRequest : slot[q].held =>
          /\ slot[q].window <= windows
          /\ \A e \in entries : e.window = slot[q].window => e.key = slot[q].key
    /\ \A w \in Window : w > windows => counted[w] = 0 /\ lost[w] = 0

\* The inductive invariant of the limiter.
LimiterInv == Typed /\ WindowsAreOwned /\ CountsAreExact

\* A window nobody began has been used by nobody.
LEMMA NewWindowUnused ==
    ASSUME LimiterInv, NEW w \in Window, w > windows
    PROVE  UsedOf(w) = 0
  <1>1. HoldersOf(w) = {}
    BY HeldSlot DEF HoldersOf, LimiterInv, WindowsAreOwned, Typed, Window
  <1>2. Cardinality(HoldersOf(w)) = 0
    BY <1>1, FS_EmptySet
  <1> QED
    BY <1>2 DEF UsedOf, LimiterInv, WindowsAreOwned

\* The slots used in a window are a number of requests.
LEMMA UsedIsNat ==
    ASSUME Typed, NEW w \in Window
    PROVE  UsedOf(w) \in Nat
  BY HoldersAreFinite DEF UsedOf, Typed

-----------------------------------------------------------------------------
(* One step each.                                                            *)

\* No window has begun, and nobody holds a slot.
LEMMA LimiterInvInit == LimiterInit => LimiterInv
  <1> SUFFICES ASSUME LimiterInit PROVE LimiterInv
    OBVIOUS
  <1> USE LimiterAssumption DEF LimiterInit
  <1>1. Typed
    BY DEF Typed, Slot
  <1>2. WindowsAreOwned
    BY DEF WindowsAreOwned
  <1>3. \A w \in Window : UsedOf(w) = 0
    <2> TAKE w \in Window
    <2>1. HoldersOf(w) = {}
      BY DEF HoldersOf
    <2> QED
      BY <2>1, FS_EmptySet DEF UsedOf
  <1>4. CountsAreExact
    BY <1>3 DEF CountsAreExact
  <1> QED
    BY <1>1, <1>2, <1>4 DEF LimiterInv

\* Dropping entries changes no window's count.
LEMMA EntriesDropped ==
    ASSUME LimiterInv, entries' \subseteq entries, UNCHANGED <<instant, slot, limiterHistory>>
    PROVE  LimiterInv'
  <1>1. \A w : UsedOf(w)' = UsedOf(w)
    BY DEF UsedOf, HoldersOf, limiterHistory
  <1>2. Typed' /\ WindowsAreOwned'
    BY DEF LimiterInv, Typed, WindowsAreOwned, limiterHistory
  <1>3. CountsAreExact'
    BY <1>1 DEF LimiterInv, CountsAreExact
  <1> QED
    BY <1>2, <1>3 DEF LimiterInv

\* Counting one up or down leaves every entry its key and its window.
LEMMA EntryRecounted ==
    ASSUME Typed, WindowsAreOwned, NEW e \in entries, NEW n \in Int, e.count + n \in Nat, Change(e, n)
    PROVE  /\ entries' \subseteq Entry
           /\ \A f, g \in entries' : f.key = g.key \/ f.window = g.window => f = g
           /\ \A f \in entries' : \E g \in entries :
                 /\ f.key = g.key /\ f.window = g.window
                 /\ f.count = g.count + (IF g.window = e.window THEN n ELSE 0)
  <1> DEFINE new == [e EXCEPT !.count = @ + n]
  <1>1. e \in Entry /\ entries \subseteq Entry
    BY DEF Typed
  <1>2. entries' = (entries \ {e}) \cup {new}
    BY DEF Change
  <1>3. new \in Entry /\ new.key = e.key /\ new.window = e.window /\ new.count = e.count + n
    BY <1>1 DEF Entry
  <1>4. \A f \in entries \ {e} : f.key # e.key /\ f.window # e.window
    BY DEF Typed, WindowsAreOwned
  <1>5. \A f \in entries \ {e} : f.count + 0 = f.count
    BY <1>1 DEF Entry
  <1>6. entries' \subseteq Entry
    BY <1>1, <1>2, <1>3
  <1>7. \A f, g \in entries' : f.key = g.key \/ f.window = g.window => f = g
    BY <1>2, <1>3, <1>4 DEF Typed, WindowsAreOwned
  <1>8. \A f \in entries' : \E g \in entries :
           /\ f.key = g.key /\ f.window = g.window
           /\ f.count = g.count + (IF g.window = e.window THEN n ELSE 0)
    BY <1>2, <1>3, <1>4, <1>5
  <1> QED
    BY <1>6, <1>7, <1>8

\* A request takes a slot.
LEMMA ArriveKeeps ==
    ASSUME LimiterInv, NEW q \in LimitedRequest, NEW k \in LimitKey, Arrive(q, k)
    PROVE  LimiterInv'
  <1> USE LimiterAssumption
  <1>a. /\ Typed /\ WindowsAreOwned /\ CountsAreExact
        /\ slot \in [LimitedRequest -> Slot] /\ ~slot[q].held
        /\ arrived' = arrived + 1 /\ arrived' \in 0 .. Arrivals
        /\ UNCHANGED <<instant, counted, lost>>
    BY DEF LimiterInv, Typed, Arrive
  <1>1. CASE \E e \in EntriesOf(k) :
               /\ Live(e) /\ Change(e, 1)
               /\ slot' = [slot EXCEPT ![q] = [held |-> TRUE, key |-> k, window |-> e.window]]
               /\ UNCHANGED windows
    <2>1. PICK e \in EntriesOf(k) :
               /\ Live(e) /\ Change(e, 1)
               /\ slot' = [slot EXCEPT ![q] = [held |-> TRUE, key |-> k, window |-> e.window]]
               /\ UNCHANGED windows
      BY <1>1
    <2>2. /\ e \in entries /\ e.key = k /\ e.window \in Window /\ e.window <= windows /\ e.count \in Nat
      BY <1>a, <2>1 DEF EntriesOf, Typed, Entry, WindowsAreOwned
    <2>a. /\ entries' \subseteq Entry
          /\ \A f, g \in entries' : f.key = g.key \/ f.window = g.window => f = g
          /\ \A f \in entries' : \E g \in entries :
                /\ f.key = g.key /\ f.window = g.window
                /\ f.count = g.count + (IF g.window = e.window THEN 1 ELSE 0)
      BY <1>a, <2>1, <2>2, EntryRecounted
    <2>b. [held |-> TRUE, key |-> k, window |-> e.window] \in Slot
      BY <2>2 DEF Slot
    <2>3. Typed'
      BY <1>a, <2>1, <2>a, <2>b DEF Typed
    <2>4. WindowsAreOwned'
      <3>1. \A f \in entries' : f.window <= windows
        BY <1>a, <2>a DEF WindowsAreOwned
      <3>2. ASSUME NEW p \in LimitedRequest, slot'[p].held
            PROVE  /\ slot'[p].window <= windows
                   /\ \A f \in entries' : f.window = slot'[p].window => f.key = slot'[p].key
        <4>1. CASE p = q
          BY <4>1, <1>a, <2>1, <2>2, <2>a DEF WindowsAreOwned
        <4>2. CASE p # q
          BY <4>2, <3>2, <1>a, <2>1, <2>a DEF WindowsAreOwned
        <4> QED
          BY <4>1, <4>2
      <3> QED
        BY <3>1, <3>2, <1>a, <2>1, <2>a DEF WindowsAreOwned
    <2>5. \A v \in Window : UsedOf(v)' = UsedOf(v) + (IF v = e.window THEN 1 ELSE 0)
      <3> TAKE v \in Window
      <3>1. Cardinality(HoldersOf(v)') = Cardinality(HoldersOf(v)) + (IF v = e.window THEN 1 ELSE 0)
        BY <1>a, <2>1, <2>2, SlotTaken
      <3> QED
        BY <3>1, <1>a, HoldersAreFinite DEF UsedOf, Typed
    <2>6. e.count < MaxInWindow
      BY <2>1, <2>2 DEF Arrive, Refused, EntriesOf
    <2>7. \A v \in Window : UsedOf(v) \in Nat
      BY <1>a, UsedIsNat
    <2>8. CountsAreExact'
      <3>1. ASSUME NEW f \in entries'
            PROVE  f.count = UsedOf(f.window)'
        <4>1. PICK g \in entries : /\ f.key = g.key /\ f.window = g.window
                                  /\ f.count = g.count + (IF g.window = e.window THEN 1 ELSE 0)
          BY <2>a
        <4>2. g.window \in Window /\ g.count = UsedOf(g.window)
          BY <1>a DEF CountsAreExact, Typed, Entry
        <4> QED
          BY <4>1, <4>2, <2>5
      <3>2. UsedOf(e.window) < MaxInWindow
        BY <1>a, <2>2, <2>6 DEF CountsAreExact
      <3>3. \A v \in Window : UsedOf(v)' <= MaxInWindow
        BY <1>a, <2>2, <2>5, <2>7, <3>2 DEF CountsAreExact
      <3> QED
        BY <3>1, <3>3 DEF CountsAreExact
    <2> QED
      BY <2>3, <2>4, <2>8 DEF LimiterInv
  <1>2. CASE /\ windows' = windows + 1
             /\ entries' = SetEntry(MakeRoom, NewEntry(k, windows + 1))
             /\ slot' = [slot EXCEPT ![q] = [held |-> TRUE, key |-> k, window |-> windows + 1]]
    <2> DEFINE w == windows + 1
    <2>1. w \in Window
      BY <1>a, <1>2 DEF Window, Typed
    <2>2. MakeRoom \subseteq entries
      BY DEF MakeRoom, SweepExpired
    <2>3. PICK new \in Entry :
             /\ new.key = k /\ new.window = w /\ new.count = 1
             /\ entries' = {f \in MakeRoom : f.key # k} \cup {new}
      <3> DEFINE made == NewEntry(k, w)
                 new  == [made EXCEPT !.place =
                            IF \E f \in MakeRoom : f.key = made.key
                            THEN (CHOOSE f \in MakeRoom : f.key = made.key).place ELSE made.place]
      <3>1. made \in Entry /\ made.key = k /\ made.window = w /\ made.count = 1 /\ made.place = w
        BY <2>1, <1>a DEF NewEntry, Entry, Typed
      <3>2. new.place \in Window
        BY <2>1, <2>2, <3>1, <1>a DEF Entry, Typed
      <3>3. new \in Entry /\ new.key = k /\ new.window = w /\ new.count = 1
        BY <3>1, <3>2 DEF Entry
      <3>4. entries' = {f \in MakeRoom : f.key # k} \cup {new}
        BY <1>2, <3>1 DEF SetEntry
      <3> QED
        BY <3>3, <3>4
    <2>4. \A e \in entries' : e = new \/ (e \in entries /\ e.key # k /\ e.window <= windows)
      BY <2>2, <2>3, <1>a DEF WindowsAreOwned
    <2>5. Typed'
      <3>1. [held |-> TRUE, key |-> k, window |-> w] \in Slot
        BY <2>1 DEF Slot
      <3>2. entries' \subseteq Entry /\ \A e, f \in entries' : e.key = f.key => e = f
        BY <1>a, <2>3, <2>4 DEF Typed
      <3> QED
        BY <1>a, <1>2, <3>1, <3>2 DEF Typed
    <2>6. WindowsAreOwned'
      <3>1. \A e \in entries' : e.window <= windows'
        BY <2>3, <2>4, <1>2, <1>a, <2>2 DEF Typed, Entry, Window
      <3>2. \A e, f \in entries' : e.window = f.window => e = f
        BY <2>3, <2>4, <1>a DEF WindowsAreOwned, Typed
      <3>3. \A p \in LimitedRequest : slot'[p].held =>
               /\ slot'[p].window <= windows'
               /\ \A e \in entries' : e.window = slot'[p].window => e.key = slot'[p].key
        <4> SUFFICES ASSUME NEW p \in LimitedRequest, slot'[p].held
                     PROVE  /\ slot'[p].window <= windows'
                            /\ \A e \in entries' : e.window = slot'[p].window => e.key = slot'[p].key
          OBVIOUS
        <4>1. CASE p = q
          BY <4>1, <1>2, <1>a, <2>3, <2>4 DEF Typed
        <4>2. CASE p # q
          <5>1. slot'[p] = slot[p] /\ slot[p].held /\ slot[p].window \in Window /\ slot[p].window <= windows
            BY <4>2, <1>2, <1>a, HeldSlot DEF WindowsAreOwned
          <5> QED
            BY <5>1, <1>2, <1>a, <2>3, <2>4 DEF WindowsAreOwned, Typed, Window
        <4> QED
          BY <4>1, <4>2
      <3>4. \A v \in Window : v > windows' => counted'[v] = 0 /\ lost'[v] = 0
        BY <1>2, <1>a DEF WindowsAreOwned, Window, Typed
      <3> QED
        BY <3>1, <3>2, <3>3, <3>4 DEF WindowsAreOwned
    <2>7. \A v \in Window : UsedOf(v)' = IF v = w THEN 1 ELSE UsedOf(v)
      <3> TAKE v \in Window
      <3>1. Cardinality(HoldersOf(v)') = Cardinality(HoldersOf(v)) + (IF v = w THEN 1 ELSE 0)
        BY <1>a, <1>2, <2>1, SlotTaken
      <3>2. v = w => UsedOf(v) = 0
        BY NewWindowUnused, <1>a DEF Typed, Window
      <3> QED
        BY <3>1, <3>2, <1>a, HoldersAreFinite DEF UsedOf, Typed
    <2>8. CountsAreExact'
      BY <1>a, <2>3, <2>4, <2>7, <2>1 DEF CountsAreExact, Typed, Entry
    <2> QED
      BY <2>5, <2>6, <2>8 DEF LimiterInv
  <1> QED
    BY <1>1, <1>2 DEF Arrive

\* A response finishes: a slot that is given back is the window's own.
LEMMA FinishKeeps ==
    ASSUME LimiterInv, NEW q \in LimitedRequest, Finish(q)
    PROVE  LimiterInv'
  <1> DEFINE held == slot[q]
  <1>a. /\ Typed /\ WindowsAreOwned /\ CountsAreExact /\ slot \in [LimitedRequest -> Slot]
        /\ held.held /\ slot' = [slot EXCEPT ![q] = [held |-> FALSE]]
        /\ UNCHANGED <<instant, lost, arrived, windows>>
    BY DEF LimiterInv, Typed, Finish
  <1>b. held.key \in LimitKey /\ held.window \in Window /\ held.window <= windows
    BY <1>a, HeldSlot DEF WindowsAreOwned
  <1>c. \A v \in Window :
           /\ Cardinality(HoldersOf(v)') = Cardinality(HoldersOf(v)) - (IF v = held.window THEN 1 ELSE 0)
           /\ UsedOf(v) \in Nat /\ Cardinality(HoldersOf(v)) \in Nat
    BY <1>a, SlotLeft, UsedIsNat, HoldersAreFinite
  <1>d. slot' \in [LimitedRequest -> Slot]
    BY <1>a DEF Slot
  <1>1. CASE counted' = [counted EXCEPT ![held.window] = @ + 1] /\ UNCHANGED entries
    <2>1. \A v \in Window : UsedOf(v)' = UsedOf(v)
      BY <1>1, <1>a, <1>b, <1>c DEF UsedOf, Typed
    <2>2. Typed' /\ WindowsAreOwned'
      BY <1>1, <1>a, <1>b, <1>d DEF Typed, WindowsAreOwned, Window
    <2>3. CountsAreExact'
      BY <2>1, <1>1, <1>a DEF CountsAreExact, Typed, Entry
    <2> QED
      BY <2>2, <2>3 DEF LimiterInv
  <1>2. CASE UNCHANGED counted
             /\ \/ \E e \in OwnEntry(held) : e.count > 0 /\ Change(e, -1)
                \/ (\A e \in OwnEntry(held) : e.count = 0) /\ UNCHANGED entries
    <2>1. \A v \in Window : UsedOf(v)' = UsedOf(v) - (IF v = held.window THEN 1 ELSE 0)
      BY <1>2, <1>a, <1>c DEF UsedOf, Typed
    <2>2. OwnEntry(held) = {e \in entries : e.window = held.window}
      BY <1>a DEF OwnEntry, EntriesOf, WindowsAreOwned
    <2>3. UsedOf(held.window) > 0
      <3>1. q \in HoldersOf(held.window)
        BY <1>a DEF HoldersOf
      <3>2. Cardinality(HoldersOf(held.window)) > 0
        BY <3>1, HoldersAreFinite, FS_EmptySet
      <3> QED
        BY <3>2, <1>a, <1>b, HoldersAreFinite DEF UsedOf, Typed
    <2>4. CASE \E e \in OwnEntry(held) : e.count > 0 /\ Change(e, -1)
      <3>1. PICK e \in OwnEntry(held) : e.count > 0 /\ Change(e, -1)
        BY <2>4
      <3>2. e \in entries /\ e.window = held.window /\ e.count \in Nat
        BY <1>a, <2>2, <3>1 DEF Typed, Entry
      <3>a. /\ entries' \subseteq Entry
            /\ \A f, g \in entries' : f.key = g.key \/ f.window = g.window => f = g
            /\ \A f \in entries' : \E g \in entries :
                  /\ f.key = g.key /\ f.window = g.window
                  /\ f.count = g.count + (IF g.window = e.window THEN -1 ELSE 0)
        BY <1>a, <3>1, <3>2, EntryRecounted
      <3>3. Typed' /\ WindowsAreOwned'
        <4>1. Typed'
          BY <1>2, <1>a, <1>d, <3>a DEF Typed
        <4>2. ASSUME NEW p \in LimitedRequest, slot'[p].held
              PROVE  /\ slot'[p].window <= windows
                     /\ \A f \in entries' : f.window = slot'[p].window => f.key = slot'[p].key
          <5>1. p # q /\ slot'[p] = slot[p]
            BY <4>2, <1>a
          <5> QED
            BY <5>1, <4>2, <1>a, <3>a DEF WindowsAreOwned
        <4>3. \A f \in entries' : f.window <= windows
          BY <1>a, <3>a DEF WindowsAreOwned
        <4>4. WindowsAreOwned'
          BY <1>2, <1>a, <3>a, <4>2, <4>3 DEF WindowsAreOwned
        <4> QED
          BY <4>1, <4>4
      <3>4. CountsAreExact'
        <4>1. ASSUME NEW f \in entries'
              PROVE  f.count = UsedOf(f.window)'
          <5>1. PICK g \in entries : /\ f.key = g.key /\ f.window = g.window
                                    /\ f.count = g.count + (IF g.window = e.window THEN -1 ELSE 0)
            BY <3>a
          <5>2. g.window \in Window /\ g.count = UsedOf(g.window)
            BY <1>a DEF CountsAreExact, Typed, Entry
          <5> QED
            BY <5>1, <5>2, <3>2, <2>1, <1>c
        <4>2. \A v \in Window : UsedOf(v)' <= MaxInWindow
          BY <2>1, <1>a, <1>c, LimiterAssumption DEF CountsAreExact
        <4> QED
          BY <4>1, <4>2 DEF CountsAreExact
      <3> QED
        BY <3>3, <3>4 DEF LimiterInv
    <2>5. CASE (\A e \in OwnEntry(held) : e.count = 0) /\ UNCHANGED entries
      <3>1. \A e \in entries : e.window # held.window
        BY <2>2, <2>3, <2>5, <1>a DEF CountsAreExact
      <3>2. Typed' /\ WindowsAreOwned'
        BY <1>2, <2>5, <1>a, <1>d DEF Typed, WindowsAreOwned
      <3>3. CountsAreExact'
        <4>1. \A f \in entries : f.window \in Window /\ f.count = UsedOf(f.window)
          BY <1>a DEF CountsAreExact, Typed, Entry
        <4>2. \A f \in entries' : f.count = UsedOf(f.window)'
          BY <4>1, <2>1, <2>5, <3>1, <1>c
        <4>3. \A v \in Window : UsedOf(v)' <= MaxInWindow
          BY <2>1, <1>a, <1>c, LimiterAssumption DEF CountsAreExact
        <4> QED
          BY <4>2, <4>3 DEF CountsAreExact
      <3> QED
        BY <3>2, <3>3 DEF LimiterInv
    <2> QED
      BY <1>2, <2>4, <2>5
  <1> QED
    BY <1>1, <1>2 DEF Finish

\* A slot is kept for good, and still belongs to its window.
LEMMA NeverFinishesKeeps ==
    ASSUME LimiterInv, NEW q \in LimitedRequest, ResponseNeverFinishes(q)
    PROVE  LimiterInv'
  <1>a. /\ Typed /\ WindowsAreOwned /\ CountsAreExact /\ slot \in [LimitedRequest -> Slot]
        /\ slot[q].held /\ slot' = [slot EXCEPT ![q] = [held |-> FALSE]]
        /\ lost' = [lost EXCEPT ![slot[q].window] = @ + 1]
        /\ UNCHANGED <<instant, entries, counted, arrived, windows>>
    BY DEF LimiterInv, Typed, ResponseNeverFinishes
  <1>b. slot[q].window \in Window /\ slot[q].window <= windows
    BY <1>a, HeldSlot DEF WindowsAreOwned
  <1>c. \A v \in Window :
           /\ Cardinality(HoldersOf(v)') = Cardinality(HoldersOf(v)) - (IF v = slot[q].window THEN 1 ELSE 0)
           /\ UsedOf(v) \in Nat /\ Cardinality(HoldersOf(v)) \in Nat
    BY <1>a, SlotLeft, UsedIsNat, HoldersAreFinite
  <1>1. \A v \in Window : UsedOf(v)' = UsedOf(v)
    BY <1>a, <1>b, <1>c DEF UsedOf, Typed
  <1>d. slot' \in [LimitedRequest -> Slot]
    BY <1>a DEF Slot
  <1>2. Typed' /\ WindowsAreOwned'
    <2>1. Typed'
      BY <1>a, <1>b, <1>d DEF Typed
    <2>2. WindowsAreOwned'
      BY <1>a, <1>b DEF Typed, WindowsAreOwned, Window
    <2> QED
      BY <2>1, <2>2
  <1>3. CountsAreExact'
    BY <1>1, <1>a DEF CountsAreExact, Typed, Entry
  <1> QED
    BY <1>2, <1>3 DEF LimiterInv

-----------------------------------------------------------------------------
(* The theorem.                                                              *)

\* Every step of the limiter keeps the invariant.
LEMMA LimiterInvStep ==
    ASSUME LimiterInv, [LimiterNext]_limiterVars
    PROVE  LimiterInv'
  <1>1. CASE TimePasses
    <2>1. UNCHANGED <<entries, slot, limiterHistory>> /\ instant' \in Nat
      BY <1>1 DEF TimePasses, LimiterInv, Typed
    <2>2. \A w : UsedOf(w)' = UsedOf(w)
      BY <2>1 DEF UsedOf, HoldersOf, limiterHistory
    <2>3. CountsAreExact'
      BY <2>1, <2>2 DEF LimiterInv, CountsAreExact
    <2> QED
      BY <2>1, <2>3 DEF LimiterInv, Typed, WindowsAreOwned, limiterHistory
  <1>2. CASE Sweep
    BY <1>2, EntriesDropped DEF Sweep, SweepExpired, limiterHistory
  <1>3. ASSUME NEW q \in LimitedRequest, NEW k \in LimitKey, Arrive(q, k)
        PROVE  LimiterInv'
    BY <1>3, ArriveKeeps
  <1>4. ASSUME NEW q \in LimitedRequest, Finish(q)
        PROVE  LimiterInv'
    BY <1>4, FinishKeeps
  <1>5. ASSUME NEW q \in LimitedRequest, ResponseNeverFinishes(q)
        PROVE  LimiterInv'
    BY <1>5, NeverFinishesKeeps
  <1>6. ASSUME NEW q \in LimitedRequest, ResetKey(q)
        PROVE  LimiterInv'
    BY <1>6, EntriesDropped DEF ResetKey, EntriesOf, limiterHistory
  <1>7. CASE UNCHANGED limiterVars
    BY <1>7, EntriesDropped DEF limiterVars, limiterHistory
  <1> QED
    BY <1>1, <1>2, <1>3, <1>4, <1>5, <1>6, <1>7 DEF LimiterNext

\* For any limit and any number of keys and requests: a window's count is
\* exactly the requests that used it, so no request gives back a slot of
\* another window or gives one back twice, and none gets past the limit
\* (rateLimit.ts:100).
THEOREM LimiterExact == LimiterSpec => []CountsAreExact
  <1>1. LimiterInit => LimiterInv
    BY LimiterInvInit
  <1>2. LimiterInv /\ [LimiterNext]_limiterVars => LimiterInv'
    BY LimiterInvStep
  <1>3. LimiterInv => CountsAreExact
    BY DEF LimiterInv
  <1> QED
    BY <1>1, <1>2, <1>3, PTL DEF LimiterSpec

-----------------------------------------------------------------------------
\* The keys of the Map are in the order they were set, and it has room for them.
PlacesAreOwned ==
    /\ IsFiniteSet(entries) /\ Cardinality(entries) <= MAX_KEYS
    /\ \A e \in entries : e.place <= windows
    /\ \A e, f \in entries : e.place = f.place => e = f

\* Of some entries there is an oldest one.
LEMMA OldestPlace ==
    ASSUME NEW S, S \subseteq Entry, S # {}
    PROVE  \E e \in S : \A f \in S : e.place <= f.place
  <1> DEFINE Places == {e.place : e \in S}
  <1>1. Places \subseteq Nat /\ Places # {}
    BY DEF Entry, Window
  <1>2. PICK n \in Places : \A m \in Places : ~ (<<m, n>> \in OpToRel(<, Nat))
    BY <1>1, NatLessThanWellFounded, WFMin
  <1>3. \A m \in Places : ~ (m < n)
    BY <1>1, <1>2 DEF OpToRel
  <1>4. PICK e \in S : e.place = n
    BY <1>2
  <1>5. \A f \in S : e.place <= f.place
    BY <1>1, <1>3, <1>4
  <1> QED BY <1>5

\* When an entry is to be added, the Map has room for it: of the live entries only
\* those with fewer than MAX_KEYS - 1 newer ones are kept (rateLimit.ts: "the oldest keys").
LEMMA RoomIsMade ==
    ASSUME entries \subseteq Entry, PlacesAreOwned
    PROVE  /\ MakeRoom \subseteq entries /\ IsFiniteSet(MakeRoom)
           /\ Cardinality(MakeRoom) < MAX_KEYS
  <1>1. MakeRoom \subseteq entries
    BY DEF MakeRoom, SweepExpired
  <1>2. IsFiniteSet(MakeRoom) /\ Cardinality(MakeRoom) \in Nat /\ Cardinality(entries) \in Nat
    BY <1>1, FS_Subset, FS_CardinalityType DEF PlacesAreOwned
  <1>3. CASE Cardinality(entries) < MAX_KEYS
    BY <1>1, <1>2, <1>3 DEF MakeRoom
  <1>4. CASE ~(Cardinality(entries) < MAX_KEYS)
    <2> DEFINE S == SweepExpired
               After(e) == {f \in S : f.place > e.place}
    <2>1. MakeRoom = {e \in S : Cardinality(After(e)) < MAX_KEYS - 1}
      BY <1>4 DEF MakeRoom
    <2>2. CASE MakeRoom = {}
      BY <2>2, FS_EmptySet, LimiterAssumption
    <2>3. CASE MakeRoom # {}
      <3>1. PICK e \in MakeRoom : \A f \in MakeRoom : e.place <= f.place
        BY <1>1, <2>3, OldestPlace
      <3>2. MakeRoom \ {e} \subseteq After(e)
        <4> SUFFICES ASSUME NEW f \in MakeRoom, f # e PROVE f \in After(e)
          OBVIOUS
        <4>1. f \in entries /\ e \in entries /\ f \in S
          BY <1>1, <2>1
        <4>2. f.place # e.place /\ e.place <= f.place /\ e.place \in Nat /\ f.place \in Nat
          BY <3>1, <4>1 DEF PlacesAreOwned, Entry, Window
        <4> QED BY <4>1, <4>2
      <3>3. After(e) \subseteq entries
        BY DEF SweepExpired
      <3>4. IsFiniteSet(After(e)) /\ Cardinality(After(e)) \in Nat
        BY <3>3, FS_Subset, FS_CardinalityType DEF PlacesAreOwned
      <3>5. Cardinality(MakeRoom \ {e}) <= Cardinality(After(e))
        BY <3>2, <3>4, FS_Subset
      <3>6. Cardinality(MakeRoom \ {e}) = Cardinality(MakeRoom) - 1
        BY <1>2, <3>1, FS_RemoveElement
      <3>7. Cardinality(After(e)) < MAX_KEYS - 1
        BY <2>1, <3>1
      <3>8. Cardinality(MakeRoom) - 1 < MAX_KEYS - 1
        BY <1>2, <3>4, <3>5, <3>6, <3>7, LimiterAssumption
      <3>9. Cardinality(MakeRoom) < MAX_KEYS
        BY <1>2, <3>8, LimiterAssumption
      <3> QED BY <1>1, <1>2, <3>9
    <2> QED BY <1>1, <1>2, <2>2, <2>3
  <1> QED BY <1>3, <1>4

\* A new window has a place after all others, or the place of the key it replaces.
LEMMA PlacesStep == LimiterInv /\ PlacesAreOwned /\ [LimiterNext]_limiterVars => PlacesAreOwned'
  <1> SUFFICES ASSUME LimiterInv, PlacesAreOwned, [LimiterNext]_limiterVars PROVE PlacesAreOwned'
    OBVIOUS
  <1>a. entries \subseteq Entry /\ windows \in Nat /\ \A e, f \in entries : e.key = f.key => e = f
    BY DEF LimiterInv, Typed
  <1>b. Cardinality(entries) \in Nat
    BY FS_CardinalityType DEF PlacesAreOwned
  <1>1. ASSUME entries' \subseteq entries, UNCHANGED windows PROVE PlacesAreOwned'
    <2>1. IsFiniteSet(entries') /\ Cardinality(entries') <= Cardinality(entries) /\ Cardinality(entries') \in Nat
      BY <1>1, FS_Subset, FS_CardinalityType DEF PlacesAreOwned
    <2>2. Cardinality(entries') <= MAX_KEYS
      BY <1>b, <2>1, LimiterAssumption DEF PlacesAreOwned
    <2> QED BY <1>1, <2>1, <2>2 DEF PlacesAreOwned
  <1>2. ASSUME NEW e \in entries, NEW n \in {1, -1}, Change(e, n), UNCHANGED windows PROVE PlacesAreOwned'
    <2> DEFINE new == [e EXCEPT !.count = @ + n]
    <2>1. entries' = (entries \ {e}) \cup {new} /\ new.key = e.key /\ new.place = e.place
      BY <1>2, <1>a DEF Change, Entry
    <2>2. IsFiniteSet(entries \ {e}) /\ Cardinality(entries \ {e}) = Cardinality(entries) - 1
      BY FS_RemoveElement DEF PlacesAreOwned
    <2>3. new \notin entries \ {e}
      BY <1>a, <2>1
    <2>4. IsFiniteSet(entries') /\ Cardinality(entries') = Cardinality(entries)
      BY <1>b, <2>1, <2>2, <2>3, FS_AddElement
    <2> QED BY <1>2, <2>1, <2>4 DEF PlacesAreOwned
  <1>3. ASSUME NEW q \in LimitedRequest, NEW k \in LimitKey, Arrive(q, k) PROVE PlacesAreOwned'
    <2>1. CASE \E e \in EntriesOf(k) : Change(e, 1) /\ UNCHANGED windows
      BY <1>2, <2>1 DEF EntriesOf
    <2>2. CASE /\ windows' = windows + 1
               /\ entries' = SetEntry(MakeRoom, NewEntry(k, windows + 1))
      <3> DEFINE w == windows + 1
                 made == NewEntry(k, w)
                 place == IF \E f \in MakeRoom : f.key = made.key
                          THEN (CHOOSE f \in MakeRoom : f.key = made.key).place ELSE made.place
                 new  == [made EXCEPT !.place = place]
                 Kept == {f \in MakeRoom : f.key # k}
      <3>1. MakeRoom \subseteq entries /\ IsFiniteSet(MakeRoom) /\ Cardinality(MakeRoom) < MAX_KEYS
        BY <1>a, RoomIsMade
      <3>2. made.key = k /\ made.place = w /\ new.place = place /\ new.key = k
        BY DEF NewEntry
      <3>3. entries' = Kept \cup {new}
        BY <2>2, <3>2 DEF SetEntry
      <3>4. IsFiniteSet(Kept) /\ Cardinality(Kept) <= Cardinality(MakeRoom) /\ Cardinality(Kept) \in Nat
            /\ Cardinality(MakeRoom) \in Nat
        BY <3>1, FS_Subset, FS_CardinalityType
      <3>5. new \notin Kept
        BY <3>2
      <3>6. IsFiniteSet(entries') /\ Cardinality(entries') = Cardinality(Kept) + 1
        BY <3>3, <3>4, <3>5, FS_AddElement
      <3>7. Cardinality(entries') <= MAX_KEYS
        BY <3>1, <3>4, <3>6, LimiterAssumption
      <3>8. place <= w /\ \A f \in Kept : f.place <= windows /\ f.place # place /\ f.place \in Nat
        <4>1. CASE \E f \in MakeRoom : f.key = k
          <5>1. PICK g \in MakeRoom : g.key = k /\ place = g.place
            BY <3>2, <4>1
          <5>2. g \in entries /\ g.place \in Nat /\ g.place <= windows
            BY <1>a, <3>1, <5>1 DEF PlacesAreOwned, Entry, Window
          <5>3. \A f \in Kept : f \in entries /\ f # g /\ f.place \in Nat /\ f.place <= windows
            BY <1>a, <3>1, <5>1 DEF PlacesAreOwned, Entry, Window
          <5>4. place \in Nat /\ place <= w
            BY <1>a, <5>1, <5>2
          <5>5. \A f \in Kept : f.place # place
            BY <5>1, <5>2, <5>3 DEF PlacesAreOwned
          <5> HIDE DEF place, Kept
          <5> QED BY <5>3, <5>4, <5>5
        <4>2. CASE ~\E f \in MakeRoom : f.key = k
          <5>1. place = w
            BY <3>2, <4>2
          <5>2. \A f \in Kept : f.place \in Nat /\ f.place <= windows
            BY <1>a, <3>1 DEF PlacesAreOwned, Entry, Window
          <5> HIDE DEF place, Kept
          <5>3. place <= w /\ \A n \in Nat : n <= windows => n # place
            BY <1>a, <5>1
          <5> QED BY <5>2, <5>3
        <4> QED BY <4>1, <4>2
      <3> HIDE DEF w, made, place, new, Kept
      <3>9. \A e \in entries' : e.place <= w
        BY <1>a, <3>2, <3>3, <3>8 DEF w
      <3>10. \A f \in Kept : f \in entries
        BY <3>1 DEF Kept
      <3>11. \A e, f \in entries' : e.place = f.place => e = f
        BY <3>2, <3>3, <3>8, <3>10 DEF PlacesAreOwned
      <3> QED BY <2>2, <3>6, <3>7, <3>9, <3>11 DEF PlacesAreOwned, w
    <2> QED BY <1>3, <2>1, <2>2 DEF Arrive
  <1>4. ASSUME NEW q \in LimitedRequest, Finish(q) PROVE PlacesAreOwned'
    <2>1. UNCHANGED windows
      BY <1>4 DEF Finish
    <2>2. CASE UNCHANGED entries
      BY <1>1, <2>1, <2>2
    <2>3. CASE \E e \in OwnEntry(slot[q]) : Change(e, -1)
      BY <1>2, <2>1, <2>3 DEF OwnEntry, EntriesOf
    <2> QED BY <1>4, <2>2, <2>3 DEF Finish
  <1> QED BY <1>1, <1>3, <1>4
          DEF LimiterNext, limiterVars, limiterHistory, TimePasses, Sweep, SweepExpired, ResponseNeverFinishes, ResetKey

\* For any bound, any limit and any number of keys: the Map never outgrows
\* MAX_KEYS, a key has one window, and entries, slots and history hold values of
\* their types (rateLimit.ts:60).
THEOREM LimiterTyped == LimiterSpec => []LimiterTypeOK
  <1>1. LimiterInit => PlacesAreOwned
    BY FS_EmptySet, LimiterAssumption DEF LimiterInit, PlacesAreOwned
  <1>2. LimiterInv /\ PlacesAreOwned => LimiterTypeOK
    BY LimiterAssumption DEF LimiterInv, Typed, PlacesAreOwned, LimiterTypeOK
  <1> QED BY <1>1, <1>2, LimiterInvInit, LimiterInvStep, PlacesStep, PTL DEF LimiterSpec

-----------------------------------------------------------------------------
(***************************************************************************)
(* Low-stock alerts: for any number of items, alerts, runs and restarts.   *)
(***************************************************************************)

(* Alerts and the runs that hold them.                                       *)

\* Runs that will email alert n, and runs that have still to say what became
\* of an email with it.
Sends(n) == {r \in Run : run[r].op = "send" /\ n \in run[r].ids}
Tells(n) == {r \in Run : run[r].op \in {"markSent", "countAttempt"} /\ n \in run[r].ids}

\* There are finitely many runs, and a run is in one of these sets at most.
LEMMA RunsAreFinite ==
    /\ IsFiniteSet(Run) /\ Cardinality(Run) \in Nat
    /\ \A n : /\ IsFiniteSet(Sends(n)) /\ Cardinality(Sends(n)) \in Nat
              /\ IsFiniteSet(Tells(n)) /\ Cardinality(Tells(n)) \in Nat
              /\ Cardinality(Sends(n)) + Cardinality(Tells(n)) <= Cardinality(Run)
              /\ \A r \in Run \ (Sends(n) \cup Tells(n)) :
                   Cardinality(Sends(n)) + Cardinality(Tells(n)) < Cardinality(Run)
  <1>1. IsFiniteSet(Run)
    <2>1. IsFiniteSet(ByHand \cup {Scheduled})
      BY AlertAssumption, FS_AddElement
    <2>2. Run = ByHand \cup {Scheduled}
      BY DEF Run
    <2> QED
      BY <2>1, <2>2
  <1>2. ASSUME NEW n
        PROVE  /\ IsFiniteSet(Sends(n)) /\ Cardinality(Sends(n)) \in Nat
               /\ IsFiniteSet(Tells(n)) /\ Cardinality(Tells(n)) \in Nat
               /\ Cardinality(Sends(n)) + Cardinality(Tells(n)) <= Cardinality(Run)
               /\ \A r \in Run \ (Sends(n) \cup Tells(n)) :
                    Cardinality(Sends(n)) + Cardinality(Tells(n)) < Cardinality(Run)
    <2>1. Sends(n) \in SUBSET Run /\ Tells(n) \in SUBSET Run
      BY DEF Sends, Tells
    <2>2. Sends(n) \cap Tells(n) = {}
      BY DEF Sends, Tells
    <2>3. IsFiniteSet(Sends(n)) /\ IsFiniteSet(Tells(n))
      BY <1>1, <2>1, FS_Subset
    <2>4. Cardinality(Sends(n)) \in Nat /\ Cardinality(Tells(n)) \in Nat
      BY <2>3, FS_CardinalityType
    <2>5. Cardinality(Sends(n) \cup Tells(n)) = Cardinality(Sends(n)) + Cardinality(Tells(n))
      <3>1. Cardinality(Sends(n) \cup Tells(n))
              = Cardinality(Sends(n)) + Cardinality(Tells(n)) - Cardinality(Sends(n) \cap Tells(n))
        BY <2>3, FS_Union
      <3> QED
        BY <3>1, <2>2, <2>4, FS_EmptySet
    <2>6. Cardinality(Sends(n) \cup Tells(n)) <= Cardinality(Run)
      <3>1. Sends(n) \cup Tells(n) \in SUBSET Run
        BY <2>1
      <3> QED
        BY <3>1, <1>1, FS_Subset
    <2>7. ASSUME NEW r \in Run \ (Sends(n) \cup Tells(n))
          PROVE  Cardinality(Sends(n)) + Cardinality(Tells(n)) < Cardinality(Run)
      <3>1. Sends(n) \cup Tells(n) \in SUBSET (Run \ {r})
        BY <2>1
      <3>2. IsFiniteSet(Run \ {r}) /\ Cardinality(Run \ {r}) = Cardinality(Run) - 1
        BY <1>1, FS_RemoveElement
      <3>3. Cardinality(Sends(n) \cup Tells(n)) <= Cardinality(Run \ {r})
        BY <3>1, <3>2, FS_Subset
      <3>4. Cardinality(Run) \in Nat
        BY <1>1, FS_CardinalityType
      <3> QED
        BY <3>2, <3>3, <3>4, <2>4, <2>5
    <2> QED
      BY <2>3, <2>4, <2>5, <2>6, <2>7
  <1>3. Cardinality(Run) \in Nat
    BY <1>1, FS_CardinalityType
  <1> QED
    BY <1>1, <1>2, <1>3

\* What a run that does c adds to the counts of these sets.
SendsOf(c, n) == IF c.op = "send" /\ n \in c.ids THEN 1 ELSE 0
TellsOf(c, n) == IF c.op \in {"markSent", "countAttempt"} /\ n \in c.ids THEN 1 ELSE 0

\* A run goes on: it leaves the sets it was in and enters those of its new step.
LEMMA RunGoesOn ==
    ASSUME run \in [Run -> AlertRun], NEW r \in Run, NEW c, run' = [run EXCEPT ![r] = c], NEW n
    PROVE  /\ Cardinality(Sends(n)') = Cardinality(Sends(n)) - SendsOf(run[r], n) + SendsOf(c, n)
           /\ Cardinality(Tells(n)') = Cardinality(Tells(n)) - TellsOf(run[r], n) + TellsOf(c, n)
  <1> DEFINE SendsNext == {x \in Run : run'[x].op = "send" /\ n \in run'[x].ids}
             TellsNext == {x \in Run : run'[x].op \in {"markSent", "countAttempt"} /\ n \in run'[x].ids}
  <1>1. Sends(n)' = SendsNext /\ Tells(n)' = TellsNext
    BY DEF Sends, Tells
  <1>2. /\ SendsNext \ {r} = Sends(n) \ {r}
        /\ TellsNext \ {r} = Tells(n) \ {r}
    BY DEF Sends, Tells
  <1>3. /\ r \in SendsNext <=> (c.op = "send" /\ n \in c.ids)
        /\ r \in TellsNext <=> (c.op \in {"markSent", "countAttempt"} /\ n \in c.ids)
        /\ r \in Sends(n) <=> (run[r].op = "send" /\ n \in run[r].ids)
        /\ r \in Tells(n) <=> (run[r].op \in {"markSent", "countAttempt"} /\ n \in run[r].ids)
    BY DEF Sends, Tells
  <1>4. /\ IsFiniteSet(SendsNext) /\ IsFiniteSet(TellsNext)
        /\ IsFiniteSet(Sends(n)) /\ IsFiniteSet(Tells(n))
    <2>1. SendsNext \in SUBSET Run /\ TellsNext \in SUBSET Run
      OBVIOUS
    <2> QED
      BY <2>1, RunsAreFinite, FS_Subset
  <1>5. /\ Cardinality(SendsNext) \in Nat /\ Cardinality(TellsNext) \in Nat
        /\ Cardinality(Sends(n)) \in Nat /\ Cardinality(Tells(n)) \in Nat
    BY <1>4, FS_CardinalityType
  <1>6. \A S : IsFiniteSet(S) => Cardinality(S \ {r}) = IF r \in S THEN Cardinality(S) - 1 ELSE Cardinality(S)
    BY FS_RemoveElement
  <1> HIDE DEF SendsNext, TellsNext
  <1>7. /\ (IF r \in SendsNext THEN Cardinality(SendsNext) - 1 ELSE Cardinality(SendsNext))
             = (IF r \in Sends(n) THEN Cardinality(Sends(n)) - 1 ELSE Cardinality(Sends(n)))
        /\ (IF r \in TellsNext THEN Cardinality(TellsNext) - 1 ELSE Cardinality(TellsNext))
             = (IF r \in Tells(n) THEN Cardinality(Tells(n)) - 1 ELSE Cardinality(Tells(n)))
    BY <1>2, <1>4, <1>6
  <1> QED
    BY <1>1, <1>3, <1>5, <1>7 DEF SendsOf, TellsOf

\* Alerts may be rewritten in place.
LEMMA AlertsRewritten ==
    ASSUME alerts \in Seq(Alert), NEW new, new = [n \in DOMAIN alerts |-> new[n]],
           \A n \in DOMAIN alerts : new[n] \in Alert
    PROVE  new \in Seq(Alert) /\ Len(new) = Len(alerts) /\ DOMAIN new = DOMAIN alerts
  <1>1. DOMAIN alerts = 1 .. Len(alerts) /\ Len(alerts) \in Nat
    BY LenProperties
  <1>2. new \in [1 .. Len(alerts) -> Alert]
    BY <1>1
  <1> QED
    BY <1>1, <1>2, IsASeq, LenProperties

-----------------------------------------------------------------------------
(* The invariant.                                                            *)

\* A run holds alerts there are, and no email was sent about one to come.
HeldAlertsExist ==
    /\ \A r \in Run : run[r].op # "idle" => run[r].ids \subseteq DOMAIN alerts
    /\ \A n \in (1 .. MaxAlerts) \ DOMAIN alerts : emailed[n] = 0

\* LowItemsHaveOneAlert without counting.
OneOpenAlert ==
    \A i \in StockItem :
       /\ \A m, n \in OpenAlerts(i) : m = n
       /\ i \in LowItems => OpenAlerts(i) # {}

\* Emails against what explains them.  A run that has sent its email and not yet
\* said so stands for one of an unsent alert; of a sent one, the runs that are
\* still to send it count as if they had.
Explained(n) ==
    /\ ~alerts[n].sent => emailed[n] <= alerts[n].attempts + restarts + Cardinality(Tells(n))
    /\ alerts[n].sent => emailed[n] + Cardinality(Sends(n))
                           <= alerts[n].attempts + restarts + Cardinality(Run)
    /\ alerts[n].attempts + Cardinality(Sends(n)) + Cardinality(Tells(n))
         < MAX_ATTEMPTS + Cardinality(Run)

\* The inductive invariant of the alerts.
AlertInv ==
    /\ AlertTypeOK
    /\ HeldAlertsExist
    /\ OneOpenAlert
    /\ \A n \in DOMAIN alerts : Explained(n)

\* The alerts' numbers, and the types of what an alert's counts are made of.
LEMMA AlertNumbers ==
    ASSUME AlertTypeOK
    PROVE  /\ DOMAIN alerts = 1 .. Len(alerts) /\ Len(alerts) \in Nat
           /\ DOMAIN alerts \subseteq 1 .. MaxAlerts
           /\ \A n \in DOMAIN alerts : /\ alerts[n] \in Alert /\ alerts[n].attempts \in Nat
                                       /\ emailed[n] \in Nat
           /\ restarts \in Nat /\ MAX_ATTEMPTS \in Nat \ {0} /\ MaxAlerts \in Nat
  <1>1. DOMAIN alerts = 1 .. Len(alerts) /\ Len(alerts) \in Nat
    BY LenProperties DEF AlertTypeOK
  <1>2. MaxAlerts \in Nat /\ MAX_ATTEMPTS \in Nat \ {0} /\ MaxRestarts \in Nat
    BY AlertAssumption
  <1>3. DOMAIN alerts \subseteq 1 .. MaxAlerts
    BY <1>1, <1>2 DEF AlertTypeOK
  <1>4. ASSUME NEW n \in DOMAIN alerts
        PROVE  alerts[n] \in Alert
    BY <1>1, <1>4, ElementOfSeq DEF AlertTypeOK
  <1> QED
    BY <1>1, <1>2, <1>3, <1>4 DEF AlertTypeOK, Alert

\* The same of one alert, with what the invariant says of it.
LEMMA AlertCounts ==
    ASSUME AlertInv, NEW n \in DOMAIN alerts
    PROVE  /\ alerts[n].attempts \in Nat /\ emailed[n] \in Nat
           /\ restarts \in Nat /\ MAX_ATTEMPTS \in Nat \ {0}
           /\ Cardinality(Sends(n)) \in Nat /\ Cardinality(Tells(n)) \in Nat
           /\ Cardinality(Run) \in Nat
           /\ Cardinality(Sends(n)) + Cardinality(Tells(n)) <= Cardinality(Run)
           /\ Explained(n)
  BY AlertNumbers, RunsAreFinite DEF AlertInv

\* What the open alerts say stays true when alerts keep their item and whether
\* they are resolved, and items stay as they are.
LEMMA OpenAlertsStay ==
    ASSUME OneOpenAlert, UNCHANGED itemVars, DOMAIN alerts' = DOMAIN alerts,
           \A n \in DOMAIN alerts : /\ alerts'[n].item = alerts[n].item
                                    /\ alerts'[n].resolved = alerts[n].resolved
    PROVE  OneOpenAlert'
  <1>1. \A i \in StockItem : OpenAlerts(i)' = OpenAlerts(i)
    BY DEF OpenAlerts
  <1>2. LowItems' = LowItems
    BY DEF LowItems, itemVars
  <1> QED
    BY <1>1, <1>2 DEF OneOpenAlert

\* A run goes on with the same alerts, or with alerts of its own: what it holds
\* exists if what it goes on to hold does.
LEMMA HeldStays ==
    ASSUME AlertInv, NEW r \in Run, NEW c \in AlertRun, run' = [run EXCEPT ![r] = c],
           c.op # "idle" => c.ids \subseteq DOMAIN alerts,
           DOMAIN alerts' = DOMAIN alerts, UNCHANGED emailed
    PROVE  HeldAlertsExist'
  BY DEF AlertInv, AlertTypeOK, HeldAlertsExist

-----------------------------------------------------------------------------
(* Steps of a run.                                                           *)

\* A run that reads the waiting alerts sends none of a sent one, and each of the
\* others has an attempt left.
LEMMA BeginRunKeeps ==
    ASSUME AlertInv, NEW r \in Run, BeginRun(r)
    PROVE  AlertInv'
  <1> DEFINE c == [op |-> "send", ids |-> NextBatch]
  <1>1. /\ run[r].op = "idle" /\ run' = [run EXCEPT ![r] = c]
        /\ UNCHANGED <<itemVars, alerts, emailed, restarts>>
    BY DEF BeginRun, SetRun
  <1>2. NextBatch \subseteq DOMAIN alerts
    BY DEF NextBatch, Waiting
  <1>3. c \in AlertRun /\ c.op = "send" /\ c.ids = NextBatch
    BY <1>2, AlertNumbers DEF AlertInv, AlertRun
  <1> HIDE DEF c
  <1>4. AlertTypeOK'
    BY <1>1, <1>3 DEF AlertInv, AlertTypeOK, itemVars
  <1>5. HeldAlertsExist'
    BY <1>1, <1>2, <1>3, HeldStays
  <1>6. OneOpenAlert'
    BY <1>1, OpenAlertsStay DEF AlertInv
  <1>7. ASSUME NEW n \in DOMAIN alerts
        PROVE  Explained(n)'
    <2>1. /\ Cardinality(Sends(n)') = Cardinality(Sends(n)) - SendsOf(run[r], n) + SendsOf(c, n)
          /\ Cardinality(Tells(n)') = Cardinality(Tells(n)) - TellsOf(run[r], n) + TellsOf(c, n)
      BY <1>1, RunGoesOn DEF AlertInv, AlertTypeOK
    <2>2. /\ SendsOf(run[r], n) = 0 /\ SendsOf(c, n) = IF n \in NextBatch THEN 1 ELSE 0
          /\ TellsOf(run[r], n) = 0 /\ TellsOf(c, n) = 0
      BY <1>1, <1>3 DEF SendsOf, TellsOf
    <2>3. r \in Run \ (Sends(n) \cup Tells(n))
      BY <1>1 DEF Sends, Tells
    <2>4. Cardinality(Sends(n)) + Cardinality(Tells(n)) < Cardinality(Run)
      BY <2>3, RunsAreFinite
    <2>5. n \in NextBatch => ~alerts[n].sent /\ alerts[n].attempts < MAX_ATTEMPTS
      BY DEF NextBatch, Waiting
    <2> QED
      BY <1>1, <2>1, <2>2, <2>4, <2>5, AlertCounts DEF Explained
  <1> QED
    BY <1>1, <1>4, <1>5, <1>6, <1>7 DEF AlertInv

\* An email sent is one more for its alerts, and its run has yet to say so.
LEMMA SendEmailKeeps ==
    ASSUME AlertInv, NEW r \in Run, SendEmail(r)
    PROVE  AlertInv'
  <1> DEFINE ids == run[r].ids
  <1>1. /\ run[r].op = "send" /\ UNCHANGED <<itemVars, alerts, restarts>>
        /\ emailed' = emailed \/ CountEmail(ids)
    BY DEF SendEmail
  <1>2. PICK op \in {"markSent", "countAttempt"} : run' = [run EXCEPT ![r] = [op |-> op, ids |-> ids]]
    BY DEF SendEmail, SetRun
  <1> DEFINE c == [op |-> op, ids |-> ids]
  <1>3. ids \in SUBSET (1 .. MaxAlerts) /\ ids \subseteq DOMAIN alerts
    <2>1. run[r] \in AlertRun /\ run[r].op # "idle"
      BY <1>1 DEF AlertInv, AlertTypeOK
    <2> QED
      BY <2>1 DEF AlertInv, HeldAlertsExist, AlertRun
  <1>4. c \in AlertRun /\ c.op = op /\ c.ids = ids /\ run' = [run EXCEPT ![r] = c]
    BY <1>2, <1>3 DEF AlertRun
  <1> HIDE DEF c
  <1>5. emailed' \in [1 .. MaxAlerts -> Nat]
    BY <1>1 DEF AlertInv, AlertTypeOK, CountEmail
  <1>6. \A n \in 1 .. MaxAlerts :
           /\ emailed'[n] \in {emailed[n], emailed[n] + 1}
           /\ n \notin ids => emailed'[n] = emailed[n]
    BY <1>1 DEF CountEmail
  <1>7. AlertTypeOK'
    BY <1>1, <1>4, <1>5 DEF AlertInv, AlertTypeOK, itemVars
  <1>8. HeldAlertsExist'
    BY <1>1, <1>3, <1>4, <1>6 DEF AlertInv, AlertTypeOK, HeldAlertsExist
  <1>9. OneOpenAlert'
    BY <1>1, OpenAlertsStay DEF AlertInv
  <1>10. ASSUME NEW n \in DOMAIN alerts
         PROVE  Explained(n)'
    <2>1. /\ Cardinality(Sends(n)') = Cardinality(Sends(n)) - SendsOf(run[r], n) + SendsOf(c, n)
          /\ Cardinality(Tells(n)') = Cardinality(Tells(n)) - TellsOf(run[r], n) + TellsOf(c, n)
      BY <1>4, RunGoesOn DEF AlertInv, AlertTypeOK
    <2>2. /\ SendsOf(run[r], n) = IF n \in ids THEN 1 ELSE 0
          /\ SendsOf(c, n) = 0
          /\ TellsOf(run[r], n) = 0
          /\ TellsOf(c, n) = IF n \in ids THEN 1 ELSE 0
      BY <1>1, <1>4 DEF SendsOf, TellsOf
    <2>3. emailed'[n] \in {emailed[n], emailed[n] + 1} /\ (n \notin ids => emailed'[n] = emailed[n])
      BY <1>6, AlertNumbers DEF AlertInv
    <2> QED
      BY <1>1, <2>1, <2>2, <2>3, AlertCounts DEF Explained
  <1> QED
    BY <1>1, <1>7, <1>8, <1>9, <1>10 DEF AlertInv

\* A run that says its email was sent is done with its alerts; one whose update
\* failed holds them as before.
LEMMA MarkSentKeeps ==
    ASSUME AlertInv, NEW r \in Run, MarkSent(r)
    PROVE  AlertInv'
  <1> DEFINE ids == run[r].ids
  <1>1. run[r].op = "markSent" /\ UNCHANGED <<itemVars, emailed, restarts>>
    BY DEF MarkSent
  <1>2. ids \in SUBSET (1 .. MaxAlerts) /\ ids \subseteq DOMAIN alerts
    <2>1. run[r] \in AlertRun /\ run[r].op # "idle"
      BY <1>1 DEF AlertInv, AlertTypeOK
    <2> QED
      BY <2>1 DEF AlertInv, HeldAlertsExist, AlertRun
  <1>3. CASE /\ alerts' = [n \in DOMAIN alerts |-> [alerts[n] EXCEPT !.sent = @ \/ n \in ids]]
             /\ RunEnds(r)
    <2> DEFINE c == [op |-> "idle"]
    <2>1. c \in AlertRun /\ c.op = "idle" /\ run' = [run EXCEPT ![r] = c]
      BY <1>3 DEF AlertRun, RunEnds, SetRun
    <2> HIDE DEF c
    <2>2. \A n \in DOMAIN alerts :
             /\ alerts'[n] \in Alert
             /\ alerts'[n].item = alerts[n].item /\ alerts'[n].resolved = alerts[n].resolved
             /\ alerts'[n].attempts = alerts[n].attempts
             /\ alerts'[n].sent <=> (alerts[n].sent \/ n \in ids)
      <3>1. SUFFICES ASSUME NEW n \in DOMAIN alerts
                     PROVE  /\ alerts'[n] \in Alert
                            /\ alerts'[n].item = alerts[n].item
                            /\ alerts'[n].resolved = alerts[n].resolved
                            /\ alerts'[n].attempts = alerts[n].attempts
                            /\ alerts'[n].sent <=> (alerts[n].sent \/ n \in ids)
        OBVIOUS
      <3>2. alerts[n] \in Alert /\ alerts'[n] = [alerts[n] EXCEPT !.sent = @ \/ n \in ids]
        BY <1>3, AlertNumbers DEF AlertInv
      <3> QED
        BY <3>2 DEF Alert
    <2>3. alerts' \in Seq(Alert) /\ Len(alerts') = Len(alerts) /\ DOMAIN alerts' = DOMAIN alerts
      <3>1. alerts' = [n \in DOMAIN alerts |-> alerts'[n]]
        BY <1>3
      <3> QED
        BY <2>2, <3>1, AlertsRewritten DEF AlertInv, AlertTypeOK
    <2>4. AlertTypeOK'
      BY <1>1, <2>1, <2>3 DEF AlertInv, AlertTypeOK, itemVars
    <2>5. HeldAlertsExist'
      BY <1>1, <2>1, <2>3, HeldStays
    <2>6. OneOpenAlert'
      BY <1>1, <2>2, <2>3, OpenAlertsStay DEF AlertInv
    <2>7. ASSUME NEW n \in DOMAIN alerts
          PROVE  Explained(n)'
      <3>1. /\ Cardinality(Sends(n)') = Cardinality(Sends(n)) - SendsOf(run[r], n) + SendsOf(c, n)
            /\ Cardinality(Tells(n)') = Cardinality(Tells(n)) - TellsOf(run[r], n) + TellsOf(c, n)
        BY <2>1, RunGoesOn DEF AlertInv, AlertTypeOK
      <3>2. /\ SendsOf(run[r], n) = 0 /\ SendsOf(c, n) = 0
            /\ TellsOf(run[r], n) = IF n \in ids THEN 1 ELSE 0
            /\ TellsOf(c, n) = 0
        BY <1>1, <2>1 DEF SendsOf, TellsOf
      <3> QED
        BY <1>1, <2>2, <3>1, <3>2, AlertCounts DEF Explained
    <2> QED
      BY <2>3, <2>4, <2>5, <2>6, <2>7 DEF AlertInv
  <1>4. CASE SetRun(r, [op |-> "countAttempt", ids |-> ids]) /\ UNCHANGED alerts
    <2> DEFINE c == [op |-> "countAttempt", ids |-> ids]
    <2>1. c \in AlertRun /\ c.op = "countAttempt" /\ c.ids = ids /\ run' = [run EXCEPT ![r] = c]
      BY <1>2, <1>4 DEF AlertRun, SetRun
    <2> HIDE DEF c
    <2>2. AlertTypeOK'
      BY <1>1, <1>4, <2>1 DEF AlertInv, AlertTypeOK, itemVars
    <2>3. HeldAlertsExist'
      BY <1>1, <1>2, <1>4, <2>1, HeldStays
    <2>4. OneOpenAlert'
      BY <1>1, <1>4, OpenAlertsStay DEF AlertInv
    <2>5. ASSUME NEW n \in DOMAIN alerts
          PROVE  Explained(n)'
      <3>1. /\ Cardinality(Sends(n)') = Cardinality(Sends(n)) - SendsOf(run[r], n) + SendsOf(c, n)
            /\ Cardinality(Tells(n)') = Cardinality(Tells(n)) - TellsOf(run[r], n) + TellsOf(c, n)
        BY <2>1, RunGoesOn DEF AlertInv, AlertTypeOK
      <3>2. /\ SendsOf(run[r], n) = SendsOf(c, n)
            /\ TellsOf(run[r], n) = TellsOf(c, n)
            /\ SendsOf(c, n) \in Nat /\ TellsOf(c, n) \in Nat
        BY <1>1, <2>1 DEF SendsOf, TellsOf
      <3> QED
        BY <1>1, <1>4, <3>1, <3>2, AlertCounts DEF Explained
    <2> QED
      BY <1>4, <2>2, <2>3, <2>4, <2>5 DEF AlertInv
  <1> QED
    BY <1>3, <1>4 DEF MarkSent

\* An attempt counted is one more that explains an email, for a run that no
\* longer does.
LEMMA CountAttemptKeeps ==
    ASSUME AlertInv, NEW r \in Run, CountAttempt(r)
    PROVE  AlertInv'
  <1> DEFINE ids == run[r].ids
             c == [op |-> "idle"]
  <1>1. /\ run[r].op = "countAttempt" /\ UNCHANGED <<itemVars, emailed, restarts>>
        /\ alerts' = [n \in DOMAIN alerts |->
                        IF n \in ids THEN [alerts[n] EXCEPT !.attempts = @ + 1] ELSE alerts[n]]
    BY DEF CountAttempt
  <1>2. c \in AlertRun /\ c.op = "idle" /\ run' = [run EXCEPT ![r] = c]
    BY DEF CountAttempt, AlertRun, RunEnds, SetRun
  <1> HIDE DEF c
  <1>3. ASSUME NEW n \in DOMAIN alerts
        PROVE  /\ alerts'[n] \in Alert
               /\ alerts'[n].item = alerts[n].item /\ alerts'[n].resolved = alerts[n].resolved
               /\ alerts'[n].sent = alerts[n].sent
               /\ alerts'[n].attempts = alerts[n].attempts + (IF n \in ids THEN 1 ELSE 0)
    <2>1. alerts[n] \in Alert
      BY AlertNumbers DEF AlertInv
    <2>2. alerts'[n] = IF n \in ids THEN [alerts[n] EXCEPT !.attempts = @ + 1] ELSE alerts[n]
      BY <1>1
    <2> QED
      BY <2>1, <2>2 DEF Alert
  <1>4. alerts' \in Seq(Alert) /\ Len(alerts') = Len(alerts) /\ DOMAIN alerts' = DOMAIN alerts
    <2>1. alerts' = [n \in DOMAIN alerts |-> alerts'[n]]
      BY <1>1
    <2> QED
      BY <1>3, <2>1, AlertsRewritten DEF AlertInv, AlertTypeOK
  <1>5. AlertTypeOK'
    BY <1>1, <1>2, <1>4 DEF AlertInv, AlertTypeOK, itemVars
  <1>6. HeldAlertsExist'
    BY <1>1, <1>2, <1>4, HeldStays
  <1>7. OneOpenAlert'
    BY <1>1, <1>3, <1>4, OpenAlertsStay DEF AlertInv
  <1>8. ASSUME NEW n \in DOMAIN alerts
        PROVE  Explained(n)'
    <2>1. /\ Cardinality(Sends(n)') = Cardinality(Sends(n)) - SendsOf(run[r], n) + SendsOf(c, n)
          /\ Cardinality(Tells(n)') = Cardinality(Tells(n)) - TellsOf(run[r], n) + TellsOf(c, n)
      BY <1>2, RunGoesOn DEF AlertInv, AlertTypeOK
    <2>2. /\ SendsOf(run[r], n) = 0 /\ SendsOf(c, n) = 0
          /\ TellsOf(run[r], n) = IF n \in ids THEN 1 ELSE 0
          /\ TellsOf(c, n) = 0
      BY <1>1, <1>2 DEF SendsOf, TellsOf
    <2> QED
      BY <1>1, <1>3, <2>1, <2>2, AlertCounts DEF Explained
  <1> QED
    BY <1>4, <1>5, <1>6, <1>7, <1>8 DEF AlertInv

\* A run that is cut off is one more restart that explains an email.
LEMMA CutOffKeeps ==
    ASSUME AlertInv, NEW r \in Run, CutOff(r)
    PROVE  AlertInv'
  <1> DEFINE c == [op |-> "idle"]
  <1>1. /\ restarts < MaxRestarts /\ restarts' = restarts + 1
        /\ UNCHANGED <<itemVars, alerts, emailed>>
    BY DEF CutOff
  <1>2. c \in AlertRun /\ c.op = "idle" /\ run' = [run EXCEPT ![r] = c]
    BY DEF CutOff, AlertRun, RunEnds, SetRun
  <1> HIDE DEF c
  <1>3. AlertTypeOK'
    <2>1. restarts' \in 0 .. MaxRestarts
      BY <1>1, AlertAssumption DEF AlertInv, AlertTypeOK
    <2> QED
      BY <1>1, <1>2, <2>1 DEF AlertInv, AlertTypeOK, itemVars
  <1>4. HeldAlertsExist'
    BY <1>1, <1>2, HeldStays
  <1>5. OneOpenAlert'
    BY <1>1, OpenAlertsStay DEF AlertInv
  <1>6. ASSUME NEW n \in DOMAIN alerts
        PROVE  Explained(n)'
    <2>1. /\ Cardinality(Sends(n)') = Cardinality(Sends(n)) - SendsOf(run[r], n) + SendsOf(c, n)
          /\ Cardinality(Tells(n)') = Cardinality(Tells(n)) - TellsOf(run[r], n) + TellsOf(c, n)
      BY <1>2, RunGoesOn DEF AlertInv, AlertTypeOK
    <2>2. /\ SendsOf(run[r], n) \in {0, 1} /\ TellsOf(run[r], n) \in {0, 1}
          /\ SendsOf(c, n) = 0 /\ TellsOf(c, n) = 0
      BY <1>2 DEF SendsOf, TellsOf
    <2> QED
      BY <1>1, <2>1, <2>2, AlertCounts DEF Explained
  <1> QED
    BY <1>1, <1>3, <1>4, <1>5, <1>6 DEF AlertInv

-----------------------------------------------------------------------------
(* The triggers.                                                             *)

\* An update resolves an item's alerts, queues one, or leaves them.
LEMMA UpdateItemKeeps ==
    ASSUME AlertInv, NEW i \in StockItem, UpdateItem(i)
    PROVE  AlertInv'
  <1>1. PICK count \in Level, min \in Minima, used \in BOOLEAN :
           /\ QueueAlert(i, count, min, used) /\ Len(alerts') <= MaxAlerts
           /\ level' = [level EXCEPT ![i] = count]
           /\ minimum' = [minimum EXCEPT ![i] = min]
           /\ inUse' = [inUse EXCEPT ![i] = used]
    BY DEF UpdateItem
  <1>2. UNCHANGED <<run, emailed, restarts>>
    BY DEF UpdateItem
  <1>3. /\ level' \in [StockItem -> Level] /\ minimum' \in [StockItem -> Minima]
        /\ inUse' \in [StockItem -> BOOLEAN]
    BY <1>1 DEF AlertInv, AlertTypeOK
  <1>4. /\ (i \in LowItems)' <=> used /\ count <= min
        /\ \A j \in StockItem \ {i} : (j \in LowItems)' <=> j \in LowItems
    BY <1>1, <1>3 DEF LowItems, AlertInv, AlertTypeOK
  <1>5. count \in Int /\ min \in Int
    BY AlertAssumption
  <1>6. \A n : Sends(n)' = Sends(n) /\ Tells(n)' = Tells(n)
    BY <1>2 DEF Sends, Tells
  <1>7. CASE count > level[i] /\ count > min
    <2>1. alerts' = [n \in DOMAIN alerts |-> [alerts[n] EXCEPT !.resolved = @ \/ alerts[n].item = i]]
      BY <1>1, <1>7 DEF QueueAlert
    <2>2. ASSUME NEW n \in DOMAIN alerts
          PROVE  /\ alerts'[n] \in Alert
                 /\ alerts'[n].item = alerts[n].item
                 /\ alerts'[n].sent = alerts[n].sent /\ alerts'[n].attempts = alerts[n].attempts
                 /\ alerts'[n].resolved <=> (alerts[n].resolved \/ alerts[n].item = i)
      <3>1. alerts[n] \in Alert /\ alerts'[n] = [alerts[n] EXCEPT !.resolved = @ \/ alerts[n].item = i]
        BY <2>1, AlertNumbers DEF AlertInv
      <3> QED
        BY <3>1 DEF Alert
    <2>3. alerts' \in Seq(Alert) /\ Len(alerts') = Len(alerts) /\ DOMAIN alerts' = DOMAIN alerts
      <3>1. alerts' = [n \in DOMAIN alerts |-> alerts'[n]]
        BY <2>1
      <3> QED
        BY <2>2, <3>1, AlertsRewritten DEF AlertInv, AlertTypeOK
    <2>4. AlertTypeOK'
      BY <1>1, <1>2, <1>3, <2>3 DEF AlertInv, AlertTypeOK
    <2>5. HeldAlertsExist'
      BY <1>2, <2>3 DEF AlertInv, HeldAlertsExist
    <2>6. OneOpenAlert'
      <3>1. OpenAlerts(i)' = {}
        BY <2>2, <2>3 DEF OpenAlerts
      <3>2. \A j \in StockItem \ {i} : OpenAlerts(j)' = OpenAlerts(j)
        BY <2>2, <2>3 DEF OpenAlerts
      <3>3. ~(i \in LowItems)'
        BY <1>4, <1>5, <1>7
      <3> QED
        BY <1>4, <3>1, <3>2, <3>3 DEF AlertInv, OneOpenAlert
    <2>7. \A n \in DOMAIN alerts' : Explained(n)'
      BY <1>2, <1>6, <2>2, <2>3 DEF AlertInv, Explained
    <2> QED
      BY <2>4, <2>5, <2>6, <2>7 DEF AlertInv
  <1>8. CASE ~(count > level[i] /\ count > min) /\ used /\ count <= min /\ OpenAlerts(i) = {}
    <2>1. alerts' = Append(alerts, NewAlert(i))
      BY <1>1, <1>8 DEF QueueAlert
    <2>2. PICK k \in Nat : k = Len(alerts) + 1
      BY AlertNumbers DEF AlertInv
    <2>3. NewAlert(i) \in Alert
      BY DEF NewAlert, Alert
    <2>4. /\ alerts' \in Seq(Alert) /\ Len(alerts') = k
          /\ DOMAIN alerts' = DOMAIN alerts \cup {k} /\ k \notin DOMAIN alerts
          /\ \A n \in DOMAIN alerts : alerts'[n] = alerts[n]
          /\ alerts'[k] = NewAlert(i)
      BY <2>1, <2>2, <2>3, AppendProperties, AlertNumbers DEF AlertInv, AlertTypeOK
    <2>5. k \in 1 .. MaxAlerts
      <3>1. k <= MaxAlerts /\ k > 0
        BY <1>1, <2>2, <2>4, AlertNumbers DEF AlertInv
      <3> QED
        BY <3>1, AlertNumbers DEF AlertInv
    <2>6. AlertTypeOK'
      BY <1>1, <1>2, <1>3, <2>4 DEF AlertInv, AlertTypeOK
    <2>7. HeldAlertsExist'
      BY <1>2, <2>4 DEF AlertInv, HeldAlertsExist
    <2>8. OneOpenAlert'
      <3>1. OpenAlerts(i)' = {k}
        BY <1>8, <2>4 DEF OpenAlerts, NewAlert
      <3>2. \A j \in StockItem \ {i} : OpenAlerts(j)' = OpenAlerts(j)
        BY <2>4 DEF OpenAlerts, NewAlert
      <3> QED
        BY <1>4, <3>1, <3>2 DEF AlertInv, OneOpenAlert
    <2>9. ASSUME NEW n \in DOMAIN alerts
          PROVE  Explained(n)'
      BY <1>2, <1>6, <2>4, <2>9 DEF AlertInv, Explained
    <2>10. Explained(k)'
      <3>1. Sends(k) = {} /\ Tells(k) = {}
        BY <2>4 DEF AlertInv, HeldAlertsExist, Sends, Tells
      <3>2. Cardinality(Sends(k)') = 0 /\ Cardinality(Tells(k)') = 0
        BY <1>6, <3>1, FS_EmptySet
      <3>3. emailed'[k] = 0
        BY <1>2, <2>4, <2>5 DEF AlertInv, HeldAlertsExist
      <3>4. ~alerts'[k].sent /\ alerts'[k].attempts = 0
        BY <2>4 DEF NewAlert
      <3>5. restarts' \in Nat /\ Cardinality(Run) \in Nat /\ MAX_ATTEMPTS \in Nat \ {0}
        BY <1>2, RunsAreFinite, AlertNumbers DEF AlertInv
      <3> QED
        BY <3>2, <3>3, <3>4, <3>5 DEF Explained
    <2> QED
      BY <2>4, <2>6, <2>7, <2>8, <2>9, <2>10 DEF AlertInv
  <1>9. CASE ~(count > level[i] /\ count > min) /\ ~(used /\ count <= min /\ OpenAlerts(i) = {})
    <2>1. alerts' = alerts
      BY <1>1, <1>9 DEF QueueAlert
    <2>2. \A j \in StockItem : OpenAlerts(j)' = OpenAlerts(j)
      BY <2>1 DEF OpenAlerts
    <2>3. OneOpenAlert'
      BY <1>4, <1>9, <2>2 DEF AlertInv, OneOpenAlert
    <2>4. AlertTypeOK' /\ HeldAlertsExist'
      BY <1>2, <1>3, <2>1 DEF AlertInv, AlertTypeOK, HeldAlertsExist
    <2>5. \A n \in DOMAIN alerts : Explained(n)'
      BY <1>2, <1>6, <2>1 DEF AlertInv, Explained
    <2> QED
      BY <2>1, <2>3, <2>4, <2>5 DEF AlertInv
  <1> QED
    BY <1>7, <1>8, <1>9

-----------------------------------------------------------------------------
\* Nothing is low and nothing is queued at the start.
LEMMA AlertInvInitially == AlertInit => AlertInv
  <1> SUFFICES ASSUME AlertInit
               PROVE  AlertInv
    OBVIOUS
  <1>1. alerts = << >> /\ DOMAIN alerts = {} /\ Len(alerts) = 0 /\ alerts \in Seq(Alert)
    BY DEF AlertInit
  <1>2. AlertTypeOK
    <2>1. [op |-> "idle"] \in AlertRun
      BY DEF AlertRun
    <2> QED
      BY <1>1, <2>1, AlertAssumption DEF AlertInit, AlertTypeOK
  <1>3. HeldAlertsExist
    BY <1>1 DEF AlertInit, HeldAlertsExist
  <1>4. OneOpenAlert
    <2>1. ASSUME NEW i \in StockItem
          PROVE  OpenAlerts(i) = {} /\ i \notin LowItems
      <3>1. level[i] > minimum[i]
        BY DEF AlertInit
      <3>2. level[i] \in Level /\ minimum[i] \in Minima
        BY DEF AlertInit
      <3>3. Level \subseteq Int /\ Minima \subseteq Int
        BY AlertAssumption
      <3>4. level[i] \in Int /\ minimum[i] \in Int
        BY <3>2, <3>3
      <3> QED
        BY <1>1, <3>1, <3>4 DEF OpenAlerts, LowItems
    <2> QED
      BY <2>1 DEF OneOpenAlert
  <1> QED
    BY <1>1, <1>2, <1>3, <1>4 DEF AlertInv

\* One case per action.
LEMMA AlertInvKept == AlertInv /\ [AlertNext]_alertVars => AlertInv'
  <1> SUFFICES ASSUME AlertInv, [AlertNext]_alertVars
               PROVE  AlertInv'
    OBVIOUS
  <1>1. CASE UNCHANGED alertVars
    <2>1. OneOpenAlert'
      BY <1>1, OpenAlertsStay DEF alertVars, itemVars, AlertInv
    <2>2. AlertTypeOK' /\ HeldAlertsExist'
      BY <1>1 DEF alertVars, itemVars, AlertInv, AlertTypeOK, HeldAlertsExist
    <2>3. \A n \in DOMAIN alerts : Explained(n)'
      BY <1>1 DEF alertVars, AlertInv, Explained, Sends, Tells
    <2> QED
      BY <1>1, <2>1, <2>2, <2>3 DEF alertVars, AlertInv
  <1>2. ASSUME NEW i \in StockItem, UpdateItem(i)
        PROVE  AlertInv'
    BY <1>2, UpdateItemKeeps
  <1>3. ASSUME NEW r \in Run, BeginRun(r)
        PROVE  AlertInv'
    BY <1>3, BeginRunKeeps
  <1>4. ASSUME NEW r \in Run, SendEmail(r)
        PROVE  AlertInv'
    BY <1>4, SendEmailKeeps
  <1>5. ASSUME NEW r \in Run, MarkSent(r)
        PROVE  AlertInv'
    BY <1>5, MarkSentKeeps
  <1>6. ASSUME NEW r \in Run, CountAttempt(r)
        PROVE  AlertInv'
    BY <1>6, CountAttemptKeeps
  <1>7. ASSUME NEW r \in Run, CutOff(r)
        PROVE  AlertInv'
    BY <1>7, CutOffKeeps
  <1> QED
    BY <1>1, <1>2, <1>3, <1>4, <1>5, <1>6, <1>7 DEF AlertNext, RunStep

\* An item has at most one open alert: two that are its are the same.
LEMMA AlertInvExplains == AlertInv => AlertsAreExplained
  <1> SUFFICES ASSUME AlertInv
               PROVE  AlertsAreExplained
    OBVIOUS
  <1>1. LowItemsHaveOneAlert
    <2>1. ASSUME NEW i \in StockItem
          PROVE  Cardinality(OpenAlerts(i)) <= 1
      <3>1. CASE OpenAlerts(i) = {}
        BY <3>1, FS_EmptySet
      <3>2. CASE OpenAlerts(i) # {}
        <4>1. PICK n \in OpenAlerts(i) : OpenAlerts(i) = {n}
          BY <3>2 DEF AlertInv, OneOpenAlert
        <4>2. Cardinality({n}) = 1
          BY FS_Singleton
        <4> QED
          BY <4>1, <4>2
      <3> QED
        BY <3>1, <3>2
    <2> QED
      BY <2>1 DEF LowItemsHaveOneAlert, AlertInv, OneOpenAlert
  <1>2. RepeatsAreExplained
    <2>1. ASSUME NEW n \in DOMAIN alerts
          PROVE  /\ emailed[n] <= alerts[n].attempts + restarts + Cardinality(Run)
                 /\ alerts[n].attempts < MAX_ATTEMPTS + Cardinality(Run)
      BY AlertCounts DEF Explained
    <2> QED
      BY <2>1 DEF RepeatsAreExplained
  <1> QED
    BY <1>1, <1>2 DEF AlertsAreExplained

\* What the alerts are there for: a low item has exactly one open alert, and an
\* alert emailed again has a counted failure, a restart or an overlapping run to
\* explain it (the triggers of the last migration, sendLowStockAlerts).
THEOREM AlertsExplained == AlertSpec => []AlertsAreExplained
  <1>1. AlertSpec => []AlertInv
    BY AlertInvInitially, AlertInvKept, PTL DEF AlertSpec
  <1> QED
    BY <1>1, AlertInvExplains, PTL

\* For any number of items, alerts, runs and restarts: rows, runs and history
\* hold values of their types.
THEOREM AlertsTyped == AlertSpec => []AlertTypeOK
  <1>1. AlertInv => AlertTypeOK
    BY DEF AlertInv
  <1> QED
    BY <1>1, AlertInvInitially, AlertInvKept, PTL DEF AlertSpec

-----------------------------------------------------------------------------
(***************************************************************************)
(* Sign-in codes: for any number of accounts, sign-ins and requests.       *)
(***************************************************************************)

\* Requests that go on with a row they found, and those about a row that was just
\* created and whose first code is being emailed.
RowCalls == {"try", "use", "countAgain", "claim", "emailAgain"}
Emailing(r) == auth[r].op \in {"email", "forget"}

\* A row being emailed belongs to the request that created it, and to no other; the
\* others go on with rows that have been answered.
OwnRows ==
    /\ \A r \in AuthRequest : Emailing(r) => Stored(auth[r].row)
    /\ \A r, q \in AuthRequest : r # q /\ Emailing(r) /\ Emailing(q) => auth[r].row # auth[q].row
    /\ \A r \in AuthRequest : auth[r].op \in RowCalls => Answered(auth[r].row)

\* A row's tries and its use are what was compared and started for it.
TriesCounted ==
    \A s \in SignIn :
        /\ compared[s] <= MAX_WRONG_CODES /\ sessions[s] <= 1
        /\ Stored(s) => /\ compared[s] = signIn[s].attempts
                        /\ sessions[s] = IF signIn[s].used THEN 1 ELSE 0
        /\ ~Stored(s) /\ s \notin ended => compared[s] = 0 /\ sessions[s] = 0

\* A sign-in that can never be used any more.
Gone(t) == IF Stored(t) THEN ~Pending(signIn[t]) ELSE t \in ended

\* What was there when the older codes were revoked is gone.
OlderGone ==
    /\ \A s \in SignIn : \A t \in older[s] : Gone(t)
    /\ \A r \in AuthRequest : auth[r].op = "create" => \A t \in auth[r].older : Gone(t)

\* What was forgotten or ended by a change of the account is gone.
EndedGone == \A s \in ended : Stored(s) => ~Pending(signIn[s])

\* The inductive invariant of the sign-in codes.
SignInInv == SignInTypeOK /\ OwnRows /\ TriesCounted /\ OlderGone /\ EndedGone

\* What a request in progress holds.
LEMMA AuthKinds ==
    ASSUME NEW c \in AuthCalls
    PROVE  /\ c.op \in {"countFirst", "revokeOlder", "revokeAll"} => c.user \in Account /\ c.at \in Nat
           /\ c.op = "create" => c.user \in Account /\ c.at \in Nat /\ c.older \in SUBSET SignIn
           /\ c.op \in {"email", "forget"} => c = [op |-> c.op, row |-> c.row, at |-> c.at] /\ c.row \in SignIn /\ c.at \in Nat
           /\ c.op = "try" => c.row \in SignIn /\ c.right \in BOOLEAN
           /\ c.op = "use" => c.row \in SignIn
           /\ c.op \in {"countAgain", "claim", "emailAgain"} => 
                 c = [op |-> c.op, row |-> c.row, at |-> c.at, sends |-> c.sends] /\ c.row \in SignIn /\ c.at \in Nat /\ c.sends \in Nat
           /\ c.op \in {"countFirst", "revokeOlder", "revokeAll"} => c = [op |-> c.op, user |-> c.user, at |-> c.at]
  BY DEF AuthCalls, NoRequest

\* A stored row has its type.
LEMMA RowOf == ASSUME SignInTypeOK, NEW s \in SignIn, Stored(s) PROVE signIn[s] \in SignInRow
  BY DEF SignInTypeOK, Stored


\* A record with these fields is a row.
LEMMA MakeRow ==
    ASSUME NEW u \in Account, NEW a \in Nat, NEW n \in Nat, NEW at \in Nat, NEW e \in Nat,
           NEW d \in BOOLEAN, NEW v \in BOOLEAN
    PROVE  [user |-> u, attempts |-> a, sends |-> n, sentAt |-> at, expiresAt |-> e,
            used |-> d, revoked |-> v] \in SignInRow
  BY DEF SignInRow

\* No row is the absent one.
LEMMA RowIsStored == ASSUME NEW row \in SignInRow PROVE row # NoRow
  BY SignInAssumption DEF SignInRow

\* The fields of a row.
LEMMA RowFields ==
    ASSUME NEW row \in SignInRow
    PROVE  /\ row.user \in Account /\ row.attempts \in Nat /\ row.sends \in Nat /\ row.sentAt \in Nat
           /\ row.expiresAt \in Nat
           /\ row = [user |-> row.user, attempts |-> row.attempts, sends |-> row.sends, sentAt |-> row.sentAt,
                     expiresAt |-> row.expiresAt, used |-> row.used, revoked |-> row.revoked]
  BY DEF SignInRow

\* Its flags are Booleans.
LEMMA RowFlags == ASSUME NEW row \in SignInRow PROVE row.used \in BOOLEAN /\ row.revoked \in BOOLEAN
  BY Zenon DEF SignInRow

\* A try leaves a row.
LEMMA TriedRow == ASSUME NEW row \in SignInRow PROVE [row EXCEPT !.attempts = @ + 1] \in SignInRow
  BY DEF SignInRow

\* Using or revoking leaves a row.
LEMMA EndedRow ==
    ASSUME NEW row \in SignInRow
    PROVE  [row EXCEPT !.used = TRUE] \in SignInRow /\ [row EXCEPT !.revoked = TRUE] \in SignInRow
  BY Zenon DEF SignInRow

\* A resend leaves a row.
LEMMA ResentRow == ASSUME NEW row \in SignInRow, NEW at \in Nat PROVE Resent(row, at) \in SignInRow
  <1>1. ASSUME NEW n \in Nat, NEW e \in Nat
        PROVE  [row EXCEPT !.sends = n, !.sentAt = at, !.expiresAt = e] \in SignInRow
    BY DEF SignInRow
  <1>2. row.sends \in Nat
    BY DEF SignInRow
  <1>3. row.sends + 1 \in Nat /\ at + CODE_LIFE \in Nat
    BY <1>2, SignInAssumption
  <1>4. Resent(row, at) = [row EXCEPT !.sends = row.sends + 1, !.sentAt = at, !.expiresAt = at + CODE_LIFE]
    BY DEF Resent
  <1> QED BY <1>1, <1>3, <1>4

\* The next step of each request is one of the steps there are.
LEMMA CountedFirst ==
    ASSUME NEW c \in AuthCalls, c.op = "countFirst" PROVE [c EXCEPT !.op = "revokeOlder"] \in AuthCalls
  BY DEF AuthCalls, NoRequest

\* A first email that failed.
LEMMA FailedFirst ==
    ASSUME NEW c \in AuthCalls, c.op = "email" PROVE [c EXCEPT !.op = "forget"] \in AuthCalls
  BY DEF AuthCalls, NoRequest

\* A resend that is within the limit.
LEMMA CountedAgain ==
    ASSUME NEW c \in AuthCalls, c.op = "countAgain" PROVE [c EXCEPT !.op = "claim"] \in AuthCalls
  BY DEF AuthCalls, NoRequest

\* A resend that was claimed.
LEMMA ClaimedAgain ==
    ASSUME NEW c \in AuthCalls, c.op = "claim" PROVE [c EXCEPT !.op = "emailAgain"] \in AuthCalls
  BY DEF AuthCalls, NoRequest

\* A request that goes on leaves the requests their types.
LEMMA AuthTo ==
    ASSUME SignInTypeOK, NEW r \in AuthRequest, NEW c \in AuthCalls
    PROVE  [auth EXCEPT ![r] = c] \in [AuthRequest -> AuthCalls]
  BY DEF SignInTypeOK

\* An answered request holds nothing.
LEMMA NoneAuth == NoRequest \in AuthCalls
  BY DEF AuthCalls

\* One more email of a row there is leaves the emails their type.
LEMMA MailTyped ==
    ASSUME SignInTypeOK, NEW s \in SignIn, Stored(s), NEW n \in Nat, NEW at \in Nat, Mail(s, n, at)
    PROVE  mailed' \subseteq Emails
  <1>1. signIn[s].user \in Account
    BY RowOf, RowFields
  <1> QED BY <1>1 DEF Mail, Emails, SignInTypeOK

\* There are no rows and no requests.
LEMMA SignInInitInv == SignInInit => SignInInv
  <1> SUFFICES ASSUME SignInInit PROVE SignInInv
    OBVIOUS
  <1>1. SignInTypeOK
    BY SignInAssumption DEF SignInInit, SignInTypeOK, AuthCalls
  <1>2. OwnRows /\ TriesCounted /\ OlderGone /\ EndedGone
    BY SignInAssumption DEF SignInInit, OwnRows, TriesCounted, OlderGone, EndedGone, Emailing, RowCalls, NoRequest, Stored
  <1> QED BY <1>1, <1>2 DEF SignInInv

\* Every step leaves rows, requests and history their types.
LEMMA SignInTypeStep == SignInInv /\ [SignInNext]_signInVars => SignInTypeOK'
  <1> SUFFICES ASSUME SignInInv, [SignInNext]_signInVars PROVE SignInTypeOK'
    OBVIOUS
  <1> USE DEF SignInInv
  <1>0. CASE UNCHANGED signInVars
    BY <1>0 DEF signInVars, SignInTypeOK
  <1>1. CASE PassMinute
    BY <1>1 DEF PassMinute, SignInTypeOK, signInHistory
  <1>2. ASSUME NEW a \in Account, Reinstate(a) PROVE SignInTypeOK'
    BY <1>2 DEF Reinstate, SignInTypeOK, signInHistory
  <1>3. ASSUME NEW r \in AuthRequest, NEW a \in Account, LoginWithPassword(r, a) PROVE SignInTypeOK'
    <2>1. [op |-> "countFirst", user |-> a, at |-> minute] \in AuthCalls
      BY DEF SignInTypeOK, AuthCalls
    <2>2. auth' \in [AuthRequest -> AuthCalls]
      BY <1>3, <2>1, AuthTo DEF LoginWithPassword, GoOnAuth
    <2> QED BY <1>3, <2>2 DEF LoginWithPassword, SignInTypeOK, signInHistory
  <1>31. ASSUME NEW r \in AuthRequest, NEW a \in Account, UpdateStaffUser(r, a) PROVE SignInTypeOK'
    <2>1. [op |-> "revokeAll", user |-> a, at |-> minute] \in AuthCalls
      BY DEF SignInTypeOK, AuthCalls
    <2>2. auth' \in [AuthRequest -> AuthCalls]
      BY <1>31, <2>1, AuthTo DEF UpdateStaffUser, GoOnAuth
    <2>3. active' \in [Account -> BOOLEAN]
      BY <1>31, Zenon DEF UpdateStaffUser, SignInTypeOK
    <2>4. edits' \in Nat
      BY <1>31 DEF UpdateStaffUser, SignInTypeOK
    <2> QED BY <1>31, <2>2, <2>3, <2>4 DEF UpdateStaffUser, SignInTypeOK
  <1>4. ASSUME NEW r \in AuthRequest, NEW s \in SignIn, VerifyCode(r, s) \/ ResendCode(r, s)
        PROVE  SignInTypeOK'
    <2>1. signIn[s].sends \in Nat
      BY <1>4, RowOf, RowFields DEF VerifyCode, ResendCode, PendingChallenge, Answered
    <2>2. PICK c \in AuthCalls : auth' = [auth EXCEPT ![r] = c]
      <3>1. CASE VerifyCode(r, s)
        BY <3>1 DEF VerifyCode, GoOnAuth, AuthCalls
      <3>2. CASE ResendCode(r, s)
        BY <3>2, <2>1 DEF ResendCode, GoOnAuth, AuthCalls, SignInTypeOK
      <3> QED BY <1>4, <3>1, <3>2
    <2>3. auth' \in [AuthRequest -> AuthCalls]
      BY <2>2, AuthTo
    <2> QED BY <1>4, <2>3 DEF VerifyCode, ResendCode, SignInTypeOK, signInHistory
  <1>5. ASSUME NEW r \in AuthRequest, CountFirst(r) \/ CountAgain(r) PROVE SignInTypeOK'
    <2>1. auth[r] \in AuthCalls
      BY DEF SignInTypeOK
    <2>3. auth[r].op = "countFirst" => [auth[r] EXCEPT !.op = "revokeOlder"] \in AuthCalls
      BY <2>1, CountedFirst
    <2>4. auth[r].op = "countAgain" => [auth[r] EXCEPT !.op = "claim"] \in AuthCalls
      BY <2>1, CountedAgain
    <2>5. PICK c \in AuthCalls : auth' = [auth EXCEPT ![r] = c]
      BY <1>5, <2>3, <2>4, NoneAuth DEF CountFirst, CountAgain, GoOnAuth, Answer
    <2>6. auth' \in [AuthRequest -> AuthCalls]
      BY <2>5, AuthTo
    <2> QED BY <1>5, <2>6 DEF CountFirst, CountAgain, SignInTypeOK, signInHistory
  <1>6. ASSUME NEW r \in AuthRequest, RevokeOlder(r) \/ RevokeAll(r) PROVE SignInTypeOK'
    <2>1. auth[r] \in AuthCalls /\ auth[r].user \in Account
      BY <1>6, AuthKinds DEF SignInTypeOK, RevokeOlder, RevokeAll
    <2>2. signIn' \in [SignIn -> SignInRow \cup {NoRow}]
      <3>1. \A s \in SignIn : Stored(s) => [signIn[s] EXCEPT !.revoked = TRUE] \in SignInRow
        BY RowOf, EndedRow
      <3> QED BY <1>6, <3>1 DEF RevokeOlder, RevokeAll, RevokePendingCodes, PendingOf, SignInTypeOK
    <2>3. auth' \in [AuthRequest -> AuthCalls]
      <3>1. CASE RevokeAll(r)
        BY <3>1, NoneAuth, AuthTo DEF RevokeAll, Answer
      <3>2. CASE RevokeOlder(r)
        <4>1. ToCreate(auth[r]) \in AuthCalls
          BY <3>2, <2>1, AuthKinds DEF RevokeOlder, ToCreate, AuthCalls
        <4> QED BY <3>2, <4>1, AuthTo DEF RevokeOlder, GoOnAuth
      <3> QED BY <1>6, <3>1, <3>2
    <2>4. ended' \subseteq SignIn
      BY <1>6 DEF RevokeOlder, RevokeAll, SignInTypeOK, signInHistory
    <2> QED BY <1>6, <2>2, <2>3, <2>4 DEF RevokeOlder, RevokeAll, SignInTypeOK, signInHistory
  <1>7. ASSUME NEW r \in AuthRequest, CreateSignIn(r) PROVE SignInTypeOK'
    <2> DEFINE c == auth[r]
               s == CHOOSE n \in NewRows : TRUE
    <2>1. c.user \in Account /\ c.at \in Nat /\ c.older \in SUBSET SignIn
      BY <1>7, AuthKinds DEF CreateSignIn, SignInTypeOK
    <2>2. s \in SignIn
      BY <1>7 DEF CreateSignIn, NewRows
    <2>3. [op |-> "email", row |-> s, at |-> c.at] \in AuthCalls
      BY <2>1, <2>2 DEF AuthCalls
    <2>4. [user |-> c.user, attempts |-> 0, sends |-> 1, sentAt |-> c.at,
           expiresAt |-> c.at + CODE_LIFE, used |-> FALSE, revoked |-> FALSE] \in SignInRow
      BY <2>1, SignInAssumption DEF SignInRow
    <2> HIDE DEF c, s
    <2> QED BY <1>7, <2>1, <2>2, <2>3, <2>4 DEF CreateSignIn, GoOnAuth, SignInTypeOK, c, s
  <1>8. ASSUME NEW r \in AuthRequest, EmailFirst(r) \/ EmailAgain(r) PROVE SignInTypeOK'
    <2>1. auth[r] \in AuthCalls
      BY DEF SignInTypeOK
    <2>2. auth[r].op = "email" => [auth[r] EXCEPT !.op = "forget"] \in AuthCalls
      BY <2>1, FailedFirst
    <2>3. PICK c \in AuthCalls : auth' = [auth EXCEPT ![r] = c]
      BY <1>8, <2>2, NoneAuth DEF EmailFirst, EmailAgain, GoOnAuth, Answer
    <2>4. auth' \in [AuthRequest -> AuthCalls]
      BY <2>3, AuthTo
    <2>5. mailed' \subseteq Emails
      <3>1. CASE auth[r].op = "email" /\ Mail(auth[r].row, 1, auth[r].at)
        <4>1. auth[r].row \in SignIn /\ auth[r].at \in Nat /\ Stored(auth[r].row)
          BY <2>1, <3>1, AuthKinds DEF OwnRows, Emailing
        <4> QED BY <3>1, <4>1, MailTyped
      <3>2. CASE auth[r].op = "emailAgain" /\ Mail(auth[r].row, auth[r].sends + 1, auth[r].at)
        <4>1. /\ auth[r].row \in SignIn /\ auth[r].at \in Nat /\ auth[r].sends + 1 \in Nat
              /\ Stored(auth[r].row)
          BY <2>1, <3>2, AuthKinds DEF OwnRows, RowCalls, Answered
        <4> QED BY <3>2, <4>1, MailTyped
      <3>3. CASE UNCHANGED mailed
        BY <3>3 DEF SignInTypeOK
      <3> QED BY <1>8, <3>1, <3>2, <3>3 DEF EmailFirst, EmailAgain
    <2> QED BY <1>8, <2>4, <2>5 DEF EmailFirst, EmailAgain, SignInTypeOK
  <1>9. ASSUME NEW r \in AuthRequest, ForgetSignIn(r) PROVE SignInTypeOK'
    BY <1>9, AuthKinds DEF ForgetSignIn, Answer, SignInTypeOK, AuthCalls
  <1>10. ASSUME NEW r \in AuthRequest, TakeTry(r) \/ UseCode(r) \/ ClaimResend(r) PROVE SignInTypeOK'
    <2> DEFINE c == auth[r]
               s == auth[r].row
    <2>1. c \in AuthCalls /\ s \in SignIn /\ Stored(s)
      BY <1>10, AuthKinds DEF TakeTry, UseCode, ClaimResend, SignInTypeOK, OwnRows, RowCalls, Answered
    <2>2. signIn[s] \in SignInRow
      BY <2>1, RowOf
    <2>3. PICK row \in SignInRow : signIn' = [signIn EXCEPT ![s] = row]
      <3>1. CASE TakeTry(r)
        <4>2. [signIn[s] EXCEPT !.attempts = @ + 1] \in SignInRow
          BY <2>2, TriedRow
        <4> QED BY <2>1, <2>2, <3>1, <4>2 DEF TakeTry, SignInTypeOK
      <3>2. CASE UseCode(r)
        <4>1. [signIn[s] EXCEPT !.used = TRUE] \in SignInRow
          BY <2>2, EndedRow
        <4>2. signIn = [signIn EXCEPT ![s] = signIn[s]]
          BY <2>1 DEF SignInTypeOK
        <4>3. CASE CanUse(s)
          BY <3>2, <4>1, <4>3 DEF UseCode
        <4>4. CASE ~CanUse(s)
          BY <2>2, <3>2, <4>2, <4>4 DEF UseCode
        <4> QED BY <4>3, <4>4
      <3>3. CASE ClaimResend(r)
        <4>1. c.at \in Nat
          BY <2>1, <3>3, AuthKinds DEF ClaimResend
        <4>2. Resent(signIn[s], c.at) \in SignInRow
          BY <2>2, <4>1, ResentRow
        <4>3. signIn = [signIn EXCEPT ![s] = signIn[s]]
          BY <2>1 DEF SignInTypeOK
        <4>4. CASE CanClaim(c)
          BY <3>3, <4>2, <4>4 DEF ClaimResend
        <4>5. CASE ~CanClaim(c)
          BY <2>2, <3>3, <4>3, <4>5 DEF ClaimResend
        <4> QED BY <4>4, <4>5
      <3> QED BY <1>10, <3>1, <3>2, <3>3
    <2>4. PICK d \in AuthCalls : auth' = [auth EXCEPT ![r] = d]
      <3>1. c.op = "claim" => [c EXCEPT !.op = "emailAgain"] \in AuthCalls
        BY <2>1, ClaimedAgain
      <3>2. [op |-> "use", row |-> s] \in AuthCalls
        BY <2>1 DEF AuthCalls
      <3> QED BY <1>10, <3>1, <3>2, NoneAuth DEF TakeTry, UseCode, ClaimResend, GoOnAuth, Answer
    <2>5. auth' \in [AuthRequest -> AuthCalls]
      BY <2>4, AuthTo
    <2>6. signIn' \in [SignIn -> SignInRow \cup {NoRow}]
      BY <2>3 DEF SignInTypeOK
    <2>7. compared' \in [SignIn -> Nat]
      <3>1. compared[s] + 1 \in Nat
        BY <2>1 DEF SignInTypeOK
      <3> QED BY <1>10, <3>1 DEF TakeTry, UseCode, ClaimResend, SignInTypeOK, signInHistory
    <2>8. sessions' \in [SignIn -> Nat]
      <3>1. sessions[s] + 1 \in Nat
        BY <2>1 DEF SignInTypeOK
      <3> QED BY <1>10, <3>1 DEF TakeTry, UseCode, ClaimResend, SignInTypeOK, signInHistory
    <2> QED BY <1>10, <2>5, <2>6, <2>7, <2>8 DEF TakeTry, UseCode, ClaimResend, SignInTypeOK, signInHistory
  <1> QED BY <1>0, <1>1, <1>2, <1>3, <1>31, <1>4, <1>5, <1>6, <1>7, <1>8, <1>9, <1>10 DEF SignInNext

\* A request goes on: rows stay, and whatever it does next it does to a row of its own.
LEMMA OwnAfter ==
    ASSUME SignInTypeOK, OwnRows, NEW r \in AuthRequest, NEW c \in AuthCalls,
           auth' = [auth EXCEPT ![r] = c],
           \A s \in SignIn : Stored(s) => Stored(s)',
           c.op \in {"email", "forget"} =>
              /\ Stored(c.row)'
              /\ \A q \in AuthRequest \ {r} :
                    Emailing(q) \/ auth[q].op \in RowCalls => auth[q].row # c.row,
           c.op \in RowCalls => Answered(c.row)
    PROVE  OwnRows'
  <1>1. auth'[r] = c /\ \A q \in AuthRequest \ {r} : auth'[q] = auth[q]
    BY DEF SignInTypeOK
  <1>2. \A q \in AuthRequest : auth[q] \in AuthCalls
    BY DEF SignInTypeOK
  <1>3. \A q \in AuthRequest : Emailing(q)' => Stored(auth[q].row)'
    BY <1>1, <1>2, AuthKinds DEF OwnRows, Emailing
  <1>4. \A p, q \in AuthRequest : p # q /\ Emailing(p)' /\ Emailing(q)' => auth'[p].row # auth'[q].row
    BY <1>1 DEF OwnRows, Emailing
  <1>5. ASSUME NEW q \in AuthRequest, auth'[q].op \in RowCalls
        PROVE  Answered(auth[q].row)'
    <2>1. Answered(auth'[q].row) /\ auth'[q].row \in SignIn
      <3>1. CASE q = r
        BY <1>1, <1>5, <3>1, AuthKinds DEF RowCalls
      <3>2. CASE q # r
        BY <1>1, <1>2, <1>5, <3>2, AuthKinds DEF RowCalls, OwnRows
      <3> QED BY <3>1, <3>2
    <2>2. \A p \in AuthRequest : auth'[p].op \in {"email", "forget"} => auth'[p].row # auth'[q].row
      <3>1. ASSUME NEW p \in AuthRequest, p # r, auth'[p].op \in {"email", "forget"}
            PROVE  auth'[p].row # auth'[q].row
        BY <1>1, <2>1, <3>1 DEF Answered
      <3>2. auth'[r].op \in {"email", "forget"} => auth'[r].row # auth'[q].row
        BY <1>1, <1>5 DEF RowCalls
      <3> QED BY <3>1, <3>2
    <2> QED BY <2>1, <2>2 DEF Answered
  <1> QED BY <1>3, <1>4, <1>5 DEF OwnRows

\* Revoking ends the pending rows of the account, and changes nothing else.
LEMMA RevokedRows ==
    ASSUME SignInTypeOK, NEW a, RevokePendingCodes(a), NEW s \in SignIn
    PROVE  /\ Stored(s)' <=> Stored(s)
           /\ Stored(s) => /\ signIn'[s].attempts = signIn[s].attempts
                           /\ signIn'[s].used = signIn[s].used
           /\ Stored(s) /\ ~Pending(signIn[s]) => ~Pending(signIn'[s])
           /\ Stored(s) /\ signIn[s].user = a => ~Pending(signIn'[s])
  <1>1. CASE s \in PendingOf(a)
    <2>1. signIn'[s] = [signIn[s] EXCEPT !.revoked = TRUE] /\ Stored(s)
      BY <1>1 DEF RevokePendingCodes, PendingOf
    <2>2. signIn[s] \in SignInRow
      BY <2>1, RowOf
    <2>3. signIn'[s].revoked
      BY <2>1, <2>2, Zenon DEF SignInRow
    <2>4. signIn'[s].attempts = signIn[s].attempts /\ signIn'[s].used = signIn[s].used
      BY <2>1, <2>2 DEF SignInRow
    <2>5. signIn'[s] \in SignInRow
      BY <2>1, <2>2, EndedRow
    <2>6. signIn'[s] # NoRow
      BY <2>5, SignInAssumption DEF SignInRow
    <2> QED BY <2>1, <2>3, <2>4, <2>6 DEF Pending, Stored
  <1>2. CASE s \notin PendingOf(a)
    <2>1. signIn'[s] = signIn[s]
      BY <1>2 DEF RevokePendingCodes
    <2> QED BY <1>2, <2>1 DEF PendingOf, Stored
  <1> QED BY <1>1, <1>2

\* A try, a use or a resend keeps its row, and takes back no end.
LEMMA SignedRows ==
    ASSUME SignInTypeOK, NEW r \in AuthRequest, TakeTry(r) \/ UseCode(r) \/ ClaimResend(r),
           NEW s \in SignIn, s = auth[r].row, Stored(s)
    PROVE  /\ Stored(s)'
           /\ signIn'[s].revoked = signIn[s].revoked
           /\ signIn[s].used => signIn'[s].used
  <1> DEFINE c == auth[r]
  <1>1. signIn[s] \in SignInRow /\ c \in AuthCalls
    BY RowOf DEF SignInTypeOK
  <1>2. CASE UNCHANGED signIn
    BY <1>2 DEF Stored
  <1>3. CASE TakeTry(r) /\ signIn' = [signIn EXCEPT ![s].attempts = @ + 1]
    <2>1. signIn'[s] = [signIn[s] EXCEPT !.attempts = @ + 1]
      BY <1>3 DEF SignInTypeOK
    <2>3. signIn'[s] \in SignInRow
      BY <1>1, <2>1, TriedRow
    <2>4. signIn'[s].revoked = signIn[s].revoked /\ signIn'[s].used = signIn[s].used
      BY <1>1, <2>1 DEF SignInRow
    <2> QED BY <2>3, <2>4, RowIsStored DEF Stored
  <1>4. CASE UseCode(r) /\ signIn' = [signIn EXCEPT ![s].used = TRUE]
    <2>1. signIn'[s] = [signIn[s] EXCEPT !.used = TRUE]
      BY <1>4 DEF SignInTypeOK
    <2>2. signIn'[s] \in SignInRow
      BY <1>1, <2>1, EndedRow
    <2>3. signIn'[s].revoked = signIn[s].revoked
      BY <1>1, <2>1 DEF SignInRow
    <2>4. signIn'[s].used
      BY <1>1, <2>1, Zenon DEF SignInRow
    <2> QED BY <2>2, <2>3, <2>4, RowIsStored DEF Stored
  <1>5. CASE ClaimResend(r) /\ signIn' = [signIn EXCEPT ![s] = Resent(signIn[s], c.at)]
    <2>1. signIn'[s] = Resent(signIn[s], c.at)
      BY <1>5 DEF SignInTypeOK
    <2>2. c.at \in Nat
      BY <1>1, <1>5, AuthKinds DEF ClaimResend
    <2>3. signIn'[s] \in SignInRow
      BY <1>1, <2>1, <2>2, ResentRow
    <2>4. signIn'[s].revoked = signIn[s].revoked /\ signIn'[s].used = signIn[s].used
      BY <1>1, <2>1 DEF SignInRow, Resent
    <2> QED BY <2>3, <2>4, RowIsStored DEF Stored
  <1> QED BY <1>2, <1>3, <1>4, <1>5 DEF TakeTry, UseCode, ClaimResend

\* Every step leaves every row to the request it belongs to.
LEMMA OwnRowsStep == SignInInv /\ [SignInNext]_signInVars => OwnRows'
  <1> SUFFICES ASSUME SignInInv, [SignInNext]_signInVars PROVE OwnRows'
    OBVIOUS
  <1> USE DEF SignInInv
  <1>0. ASSUME UNCHANGED <<signIn, auth>> PROVE OwnRows'
    BY <1>0 DEF OwnRows, Emailing, Stored, Answered
  <1>1. \A q \in AuthRequest : auth[q] \in AuthCalls
    BY DEF SignInTypeOK
  <1>2. ASSUME UNCHANGED signIn PROVE \A s \in SignIn : Stored(s) => Stored(s)'
    BY <1>2 DEF Stored
  <1>3. ASSUME NEW r \in AuthRequest, NEW a \in Account, LoginWithPassword(r, a) \/ UpdateStaffUser(r, a)
        PROVE  OwnRows'
    <2>1. PICK c \in AuthCalls : auth' = [auth EXCEPT ![r] = c] /\ c.op \in {"countFirst", "revokeAll"}
      <3>1. minute \in Nat
        BY DEF SignInTypeOK
      <3>2. /\ [op |-> "countFirst", user |-> a, at |-> minute] \in AuthCalls
            /\ [op |-> "revokeAll", user |-> a, at |-> minute] \in AuthCalls
        BY <3>1 DEF AuthCalls
      <3> QED BY <1>3, <3>2 DEF LoginWithPassword, UpdateStaffUser, GoOnAuth
    <2>2. UNCHANGED signIn
      BY <1>3 DEF LoginWithPassword, UpdateStaffUser
    <2> QED BY <1>2, <2>1, <2>2, OwnAfter DEF RowCalls
  <1>4. ASSUME NEW r \in AuthRequest, NEW s \in SignIn, VerifyCode(r, s) \/ ResendCode(r, s)
        PROVE  OwnRows'
    <2>1. Answered(s) /\ signIn[s].sends \in Nat /\ UNCHANGED signIn
      BY <1>4, RowOf, RowFields DEF VerifyCode, ResendCode, PendingChallenge, Answered
    <2>2. PICK c \in AuthCalls : auth' = [auth EXCEPT ![r] = c] /\ c.op \in {"try", "countAgain"} /\ c.row = s
      <3>1. CASE VerifyCode(r, s)
        <4>1. PICK right \in BOOLEAN : GoOnAuth(r, [op |-> "try", row |-> s, right |-> right])
          BY <3>1 DEF VerifyCode
        <4>2. [op |-> "try", row |-> s, right |-> right] \in AuthCalls
          BY <4>1 DEF AuthCalls
        <4> QED BY <4>1, <4>2 DEF GoOnAuth
      <3>2. CASE ResendCode(r, s)
        <4>1. minute \in Nat
          BY DEF SignInTypeOK
        <4>2. [op |-> "countAgain", row |-> s, at |-> minute, sends |-> signIn[s].sends] \in AuthCalls
          BY <2>1, <4>1 DEF AuthCalls
        <4> QED BY <3>2, <4>2 DEF ResendCode, GoOnAuth
      <3> QED BY <1>4, <3>1, <3>2
    <2> QED BY <1>2, <2>1, <2>2, OwnAfter
  <1>5. ASSUME NEW r \in AuthRequest, Answer(r), \A s \in SignIn : Stored(s) => Stored(s)'
        PROVE  OwnRows'
    <2>1. NoRequest.op \notin RowCalls \cup {"email", "forget"}
      BY DEF NoRequest, RowCalls
    <2> QED BY <1>5, <2>1, NoneAuth, OwnAfter DEF Answer
  <1>6. ASSUME NEW r \in AuthRequest, CountFirst(r) \/ CountAgain(r) \/ EmailFirst(r) \/ EmailAgain(r)
        PROVE  OwnRows'
    <2>1. auth[r] \in AuthCalls /\ UNCHANGED signIn
      BY <1>1, <1>6 DEF CountFirst, CountAgain, EmailFirst, EmailAgain
    <2>2. CASE Answer(r)
      BY <1>2, <1>5, <2>1, <2>2
    <2>3. CASE auth[r].op = "countFirst" /\ GoOnAuth(r, [auth[r] EXCEPT !.op = "revokeOlder"])
      <3>1. [auth[r] EXCEPT !.op = "revokeOlder"] \in AuthCalls
        BY <2>1, <2>3, CountedFirst
      <3>2. [auth[r] EXCEPT !.op = "revokeOlder"].op = "revokeOlder"
        BY <2>1, <2>3 DEF AuthCalls, NoRequest
      <3> QED BY <1>2, <2>1, <2>3, <3>1, <3>2, OwnAfter DEF GoOnAuth, RowCalls
    <2>4. CASE auth[r].op = "countAgain" /\ GoOnAuth(r, [auth[r] EXCEPT !.op = "claim"])
      <3>1. [auth[r] EXCEPT !.op = "claim"] \in AuthCalls
        BY <2>1, <2>4, CountedAgain
      <3>2. [auth[r] EXCEPT !.op = "claim"].op = "claim" /\ [auth[r] EXCEPT !.op = "claim"].row = auth[r].row
        BY <2>1, <2>4 DEF AuthCalls, NoRequest
      <3>3. Answered(auth[r].row)
        BY <2>4 DEF OwnRows, RowCalls
      <3> QED BY <1>2, <2>1, <2>4, <3>1, <3>2, <3>3, OwnAfter DEF GoOnAuth, RowCalls
    <2>5. CASE auth[r].op = "email" /\ GoOnAuth(r, [auth[r] EXCEPT !.op = "forget"])
      <3>1. [auth[r] EXCEPT !.op = "forget"] \in AuthCalls
        BY <2>1, <2>5, FailedFirst
      <3>2. [auth[r] EXCEPT !.op = "forget"].op = "forget" /\ [auth[r] EXCEPT !.op = "forget"].row = auth[r].row
        BY <2>1, <2>5 DEF AuthCalls, NoRequest
      <3>3. signIn'[auth[r].row] # NoRow /\ Emailing(r)
        BY <2>1, <2>5 DEF OwnRows, Emailing, Stored
      <3>4. \A q \in AuthRequest \ {r} :
               Emailing(q) \/ auth[q].op \in RowCalls => auth[q].row # auth[r].row
        BY <3>3 DEF OwnRows, Answered, Emailing
      <3>5. PICK c \in AuthCalls : /\ auth' = [auth EXCEPT ![r] = c] /\ c.op = "forget"
                                  /\ c.row = auth[r].row
        BY <2>5, <3>1, <3>2 DEF GoOnAuth
      <3>6. Stored(c.row)'
        BY <3>3, <3>5 DEF Stored
      <3> QED BY <1>2, <2>1, <3>4, <3>5, <3>6, OwnAfter DEF RowCalls
    <2> QED BY <1>6, <2>2, <2>3, <2>4, <2>5 DEF CountFirst, CountAgain, EmailFirst, EmailAgain
  <1>7. ASSUME NEW r \in AuthRequest, RevokeOlder(r) \/ RevokeAll(r) PROVE OwnRows'
    <2>1. \A s \in SignIn : Stored(s) => Stored(s)'
      BY <1>7, RevokedRows DEF RevokeOlder, RevokeAll
    <2>2. CASE RevokeAll(r)
      BY <1>5, <2>1, <2>2 DEF RevokeAll
    <2>3. CASE RevokeOlder(r)
      <3>1. ToCreate(auth[r]) \in AuthCalls /\ ToCreate(auth[r]).op = "create"
        BY <1>1, <2>3, AuthKinds DEF RevokeOlder, ToCreate, AuthCalls
      <3> QED BY <2>1, <2>3, <3>1, OwnAfter DEF RevokeOlder, GoOnAuth, RowCalls
    <2> QED BY <1>7, <2>2, <2>3
  <1>8. ASSUME NEW r \in AuthRequest, CreateSignIn(r) PROVE OwnRows'
    <2>1. PICK s \in NewRows :
             /\ signIn' = [signIn EXCEPT ![s] =
                  [user |-> auth[r].user, attempts |-> 0, sends |-> 1, sentAt |-> auth[r].at,
                   expiresAt |-> auth[r].at + CODE_LIFE, used |-> FALSE, revoked |-> FALSE]]
             /\ auth' = [auth EXCEPT ![r] = [op |-> "email", row |-> s, at |-> auth[r].at]]
      BY <1>8 DEF CreateSignIn, GoOnAuth
    <2>2. auth[r].at \in Nat /\ auth[r].user \in Account /\ s \in SignIn /\ ~Stored(s)
      BY <1>1, <1>8, AuthKinds DEF CreateSignIn, NewRows
    <2>3. [op |-> "email", row |-> s, at |-> auth[r].at] \in AuthCalls
      BY <2>2 DEF AuthCalls
    <2>4. Stored(s)' /\ \A t \in SignIn : Stored(t) => Stored(t)'
      <3>1. auth[r].at + CODE_LIFE \in Nat
        BY <2>2, SignInAssumption
      <3>2. signIn'[s] \in SignInRow
        BY <2>1, <2>2, <3>1, MakeRow DEF SignInTypeOK
      <3>3. signIn'[s] # NoRow
        BY <3>2, SignInAssumption DEF SignInRow
      <3> QED BY <2>1, <2>2, <3>3 DEF Stored, SignInTypeOK
    <2>5. \A q \in AuthRequest \ {r} : Emailing(q) \/ auth[q].op \in RowCalls => auth[q].row # s
      BY <2>2 DEF OwnRows, Answered
    <2> QED BY <2>1, <2>2, <2>3, <2>4, <2>5, OwnAfter DEF RowCalls
  <1>9. ASSUME NEW r \in AuthRequest, ForgetSignIn(r) PROVE OwnRows'
    <2> DEFINE x == auth[r].row
    <2>1. auth[r].op = "forget" /\ Emailing(r) /\ x \in SignIn
      BY <1>1, <1>9, AuthKinds DEF ForgetSignIn, Emailing
    <2>2. auth'[r] = NoRequest /\ \A q \in AuthRequest \ {r} : auth'[q] = auth[q]
      BY <1>9 DEF ForgetSignIn, Answer, SignInTypeOK
    <2>3. \A s \in SignIn \ {x} : signIn'[s] = signIn[s]
      BY <1>9, <2>1 DEF ForgetSignIn, SignInTypeOK
    <2>4. \A q \in AuthRequest \ {r} :
             /\ Emailing(q) => auth[q].row \in SignIn \ {x}
             /\ auth[q].op \in RowCalls => auth[q].row \in SignIn \ {x}
      BY <1>1, <2>1, AuthKinds DEF OwnRows, Emailing, Answered, RowCalls
    <2>5. NoRequest.op \notin RowCalls \cup {"email", "forget"}
      BY DEF NoRequest, RowCalls
    <2>6. \A q \in AuthRequest : Emailing(q)' => Stored(auth[q].row)' /\ q # r
      BY <2>2, <2>3, <2>4, <2>5 DEF OwnRows, Emailing, Stored
    <2>7. \A p, q \in AuthRequest : p # q /\ Emailing(p)' /\ Emailing(q)' => auth'[p].row # auth'[q].row
      BY <2>2, <2>6 DEF OwnRows, Emailing
    <2>8. ASSUME NEW q \in AuthRequest, auth'[q].op \in RowCalls PROVE Answered(auth[q].row)'
      <3>1. q # r /\ auth'[q] = auth[q] /\ Answered(auth[q].row) /\ auth[q].row \in SignIn \ {x}
        BY <2>2, <2>4, <2>5, <2>8 DEF OwnRows
      <3>2. Stored(auth[q].row)'
        BY <2>3, <3>1 DEF Answered, Stored
      <3>3. \A p \in AuthRequest : auth'[p].op \in {"email", "forget"} => auth'[p].row # auth'[q].row
        BY <2>2, <2>5, <3>1 DEF Answered
      <3> QED BY <3>2, <3>3 DEF Answered
    <2> QED BY <2>6, <2>7, <2>8 DEF OwnRows
  <1>10. ASSUME NEW r \in AuthRequest, TakeTry(r) \/ UseCode(r) \/ ClaimResend(r) PROVE OwnRows'
    <2> DEFINE s == auth[r].row
    <2>1. auth[r] \in AuthCalls /\ s \in SignIn /\ Answered(s) /\ Stored(s)
      BY <1>1, <1>10, AuthKinds DEF TakeTry, UseCode, ClaimResend, OwnRows, RowCalls, Answered
    <2>2. \A t \in SignIn \ {s} : signIn'[t] = signIn[t]
      BY <1>10, <2>1 DEF TakeTry, UseCode, ClaimResend, SignInTypeOK
    <2>3. signIn'[s] # NoRow
      <3>1. PICK t \in SignIn : t = s
        BY <2>1
      <3>2. Stored(t)'
        BY <1>10, <2>1, <3>1, SignedRows
      <3> QED BY <3>1, <3>2 DEF Stored
    <2>4. \A t \in SignIn : Stored(t) => Stored(t)'
      BY <2>2, <2>3 DEF Stored
    <2>5. CASE Answer(r)
      BY <1>5, <2>4, <2>5
    <2>6. CASE TakeTry(r) /\ GoOnAuth(r, [op |-> "use", row |-> s])
      <3>1. [op |-> "use", row |-> s] \in AuthCalls
        BY <2>1 DEF AuthCalls
      <3> QED BY <2>1, <2>4, <2>6, <3>1, OwnAfter DEF GoOnAuth, RowCalls
    <2>7. CASE auth[r].op = "claim" /\ GoOnAuth(r, [auth[r] EXCEPT !.op = "emailAgain"])
      <3>1. [auth[r] EXCEPT !.op = "emailAgain"] \in AuthCalls
        BY <2>1, <2>7, ClaimedAgain
      <3>2. /\ [auth[r] EXCEPT !.op = "emailAgain"].op = "emailAgain"
            /\ [auth[r] EXCEPT !.op = "emailAgain"].row = s
        BY <2>1, <2>7 DEF AuthCalls, NoRequest
      <3> QED BY <2>1, <2>4, <2>7, <3>1, <3>2, OwnAfter DEF GoOnAuth, RowCalls
    <2> QED BY <1>10, <2>5, <2>6, <2>7 DEF TakeTry, UseCode, ClaimResend
  <1> QED BY <1>0, <1>3, <1>4, <1>6, <1>7, <1>8, <1>9, <1>10
          DEF SignInNext, signInVars, PassMinute, Reinstate

\* Every step counts the tries and the sessions it makes.
LEMMA TriesCountedStep == SignInInv /\ [SignInNext]_signInVars => TriesCounted'
  <1> SUFFICES ASSUME SignInInv, [SignInNext]_signInVars PROVE TriesCounted'
    OBVIOUS
  <1> USE DEF SignInInv
  <1>0. ASSUME UNCHANGED <<signIn, compared, sessions, ended>> PROVE TriesCounted'
    BY <1>0 DEF TriesCounted, Stored
  <1>1. ASSUME NEW r \in AuthRequest, RevokeOlder(r) \/ RevokeAll(r) PROVE TriesCounted'
    <2>1. UNCHANGED <<compared, sessions>> /\ ended \subseteq ended'
      BY <1>1 DEF RevokeOlder, RevokeAll, signInHistory
    <2>2. ASSUME NEW s \in SignIn
          PROVE  /\ Stored(s)' <=> Stored(s)
                 /\ Stored(s) => /\ signIn'[s].attempts = signIn[s].attempts
                                 /\ signIn'[s].used = signIn[s].used
      BY <1>1, RevokedRows DEF RevokeOlder, RevokeAll
    <2>3. ASSUME NEW s \in SignIn, Stored(s)
          PROVE  compared'[s] = signIn'[s].attempts /\ sessions'[s] = IF signIn'[s].used THEN 1 ELSE 0
      BY <2>1, <2>2, <2>3 DEF TriesCounted
    <2> QED BY <2>1, <2>2, <2>3 DEF TriesCounted
  <1>2. ASSUME NEW r \in AuthRequest, CreateSignIn(r) PROVE TriesCounted'
    <2>1. PICK s \in NewRows :
             signIn' = [signIn EXCEPT ![s] =
                  [user |-> auth[r].user, attempts |-> 0, sends |-> 1, sentAt |-> auth[r].at,
                   expiresAt |-> auth[r].at + CODE_LIFE, used |-> FALSE, revoked |-> FALSE]]
      BY <1>2 DEF CreateSignIn
    <2>2. s \in SignIn /\ ~Stored(s) /\ s \notin ended
      BY DEF NewRows
    <2>3. compared[s] = 0 /\ sessions[s] = 0
      BY <2>2 DEF TriesCounted
    <2>4. UNCHANGED <<compared, sessions, ended>>
      BY <1>2 DEF CreateSignIn
    <2>5. signIn'[s].attempts = 0 /\ ~signIn'[s].used /\ \A t \in SignIn \ {s} : signIn'[t] = signIn[t]
      BY <2>1, <2>2 DEF SignInTypeOK
    <2>6. Stored(s)'
      <3>1. SignInTypeOK'
        BY SignInTypeStep
      <3>2. DOMAIN signIn'[s] = {"user", "attempts", "sends", "sentAt", "expiresAt", "used", "revoked"}
        BY <2>1, <2>2 DEF SignInTypeOK
      <3>3. auth[r].user \in Account /\ auth[r].at \in Nat
        BY <1>2, AuthKinds DEF CreateSignIn, SignInTypeOK
      <3>4. auth[r].at + CODE_LIFE \in Nat
        BY <3>3, SignInAssumption
      <3>5. signIn'[s] \in SignInRow
        BY <2>1, <2>2, <3>3, <3>4, MakeRow DEF SignInTypeOK
      <3> QED BY <3>5, RowIsStored DEF Stored
    <2> QED BY <2>2, <2>3, <2>4, <2>5, <2>6 DEF TriesCounted, Stored
  <1>3. ASSUME NEW r \in AuthRequest, ForgetSignIn(r) PROVE TriesCounted'
    <2>1. /\ auth[r].row \in SignIn
          /\ signIn'[auth[r].row] = NoRow
          /\ \A t \in SignIn \ {auth[r].row} : signIn'[t] = signIn[t]
      BY <1>3, AuthKinds DEF ForgetSignIn, SignInTypeOK
    <2>2. ended' = ended \cup {auth[r].row} /\ UNCHANGED <<compared, sessions>>
      BY <1>3 DEF ForgetSignIn
    <2> QED BY <2>1, <2>2 DEF TriesCounted, Stored
  <1>4. ASSUME NEW r \in AuthRequest, TakeTry(r) \/ UseCode(r) \/ ClaimResend(r) PROVE TriesCounted'
    <2> DEFINE c == auth[r]
    <2>1. PICK s \in SignIn : s = auth[r].row /\ Stored(s)
      BY <1>4, AuthKinds DEF TakeTry, UseCode, ClaimResend, SignInTypeOK, OwnRows, RowCalls, Answered
    <2>2. Stored(s)' /\ signIn[s] \in SignInRow
      BY <1>4, <2>1, SignedRows, RowOf
    <2>3. UNCHANGED ended /\ \A t \in SignIn \ {s} : /\ signIn'[t] = signIn[t]
                                                     /\ compared'[t] = compared[t]
                                                     /\ sessions'[t] = sessions[t]
      BY <1>4, <2>1 DEF TakeTry, UseCode, ClaimResend, SignInTypeOK, signInHistory
    <2>4. /\ compared[s] = signIn[s].attempts /\ compared[s] <= MAX_WRONG_CODES /\ sessions[s] <= 1
          /\ sessions[s] = IF signIn[s].used THEN 1 ELSE 0
      BY <2>1 DEF TriesCounted
    <2>5. /\ compared'[s] = signIn'[s].attempts /\ compared'[s] <= MAX_WRONG_CODES /\ sessions'[s] <= 1
          /\ sessions'[s] = IF signIn'[s].used THEN 1 ELSE 0
      <3>1. CASE UNCHANGED <<signIn, compared, sessions>>
        BY <2>4, <3>1
      <3>2. CASE TakeTry(r) /\ CanTry(s)
        <4>1. signIn'[s] = [signIn[s] EXCEPT !.attempts = @ + 1]
          BY <2>1, <3>2 DEF TakeTry, SignInTypeOK
        <4>2. signIn'[s].attempts = signIn[s].attempts + 1 /\ signIn'[s].used = signIn[s].used
          BY <2>2, <4>1 DEF SignInRow
        <4>3. compared'[s] = compared[s] + 1 /\ sessions'[s] = sessions[s]
          BY <2>1, <3>2 DEF TakeTry, SignInTypeOK
        <4>4. compared[s] < MAX_WRONG_CODES /\ compared[s] \in Nat
          BY <2>4, <3>2 DEF CanTry, SignInTypeOK
        <4>5. compared'[s] <= MAX_WRONG_CODES
          BY <4>3, <4>4, SignInAssumption
        <4> QED BY <2>4, <4>2, <4>3, <4>5
      <3>3. CASE UseCode(r) /\ CanUse(s)
        <4>1. signIn'[s] = [signIn[s] EXCEPT !.used = TRUE]
          BY <2>1, <3>3 DEF UseCode, SignInTypeOK
        <4>2. signIn'[s].attempts = signIn[s].attempts
          BY <2>2, <4>1 DEF SignInRow
        <4>3. signIn'[s].used
          BY <2>2, <4>1, Zenon DEF SignInRow
        <4>4. sessions[s] = 0
          BY <2>4, <3>3 DEF CanUse, Usable, Pending
        <4>5. compared'[s] = compared[s] /\ sessions'[s] = sessions[s] + 1
          BY <2>1, <3>3 DEF UseCode, SignInTypeOK
        <4> QED BY <2>4, <4>2, <4>3, <4>4, <4>5
      <3>4. CASE ClaimResend(r) /\ CanClaim(c)
        <4>1. signIn'[s] = Resent(signIn[s], c.at)
          BY <2>1, <3>4 DEF ClaimResend, SignInTypeOK
        <4>2. signIn'[s].attempts = signIn[s].attempts /\ signIn'[s].used = signIn[s].used
          BY <2>2, <4>1 DEF SignInRow, Resent
        <4>3. UNCHANGED <<compared, sessions>>
          BY <3>4 DEF ClaimResend, signInHistory
        <4> QED BY <2>4, <4>2, <4>3
      <3> QED BY <1>4, <2>1, <3>1, <3>2, <3>3, <3>4 DEF TakeTry, UseCode, ClaimResend, signInHistory
    <2> QED BY <2>1, <2>2, <2>3, <2>5 DEF TriesCounted, Stored
  <1> QED BY <1>0, <1>1, <1>2, <1>3, <1>4
          DEF SignInNext, signInVars, signInHistory, PassMinute, Reinstate, LoginWithPassword, UpdateStaffUser,
              VerifyCode, ResendCode, CountFirst, CountAgain, EmailFirst, EmailAgain

\* What is over stays over: a row that is gone or ended is never pending again.
LEMMA GoneStays ==
    ASSUME SignInInv, [SignInNext]_signInVars, NEW s \in SignIn, Gone(s)
    PROVE  Gone(s)'
  <1> USE DEF SignInInv
  <1>0. ASSUME UNCHANGED <<signIn, ended>> PROVE Gone(s)'
    BY <1>0 DEF Gone, Stored
  <1>1. ASSUME NEW r \in AuthRequest, RevokeOlder(r) \/ RevokeAll(r) PROVE Gone(s)'
    <2>1. /\ Stored(s)' <=> Stored(s)
          /\ Stored(s) /\ ~Pending(signIn[s]) => ~Pending(signIn'[s])
      BY <1>1, RevokedRows DEF RevokeOlder, RevokeAll
    <2>2. ended \subseteq ended'
      BY <1>1 DEF RevokeOlder, RevokeAll, signInHistory
    <2> QED BY <2>1, <2>2 DEF Gone
  <1>2. ASSUME NEW r \in AuthRequest, CreateSignIn(r) PROVE Gone(s)'
    <2>1. PICK n \in NewRows :
             signIn' = [signIn EXCEPT ![n] =
                  [user |-> auth[r].user, attempts |-> 0, sends |-> 1, sentAt |-> auth[r].at,
                   expiresAt |-> auth[r].at + CODE_LIFE, used |-> FALSE, revoked |-> FALSE]]
      BY <1>2 DEF CreateSignIn
    <2>2. n # s
      BY DEF NewRows, Gone
    <2>3. signIn'[s] = signIn[s] /\ UNCHANGED ended
      BY <1>2, <2>1, <2>2 DEF CreateSignIn, SignInTypeOK
    <2> QED BY <2>3 DEF Gone, Stored
  <1>3. ASSUME NEW r \in AuthRequest, ForgetSignIn(r) PROVE Gone(s)'
    BY <1>3, AuthKinds DEF ForgetSignIn, SignInTypeOK, Gone, Stored
  <1>4. ASSUME NEW r \in AuthRequest, TakeTry(r) \/ UseCode(r) \/ ClaimResend(r) PROVE Gone(s)'
    <2>1. auth[r].row \in SignIn /\ Stored(auth[r].row)
      BY <1>4, AuthKinds DEF TakeTry, UseCode, ClaimResend, SignInTypeOK, OwnRows, RowCalls, Answered
    <2>2. UNCHANGED ended
      BY <1>4 DEF TakeTry, UseCode, ClaimResend, signInHistory
    <2>3. CASE s = auth[r].row
      BY <1>4, <2>1, <2>3, SignedRows DEF Gone, Pending
    <2>4. CASE s # auth[r].row
      <3>1. signIn'[s] = signIn[s]
        BY <1>4, <2>1, <2>4 DEF TakeTry, UseCode, ClaimResend, SignInTypeOK
      <3> QED BY <2>2, <3>1 DEF Gone, Stored
    <2> QED BY <2>3, <2>4
  <1> QED BY <1>0, <1>1, <1>2, <1>3, <1>4
          DEF SignInNext, signInVars, signInHistory, PassMinute, Reinstate, LoginWithPassword, UpdateStaffUser,
              VerifyCode, ResendCode, CountFirst, CountAgain, EmailFirst, EmailAgain

\* What a step ends is gone, and stays gone.
LEMMA EndedGoneStep == SignInInv /\ [SignInNext]_signInVars => EndedGone'
  <1> SUFFICES ASSUME SignInInv, [SignInNext]_signInVars, NEW s \in ended', Stored(s)'
               PROVE  ~Pending(signIn'[s])
    BY DEF EndedGone
  <1>1. s \in SignIn
    BY SignInTypeStep DEF SignInTypeOK
  <1>2. CASE s \in ended
    <2>1. Gone(s)
      BY <1>2 DEF Gone, EndedGone, SignInInv
    <2> QED BY <1>1, <2>1, GoneStays DEF Gone
  <1>3. CASE s \notin ended
    <2>1. PICK r \in AuthRequest : ForgetSignIn(r) \/ RevokeAll(r)
      BY <1>3 DEF SignInNext, signInVars, signInHistory, PassMinute, Reinstate, LoginWithPassword, UpdateStaffUser,
              VerifyCode, ResendCode, CountFirst, CountAgain, EmailFirst, EmailAgain, RevokeOlder, CreateSignIn,
              TakeTry, UseCode, ClaimResend
    <2>2. CASE ForgetSignIn(r)
      BY <1>1, <1>3, <2>2 DEF ForgetSignIn, SignInInv, SignInTypeOK, Stored
    <2>3. CASE RevokeAll(r)
      <3>1. Stored(s) /\ signIn[s].user = auth[r].user
        BY <1>3, <2>3 DEF RevokeAll
      <3> QED BY <1>1, <2>3, <3>1, RevokedRows DEF RevokeAll, SignInInv
    <2> QED BY <2>1, <2>2, <2>3
  <1> QED BY <1>2, <1>3

\* The rows a sign-in was preceded by stay gone.
LEMMA OlderGoneStep == SignInInv /\ [SignInNext]_signInVars => OlderGone'
  <1> SUFFICES ASSUME SignInInv, [SignInNext]_signInVars PROVE OlderGone'
    OBVIOUS
  <1> USE DEF SignInInv
  <1>1. ASSUME NEW t \in SignIn, Gone(t) PROVE Gone(t)'
    BY <1>1, GoneStays
  <1>2. /\ \A s \in SignIn : older[s] \subseteq SignIn
        /\ \A r \in AuthRequest : auth[r].op = "create" => auth[r].older \in SUBSET SignIn
    BY AuthKinds DEF SignInTypeOK
  <1>3. ASSUME NEW s \in SignIn, NEW t \in older'[s] PROVE Gone(t)'
    <2>1. CASE t \in older[s]
      BY <1>1, <1>2, <2>1 DEF OlderGone
    <2>2. CASE t \notin older[s]
      <3>1. PICK r \in AuthRequest : CreateSignIn(r)
        BY <1>3, <2>2 DEF SignInNext, signInVars, signInHistory, PassMinute, Reinstate, LoginWithPassword,
                UpdateStaffUser, VerifyCode, ResendCode, CountFirst, CountAgain, EmailFirst, EmailAgain,
                RevokeOlder, RevokeAll, ForgetSignIn, TakeTry, UseCode, ClaimResend
      <3>2. t \in auth[r].older /\ auth[r].op = "create"
        BY <1>3, <2>2, <3>1 DEF CreateSignIn, SignInTypeOK
      <3> QED BY <1>1, <1>2, <3>2 DEF OlderGone
    <2> QED BY <2>1, <2>2
  <1>4. ASSUME NEW q \in AuthRequest, auth'[q].op = "create", NEW t \in auth'[q].older PROVE Gone(t)'
    <2>1. CASE auth'[q] = auth[q]
      BY <1>1, <1>2, <1>4, <2>1 DEF OlderGone
    <2>2. CASE auth'[q] # auth[q]
      <3>1. RevokeOlder(q)
        <4>1. ASSUME NEW r \in AuthRequest, Answer(r) PROVE FALSE
          BY <1>4, <2>2, <4>1 DEF Answer, NoRequest, SignInTypeOK
        <4>2. ASSUME NEW r \in AuthRequest, NEW c, c.op # "create", GoOnAuth(r, c) PROVE FALSE
          BY <1>4, <2>2, <4>2 DEF GoOnAuth, SignInTypeOK
        <4>3. ASSUME NEW r \in AuthRequest
              PROVE  /\ ~CountFirst(r) /\ ~CountAgain(r) /\ ~EmailFirst(r) /\ ~ClaimResend(r)
          <5>1. auth[r] \in AuthCalls
            BY DEF SignInTypeOK
          <5>2. /\ auth[r].op = "countFirst" => [auth[r] EXCEPT !.op = "revokeOlder"].op = "revokeOlder"
                /\ auth[r].op = "countAgain" => [auth[r] EXCEPT !.op = "claim"].op = "claim"
                /\ auth[r].op = "email" => [auth[r] EXCEPT !.op = "forget"].op = "forget"
                /\ auth[r].op = "claim" => [auth[r] EXCEPT !.op = "emailAgain"].op = "emailAgain"
            BY <5>1 DEF AuthCalls, NoRequest
          <5> QED BY <4>1, <4>2, <5>2 DEF CountFirst, CountAgain, EmailFirst, ClaimResend
        <4>4. ASSUME NEW r \in AuthRequest
              PROVE  /\ ~EmailAgain(r) /\ ~ForgetSignIn(r) /\ ~TakeTry(r) /\ ~UseCode(r) /\ ~RevokeAll(r)
                     /\ ~CreateSignIn(r)
          BY <4>1, <4>2 DEF EmailAgain, ForgetSignIn, TakeTry, UseCode, RevokeAll, CreateSignIn
        <4>5. ASSUME NEW r \in AuthRequest
              PROVE  /\ \A a \in Account : ~LoginWithPassword(r, a) /\ ~UpdateStaffUser(r, a)
                     /\ \A s \in SignIn : ~VerifyCode(r, s) /\ ~ResendCode(r, s)
          BY <4>2 DEF LoginWithPassword, UpdateStaffUser, VerifyCode, ResendCode
        <4>6. PICK r \in AuthRequest : RevokeOlder(r)
          BY <2>2, <4>3, <4>4, <4>5 DEF SignInNext, signInVars, PassMinute, Reinstate
        <4> QED BY <2>2, <4>6 DEF RevokeOlder, GoOnAuth, SignInTypeOK
      <3>2. t \in SignIn /\ Stored(t) /\ signIn[t].user = auth[q].user
        BY <1>4, <3>1 DEF RevokeOlder, GoOnAuth, ToCreate, SignInTypeOK
      <3> QED BY <3>1, <3>2, RevokedRows DEF RevokeOlder, Gone
    <2> QED BY <2>1, <2>2
  <1> QED BY <1>3, <1>4 DEF OlderGone

\* For every number of accounts, sign-ins and requests, any limits and times.
THEOREM SignInInvariant == SignInSpec => []SignInInv
  <1>1. SignInInv /\ [SignInNext]_signInVars => SignInInv'
    BY SignInTypeStep, OwnRowsStep, TriesCountedStep, OlderGoneStep, EndedGoneStep DEF SignInInv
  <1> QED BY <1>1, SignInInitInv, PTL DEF SignInSpec

\* Rows, requests and history hold values of their types.
THEOREM SignInTyped == SignInSpec => []SignInTypeOK
  BY SignInInvariant, PTL DEF SignInInv

\* Whatever requests are in progress: a code that a newer one ended is never usable
\* again, and a sign-in begun before a change of the account starts no session after
\* it has been answered (loginCodes.ts:82).
THEOREM EndedForGood == SignInSpec => EndedStaysEnded
  <1>1. SignInInv => OlderCodesEnd
    BY DEF SignInInv, SignInTypeOK, OlderGone, OlderCodesEnd, Gone, Usable
  <1>2. SignInInv /\ [SignInNext]_signInVars
          => [\A s \in SignIn : s \in ended => sessions'[s] = sessions[s]]_signInVars
    <2> SUFFICES ASSUME SignInInv, SignInNext, NEW s \in SignIn, s \in ended, sessions'[s] # sessions[s]
                 PROVE  FALSE
      OBVIOUS
    <2>1. PICK r \in AuthRequest : UseCode(r) /\ CanUse(auth[r].row) /\ auth[r].row = s
      BY DEF SignInNext, signInHistory, PassMinute, Reinstate, LoginWithPassword,
             UpdateStaffUser, VerifyCode, ResendCode, CountFirst, CountAgain, EmailFirst, EmailAgain,
             RevokeOlder, RevokeAll, ForgetSignIn, CreateSignIn, TakeTry, UseCode, ClaimResend,
             SignInInv, SignInTypeOK
    <2>2. Stored(s)
      BY <2>1 DEF UseCode, SignInInv, OwnRows, RowCalls, Answered
    <2> QED BY <2>1, <2>2 DEF SignInInv, EndedGone, CanUse, Usable
  <1> QED BY <1>1, <1>2, SignInInvariant, PTL DEF SignInSpec, EndedStaysEnded

\* Requests with the moment they were asked for, those about an account that passed
\* the count and may still email a code, and those that email one.
TimedCalls == {"countFirst", "revokeOlder", "revokeAll", "create", "email", "forget", "countAgain",
               "claim", "emailAgain"}
Sending(r, a) ==
    \/ auth[r].op \in {"revokeOlder", "create"} /\ auth[r].user = a
    \/ auth[r].op \in {"email", "claim", "emailAgain"} /\ signIn[auth[r].row].user = a
UnderWay(a, from) ==
    {r \in AuthRequest : Sending(r, a) /\ from <= auth[r].at /\ auth[r].at <= from + HOUR}

\* A row has been asked for by now, and has at most MAX_SENDS sends.
RowsInTime == \A s \in SignIn : Stored(s) => /\ signIn[s].sentAt <= minute
                                             /\ signIn[s].sends <= MAX_SENDS

\* Every email is one of its row's sends, and none is emailed twice.
EmailsAreSends ==
    /\ IsFiniteSet(mailed)
    /\ \A m \in mailed : /\ Stored(m.row) /\ m.to = signIn[m.row].user
                         /\ m.send <= signIn[m.row].sends /\ m.send >= 1
                         /\ m.at <= signIn[m.row].sentAt
    /\ \A m, n \in mailed : m.row = n.row /\ m.send = n.send => m = n

\* What a request read of its row is so, or the row was sent again since.
Resending(c) ==
    /\ c.op \in {"countAgain", "claim"} =>
          /\ c.sends < MAX_SENDS /\ c.sends <= signIn[c.row].sends
          /\ c.sends = signIn[c.row].sends => signIn[c.row].sentAt <= c.at
    /\ c.op = "emailAgain" => c.sends < signIn[c.row].sends /\ c.at <= signIn[c.row].sentAt

\* A request about to email a send is the only one that does.
RequestsInTime ==
    /\ \A r \in AuthRequest : auth[r].op \in TimedCalls => auth[r].at <= minute
    /\ \A r \in AuthRequest : Resending(auth[r])
    /\ \A r \in AuthRequest : Emailing(r) =>
          /\ auth[r].at <= signIn[auth[r].row].sentAt /\ signIn[auth[r].row].sends >= 1
          /\ \A m \in mailed : m.row # auth[r].row
    /\ \A r \in AuthRequest : auth[r].op = "emailAgain" =>
          \A m \in mailed : ~(m.row = auth[r].row /\ m.send = auth[r].sends + 1)
    /\ \A r, q \in AuthRequest :
          r # q /\ auth[r].op = "emailAgain" /\ auth[q].op = "emailAgain" /\ auth[r].row = auth[q].row
              => auth[r].sends # auth[q].sends

\* The emails in an hour, and the requests that may still add one to it.
HourKept ==
    \A a \in Account, from \in Nat :
       Cardinality(MailedWithin(a, from)) + Cardinality(UnderWay(a, from))
           <= MAX_SENDS_PER_HOUR - 1 + Cardinality(AuthRequest)

\* The inductive invariant of the hourly limit, given that of the sign-in codes.
SendsInv == RowsInTime /\ EmailsAreSends /\ RequestsInTime /\ HourKept

\* What revoking, a try or a use leave of every row.
Kept(s) == /\ Stored(s)' <=> Stored(s)
           /\ Stored(s) => /\ signIn'[s].user = signIn[s].user
                           /\ signIn'[s].sends = signIn[s].sends
                           /\ signIn'[s].sentAt = signIn[s].sentAt

\* Revoking keeps them.
LEMMA RevokingKeeps ==
    ASSUME SignInTypeOK, NEW a, RevokePendingCodes(a), NEW s \in SignIn
    PROVE  Kept(s)
  <1>1. CASE s \in PendingOf(a)
    <2>1. signIn'[s] = [signIn[s] EXCEPT !.revoked = TRUE] /\ Stored(s)
      BY <1>1 DEF RevokePendingCodes, PendingOf
    <2>2. signIn[s] \in SignInRow
      BY <2>1, RowOf
    <2>3. signIn'[s].user = signIn[s].user /\ signIn'[s].sends = signIn[s].sends
          /\ signIn'[s].sentAt = signIn[s].sentAt
      BY <2>1, <2>2 DEF SignInRow
    <2>4. Stored(s)'
      BY <2>1, <2>2, EndedRow, RowIsStored DEF Stored
    <2> QED BY <2>1, <2>3, <2>4 DEF Kept
  <1>2. CASE s \notin PendingOf(a)
    BY <1>2 DEF RevokePendingCodes, Kept, Stored
  <1> QED BY <1>1, <1>2

\* So do a try and a use.
LEMMA TryingKeeps ==
    ASSUME SignInTypeOK, OwnRows, NEW r \in AuthRequest, TakeTry(r) \/ UseCode(r), NEW s \in SignIn
    PROVE  Kept(s)
  <1>1. auth[r].row \in SignIn /\ Stored(auth[r].row)
    BY AuthKinds DEF TakeTry, UseCode, SignInTypeOK, OwnRows, RowCalls, Answered
  <1>2. CASE signIn'[s] = signIn[s]
    BY <1>2 DEF Kept, Stored
  <1>3. CASE s = auth[r].row /\ TakeTry(r) /\ signIn' = [signIn EXCEPT ![s].attempts = @ + 1]
    <2>1. signIn'[s] = [signIn[s] EXCEPT !.attempts = @ + 1] /\ signIn[s] \in SignInRow
      BY <1>1, <1>3, RowOf DEF SignInTypeOK
    <2>2. signIn'[s].user = signIn[s].user /\ signIn'[s].sends = signIn[s].sends
          /\ signIn'[s].sentAt = signIn[s].sentAt
      BY <2>1 DEF SignInRow
    <2>3. Stored(s)'
      BY <2>1, TriedRow, RowIsStored DEF Stored
    <2> QED BY <1>1, <1>3, <2>2, <2>3 DEF Kept
  <1>4. CASE s = auth[r].row /\ UseCode(r) /\ signIn' = [signIn EXCEPT ![s].used = TRUE]
    <2>1. signIn'[s] = [signIn[s] EXCEPT !.used = TRUE] /\ signIn[s] \in SignInRow
      BY <1>1, <1>4, RowOf DEF SignInTypeOK
    <2>2. signIn'[s].user = signIn[s].user /\ signIn'[s].sends = signIn[s].sends
          /\ signIn'[s].sentAt = signIn[s].sentAt
      BY <2>1 DEF SignInRow
    <2>3. Stored(s)'
      BY <2>1, EndedRow, RowIsStored DEF Stored
    <2> QED BY <1>1, <1>4, <2>2, <2>3 DEF Kept
  <1> QED BY <1>1, <1>2, <1>3, <1>4 DEF TakeTry, UseCode, SignInTypeOK

\* What is counted bounds what was emailed in the hour before.
LEMMA CountedAtLeast ==
    ASSUME SignInTypeOK, RowsInTime, EmailsAreSends, NEW a \in Account, NEW from \in Nat, NEW at \in Nat,
           at <= from + HOUR
    PROVE  /\ Cardinality(MailedWithin(a, from)) <= SendsInLastHour(a, at)
           /\ Cardinality(MailedWithin(a, from)) \in Nat /\ SendsInLastHour(a, at) \in Nat
  <1> DEFINE M == MailedWithin(a, from)
             T == UNION {{s} \X (1 .. signIn[s].sends) : s \in SentSince(a, at - HOUR)}
             f == [m \in M |-> <<m.row, m.send>>]
  <1>1. IsFiniteSet(SignIn \X (1 .. MAX_SENDS))
    <2>1. IsFiniteSet(1 .. MAX_SENDS)
      <3>1. 1 \in Int /\ MAX_SENDS \in Int
        BY SignInAssumption
      <3> QED BY <3>1, FS_Interval
    <2> QED BY <2>1, FS_Product, SignInAssumption
  <1>2. T \subseteq SignIn \X (1 .. MAX_SENDS)
    <2> SUFFICES ASSUME NEW s \in SentSince(a, at - HOUR), NEW k \in 1 .. signIn[s].sends
                 PROVE  s \in SignIn /\ k \in 1 .. MAX_SENDS
      OBVIOUS
    <2>1. s \in SignIn /\ Stored(s) /\ signIn[s].sends <= MAX_SENDS
      BY DEF SentSince, RowsInTime
    <2>2. signIn[s].sends \in Nat
      BY <2>1, RowOf, RowFields
    <2> QED BY <2>1, <2>2, SignInAssumption
  <1>3. IsFiniteSet(T)
    BY <1>1, <1>2, FS_Subset
  <1>4. ASSUME NEW m \in M PROVE <<m.row, m.send>> \in T
    <2>1. m \in mailed /\ m.to = a /\ from <= m.at
      BY DEF MailedWithin
    <2>2. m.row \in SignIn /\ m.send \in Nat /\ m.at \in Nat
      BY <2>1 DEF SignInTypeOK, Emails
    <2>3. /\ Stored(m.row) /\ m.to = signIn[m.row].user /\ m.send <= signIn[m.row].sends /\ m.send >= 1
          /\ m.at <= signIn[m.row].sentAt
      BY <2>1 DEF EmailsAreSends
    <2>4. signIn[m.row].sentAt \in Nat /\ signIn[m.row].sends \in Nat
      BY <2>2, <2>3, RowOf, RowFields
    <2>5. signIn[m.row].sentAt >= at - HOUR
      BY <2>1, <2>2, <2>3, <2>4, SignInAssumption
    <2>6. m.row \in SentSince(a, at - HOUR)
      BY <2>1, <2>2, <2>3, <2>5 DEF SentSince
    <2>7. <<m.row, m.send>> \in {m.row} \X (1 .. signIn[m.row].sends)
      BY <2>2, <2>3, <2>4
    <2> QED BY <2>6, <2>7
  <1>5. f \in [M -> T]
    BY <1>4
  <1>6. ASSUME NEW m \in M, NEW n \in M, f[m] = f[n] PROVE m = n
    <2>1. m.row = n.row /\ m.send = n.send /\ m \in mailed /\ n \in mailed
      BY <1>6 DEF MailedWithin
    <2> QED BY <2>1 DEF EmailsAreSends
  <1>7. f \in Injection(M, T)
    BY <1>5, <1>6 DEF Injection, IsInjective
  <1> HIDE DEF M, T, f
  <1>8. Cardinality(M) <= Cardinality(T) /\ IsFiniteSet(M)
    BY <1>3, <1>7, FS_Injection
  <1>9. Cardinality(M) \in Nat /\ Cardinality(T) \in Nat
    BY <1>3, <1>8, FS_CardinalityType
  <1> QED BY <1>8, <1>9 DEF M, T, SendsInLastHour

\* A request goes on to something other than an email, or answers: what was so of
\* the rows, the emails and the requests stays so.
GoesOn(r, c) ==
    /\ auth' = [auth EXCEPT ![r] = c] /\ UNCHANGED <<minute, mailed>>
    /\ c.op \notin {"email", "emailAgain"}
    /\ c.op \in TimedCalls => c.at <= minute
    /\ Resending(c)
    /\ c.op = "forget" => auth[r].op = "email" /\ c.row = auth[r].row /\ c.at = auth[r].at

\* Such a step keeps all but the hour's limit.
LEMMA SendsGoOn ==
    ASSUME SignInInv, SignInInv', RowsInTime, EmailsAreSends, RequestsInTime,
           NEW r \in AuthRequest, NEW c \in AuthCalls, GoesOn(r, c),
           \A s \in SignIn : Kept(s)
    PROVE  RowsInTime' /\ EmailsAreSends' /\ RequestsInTime'
  <1> USE DEF SignInInv
  <1>1. auth'[r] = c /\ \A q \in AuthRequest \ {r} : auth'[q] = auth[q]
    BY DEF GoesOn, SignInTypeOK
  <1>2. \A q \in AuthRequest : auth[q] \in AuthCalls
    BY DEF SignInTypeOK
  <1>3. UNCHANGED <<minute, mailed>>
    BY DEF GoesOn
  <1>4. RowsInTime'
    BY <1>3 DEF RowsInTime, Kept
  <1>5. EmailsAreSends'
    <2>1. \A m \in mailed : m.row \in SignIn
      BY DEF SignInTypeOK, Emails
    <2> QED BY <1>3, <2>1 DEF EmailsAreSends, Kept
  <1>6. ASSUME NEW q \in AuthRequest
        PROVE  auth'[q].op \in RowCalls \cup {"email", "forget"}
                  => auth'[q].row \in SignIn /\ Stored(auth[q].row)' /\ Stored(auth'[q].row)
    <2>1. auth'[q].op \in RowCalls \cup {"email", "forget"} => auth'[q].row \in SignIn /\ Stored(auth[q].row)'
      <3>1. auth'[q] \in AuthCalls
        BY DEF SignInTypeOK
      <3>2. auth'[q].op \in RowCalls \cup {"email", "forget"} => auth'[q].row \in SignIn
        BY <3>1, AuthKinds DEF RowCalls
      <3> QED BY <3>2 DEF OwnRows, Emailing, Answered
    <2>2. ASSUME NEW s \in SignIn, s = auth'[q].row, Stored(auth[q].row)' PROVE Stored(s)
      BY <2>2 DEF Kept, Stored
    <2> QED BY <2>1, <2>2
  <1>7. \A q \in AuthRequest : Resending(auth[q])'
    <2> SUFFICES ASSUME NEW q \in AuthRequest PROVE Resending(auth[q])'
      OBVIOUS
    <2>1. Resending(auth'[q])
      BY <1>1 DEF GoesOn, RequestsInTime
    <2>2. CASE auth'[q].op \in {"countAgain", "claim", "emailAgain"}
      <3>1. auth'[q].row \in SignIn /\ Stored(auth'[q].row)
        BY <1>6, <2>2 DEF RowCalls
      <3>2. /\ signIn'[auth'[q].row].sends = signIn[auth'[q].row].sends
            /\ signIn'[auth'[q].row].sentAt = signIn[auth'[q].row].sentAt
        BY <3>1 DEF Kept
      <3> QED BY <2>1, <3>2 DEF Resending
    <2>3. CASE auth'[q].op \notin {"countAgain", "claim", "emailAgain"}
      BY <2>3 DEF Resending
    <2> QED BY <2>2, <2>3
  <1>8. \A q \in AuthRequest : (auth[q].op \in TimedCalls => auth[q].at <= minute)'
    BY <1>1, <1>3 DEF GoesOn, RequestsInTime
  <1>9. ASSUME NEW q \in AuthRequest, Emailing(q)'
        PROVE  /\ auth'[q].at <= signIn'[auth'[q].row].sentAt /\ signIn'[auth'[q].row].sends >= 1
               /\ \A m \in mailed' : m.row # auth'[q].row
    <2>1. Emailing(q) /\ auth'[q].row = auth[q].row /\ auth'[q].at = auth[q].at
      BY <1>1, <1>9 DEF Emailing, GoesOn
    <2>2. auth'[q].row \in SignIn /\ Stored(auth'[q].row)
      BY <1>6, <1>9 DEF Emailing
    <2>3. /\ signIn'[auth'[q].row].sends = signIn[auth'[q].row].sends
          /\ signIn'[auth'[q].row].sentAt = signIn[auth'[q].row].sentAt
      BY <2>2 DEF Kept
    <2> QED BY <1>3, <2>1, <2>3 DEF RequestsInTime
  <1>10. \A q \in AuthRequest : auth'[q].op = "emailAgain" => auth'[q] = auth[q] /\ q # r
    BY <1>1 DEF GoesOn
  <1>11. \A q \in AuthRequest : auth'[q].op = "emailAgain" =>
            \A m \in mailed' : ~(m.row = auth'[q].row /\ m.send = auth'[q].sends + 1)
    BY <1>3, <1>10 DEF RequestsInTime
  <1>12. \A p, q \in AuthRequest :
            p # q /\ auth'[p].op = "emailAgain" /\ auth'[q].op = "emailAgain" /\ auth'[p].row = auth'[q].row
              => auth'[p].sends # auth'[q].sends
    BY <1>10 DEF RequestsInTime
  <1> QED BY <1>4, <1>5, <1>7, <1>8, <1>9, <1>11, <1>12 DEF RequestsInTime

\* The size of what is under way is a number, and at most that of the requests.
LEMMA UnderWayFits ==
    ASSUME NEW S \in SUBSET AuthRequest
    PROVE  /\ IsFiniteSet(S) /\ Cardinality(S) \in Nat /\ Cardinality(AuthRequest) \in Nat
           /\ Cardinality(S) <= Cardinality(AuthRequest)
  <1>1. IsFiniteSet(AuthRequest)
    BY SignInAssumption
  <1>2. IsFiniteSet(S) /\ Cardinality(S) <= Cardinality(AuthRequest)
    BY <1>1, FS_Subset
  <1> QED BY <1>1, <1>2, FS_CardinalityType

\* Part of the emails in an hour has a size too.
LEMMA EmailsFit ==
    ASSUME EmailsAreSends, NEW a, NEW from
    PROVE  IsFiniteSet(MailedWithin(a, from)) /\ Cardinality(MailedWithin(a, from)) \in Nat
  <1>1. MailedWithin(a, from) \in SUBSET mailed
    BY DEF MailedWithin
  <1>2. IsFiniteSet(MailedWithin(a, from))
    BY <1>1, FS_Subset DEF EmailsAreSends
  <1> QED BY <1>2, FS_CardinalityType

\* An hour keeps its limit when no request joins those under way, or one that
\* counted fewer than the limit.
LEMMA HourGoesOn ==
    ASSUME HourKept, EmailsAreSends, UNCHANGED mailed, NEW r \in AuthRequest,
           \A a \in Account, from \in Nat :
              /\ \A q \in AuthRequest \ {r} : q \in UnderWay(a, from)' => q \in UnderWay(a, from)
              /\ r \in UnderWay(a, from)' =>
                    \/ r \in UnderWay(a, from)
                    \/ Cardinality(MailedWithin(a, from)) <= MAX_SENDS_PER_HOUR - 1
    PROVE  HourKept'
  <1> SUFFICES ASSUME NEW a \in Account, NEW from \in Nat
               PROVE  (Cardinality(MailedWithin(a, from)) + Cardinality(UnderWay(a, from))
                         <= MAX_SENDS_PER_HOUR - 1 + Cardinality(AuthRequest))'
    BY DEF HourKept
  <1> DEFINE M == MailedWithin(a, from)
             U == UnderWay(a, from)
             V == UnderWay(a, from)'
  <1>1. M' = M
    BY DEF MailedWithin
  <1>2. Cardinality(M) \in Nat /\ Cardinality(M) + Cardinality(U) <= MAX_SENDS_PER_HOUR - 1 + Cardinality(AuthRequest)
    BY EmailsFit DEF HourKept
  <1>3. /\ Cardinality(U) \in Nat /\ IsFiniteSet(U)
        /\ Cardinality(V) \in Nat /\ Cardinality(V) <= Cardinality(AuthRequest)
        /\ Cardinality(AuthRequest) \in Nat
    BY UnderWayFits DEF UnderWay
  <1>4. CASE V \subseteq U
    <2>1. Cardinality(V) <= Cardinality(U)
      BY <1>3, <1>4, FS_Subset
    <2> HIDE DEF M, U, V
    <2>2. Cardinality(M) + Cardinality(V) <= MAX_SENDS_PER_HOUR - 1 + Cardinality(AuthRequest)
      BY <1>2, <1>3, <2>1, SignInAssumption
    <2> QED BY <1>1, <2>2 DEF M, V
  <1>5. CASE ~(V \subseteq U)
    <2>1. Cardinality(M) <= MAX_SENDS_PER_HOUR - 1
      <3>1. V \subseteq AuthRequest
        BY DEF UnderWay
      <3> QED BY <1>5, <3>1
    <2> HIDE DEF M, U, V
    <2>2. Cardinality(M) + Cardinality(V) <= MAX_SENDS_PER_HOUR - 1 + Cardinality(AuthRequest)
      BY <1>2, <1>3, <2>1, SignInAssumption
    <2> QED BY <1>1, <2>2 DEF M, V
  <1> QED BY <1>4, <1>5

\* An email takes its request from those under way, where the email counts.
LEMMA HourMailed ==
    ASSUME HourKept, EmailsAreSends, NEW r \in AuthRequest, NEW m, mailed' = mailed \cup {m},
           \A a \in Account, from \in Nat :
              /\ UnderWay(a, from)' \subseteq UnderWay(a, from) \ {r}
              /\ m.to = a /\ from <= m.at /\ m.at <= from + HOUR => r \in UnderWay(a, from)
    PROVE  HourKept'
  <1> SUFFICES ASSUME NEW a \in Account, NEW from \in Nat
               PROVE  (Cardinality(MailedWithin(a, from)) + Cardinality(UnderWay(a, from))
                         <= MAX_SENDS_PER_HOUR - 1 + Cardinality(AuthRequest))'
    BY DEF HourKept
  <1> DEFINE M == MailedWithin(a, from)
             N == MailedWithin(a, from)'
             U == UnderWay(a, from)
             V == UnderWay(a, from)'
  <1>1. IsFiniteSet(M) /\ Cardinality(M) \in Nat /\ Cardinality(M) + Cardinality(U) <= MAX_SENDS_PER_HOUR - 1 + Cardinality(AuthRequest)
    BY EmailsFit DEF HourKept
  <1>2. /\ Cardinality(U) \in Nat /\ IsFiniteSet(U)
        /\ Cardinality(V) \in Nat /\ IsFiniteSet(V) /\ Cardinality(AuthRequest) \in Nat
    BY UnderWayFits DEF UnderWay
  <1>3. V \subseteq U \ {r}
    OBVIOUS
  <1>4. CASE m.to = a /\ from <= m.at /\ m.at <= from + HOUR
    <2>1. N = M \cup {m} /\ r \in U
      BY <1>4 DEF MailedWithin
    <2> HIDE DEF M, N, U, V
    <2>2. Cardinality(N) <= Cardinality(M) + 1 /\ Cardinality(N) \in Nat
      <3>1. Cardinality(M \cup {m}) = IF m \in M THEN Cardinality(M) ELSE Cardinality(M) + 1
        BY <1>1, FS_AddElement
      <3> QED BY <1>1, <2>1, <3>1
    <2>3. IsFiniteSet(U \ {r}) /\ Cardinality(U \ {r}) = Cardinality(U) - 1
      BY <1>2, <2>1, FS_RemoveElement
    <2>4. Cardinality(V) <= Cardinality(U) - 1
      BY <1>3, <2>3, FS_Subset
    <2>5. Cardinality(N) + Cardinality(V) <= MAX_SENDS_PER_HOUR - 1 + Cardinality(AuthRequest)
      BY <1>1, <1>2, <2>2, <2>4, SignInAssumption
    <2> QED BY <2>5 DEF N, V
  <1>5. CASE ~(m.to = a /\ from <= m.at /\ m.at <= from + HOUR)
    <2>1. N = M
      BY <1>5 DEF MailedWithin
    <2> HIDE DEF M, N, U, V
    <2>2. Cardinality(V) <= Cardinality(U)
      BY <1>2, <1>3, FS_Subset
    <2>3. Cardinality(N) + Cardinality(V) <= MAX_SENDS_PER_HOUR - 1 + Cardinality(AuthRequest)
      BY <1>1, <1>2, <2>1, <2>2, SignInAssumption
    <2> QED BY <2>3 DEF N, V
  <1> QED BY <1>4, <1>5

\* The requests that don't step stay where they are.
LEMMA OthersUnderWay ==
    ASSUME SignInTypeOK, OwnRows, NEW r \in AuthRequest,
           \A q \in AuthRequest \ {r} : auth'[q] = auth[q],
           \A s \in SignIn : Stored(s) /\ signIn'[s] # NoRow => signIn'[s].user = signIn[s].user,
           \A q \in AuthRequest \ {r} :
              auth[q].op \in {"email", "claim", "emailAgain"} => signIn'[auth[q].row] # NoRow,
           NEW a \in Account, NEW from \in Nat, NEW q \in AuthRequest \ {r}
    PROVE  q \in UnderWay(a, from)' => q \in UnderWay(a, from)
  <1>1. auth[q] \in AuthCalls
    BY DEF SignInTypeOK
  <1>2. auth[q].op \in {"email", "claim", "emailAgain"} => auth[q].row \in SignIn /\ Stored(auth[q].row)
    BY <1>1, AuthKinds DEF OwnRows, Emailing, Answered, RowCalls
  <1>3. auth[q].op \in {"email", "claim", "emailAgain"} => signIn'[auth[q].row].user = signIn[auth[q].row].user
    BY <1>2
  <1> QED BY <1>3 DEF UnderWay, Sending

\* A request goes on, counted where it starts to be under way.
LEMMA SendsAll ==
    ASSUME SignInInv, SignInInv', SendsInv,
           NEW r \in AuthRequest, NEW c \in AuthCalls, GoesOn(r, c),
           \A s \in SignIn : Kept(s),
           \A a \in Account, from \in Nat :
              r \in UnderWay(a, from)' =>
                 \/ r \in UnderWay(a, from)
                 \/ Cardinality(MailedWithin(a, from)) <= MAX_SENDS_PER_HOUR - 1
    PROVE  SendsInv'
  <1>1. RowsInTime' /\ EmailsAreSends' /\ RequestsInTime'
    BY SendsGoOn DEF SendsInv
  <1>2. \A q \in AuthRequest \ {r} : auth'[q] = auth[q]
    BY DEF GoesOn, SignInInv, SignInTypeOK
  <1>3. \A s \in SignIn : Stored(s) => signIn'[s] # NoRow /\ signIn'[s].user = signIn[s].user
    BY DEF Kept, Stored
  <1>4. \A q \in AuthRequest \ {r} :
           auth[q].op \in {"email", "claim", "emailAgain"} => signIn'[auth[q].row] # NoRow
    BY <1>3, AuthKinds DEF SignInInv, SignInTypeOK, OwnRows, Emailing, Answered, RowCalls
  <1>5. \A a \in Account, from \in Nat : \A q \in AuthRequest \ {r} :
           q \in UnderWay(a, from)' => q \in UnderWay(a, from)
    BY <1>2, <1>3, <1>4, OthersUnderWay DEF SignInInv
  <1>6. HourKept'
    BY <1>5, HourGoesOn DEF GoesOn, SendsInv
  <1> QED BY <1>1, <1>6 DEF SendsInv

\* A request that isn't under way after its step.
LEMMA SendsQuiet ==
    ASSUME SignInInv, SignInInv', SendsInv,
           NEW r \in AuthRequest, NEW c \in AuthCalls, GoesOn(r, c),
           \A s \in SignIn : Kept(s),
           c.op \notin {"revokeOlder", "create", "claim"}
    PROVE  SendsInv'
  <1>1. auth'[r] = c
    BY DEF GoesOn, SignInInv, SignInTypeOK
  <1>2. \A a \in Account, from \in Nat : r \notin UnderWay(a, from)'
    BY <1>1 DEF UnderWay, Sending, GoesOn
  <1> QED BY <1>2, SendsAll

\* An answer.
LEMMA SendsAnswered ==
    ASSUME SignInInv, SignInInv', SendsInv, NEW r \in AuthRequest, Answer(r),
           UNCHANGED <<minute, mailed>>, \A s \in SignIn : Kept(s)
    PROVE  SendsInv'
  <1>1. GoesOn(r, NoRequest) /\ NoRequest.op = "idle"
    BY DEF GoesOn, Answer, NoRequest, TimedCalls, Resending
  <1> QED BY <1>1, NoneAuth, SendsQuiet

\* Rows that don't change are kept.
LEMMA UnchangedKept == ASSUME UNCHANGED signIn PROVE \A s \in SignIn : Kept(s)
  BY DEF Kept, Stored

\* Nothing but the time.
LEMMA SendsRest ==
    ASSUME SendsInv, SignInTypeOK, UNCHANGED <<signIn, auth, mailed>>,
           minute' = minute \/ minute' = minute + 1
    PROVE  SendsInv'
  <1> USE DEF SendsInv
  <1>1. minute \in Nat /\ minute' \in Nat /\ minute <= minute'
    BY DEF SignInTypeOK
  <1>2. RowsInTime'
    <2> SUFFICES ASSUME NEW s \in SignIn, Stored(s)
                 PROVE  signIn[s].sentAt <= minute' /\ signIn[s].sends <= MAX_SENDS
      BY DEF RowsInTime, Stored
    <2>1. signIn[s].sentAt \in Nat
      BY RowOf, RowFields
    <2> QED BY <1>1, <2>1 DEF RowsInTime
  <1>3. EmailsAreSends'
    BY DEF EmailsAreSends, Stored
  <1>4. \A q \in AuthRequest : auth[q].op \in TimedCalls => auth[q].at <= minute'
    <2> SUFFICES ASSUME NEW q \in AuthRequest, auth[q].op \in TimedCalls PROVE auth[q].at <= minute'
      OBVIOUS
    <2>1. auth[q].at \in Nat
      BY AuthKinds DEF SignInTypeOK, TimedCalls
    <2> QED BY <1>1, <2>1 DEF RequestsInTime
  <1>5. RequestsInTime'
    BY <1>4 DEF RequestsInTime, Resending, Emailing
  <1>6. HourKept'
    BY DEF HourKept, MailedWithin, UnderWay, Sending
  <1> QED BY <1>2, <1>3, <1>5, <1>6

\* A request begins.
LEMMA SendsBegin ==
    ASSUME SignInInv, SignInInv', SendsInv, NEW r \in AuthRequest,
           \/ \E a \in Account : LoginWithPassword(r, a) \/ UpdateStaffUser(r, a)
           \/ \E s \in SignIn : VerifyCode(r, s) \/ ResendCode(r, s)
    PROVE  SendsInv'
  <1> USE DEF SignInInv
  <1>0. minute \in Nat /\ minute <= minute /\ UNCHANGED <<minute, mailed, signIn>>
    <2>1. minute \in Nat
      BY DEF SignInTypeOK
    <2>2. UNCHANGED <<minute, mailed, signIn>>
      BY Zenon DEF LoginWithPassword, UpdateStaffUser, VerifyCode, ResendCode, signInHistory
    <2> QED BY <2>1, <2>2
  <1>1. ASSUME NEW a \in Account, NEW op \in {"countFirst", "revokeAll"},
               GoOnAuth(r, [op |-> op, user |-> a, at |-> minute])
        PROVE  SendsInv'
    <2> DEFINE c == [op |-> op, user |-> a, at |-> minute]
    <2>1. c \in AuthCalls
      BY <1>0 DEF AuthCalls
    <2>2. GoesOn(r, c) /\ c.op \notin {"revokeOlder", "create", "claim"}
      BY <1>0, <1>1 DEF GoesOn, GoOnAuth, Resending
    <2> HIDE DEF c
    <2> QED BY <1>0, <2>1, <2>2, SendsQuiet, UnchangedKept
  <1>2. ASSUME NEW s \in SignIn, NEW right \in BOOLEAN,
               GoOnAuth(r, [op |-> "try", row |-> s, right |-> right])
        PROVE  SendsInv'
    <2> DEFINE c == [op |-> "try", row |-> s, right |-> right]
    <2>1. c \in AuthCalls
      BY DEF AuthCalls
    <2>2. c.op = "try" /\ auth' = [auth EXCEPT ![r] = c]
      BY <1>2 DEF GoOnAuth
    <2> HIDE DEF c
    <2>3. GoesOn(r, c)
      BY <1>0, <2>2 DEF GoesOn, Resending, TimedCalls
    <2> QED BY <1>0, <2>1, <2>2, <2>3, SendsQuiet, UnchangedKept
  <1>3. ASSUME NEW s \in SignIn, ResendCode(r, s) PROVE SendsInv'
    <2> DEFINE c == [op |-> "countAgain", row |-> s, at |-> minute, sends |-> signIn[s].sends]
    <2>1. Stored(s) /\ signIn[s].sends < MAX_SENDS
      BY <1>3 DEF ResendCode, PendingChallenge, Answered
    <2>2. signIn[s].sends \in Nat /\ signIn[s].sentAt \in Nat /\ signIn[s].sentAt <= minute
      BY <2>1, RowOf, RowFields DEF SendsInv, RowsInTime
    <2>3. c \in AuthCalls
      BY <1>0, <2>2 DEF AuthCalls
    <2>4. GoesOn(r, c) /\ c.op \notin {"revokeOlder", "create", "claim"}
      BY <1>0, <1>3, <2>1, <2>2 DEF GoesOn, GoOnAuth, Resending, ResendCode
    <2> HIDE DEF c
    <2> QED BY <1>0, <2>3, <2>4, SendsQuiet, UnchangedKept
  <1> QED BY <1>1, <1>2, <1>3 DEF LoginWithPassword, UpdateStaffUser, VerifyCode

\* A request counts the sends of the last hour, revokes, tries, uses or fails.
LEMMA SendsGoing ==
    ASSUME SignInInv, SignInInv', SendsInv, NEW r \in AuthRequest,
           CountFirst(r) \/ CountAgain(r) \/ RevokeOlder(r) \/ RevokeAll(r) \/ TakeTry(r) \/ UseCode(r)
    PROVE  SendsInv'
  <1> USE DEF SignInInv
  <1> DEFINE c == auth[r]
  <1>0. UNCHANGED <<minute, mailed>>
    BY DEF CountFirst, CountAgain, RevokeOlder, RevokeAll, TakeTry, UseCode, signInHistory
  <1>1. c \in AuthCalls
    BY DEF SignInTypeOK
  <1>2. \A s \in SignIn : Kept(s)
    <2>1. CASE CountFirst(r) \/ CountAgain(r)
      BY <2>1, UnchangedKept DEF CountFirst, CountAgain
    <2>2. CASE RevokeOlder(r) \/ RevokeAll(r)
      BY <2>2, RevokingKeeps DEF RevokeOlder, RevokeAll
    <2>3. CASE TakeTry(r) \/ UseCode(r)
      BY <2>3, TryingKeeps
    <2> QED BY <2>1, <2>2, <2>3
  <1>3. CASE Answer(r)
    BY <1>0, <1>2, <1>3, SendsAnswered
  <1>4. CASE CountFirst(r) /\ ~Answer(r)
    <2> DEFINE d == [c EXCEPT !.op = "revokeOlder"]
    <2>1. c.op = "countFirst" /\ c.user \in Account /\ c.at \in Nat /\ c = [op |-> c.op, user |-> c.user, at |-> c.at]
      BY <1>1, <1>4, AuthKinds DEF CountFirst
    <2>2. ~(SendsInLastHour(c.user, c.at) >= MAX_SENDS_PER_HOUR) /\ auth' = [auth EXCEPT ![r] = d]
      BY <1>4 DEF CountFirst, GoOnAuth
    <2>3. d \in AuthCalls /\ d = [op |-> "revokeOlder", user |-> c.user, at |-> c.at]
      BY <1>1, <2>1, CountedFirst
    <2>4. c.at <= minute
      BY <2>1 DEF SendsInv, RequestsInTime, TimedCalls
    <2>5. d.op = "revokeOlder" /\ d.user = c.user /\ d.at = c.at
      BY <2>3
    <2> HIDE DEF d
    <2>6. GoesOn(r, d)
      BY <1>0, <2>2, <2>4, <2>5 DEF GoesOn, Resending
    <2>7. auth'[r] = d
      BY <2>2 DEF SignInTypeOK
    <2>8. ASSUME NEW a \in Account, NEW from \in Nat, r \in UnderWay(a, from)'
          PROVE  Cardinality(MailedWithin(a, from)) <= MAX_SENDS_PER_HOUR - 1
      <3>1. a = c.user /\ c.at <= from + HOUR /\ from <= c.at
        BY <2>5, <2>7, <2>8 DEF UnderWay, Sending
      <3>2. /\ Cardinality(MailedWithin(a, from)) <= SendsInLastHour(a, c.at)
            /\ Cardinality(MailedWithin(a, from)) \in Nat /\ SendsInLastHour(a, c.at) \in Nat
        BY <2>1, <3>1, CountedAtLeast DEF SendsInv
      <3> QED BY <2>2, <3>1, <3>2, SignInAssumption
    <2> QED BY <1>2, <2>3, <2>6, <2>8, SendsAll
  <1>5. CASE CountAgain(r) /\ ~Answer(r)
    <2> DEFINE d == [c EXCEPT !.op = "claim"]
    <2>1. /\ c.op = "countAgain" /\ c.row \in SignIn /\ c.at \in Nat /\ c.sends \in Nat
          /\ c = [op |-> c.op, row |-> c.row, at |-> c.at, sends |-> c.sends]
      BY <1>1, <1>5, AuthKinds DEF CountAgain
    <2>2. /\ ~(SendsInLastHour(signIn[c.row].user, c.at) >= MAX_SENDS_PER_HOUR)
          /\ auth' = [auth EXCEPT ![r] = d] /\ UNCHANGED signIn
      BY <1>5 DEF CountAgain, GoOnAuth
    <2>3. d \in AuthCalls /\ d = [op |-> "claim", row |-> c.row, at |-> c.at, sends |-> c.sends]
      BY <1>1, <2>1, CountedAgain
    <2>4. c.at <= minute /\ Resending(c)
      BY <2>1 DEF SendsInv, RequestsInTime, TimedCalls
    <2>5. d.op = "claim" /\ d.row = c.row /\ d.at = c.at /\ d.sends = c.sends
      BY <2>3
    <2>6. signIn[c.row].user \in Account
      <3>1. Stored(c.row)
        BY <2>1 DEF OwnRows, RowCalls, Answered
      <3> QED BY <2>1, <3>1, RowOf, RowFields
    <2> HIDE DEF d
    <2>7. GoesOn(r, d)
      BY <1>0, <2>1, <2>2, <2>4, <2>5 DEF GoesOn, Resending
    <2>8. auth'[r] = d
      BY <2>2 DEF SignInTypeOK
    <2>9. ASSUME NEW a \in Account, NEW from \in Nat, r \in UnderWay(a, from)'
          PROVE  Cardinality(MailedWithin(a, from)) <= MAX_SENDS_PER_HOUR - 1
      <3>1. a = signIn[c.row].user /\ c.at <= from + HOUR /\ from <= c.at
        BY <2>2, <2>5, <2>8, <2>9 DEF UnderWay, Sending
      <3>2. /\ Cardinality(MailedWithin(a, from)) <= SendsInLastHour(a, c.at)
            /\ Cardinality(MailedWithin(a, from)) \in Nat /\ SendsInLastHour(a, c.at) \in Nat
        BY <2>1, <3>1, CountedAtLeast DEF SendsInv
      <3> QED BY <2>2, <3>1, <3>2, SignInAssumption
    <2> QED BY <1>2, <2>3, <2>7, <2>9, SendsAll
  <1>6. CASE RevokeOlder(r)
    <2> DEFINE d == ToCreate(c)
    <2>1. c.op = "revokeOlder" /\ c.user \in Account /\ c.at \in Nat
      BY <1>1, <1>6, AuthKinds DEF RevokeOlder
    <2>2. d \in AuthCalls /\ d.op = "create" /\ d.user = c.user /\ d.at = c.at
      BY <2>1 DEF ToCreate, AuthCalls
    <2>3. auth' = [auth EXCEPT ![r] = d]
      BY <1>6 DEF RevokeOlder, GoOnAuth
    <2>4. c.at <= minute
      BY <2>1 DEF SendsInv, RequestsInTime, TimedCalls
    <2> HIDE DEF d
    <2>5. GoesOn(r, d)
      BY <1>0, <2>2, <2>3, <2>4 DEF GoesOn, Resending
    <2>6. auth'[r] = d
      BY <2>3 DEF SignInTypeOK
    <2>7. ASSUME NEW a \in Account, NEW from \in Nat, r \in UnderWay(a, from)'
          PROVE  r \in UnderWay(a, from)
      BY <2>1, <2>2, <2>6, <2>7 DEF UnderWay, Sending
    <2> QED BY <1>2, <2>2, <2>5, <2>7, SendsAll
  <1>7. CASE TakeTry(r) /\ GoOnAuth(r, [op |-> "use", row |-> c.row])
    <2> DEFINE d == [op |-> "use", row |-> c.row]
    <2>1. c.row \in SignIn
      BY <1>1, <1>7, AuthKinds DEF TakeTry
    <2>2. d \in AuthCalls /\ d.op = "use" /\ auth' = [auth EXCEPT ![r] = d]
      BY <1>7, <2>1 DEF AuthCalls, GoOnAuth
    <2> HIDE DEF d
    <2>3. GoesOn(r, d)
      BY <1>0, <2>2 DEF GoesOn, Resending, TimedCalls
    <2> QED BY <1>2, <2>2, <2>3, SendsQuiet
  <1> QED BY <1>3, <1>4, <1>5, <1>6, <1>7 DEF RevokeAll, TakeTry, UseCode

\* A row is created, and its first code is to be emailed.
LEMMA SendsCreate ==
    ASSUME SignInInv, SignInInv', SendsInv, NEW r \in AuthRequest, CreateSignIn(r)
    PROVE  SendsInv'
  <1> USE DEF SignInInv
  <1>1. PICK s \in NewRows :
           /\ signIn' = [signIn EXCEPT ![s] =
                [user |-> auth[r].user, attempts |-> 0, sends |-> 1, sentAt |-> auth[r].at,
                 expiresAt |-> auth[r].at + CODE_LIFE, used |-> FALSE, revoked |-> FALSE]]
           /\ auth' = [auth EXCEPT ![r] = [op |-> "email", row |-> s, at |-> auth[r].at]]
    BY DEF CreateSignIn, GoOnAuth
  <1>2. /\ s \in SignIn /\ ~Stored(s) /\ auth[r].op = "create" /\ auth[r].at \in Nat
        /\ auth[r].user \in Account
    BY AuthKinds DEF CreateSignIn, NewRows, SignInTypeOK
  <1>3. /\ signIn'[s].sends = 1 /\ signIn'[s].sentAt = auth[r].at /\ signIn'[s].user = auth[r].user
        /\ \A t \in SignIn \ {s} : signIn'[t] = signIn[t]
    BY <1>1, <1>2 DEF SignInTypeOK
  <1>4. /\ auth'[r].op = "email" /\ auth'[r].row = s /\ auth'[r].at = auth[r].at
        /\ \A q \in AuthRequest \ {r} : auth'[q] = auth[q]
    BY <1>1 DEF SignInTypeOK
  <1>5. UNCHANGED <<minute, mailed>>
    BY DEF CreateSignIn
  <1>6. auth[r].at <= minute
    BY <1>2 DEF SendsInv, RequestsInTime, TimedCalls
  <1>7. /\ \A q \in AuthRequest : auth[q].op \in RowCalls \cup {"email", "forget"}
              => auth[q].row \in SignIn \ {s} /\ Stored(auth[q].row)
        /\ \A m \in mailed : m.row \in SignIn \ {s}
    <2>1. ASSUME NEW q \in AuthRequest, auth[q].op \in RowCalls \cup {"email", "forget"}
          PROVE  auth[q].row \in SignIn \ {s} /\ Stored(auth[q].row)
      <3>1. auth[q] \in AuthCalls
        BY DEF SignInTypeOK
      <3>2. auth[q].row \in SignIn
        BY <2>1, <3>1, AuthKinds DEF RowCalls
      <3>3. Stored(auth[q].row)
        BY <2>1 DEF OwnRows, Emailing, Answered
      <3> QED BY <1>2, <3>2, <3>3
    <2> QED BY <1>2, <2>1 DEF SendsInv, EmailsAreSends, SignInTypeOK, Emails
  <1>8. RowsInTime'
    <2>1. signIn'[s].sends <= MAX_SENDS
      BY <1>3, SignInAssumption
    <2> QED BY <1>3, <1>5, <1>6, <2>1 DEF SendsInv, RowsInTime, Stored
  <1>9. EmailsAreSends'
    BY <1>3, <1>5, <1>7 DEF SendsInv, EmailsAreSends, Stored
  <1>10. RequestsInTime'
    <2>1. \A q \in AuthRequest : auth'[q].op \in TimedCalls => auth'[q].at <= minute'
      BY <1>4, <1>5, <1>6 DEF SendsInv, RequestsInTime
    <2>2. ASSUME NEW q \in AuthRequest PROVE Resending(auth[q])'
      <3>1. CASE auth'[q].op \in {"countAgain", "claim", "emailAgain"}
        <4>1. auth'[q] = auth[q] /\ auth[q].row \in SignIn \ {s} /\ Resending(auth[q])
          BY <1>4, <1>7, <3>1 DEF RowCalls, SendsInv, RequestsInTime
        <4> QED BY <1>3, <4>1 DEF Resending
      <3>2. CASE auth'[q].op \notin {"countAgain", "claim", "emailAgain"}
        BY <3>2 DEF Resending
      <3> QED BY <3>1, <3>2
    <2>3. ASSUME NEW q \in AuthRequest, Emailing(q)'
          PROVE  /\ auth'[q].at <= signIn'[auth'[q].row].sentAt /\ signIn'[auth'[q].row].sends >= 1
                 /\ \A m \in mailed' : m.row # auth'[q].row
      <3>1. CASE q = r
        BY <1>2, <1>3, <1>4, <1>5, <1>7, <3>1
      <3>2. CASE q # r
        <4>1. auth'[q] = auth[q] /\ auth[q].row \in SignIn \ {s} /\ Emailing(q)
          BY <1>4, <1>7, <2>3, <3>2 DEF Emailing
        <4> QED BY <1>3, <1>5, <4>1 DEF SendsInv, RequestsInTime
      <3> QED BY <3>1, <3>2
    <2>4. \A q \in AuthRequest : auth'[q].op = "emailAgain" => auth'[q] = auth[q]
      BY <1>4
    <2> QED BY <1>5, <2>1, <2>2, <2>3, <2>4 DEF SendsInv, RequestsInTime
  <1>11. ASSUME NEW a \in Account, NEW from \in Nat
         PROVE  /\ \A q \in AuthRequest \ {r} : q \in UnderWay(a, from)' => q \in UnderWay(a, from)
                /\ r \in UnderWay(a, from)' => r \in UnderWay(a, from)
    <2>1. r \in UnderWay(a, from)' => r \in UnderWay(a, from)
      BY <1>2, <1>3, <1>4 DEF UnderWay, Sending
    <2>2. ASSUME NEW q \in AuthRequest \ {r}, q \in UnderWay(a, from)' PROVE q \in UnderWay(a, from)
      <3>1. auth[q].op \in {"email", "claim", "emailAgain"} => signIn'[auth[q].row] = signIn[auth[q].row]
        BY <1>3, <1>7 DEF RowCalls
      <3> QED BY <1>4, <2>2, <3>1 DEF UnderWay, Sending
    <2> QED BY <2>1, <2>2
  <1>12. HourKept'
    BY <1>5, <1>11, HourGoesOn DEF SendsInv
  <1> QED BY <1>8, <1>9, <1>10, <1>12 DEF SendsInv

\* A row whose first code couldn't be emailed is deleted.
LEMMA SendsForget ==
    ASSUME SignInInv, SignInInv', SendsInv, NEW r \in AuthRequest, ForgetSignIn(r)
    PROVE  SendsInv'
  <1> USE DEF SignInInv
  <1> DEFINE x == auth[r].row
  <1>1. auth[r].op = "forget" /\ Emailing(r) /\ x \in SignIn
    BY AuthKinds DEF ForgetSignIn, Emailing, SignInTypeOK
  <1>2. /\ auth'[r] = NoRequest /\ NoRequest.op = "idle"
        /\ \A q \in AuthRequest \ {r} : auth'[q] = auth[q]
    BY DEF ForgetSignIn, Answer, SignInTypeOK, NoRequest
  <1>3. signIn'[x] = NoRow /\ \A s \in SignIn \ {x} : signIn'[s] = signIn[s]
    BY <1>1 DEF ForgetSignIn, SignInTypeOK
  <1>4. UNCHANGED <<minute, mailed>>
    BY DEF ForgetSignIn
  <1>5. \A m \in mailed : m.row \in SignIn \ {x}
    BY <1>1 DEF SendsInv, RequestsInTime, SignInTypeOK, Emails
  <1>6. ASSUME NEW q \in AuthRequest \ {r}, auth[q].op \in RowCalls \cup {"email", "forget"}
        PROVE  auth[q].row \in SignIn \ {x}
    <2>1. auth[q] \in AuthCalls
      BY DEF SignInTypeOK
    <2>2. auth[q].row \in SignIn
      BY <1>6, <2>1, AuthKinds DEF RowCalls
    <2>3. auth[q].row # x
      BY <1>1, <1>6 DEF OwnRows, Emailing, Answered
    <2> QED BY <2>2, <2>3
  <1>7. RowsInTime'
    BY <1>3, <1>4 DEF SendsInv, RowsInTime, Stored
  <1>8. EmailsAreSends'
    BY <1>3, <1>4, <1>5 DEF SendsInv, EmailsAreSends, Stored
  <1>9. RequestsInTime'
    <2>1. \A q \in AuthRequest : auth'[q].op \in TimedCalls => auth'[q].at <= minute'
      BY <1>2, <1>4 DEF SendsInv, RequestsInTime, TimedCalls
    <2>2. ASSUME NEW q \in AuthRequest PROVE Resending(auth[q])'
      <3>1. CASE auth'[q].op \in {"countAgain", "claim", "emailAgain"}
        <4>1. auth'[q] = auth[q] /\ auth[q].row \in SignIn \ {x} /\ Resending(auth[q])
          BY <1>2, <1>6, <3>1 DEF RowCalls, SendsInv, RequestsInTime
        <4> QED BY <1>3, <4>1 DEF Resending
      <3>2. CASE auth'[q].op \notin {"countAgain", "claim", "emailAgain"}
        BY <3>2 DEF Resending
      <3> QED BY <3>1, <3>2
    <2>3. ASSUME NEW q \in AuthRequest, Emailing(q)'
          PROVE  /\ auth'[q].at <= signIn'[auth'[q].row].sentAt /\ signIn'[auth'[q].row].sends >= 1
                 /\ \A m \in mailed' : m.row # auth'[q].row
      <3>1. auth'[q] = auth[q] /\ auth[q].row \in SignIn \ {x} /\ Emailing(q)
        BY <1>2, <1>6, <2>3 DEF Emailing
      <3> QED BY <1>3, <1>4, <3>1 DEF SendsInv, RequestsInTime
    <2>4. \A q \in AuthRequest : auth'[q].op = "emailAgain" => auth'[q] = auth[q]
      BY <1>2
    <2> QED BY <1>4, <2>1, <2>2, <2>3, <2>4 DEF SendsInv, RequestsInTime
  <1>10. ASSUME NEW a \in Account, NEW from \in Nat
         PROVE  /\ \A q \in AuthRequest \ {r} : q \in UnderWay(a, from)' => q \in UnderWay(a, from)
                /\ r \in UnderWay(a, from)' => r \in UnderWay(a, from)
    <2>1. r \notin UnderWay(a, from)'
      BY <1>2 DEF UnderWay, Sending
    <2>2. ASSUME NEW q \in AuthRequest \ {r}, q \in UnderWay(a, from)' PROVE q \in UnderWay(a, from)
      <3>1. auth[q].op \in {"email", "claim", "emailAgain"} => signIn'[auth[q].row] = signIn[auth[q].row]
        BY <1>3, <1>6 DEF RowCalls
      <3> QED BY <1>2, <2>2, <3>1 DEF UnderWay, Sending
    <2> QED BY <2>1, <2>2
  <1>11. HourKept'
    BY <1>4, <1>10, HourGoesOn DEF SendsInv
  <1> QED BY <1>7, <1>8, <1>9, <1>11 DEF SendsInv

\* A resend that claims the send it read.
LEMMA SendsClaim ==
    ASSUME SignInInv, SignInInv', SendsInv, NEW r \in AuthRequest, ClaimResend(r), CanClaim(auth[r])
    PROVE  SendsInv'
  <1> USE DEF SignInInv
  <1> DEFINE c == auth[r]
             s == auth[r].row
             d == [c EXCEPT !.op = "emailAgain"]
  <1>1. /\ c.op = "claim" /\ c \in AuthCalls /\ s \in SignIn /\ c.at \in Nat /\ c.sends \in Nat
        /\ c = [op |-> c.op, row |-> s, at |-> c.at, sends |-> c.sends]
    BY AuthKinds DEF ClaimResend, SignInTypeOK
  <1>2. Answered(s) /\ Stored(s)
    BY <1>1 DEF OwnRows, RowCalls, Answered
  <1>3. signIn[s] \in SignInRow /\ signIn[s].sends = c.sends /\ signIn[s].sentAt \in Nat
    BY <1>1, <1>2, RowOf, RowFields DEF CanClaim
  <1>4. /\ signIn'[s] = Resent(signIn[s], c.at)
        /\ \A t \in SignIn \ {s} : signIn'[t] = signIn[t]
    BY <1>1 DEF ClaimResend, SignInTypeOK
  <1>5. /\ signIn'[s].sends = c.sends + 1 /\ signIn'[s].sentAt = c.at
        /\ signIn'[s].user = signIn[s].user
    BY <1>3, <1>4 DEF Resent, SignInRow
  <1>6. d.op = "emailAgain" /\ d.row = s /\ d.at = c.at /\ d.sends = c.sends
    BY <1>1
  <1>7. auth'[r] = d /\ \A q \in AuthRequest \ {r} : auth'[q] = auth[q]
    BY DEF ClaimResend, GoOnAuth, SignInTypeOK
  <1>8. UNCHANGED <<minute, mailed>>
    BY DEF ClaimResend, signInHistory
  <1>9. c.at <= minute /\ c.sends < MAX_SENDS /\ signIn[s].sentAt <= c.at
    BY <1>1, <1>3 DEF SendsInv, RequestsInTime, TimedCalls, Resending
  <1>10. /\ \A m \in mailed : m.send \in Nat /\ m.at \in Nat /\ m.row \in SignIn
         /\ \A m \in mailed : m.row = s => m.send <= c.sends /\ m.at <= c.at
    <2>1. \A m \in mailed : m.send \in Nat /\ m.at \in Nat /\ m.row \in SignIn
      BY DEF SignInTypeOK, Emails
    <2>2. ASSUME NEW m \in mailed, m.row = s PROVE m.send <= c.sends /\ m.at <= c.at
      <3>1. m.send <= signIn[s].sends /\ m.at <= signIn[s].sentAt
        BY <2>2 DEF SendsInv, EmailsAreSends
      <3> QED BY <1>1, <1>3, <1>9, <2>1, <3>1
    <2> QED BY <2>1, <2>2
  <1> HIDE DEF c, s, d
  <1>11. RowsInTime'
    <2>1. signIn'[s].sends <= MAX_SENDS
      BY <1>1, <1>5, <1>9, SignInAssumption
    <2> QED BY <1>4, <1>5, <1>8, <1>9, <2>1 DEF SendsInv, RowsInTime, Stored
  <1>12. signIn'[s] # NoRow
    <2>1. Resent(signIn[s], c.at) \in SignInRow
      BY <1>1, <1>3, ResentRow
    <2> QED BY <1>4, <2>1, RowIsStored
  <1>13. EmailsAreSends'
    <2>1. ASSUME NEW m \in mailed
          PROVE  /\ signIn'[m.row] # NoRow /\ m.to = signIn'[m.row].user
                 /\ m.send <= signIn'[m.row].sends /\ m.send >= 1
                 /\ m.at <= signIn'[m.row].sentAt
      <3>1. /\ Stored(m.row) /\ m.to = signIn[m.row].user /\ m.send <= signIn[m.row].sends /\ m.send >= 1
            /\ m.at <= signIn[m.row].sentAt
        BY DEF SendsInv, EmailsAreSends
      <3>2. CASE m.row = s
        BY <1>1, <1>5, <1>10, <1>12, <3>1, <3>2
      <3>3. CASE m.row # s
        BY <1>4, <1>10, <3>1, <3>3 DEF Stored
      <3> QED BY <3>2, <3>3
    <2> QED BY <1>8, <2>1 DEF SendsInv, EmailsAreSends, Stored
  <1>14. ASSUME NEW q \in AuthRequest \ {r}, auth[q].op \in RowCalls \cup {"email", "forget"}
         PROVE  /\ auth[q] \in AuthCalls /\ auth[q].row \in SignIn
                /\ auth[q].op \in {"email", "forget"} => auth[q].row # s
    <2>1. auth[q] \in AuthCalls
      BY DEF SignInTypeOK
    <2>2. auth[q].row \in SignIn
      BY <1>14, <2>1, AuthKinds DEF RowCalls
    <2> QED BY <1>2, <2>1, <2>2 DEF Answered
  <1>15. RequestsInTime'
    <2>1. \A q \in AuthRequest : auth'[q].op \in TimedCalls => auth'[q].at <= minute'
      BY <1>6, <1>7, <1>8, <1>9 DEF SendsInv, RequestsInTime
    <2>2. ASSUME NEW q \in AuthRequest PROVE Resending(auth[q])'
      <3>1. CASE q = r
        BY <1>1, <1>5, <1>6, <1>7, <3>1 DEF Resending
      <3>2. CASE q # r /\ auth[q].op \in {"countAgain", "claim", "emailAgain"} /\ auth[q].row = s
        <4>1. auth'[q] = auth[q] /\ Resending(auth[q])
          BY <1>7, <3>2 DEF SendsInv, RequestsInTime
        <4>2. auth[q].sends \in Nat /\ auth[q].at \in Nat
          BY <1>14, <3>2, AuthKinds DEF RowCalls
        <4>3. auth[q].op \in {"countAgain", "claim"} => auth[q].sends < MAX_SENDS /\ auth[q].sends < signIn'[s].sends
          BY <1>1, <1>3, <1>5, <3>2, <4>1, <4>2 DEF Resending
        <4>4. auth[q].op = "emailAgain" => auth[q].sends < signIn'[s].sends /\ auth[q].at <= signIn'[s].sentAt
          BY <1>1, <1>3, <1>5, <1>9, <3>2, <4>1, <4>2 DEF Resending
        <4>5. auth[q].op \in {"countAgain", "claim"} => auth[q].sends # signIn'[s].sends /\ auth[q].sends <= signIn'[s].sends
          BY <1>1, <1>5, <4>2, <4>3
        <4> QED BY <3>2, <4>1, <4>3, <4>4, <4>5 DEF Resending
      <3>3. CASE q # r /\ auth[q].op \in {"countAgain", "claim", "emailAgain"} /\ auth[q].row # s
        <4>1. auth'[q] = auth[q] /\ Resending(auth[q]) /\ signIn'[auth[q].row] = signIn[auth[q].row]
          BY <1>4, <1>7, <1>14, <3>3 DEF SendsInv, RequestsInTime, RowCalls
        <4> QED BY <4>1 DEF Resending
      <3>4. CASE q # r /\ auth[q].op \notin {"countAgain", "claim", "emailAgain"}
        BY <1>7, <3>4 DEF Resending
      <3> QED BY <3>1, <3>2, <3>3, <3>4
    <2>3. ASSUME NEW q \in AuthRequest, Emailing(q)'
          PROVE  /\ auth'[q].at <= signIn'[auth'[q].row].sentAt /\ signIn'[auth'[q].row].sends >= 1
                 /\ \A m \in mailed' : m.row # auth'[q].row
      <3>1. q # r /\ auth'[q] = auth[q] /\ Emailing(q)
        BY <1>6, <1>7, <2>3 DEF Emailing
      <3>2. auth[q].row \in SignIn /\ auth[q].row # s
        BY <1>14, <3>1 DEF Emailing
      <3> QED BY <1>4, <1>8, <3>1, <3>2 DEF SendsInv, RequestsInTime
    <2>4. ASSUME NEW q \in AuthRequest, auth'[q].op = "emailAgain", NEW m \in mailed'
          PROVE  ~(m.row = auth'[q].row /\ m.send = auth'[q].sends + 1)
      <3>1. CASE q = r
        BY <1>1, <1>6, <1>7, <1>8, <1>10, <3>1
      <3>2. CASE q # r
        BY <1>7, <1>8, <2>4, <3>2 DEF SendsInv, RequestsInTime
      <3> QED BY <3>1, <3>2
    <2>5. ASSUME NEW q \in AuthRequest \ {r}, auth[q].op = "emailAgain", auth[q].row = s
          PROVE  auth[q].sends # c.sends
      <3>1. auth[q].sends < signIn[s].sends /\ auth[q].sends \in Nat
        BY <1>14, <2>5, AuthKinds DEF SendsInv, RequestsInTime, Resending, RowCalls
      <3> QED BY <1>1, <1>3, <3>1
    <2>6. \A p, q \in AuthRequest :
             p # q /\ auth'[p].op = "emailAgain" /\ auth'[q].op = "emailAgain" /\ auth'[p].row = auth'[q].row
               => auth'[p].sends # auth'[q].sends
      BY <1>6, <1>7, <2>5 DEF SendsInv, RequestsInTime
    <2> QED BY <2>1, <2>2, <2>3, <2>4, <2>6 DEF RequestsInTime
  <1>16. ASSUME NEW a \in Account, NEW from \in Nat
         PROVE  /\ \A q \in AuthRequest \ {r} : q \in UnderWay(a, from)' => q \in UnderWay(a, from)
                /\ r \in UnderWay(a, from)' => r \in UnderWay(a, from)
    <2>1. r \in UnderWay(a, from)' => r \in UnderWay(a, from)
      BY <1>1, <1>5, <1>6, <1>7 DEF UnderWay, Sending, c, s
    <2>2. ASSUME NEW q \in AuthRequest \ {r}, q \in UnderWay(a, from)' PROVE q \in UnderWay(a, from)
      <3>1. auth[q].op \in {"email", "claim", "emailAgain"} => signIn'[auth[q].row].user = signIn[auth[q].row].user
        BY <1>4, <1>5, <1>14 DEF RowCalls
      <3> QED BY <1>7, <2>2, <3>1 DEF UnderWay, Sending
    <2> QED BY <2>1, <2>2
  <1>17. HourKept'
    BY <1>8, <1>16, HourGoesOn DEF SendsInv
  <1> QED BY <1>11, <1>13, <1>15, <1>17 DEF SendsInv

\* A code is emailed.
LEMMA SendsMailed ==
    ASSUME SignInInv, SignInInv', SendsInv, NEW r \in AuthRequest, Answer(r), UNCHANGED <<minute, signIn>>,
           NEW s \in SignIn, NEW k \in Nat, s = auth[r].row, Mail(s, k, auth[r].at),
           auth[r].op \in {"email", "emailAgain"},
           auth[r].op = "email" => k = 1,
           auth[r].op = "emailAgain" => k = auth[r].sends + 1
    PROVE  SendsInv'
  <1> USE DEF SignInInv
  <1> DEFINE m == [row |-> s, send |-> k, to |-> signIn[s].user, at |-> auth[r].at]
  <1>1. m.row = s /\ m.send = k /\ m.to = signIn[s].user /\ m.at = auth[r].at /\ mailed' = mailed \cup {m}
    BY DEF Mail
  <1> HIDE DEF m
  <1>2. /\ auth'[r] = NoRequest /\ NoRequest.op = "idle"
        /\ \A q \in AuthRequest \ {r} : auth'[q] = auth[q]
    BY DEF Answer, NoRequest, SignInTypeOK
  <1>3. auth[r] \in AuthCalls /\ auth[r].at \in Nat /\ (auth[r].op = "emailAgain" => auth[r].sends \in Nat)
    BY AuthKinds DEF SignInTypeOK
  <1>4. Stored(s)
    BY DEF OwnRows, Emailing, Answered, RowCalls
  <1>5. signIn[s].sends \in Nat
    BY <1>4, RowOf, RowFields
  <1>6. /\ k <= signIn[s].sends /\ k >= 1 /\ auth[r].at <= signIn[s].sentAt
        /\ \A n \in mailed : ~(n.row = s /\ n.send = k)
    <2>1. CASE auth[r].op = "email"
      BY <2>1 DEF SendsInv, RequestsInTime, Emailing
    <2>2. CASE auth[r].op = "emailAgain"
      <3>1. auth[r].sends < signIn[s].sends /\ auth[r].at <= signIn[s].sentAt
        BY <2>2 DEF SendsInv, RequestsInTime, Resending
      <3>2. \A n \in mailed : ~(n.row = s /\ n.send = k)
        BY <2>2 DEF SendsInv, RequestsInTime
      <3> QED BY <1>3, <1>5, <2>2, <3>1, <3>2
    <2> QED BY <2>1, <2>2
  <1>7. RowsInTime'
    BY DEF SendsInv, RowsInTime, Stored
  <1>8. EmailsAreSends'
    <2>1. IsFiniteSet(mailed')
      BY <1>1, FS_AddElement DEF SendsInv, EmailsAreSends
    <2>2. \A n \in mailed' : /\ Stored(n.row) /\ n.to = signIn[n.row].user
                             /\ n.send <= signIn[n.row].sends /\ n.send >= 1
                             /\ n.at <= signIn[n.row].sentAt
      BY <1>1, <1>4, <1>6 DEF SendsInv, EmailsAreSends
    <2>3. \A n, o \in mailed' : n.row = o.row /\ n.send = o.send => n = o
      BY <1>1, <1>6 DEF SendsInv, EmailsAreSends
    <2> QED BY <2>1, <2>2, <2>3 DEF EmailsAreSends, Stored
  <1>9. ASSUME NEW q \in AuthRequest \ {r}, Emailing(q) PROVE auth[q].row # s
    <2>1. CASE auth[r].op = "email"
      BY <1>9, <2>1 DEF OwnRows, Emailing
    <2>2. CASE auth[r].op = "emailAgain"
      BY <1>9, <2>2 DEF OwnRows, Emailing, Answered, RowCalls
    <2> QED BY <2>1, <2>2
  <1>10. ASSUME NEW q \in AuthRequest \ {r}, auth[q].op = "emailAgain"
         PROVE  ~(s = auth[q].row /\ k = auth[q].sends + 1)
    <2>1. CASE auth[r].op = "email"
      BY <1>10, <2>1 DEF OwnRows, Emailing, Answered, RowCalls
    <2>2. CASE auth[r].op = "emailAgain"
      <3>1. auth[q].sends \in Nat
        BY <1>10, AuthKinds DEF SignInTypeOK
      <3>2. s = auth[q].row => auth[r].sends # auth[q].sends
        BY <1>10, <2>2 DEF SendsInv, RequestsInTime
      <3> QED BY <1>3, <2>2, <3>1, <3>2
    <2> QED BY <2>1, <2>2
  <1>11. RequestsInTime'
    <2>1. \A q \in AuthRequest : auth'[q].op \in TimedCalls => auth'[q].at <= minute'
      BY <1>2 DEF SendsInv, RequestsInTime, TimedCalls
    <2>2. ASSUME NEW q \in AuthRequest PROVE Resending(auth[q])'
      <3>1. CASE q = r
        BY <1>2, <3>1 DEF Resending
      <3>2. CASE q # r
        <4>1. auth'[q] = auth[q] /\ Resending(auth[q])
          BY <1>2, <3>2 DEF SendsInv, RequestsInTime
        <4> QED BY <4>1 DEF Resending
      <3> QED BY <3>1, <3>2
    <2>3. ASSUME NEW q \in AuthRequest, Emailing(q)'
          PROVE  /\ auth'[q].at <= signIn'[auth'[q].row].sentAt /\ signIn'[auth'[q].row].sends >= 1
                 /\ \A n \in mailed' : n.row # auth'[q].row
      <3>1. q # r /\ auth'[q] = auth[q] /\ Emailing(q)
        BY <1>2, <2>3 DEF Emailing
      <3>2. auth[q].row # s
        BY <1>9, <3>1
      <3> QED BY <1>1, <3>1, <3>2 DEF SendsInv, RequestsInTime
    <2>4. ASSUME NEW q \in AuthRequest, auth'[q].op = "emailAgain", NEW n \in mailed'
          PROVE  ~(n.row = auth'[q].row /\ n.send = auth'[q].sends + 1)
      <3>1. q # r /\ auth'[q] = auth[q]
        BY <1>2, <2>4
      <3>2. CASE n = m
        BY <1>1, <1>10, <2>4, <3>1, <3>2
      <3>3. CASE n # m
        BY <1>1, <2>4, <3>1, <3>3 DEF SendsInv, RequestsInTime
      <3> QED BY <3>2, <3>3
    <2>5. \A q \in AuthRequest : auth'[q].op = "emailAgain" => auth'[q] = auth[q]
      BY <1>2
    <2>6. \A p, q \in AuthRequest :
             p # q /\ auth'[p].op = "emailAgain" /\ auth'[q].op = "emailAgain" /\ auth'[p].row = auth'[q].row
               => auth'[p].sends # auth'[q].sends
      BY <2>5 DEF SendsInv, RequestsInTime
    <2> QED BY <2>1, <2>2, <2>3, <2>4, <2>6 DEF RequestsInTime
  <1>12. ASSUME NEW a \in Account, NEW from \in Nat
         PROVE  UnderWay(a, from)' \subseteq UnderWay(a, from) \ {r}
    BY <1>2 DEF UnderWay, Sending
  <1>13. ASSUME NEW a \in Account, NEW from \in Nat, m.to = a /\ from <= m.at /\ m.at <= from + HOUR
         PROVE  r \in UnderWay(a, from)
    BY <1>1, <1>13 DEF UnderWay, Sending
  <1>14. HourKept'
    BY <1>1, <1>12, <1>13, HourMailed DEF SendsInv
  <1> QED BY <1>7, <1>8, <1>11, <1>14 DEF SendsInv

\* The emails' steps.
LEMMA SendsEmail ==
    ASSUME SignInInv, SignInInv', SendsInv, NEW r \in AuthRequest, EmailFirst(r) \/ EmailAgain(r)
    PROVE  SendsInv'
  <1> USE DEF SignInInv
  <1> DEFINE c == auth[r]
  <1>1. c \in AuthCalls /\ UNCHANGED <<minute, signIn>>
    BY DEF EmailFirst, EmailAgain, SignInTypeOK
  <1>2. c.op \in {"email", "emailAgain"}
    BY DEF EmailFirst, EmailAgain
  <1>3. c.row \in SignIn /\ c.at \in Nat /\ (c.op = "emailAgain" => c.sends + 1 \in Nat)
    BY <1>1, <1>2, AuthKinds
  <1>4. CASE EmailFirst(r) /\ Mail(c.row, 1, c.at) /\ Answer(r)
    <2>1. c.op = "email"
      BY <1>4 DEF EmailFirst
    <2> QED BY <1>1, <1>3, <1>4, <2>1, SendsMailed
  <1>5. CASE EmailAgain(r) /\ Mail(c.row, c.sends + 1, c.at) /\ Answer(r)
    <2>1. c.op = "emailAgain"
      BY <1>5 DEF EmailAgain
    <2> QED BY <1>1, <1>3, <1>5, <2>1, SendsMailed
  <1>6. CASE UNCHANGED mailed /\ Answer(r)
    BY <1>1, <1>6, SendsAnswered, UnchangedKept
  <1>7. CASE c.op = "email" /\ GoOnAuth(r, [c EXCEPT !.op = "forget"]) /\ UNCHANGED mailed
    <2> DEFINE d == [c EXCEPT !.op = "forget"]
    <2>1. d \in AuthCalls
      BY <1>1, <1>7, FailedFirst
    <2>2. d.op = "forget" /\ d.row = c.row /\ d.at = c.at
      BY <1>1, <1>7 DEF AuthCalls, NoRequest
    <2>3. c.at <= minute
      BY <1>7 DEF SendsInv, RequestsInTime, TimedCalls
    <2>4. auth' = [auth EXCEPT ![r] = d]
      BY <1>7 DEF GoOnAuth
    <2> HIDE DEF d
    <2>5. GoesOn(r, d)
      BY <1>1, <1>7, <2>2, <2>3, <2>4 DEF GoesOn, Resending
    <2> QED BY <1>1, <2>1, <2>2, <2>5, SendsQuiet, UnchangedKept
  <1> QED BY <1>4, <1>5, <1>6, <1>7 DEF EmailFirst, EmailAgain

\* There are no emails and no requests.
LEMMA SendsInit == SignInInit => SendsInv
  <1> SUFFICES ASSUME SignInInit PROVE SendsInv
    OBVIOUS
  <1>1. \A r \in AuthRequest : auth[r].op = "idle"
    BY DEF SignInInit, NoRequest
  <1>2. mailed = {} /\ \A s \in SignIn : ~Stored(s)
    BY DEF SignInInit, Stored
  <1>3. RowsInTime /\ EmailsAreSends /\ RequestsInTime
    BY <1>1, <1>2, FS_EmptySet DEF RowsInTime, EmailsAreSends, RequestsInTime, Resending, Emailing, TimedCalls
  <1>4. ASSUME NEW a \in Account, NEW from \in Nat
        PROVE  MailedWithin(a, from) = {} /\ UnderWay(a, from) = {}
    BY <1>1, <1>2 DEF MailedWithin, UnderWay, Sending
  <1>5. Cardinality(AuthRequest) \in Nat /\ Cardinality({}) = 0
    BY FS_CardinalityType, FS_EmptySet, SignInAssumption
  <1>6. 0 + 0 <= MAX_SENDS_PER_HOUR - 1 + Cardinality(AuthRequest)
    BY <1>5, SignInAssumption
  <1>7. HourKept
    BY <1>4, <1>5, <1>6 DEF HourKept
  <1> QED BY <1>3, <1>7 DEF SendsInv

\* Every step keeps it.
LEMMA SendsStep == SignInInv /\ SignInInv' /\ SendsInv /\ [SignInNext]_signInVars => SendsInv'
  <1> SUFFICES ASSUME SignInInv, SignInInv', SendsInv, [SignInNext]_signInVars PROVE SendsInv'
    OBVIOUS
  <1>1. CASE UNCHANGED signInVars \/ PassMinute \/ \E a \in Account : Reinstate(a)
    BY <1>1, SendsRest DEF signInVars, PassMinute, Reinstate, signInHistory, SignInInv
  <1>2. ASSUME NEW r \in AuthRequest,
               \/ \E a \in Account : LoginWithPassword(r, a) \/ UpdateStaffUser(r, a)
               \/ \E s \in SignIn : VerifyCode(r, s) \/ ResendCode(r, s)
        PROVE  SendsInv'
    BY <1>2, SendsBegin
  <1>3. ASSUME NEW r \in AuthRequest,
               \/ CountFirst(r) \/ CountAgain(r) \/ RevokeOlder(r) \/ RevokeAll(r) \/ TakeTry(r) \/ UseCode(r)
        PROVE  SendsInv'
    BY <1>3, SendsGoing
  <1>4. ASSUME NEW r \in AuthRequest, CreateSignIn(r) \/ ForgetSignIn(r) \/ EmailFirst(r) \/ EmailAgain(r)
        PROVE  SendsInv'
    BY <1>4, SendsCreate, SendsForget, SendsEmail
  <1>5. ASSUME NEW r \in AuthRequest, ClaimResend(r) PROVE SendsInv'
    <2>1. CASE CanClaim(auth[r])
      BY <1>5, <2>1, SendsClaim
    <2>2. CASE ~CanClaim(auth[r])
      <3>1. Answer(r) /\ UNCHANGED <<minute, mailed, signIn>>
        BY <1>5, <2>2 DEF ClaimResend, signInHistory
      <3> QED BY <3>1, SendsAnswered, UnchangedKept
    <2> QED BY <2>1, <2>2
  <1> QED BY <1>1, <1>2, <1>3, <1>4, <1>5 DEF SignInNext

\* The emails of every hour are within what overlapping requests explain.
THEOREM SendsInvariant == SignInSpec => []SendsInv
  BY SignInInvariant, SendsInit, SendsStep, PTL DEF SignInSpec

\* Whatever requests overlap: a sign-in's tries, resends included, never exceed
\* MAX_WRONG_CODES, it starts one session at most (loginCodes.ts:130), and an account
\* gets no more emails in any hour than the limit and one fewer than the requests
\* there may be at once (loginCodes.ts:79, 159).
THEOREM CodesLimited == SignInSpec => []CodesAreLimited
  <1>1. SignInInv /\ SendsInv => CodesAreLimited
    <2> SUFFICES ASSUME SignInInv, SendsInv PROVE CodesAreLimited
      OBVIOUS
    <2>1. ASSUME NEW m \in mailed
          PROVE  Cardinality(MailedWithin(m.to, m.at)) <= MAX_SENDS_PER_HOUR - 1 + Cardinality(AuthRequest)
      <3>1. m.to \in Account /\ m.at \in Nat
        BY DEF SignInInv, SignInTypeOK, Emails
      <3> DEFINE M == MailedWithin(m.to, m.at)
                 U == UnderWay(m.to, m.at)
      <3>2. Cardinality(M) + Cardinality(U) <= MAX_SENDS_PER_HOUR - 1 + Cardinality(AuthRequest)
        BY <3>1 DEF SendsInv, HourKept
      <3>3. Cardinality(M) \in Nat
        BY EmailsFit DEF SendsInv
      <3>4. Cardinality(U) \in Nat /\ Cardinality(AuthRequest) \in Nat
        BY UnderWayFits DEF UnderWay
      <3> HIDE DEF M, U
      <3>5. Cardinality(M) <= MAX_SENDS_PER_HOUR - 1 + Cardinality(AuthRequest)
        BY <3>2, <3>3, <3>4, SignInAssumption
      <3> QED BY <3>5 DEF M
    <2> QED BY <2>1 DEF SignInInv, TriesCounted, CodesAreLimited
  <1> QED BY <1>1, SignInInvariant, SendsInvariant, PTL

-----------------------------------------------------------------------------
(***************************************************************************)
(* Backups: for any number of backups and redeploys.                       *)
(***************************************************************************)

\* Before its compression ends a backup has no whole file to lose; it is uploaded
\* when it has one, and loses it when the bucket has it.
FilesFollowTheRun ==
    /\ \A n \in BackupId : files[n].cloud \in {"absent", "whole"}
    /\ \A n \in BackupId : n > begun => files[n] = NoFiles
    /\ backup # Idle =>
          /\ backup.n <= begun
          /\ backup.step \in {"dump", "compress"} => files[backup.n].gz = "absent"
          /\ backup.step \in {"dropSql", "upload"} => files[backup.n].gz = "whole"
          /\ backup.step = "dropGz" => files[backup.n].cloud = "whole"

\* The inductive invariant of the backups.
BackupInv == BackupTypeOK /\ FilesFollowTheRun

\* The steps of a run.
RunSteps == {"dump", "compress", "dropSql", "failed", "upload", "dropGz", "end"}

\* A run in progress has a step and a backup.
LEMMA RunningBackup ==
    ASSUME BackupTypeOK, backup # Idle
    PROVE  /\ backup \in [step : RunSteps, n : BackupId]
           /\ backup.n \in BackupId /\ backup.step \in RunSteps
           /\ files[backup.n] \in Files
  BY DEF BackupTypeOK, RunSteps

\* Writing one file leaves the backup's others.
LEMMA FileSet ==
    ASSUME NEW f \in Files, NEW what \in File
    PROVE  /\ [f EXCEPT !["sql"] = what] \in Files /\ [f EXCEPT !["gz"] = what] \in Files
           /\ [f EXCEPT !["sql"] = what].gz = f.gz /\ [f EXCEPT !["sql"] = what].cloud = f.cloud
           /\ [f EXCEPT !["gz"] = what].gz = what /\ [f EXCEPT !["gz"] = what].cloud = f.cloud
  BY DEF Files

\* A run goes on with its backup.
LEMMA RunMoves ==
    ASSUME BackupTypeOK, backup # Idle, NEW s \in RunSteps, GoTo(s)
    PROVE  /\ backup' \in [step : RunSteps, n : BackupId] /\ backup' # Idle
           /\ backup'.step = s /\ backup'.n = backup.n
  <1>1. backup \in [step : RunSteps, n : BackupId]
    BY RunningBackup
  <1>2. backup' = [backup EXCEPT !.step = s]
    BY DEF GoTo
  <1>3. backup' \in [step : RunSteps, n : BackupId] /\ backup'.step = s /\ backup'.n = backup.n
    BY <1>1, <1>2
  <1>4. s # "idle"
    BY DEF RunSteps
  <1> QED BY <1>3, <1>4 DEF Idle

\* There are no files and no run.
LEMMA BackupInvInit == BackupInit => BackupInv
  <1> SUFFICES ASSUME BackupInit PROVE BackupInv
    OBVIOUS
  <1> USE BackupAssumption
  <1>1. NoFiles \in Files /\ NoFiles.cloud = "absent"
    BY DEF NoFiles, Files, File
  <1>2. \A n \in BackupId : files[n] = NoFiles
    BY DEF BackupInit
  <1>3. catchUp \in BOOLEAN /\ (backupRunning <=> backup # Idle)
    BY DEF BackupInit, ChecksBucket
  <1>4. BackupTypeOK
    <2>1. /\ setup \in Setups /\ hour \in 0 .. LastHour /\ begun \in 0 .. MaxBackups
          /\ redeploys \in 0 .. MaxRedeploys
      BY DEF BackupInit
    <2>2. backupRunning \in BOOLEAN
      BY Zenon DEF BackupInit
    <2>3. files \in [BackupId -> Files]
      BY <1>1 DEF BackupInit
    <2> QED BY <1>3, <2>1, <2>2, <2>3 DEF BackupInit, BackupTypeOK
  <1> QED BY <1>1, <1>2, <1>4 DEF BackupInit, BackupInv, FilesFollowTheRun

\* A run begins with a backup that has no files.
LEMMA RunBegins ==
    ASSUME BackupInv, RunBackup, UNCHANGED <<setup, hour, files, target, check, redeploys>>, catchUp' \in BOOLEAN
    PROVE  BackupInv'
  <1>1. begun \in Nat /\ MaxBackups \in Nat /\ begun + 1 \in BackupId
    BY BackupAssumption DEF BackupInv, BackupTypeOK, RunBackup, BackupId
  <1>2. backup' = [step |-> "dump", n |-> begun + 1] /\ begun' = begun + 1
    BY DEF RunBackup, Running
  <1>3. backup' \in [step : RunSteps, n : BackupId] /\ backup' # Idle
    BY <1>1, <1>2 DEF RunSteps, Idle
  <1>4. backupRunning' /\ backupRunning' \in BOOLEAN
    BY Zenon DEF RunBackup
  <1>5. BackupTypeOK'
    BY <1>1, <1>2, <1>3, <1>4 DEF BackupInv, BackupTypeOK, RunBackup, RunSteps
  <1>6. files[begun + 1] = NoFiles
    BY <1>1 DEF BackupInv, FilesFollowTheRun
  <1>7. FilesFollowTheRun'
    BY <1>1, <1>2, <1>6 DEF BackupInv, FilesFollowTheRun, NoFiles, BackupId
  <1> QED BY <1>5, <1>7 DEF BackupInv

\* Every step leaves the files as far as the run is.
LEMMA BackupInvStep == BackupInv /\ [BackupNext]_backupVars => BackupInv'
  <1> SUFFICES ASSUME BackupInv, [BackupNext]_backupVars PROVE BackupInv'
    OBVIOUS
  <1>a. BackupTypeOK /\ FilesFollowTheRun
    BY DEF BackupInv
  <1>0. ASSUME UNCHANGED <<setup, hour, backupRunning, backup, files, begun, catchUp, redeploys>>,
               target' \subseteq BackupId, check' \in {Idle} \cup [step : {"count", "restore"}, n : BackupId]
        PROVE  BackupInv'
    BY <1>0 DEF BackupInv, BackupTypeOK, FilesFollowTheRun
  <1>1. CASE NightlyBackup
    <2>1. catchUp' \in BOOLEAN
      BY <1>1 DEF NightlyBackup, BackupInv, BackupTypeOK
    <2> QED BY <1>1, <2>1, RunBegins DEF NightlyBackup
  <1>2. CASE CatchUpCheck
    <2>1. catchUp' \in BOOLEAN
      BY <1>2, Zenon DEF CatchUpCheck
    <2>2. CASE RunBackup
      BY <1>2, <2>1, <2>2, RunBegins DEF CatchUpCheck
    <2>3. CASE UNCHANGED <<backupRunning, backup, begun>>
      BY <1>2, <2>1, <2>3 DEF CatchUpCheck, BackupInv, BackupTypeOK, FilesFollowTheRun
    <2> QED BY <1>2, <2>2, <2>3 DEF CatchUpCheck
  <1>3. CASE HourPasses
    <2>1. hour' \in 0 .. LastHour
      BY <1>3, BackupAssumption DEF HourPasses, BackupInv, BackupTypeOK
    <2> QED BY <1>3, <2>1 DEF HourPasses, BackupInv, BackupTypeOK, FilesFollowTheRun
  <1>4. CASE Redeploy
    <2>1. \A n \in BackupId :
             /\ files'[n] \in Files /\ files'[n].cloud = files[n].cloud
             /\ files[n] = NoFiles => files'[n] = NoFiles
      <3> TAKE n \in BackupId
      <3>1. files[n] \in Files /\ "absent" \in File
        BY DEF BackupInv, BackupTypeOK, File
      <3>2. CASE setup.local
        BY <1>4, <3>1, <3>2 DEF Redeploy
      <3>3. CASE ~setup.local
        <4>1. files'[n] = [files[n] EXCEPT !.sql = "absent", !.gz = "absent"]
          BY <1>4, <3>3 DEF Redeploy
        <4>2. files'[n] \in Files /\ files'[n].cloud = files[n].cloud
          BY <3>1, <4>1 DEF Files
        <4>3. files[n] = NoFiles => files'[n] = NoFiles
          <5>1. files[n] = NoFiles => /\ files'[n].sql = "absent" /\ files'[n].gz = "absent"
                                     /\ files'[n].cloud = "absent" /\ files'[n].storedAt = 0
            BY <3>1, <4>1 DEF NoFiles, Files
          <5> QED BY <4>2, <5>1 DEF Files, NoFiles
        <4> QED BY <4>2, <4>3
      <3> QED BY <3>2, <3>3
    <2>2. files' \in [BackupId -> Files]
      <3>1. CASE setup.local
        BY <1>4, <3>1 DEF Redeploy, BackupInv, BackupTypeOK
      <3>2. CASE ~setup.local
        <4>1. files' = [n \in BackupId |-> [files[n] EXCEPT !.sql = "absent", !.gz = "absent"]]
          BY <1>4, <3>2 DEF Redeploy
        <4>2. \A n \in BackupId : files'[n] \in Files
          BY <2>1
        <4> QED BY <4>1, <4>2
      <3> QED BY <3>1, <3>2
    <2>3. catchUp' \in BOOLEAN /\ backupRunning' \in BOOLEAN /\ (backupRunning' <=> backup' # Idle)
      BY <1>4, Zenon DEF Redeploy, ChecksBucket
    <2>4. redeploys' \in 0 .. MaxRedeploys
      <3>1. redeploys \in 0 .. MaxRedeploys /\ redeploys < MaxRedeploys /\ redeploys' = redeploys + 1
        BY <1>4 DEF Redeploy, BackupInv, BackupTypeOK
      <3> QED BY <3>1, BackupAssumption
    <2>5. BackupTypeOK'
      BY <1>4, <2>2, <2>3, <2>4 DEF Redeploy, BackupInv, BackupTypeOK
    <2>6. FilesFollowTheRun'
      BY <1>4, <2>1 DEF Redeploy, BackupInv, FilesFollowTheRun
    <2> QED BY <2>5, <2>6 DEF BackupInv
  <1>5. CASE BackupEnds
    <2>1. backupRunning' \in BOOLEAN /\ (backupRunning' <=> backup' # Idle)
      BY <1>5, Zenon DEF BackupEnds
    <2> QED BY <1>5, <2>1 DEF BackupEnds, BackupInv, BackupTypeOK, FilesFollowTheRun
  <1>6. CASE DumpEnds \/ CompressEnds \/ DropSql \/ UploadEnds \/ DropGz
    <2> DEFINE n == backup.n
    <2>1. backup # Idle
      BY <1>6 DEF DumpEnds, CompressEnds, DropSql, UploadEnds, DropGz, Idle
    <2>2. n \in BackupId /\ backup.step \in RunSteps /\ files[n] \in Files
      BY <1>a, <2>1, RunningBackup
    <2>3. UNCHANGED <<setup, hour, backupRunning, begun, catchUp, target, check, redeploys>>
      BY <1>6 DEF DumpEnds, CompressEnds, DropSql, UploadEnds, DropGz
    <2>4. PICK row \in Files, s \in RunSteps :
             /\ files' = [files EXCEPT ![n] = row] /\ GoTo(s)
             /\ row.cloud \in {"absent", "whole"}
             /\ s \in {"dump", "compress"} => row.gz = "absent"
             /\ s \in {"dropSql", "upload"} => row.gz = "whole"
             /\ s = "dropGz" => row.cloud = "whole"
      <3>1. CASE DumpEnds
        <4>1. PICK what \in File, s \in {"compress", "failed"} : Set(n, "sql", what) /\ GoTo(s)
          BY <3>1 DEF DumpEnds, File
        <4>2. files' = [files EXCEPT ![n] = [files[n] EXCEPT !["sql"] = what]]
          BY <4>1 DEF Set
        <4>3. files[n].gz = "absent"
          BY <1>a, <2>1, <3>1 DEF DumpEnds, FilesFollowTheRun
        <4> QED BY <1>a, <2>2, <4>1, <4>2, <4>3, FileSet DEF FilesFollowTheRun, RunSteps
      <3>2. CASE CompressEnds
        <4>1. PICK what \in File, s \in {"dropSql", "failed"} :
                 Set(n, "gz", what) /\ GoTo(s) /\ (s = "dropSql" => what = "whole")
          BY <3>2 DEF CompressEnds, File
        <4>2. files' = [files EXCEPT ![n] = [files[n] EXCEPT !["gz"] = what]]
          BY <4>1 DEF Set
        <4> QED BY <1>a, <2>2, <4>1, <4>2, FileSet DEF FilesFollowTheRun, RunSteps
      <3>3. CASE DropSql
        <4>1. PICK s \in {"upload", "end"} :
                 Set(n, "sql", "absent") /\ GoTo(s) /\ (s = "upload" => backup.step = "dropSql")
          BY <3>3 DEF DropSql
        <4>2. files' = [files EXCEPT ![n] = [files[n] EXCEPT !["sql"] = "absent"]] /\ "absent" \in File
          BY <4>1 DEF Set, File
        <4>3. s = "upload" => files[n].gz = "whole"
          BY <1>a, <2>1, <4>1 DEF FilesFollowTheRun
        <4> QED BY <1>a, <2>2, <4>1, <4>2, <4>3, FileSet DEF FilesFollowTheRun, RunSteps
      <3>4. CASE UploadEnds /\ UNCHANGED files /\ GoTo("end")
        <4>1. files' = [files EXCEPT ![n] = files[n]]
          BY <1>a, <2>2, <3>4 DEF BackupTypeOK
        <4> QED BY <1>a, <2>2, <3>4, <4>1 DEF FilesFollowTheRun, RunSteps
      <3>5. CASE /\ UploadEnds
                 /\ files' = [files EXCEPT ![n] = [files[n] EXCEPT !.cloud = files[n].gz, !.storedAt = hour]]
                 /\ GoTo("dropGz") \/ GoTo("end")
        <4>1. files[n].gz = "whole" /\ hour \in Nat
          BY <1>a, <2>1, <3>5 DEF UploadEnds, FilesFollowTheRun, BackupTypeOK
        <4>2. [files[n] EXCEPT !.cloud = files[n].gz, !.storedAt = hour] \in Files
              /\ [files[n] EXCEPT !.cloud = files[n].gz, !.storedAt = hour].cloud = "whole"
          BY <2>2, <4>1 DEF Files
        <4> QED BY <3>5, <4>2 DEF RunSteps
      <3>6. CASE DropGz
        <4>1. files' = [files EXCEPT ![n] = [files[n] EXCEPT !["gz"] = "absent"]] /\ "absent" \in File
          BY <3>6 DEF DropGz, Set, File
        <4> QED BY <1>a, <2>2, <3>6, <4>1, FileSet DEF DropGz, FilesFollowTheRun, RunSteps
      <3> QED BY <1>6, <3>1, <3>2, <3>3, <3>4, <3>5, <3>6 DEF UploadEnds
    <2>5. /\ backup' \in [step : RunSteps, n : BackupId] /\ backup' # Idle
          /\ backup'.step = s /\ backup'.n = n
      BY <1>a, <2>1, <2>4, RunMoves
    <2>6. files' \in [BackupId -> Files] /\ files'[n] = row /\ \A m \in BackupId \ {n} : files'[m] = files[m]
      BY <1>a, <2>2, <2>4 DEF BackupTypeOK
    <2>7. BackupTypeOK'
      BY <1>a, <2>1, <2>3, <2>5, <2>6 DEF BackupTypeOK, RunSteps
    <2>8. FilesFollowTheRun'
      BY <1>a, <2>1, <2>2, <2>3, <2>4, <2>5, <2>6 DEF FilesFollowTheRun, BackupTypeOK, BackupId
    <2> QED BY <2>7, <2>8 DEF BackupInv
  <1>7. ASSUME NEW n \in BackupId, TakeBackup(n) PROVE BackupInv'
    BY <1>a, <1>0, <1>7 DEF TakeBackup, Running, BackupTypeOK
  <1>8. CASE CountTables
    <2>1. check \in [step : {"count", "restore"}, n : BackupId]
      BY <1>a, <1>8 DEF CountTables, BackupTypeOK, Idle
    <2> QED BY <1>a, <1>0, <1>8, <2>1 DEF CountTables, BackupTypeOK
  <1>9. CASE RestoreEnds
    <2>1. check.n \in BackupId
      BY <1>a, <1>9 DEF RestoreEnds, BackupTypeOK, Idle
    <2> QED BY <1>a, <1>0, <1>9, <2>1 DEF RestoreEnds, BackupTypeOK
  <1>10. CASE EmptyTarget
    BY <1>a, <1>0, <1>10 DEF EmptyTarget, BackupTypeOK
  <1>11. CASE UNCHANGED backupVars
    BY <1>a, <1>0, <1>11 DEF backupVars, BackupTypeOK
  <1> QED BY <1>1, <1>2, <1>3, <1>4, <1>5, <1>6, <1>7, <1>8, <1>9, <1>10, <1>11 DEF BackupNext, BackupStep

\* For every number of backups and redeploys, any clock and any setup: the flag says
\* whether a backup runs, and files, runs and clock hold values of their types.
THEOREM BackupsTyped == BackupSpec => []BackupTypeOK
  BY BackupInvInit, BackupInvStep, PTL DEF BackupSpec, BackupInv

\* Whatever fails and whenever the worker is redeployed: what is in the bucket is whole,
\* and a whole file leaves the disk only when the bucket has it, or with its
\* container (backupDatabase.ts: "finally").
THEOREM BackupsAreKept == BackupSpec => WholeBackupsAreKept
  <1>1. BackupInv => \A n \in BackupId : files[n].cloud \in {"absent", "whole"}
    BY DEF BackupInv, FilesFollowTheRun
  <1>2. BackupInv /\ [BackupNext]_backupVars =>
          [\A n \in BackupId : files[n].gz = "whole" /\ files'[n].gz # "whole" =>
               files[n].cloud = "whole" \/ redeploys' # redeploys]_backupVars
    <2> SUFFICES ASSUME BackupInv, BackupNext, NEW n \in BackupId,
                        files[n].gz = "whole", files'[n].gz # "whole", redeploys' = redeploys
                 PROVE  files[n].cloud = "whole"
      OBVIOUS
    <2>a. BackupTypeOK /\ FilesFollowTheRun /\ files[n] \in Files
      BY DEF BackupInv, BackupTypeOK
    <2>1. ~Redeploy
      <3>1. redeploys \in Nat
        BY <2>a, BackupAssumption DEF BackupTypeOK
      <3>2. Redeploy => redeploys' = redeploys + 1
        BY Zenon DEF Redeploy
      <3>3. redeploys' # redeploys + 1
        BY <3>1
      <3> QED BY <3>2, <3>3
    <2>2. CompressEnds \/ DropGz \/ DumpEnds \/ DropSql \/ UploadEnds
      BY <2>1 DEF BackupNext, BackupStep, NightlyBackup, CatchUpCheck, RunBackup, HourPasses, TakeBackup, CountTables,
             RestoreEnds, EmptyTarget, BackupEnds
    <2>3. backup # Idle
      BY <2>2 DEF DumpEnds, CompressEnds, DropSql, UploadEnds, DropGz, Idle
    <2>4. n = backup.n
      BY <2>a, <2>2 DEF DumpEnds, CompressEnds, DropSql, UploadEnds, DropGz, Set, BackupTypeOK
    <2>5. CASE CompressEnds
      BY <2>a, <2>3, <2>4, <2>5 DEF CompressEnds, FilesFollowTheRun
    <2>6. CASE DropGz
      BY <2>a, <2>3, <2>4, <2>6 DEF DropGz, FilesFollowTheRun
    <2>7. CASE DumpEnds
      BY <2>a, <2>3, <2>4, <2>7 DEF DumpEnds, FilesFollowTheRun
    <2>8. CASE DropSql
      <3>1. files' = [files EXCEPT ![n] = [files[n] EXCEPT !["sql"] = "absent"]] /\ "absent" \in File
        BY <2>4, <2>8 DEF DropSql, Set, File
      <3>2. files'[n].gz = files[n].gz
        BY <2>a, <3>1, FileSet DEF BackupTypeOK
      <3> QED BY <3>2
    <2>9. CASE UploadEnds
      <3>1. CASE UNCHANGED files
        BY <3>1
      <3>2. CASE files' = [files EXCEPT ![n] = [files[n] EXCEPT !.cloud = files[n].gz, !.storedAt = hour]]
        <4>1. files'[n].gz = files[n].gz
          BY <2>a, <3>2 DEF BackupTypeOK, Files
        <4> QED BY <4>1
      <3> QED BY <2>4, <2>9, <3>1, <3>2 DEF UploadEnds
    <2> QED BY <2>2, <2>5, <2>6, <2>7, <2>8, <2>9
  <1> QED BY <1>1, <1>2, BackupInvInit, BackupInvStep, PTL DEF BackupSpec, WholeBackupsAreKept
=============================================================================
