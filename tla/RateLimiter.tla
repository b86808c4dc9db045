----------------------------- MODULE RateLimiter -----------------------------
(***************************************************************************)
(* The fixed-window rate limiter (apps/api/src/middleware/rateLimit.ts).   *)
(* A request takes a slot of its key's window when it arrives; a limiter   *)
(* with countWhen gives the slot back when the response shouldn't count.   *)
(* Windows end, keys are dropped, and a right password clears its key      *)
(* while requests are in progress.                                         *)
(***************************************************************************)
EXTENDS Integers, FiniteSets

CONSTANTS
    LimitKey,       \* an address and email, a kiosk session...
    LimitedRequest, \* requests that may be in progress at the same time
    MaxInWindow, WindowMs, MAX_KEYS,
    CountsAll,      \* TRUE: a limiter without countWhen
    LastInstant,    \* bounds the clock
    Arrivals        \* bounds the requests that take a slot

ASSUME LimiterAssumption ==
    /\ IsFiniteSet(LimitedRequest)
    /\ MaxInWindow \in Nat \ {0} /\ WindowMs \in Nat \ {0} /\ MAX_KEYS \in Nat \ {0}
    /\ CountsAll \in BOOLEAN /\ LastInstant \in Nat /\ Arrivals \in Nat

VARIABLES
    instant,
    entries,    \* the Map
    slot,       \* what every request in progress holds
    \* History, read by no guard but the bound on arrivals.
    counted,    \* windows: the requests whose response counted
    lost,       \* windows: the requests whose response never finished
    arrived, windows

limiterVars == <<instant, entries, slot, counted, lost, arrived, windows>>
limiterHistory == <<counted, lost, arrived, windows>>

\* An entry is an object: `window` is its identity.  `place` is the insertion
\* order of its key in the Map.
Window == 1 .. Arrivals
Entry  == [key : LimitKey, window : Window, place : Window, count : Nat, resetAt : Nat]
Slot   == {[held |-> FALSE]} \cup [held : {TRUE}, key : LimitKey, window : Window]

\* Entries, slots and history hold values of their types; the Map never
\* outgrows its bound, and a key has one window.
LimiterTypeOK ==
    /\ instant \in Nat /\ entries \subseteq Entry
    /\ Cardinality(entries) <= MAX_KEYS
    /\ \A e, f \in entries : e.key = f.key => e = f
    /\ slot \in [LimitedRequest -> Slot]
    /\ counted \in [Window -> Nat] /\ lost \in [Window -> Nat]
    /\ arrived \in 0 .. Arrivals /\ windows \in 0 .. Arrivals

LimiterInit ==
    /\ instant = 0 /\ entries = {}
    /\ slot = [q \in LimitedRequest |-> [held |-> FALSE]]
    /\ counted = [w \in Window |-> 0] /\ lost = [w \in Window |-> 0]
    /\ arrived = 0 /\ windows = 0

-----------------------------------------------------------------------------
EntriesOf(k) == {e \in entries : e.key = k}
Live(e)      == e.resetAt > instant
SweepExpired == {e \in entries : Live(e)}

\* Full: finished windows go first, then the oldest keys.
MakeRoom ==
    IF Cardinality(entries) < MAX_KEYS THEN entries
    ELSE {e \in SweepExpired :
            Cardinality({f \in SweepExpired : f.place > e.place}) < MAX_KEYS - 1}

\* A Map has each key once, and keeps its place when the value is replaced.
SetEntry(es, e) ==
    {f \in es : f.key # e.key}
    \cup {[e EXCEPT !.place = IF \E f \in es : f.key = e.key
                              THEN (CHOOSE f \in es : f.key = e.key).place ELSE e.place]}

NewEntry(k, w) == [key |-> k, window |-> w, place |-> w, count |-> 1, resetAt |-> instant + WindowMs]

Refused(k) == \E e \in EntriesOf(k) : Live(e) /\ e.count >= MaxInWindow

Change(e, n) == entries' = (entries \ {e}) \cup {[e EXCEPT !.count = @ + n]}

\* The limiter's first half: refuse, or take a slot of a live or a new window.
Arrive(q, k) ==
    /\ ~slot[q].held /\ arrived < Arrivals /\ ~Refused(k)
    /\ arrived' = arrived + 1
    /\ \/ \E e \in EntriesOf(k) :
            /\ Live(e)
            /\ Change(e, 1)
            /\ slot' = [slot EXCEPT ![q] = [held |-> TRUE, key |-> k, window |-> e.window]]
            /\ UNCHANGED windows
       \/ /\ \A e \in EntriesOf(k) : ~Live(e)
          /\ windows' = windows + 1
          /\ entries' = SetEntry(MakeRoom, NewEntry(k, windows + 1))
          /\ slot' = [slot EXCEPT ![q] = [held |-> TRUE, key |-> k, window |-> windows + 1]]
    /\ UNCHANGED <<instant, counted, lost>>

\* Whatever window the key has now.
OwnEntry_AnyOfKey(held) == EntriesOf(held.key)

\* The entry the slot was taken in, if it is still the key's: not one that began since.
OwnEntry(held) == {e \in EntriesOf(held.key) : e.window = held.window}

\* The response finishes: it counts, or its slot is given back.
Finish(q) ==
    LET held == slot[q] IN
    /\ held.held
    /\ slot' = [slot EXCEPT ![q] = [held |-> FALSE]]
    /\ \/ /\ counted' = [counted EXCEPT ![held.window] = @ + 1]
          /\ UNCHANGED entries
       \/ /\ ~CountsAll
          /\ \/ \E e \in OwnEntry(held) : e.count > 0 /\ Change(e, -1)
             \/ (\A e \in OwnEntry(held) : e.count = 0) /\ UNCHANGED entries
          /\ UNCHANGED counted
    /\ UNCHANGED <<instant, lost, arrived, windows>>

\* The client goes away: "finish" never comes, and the slot is kept.
ResponseNeverFinishes(q) ==
    /\ slot[q].held
    /\ lost' = [lost EXCEPT ![slot[q].window] = @ + 1]
    /\ slot' = [slot EXCEPT ![q] = [held |-> FALSE]]
    /\ UNCHANGED <<instant, entries, counted, arrived, windows>>

\* reset: a right password forgets the failed attempts of its key.
ResetKey(q) ==
    /\ slot[q].held /\ ~CountsAll
    /\ EntriesOf(slot[q].key) # {}
    /\ entries' = entries \ EntriesOf(slot[q].key)
    /\ UNCHANGED <<instant, slot, limiterHistory>>

\* The interval drops finished windows.
Sweep ==
    /\ SweepExpired # entries
    /\ entries' = SweepExpired
    /\ UNCHANGED <<instant, slot, limiterHistory>>

TimePasses ==
    /\ instant < LastInstant
    /\ instant' = instant + 1
    /\ UNCHANGED <<entries, slot, limiterHistory>>

LimiterNext ==
    \/ TimePasses \/ Sweep
    \/ \E q \in LimitedRequest :
          \/ \E k \in LimitKey : Arrive(q, k)
          \/ Finish(q) \/ ResponseNeverFinishes(q) \/ ResetKey(q)

LimiterSpec == LimiterInit /\ [][LimiterNext]_limiterVars

-----------------------------------------------------------------------------
HoldersOf(w) == {q \in LimitedRequest : slot[q].held /\ slot[q].window = w}

UsedOf(w) == Cardinality(HoldersOf(w)) + counted[w] + lost[w]

\* A window's count is exactly the requests that hold its slots, counted, or
\* never finished: no response gives back a slot of another window, and none
\* twice, whatever was swept, dropped, reset or begun anew meanwhile.  And in
\* one window no more than the limit ever count, hold a slot, or go away: nobody
\* is let past it by sending requests at once.
CountsAreExact ==
    /\ \A e \in entries : e.count = UsedOf(e.window)
    /\ \A w \in Window : UsedOf(w) <= MaxInWindow
=============================================================================
