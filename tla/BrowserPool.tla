---------------------------- MODULE BrowserPool -----------------------------
(***************************************************************************)
(* IdleBrowserPool and PooledBrowser (internal/browser/pool): browsers     *)
(* that a session gives back wait in a map for the next session, each with *)
(* a timer that evicts it, until Shutdown empties the map.                 *)
(*                                                                         *)
(* A section of code under the mutex p.m is one action.  Three threads of  *)
(* code run between such sections: a session's goroutine that checks a     *)
(* browser in (it reads the pool, then takes the mutex again to push), the *)
(* goroutine of a timer that has fired but does not have the mutex yet,    *)
(* and Shutdown, which keeps the mutex while the browsers close.           *)
(***************************************************************************)
EXTENDS Integers, FiniteSets

CONSTANTS
    Users,         \* goroutines of sessions that take and return browsers
    Browsers,      \* PooledBrowser objects; their number bounds the allocations
    MaxIdle,       \* IdleBrowserPool.maxIdle
    MaxFired,      \* bound on the pending evictions of one browser
    NoBrowser

ASSUME UsersAssumption == IsFiniteSet(Users)
ASSUME BrowsersAssumption == IsFiniteSet(Browsers) /\ NoBrowser \notin Browsers
ASSUME MaxIdleAssumption == MaxIdle \in Nat \ {0}  \* 0 disables the pool
ASSUME MaxFiredAssumption == MaxFired \in Nat \ {0}

VARIABLES
    idle,          \* idleWd
    shutdown,      \* IdleBrowserPool.shutdown
    armed,         \* browsers whose last timer has neither fired nor been stopped
    fired,         \* per browser, evictIdle goroutines that wait for the mutex
    evicting,      \* browsers that evictIdle took out and has yet to close
    closers,       \* browsers that Shutdown took out and has yet to close
    sd,            \* where the call of Shutdown stands
    pc, held,      \* per user, where it stands and its browser
    opened,        \* browsers allocated so far
    aged,          \* browsers older than maxAge
    closes         \* how often the wrapped browser was closed

poolVars == <<idle, shutdown, armed, fired, evicting, closers, sd>>
userVars == <<pc, held>>
browserVars == <<opened, aged, closes>>
vars == <<poolVars, userVars, browserVars>>

(* "pushing" has read the pool and decided to return the browser to it,    *)
(* "dropping" is about to close it.                                        *)
InHand == {"using", "pushing", "dropping"}
Places == {"out", "allocating", "failed"} \cup InHand

(* Shutdown holds the mutex from its first line to its return. *)
Unlocked == sd # "closing"

CloseBrowser(b) == closes' = [closes EXCEPT ![b] = @ + 1]

-----------------------------------------------------------------------------
Init ==
    /\ idle = {} /\ shutdown = FALSE
    /\ armed = {} /\ fired = [b \in Browsers |-> 0]
    /\ evicting = {} /\ closers = {} /\ sd = "none"
    /\ pc = [u \in Users |-> "out"]
    /\ held = [u \in Users |-> NoBrowser]
    /\ opened = {} /\ aged = {} /\ closes = [b \in Browsers |-> 0]

(* Checkout: popIdle, and the wrapped manager when nothing is idle. *)
PopShutdown(u) ==
    /\ Unlocked /\ shutdown
    /\ pc[u] = "out"
    /\ pc' = [pc EXCEPT ![u] = "failed"]
    /\ UNCHANGED <<poolVars, held, browserVars>>

PopIdle(u, b) ==
    /\ Unlocked /\ ~shutdown
    /\ pc[u] = "out" /\ b \in idle
    /\ idle' = idle \ {b}
    /\ armed' = armed \ {b}
    /\ pc' = [pc EXCEPT ![u] = "using"]
    /\ held' = [held EXCEPT ![u] = b]
    /\ UNCHANGED <<shutdown, fired, evicting, closers, sd, browserVars>>

PopNothing(u) ==
    /\ Unlocked /\ ~shutdown
    /\ pc[u] = "out" /\ idle = {}
    /\ pc' = [pc EXCEPT ![u] = "allocating"]
    /\ UNCHANGED <<poolVars, held, browserVars>>

AllocateDone(u, b) ==
    /\ pc[u] = "allocating" /\ b \notin opened
    /\ pc' = [pc EXCEPT ![u] = "using"]
    /\ held' = [held EXCEPT ![u] = b]
    /\ opened' = opened \cup {b}
    /\ UNCHANGED <<poolVars, aged, closes>>

AllocateFailed(u) ==
    /\ pc[u] = "allocating"
    /\ pc' = [pc EXCEPT ![u] = "failed"]
    /\ UNCHANGED <<poolVars, held, browserVars>>

NextRequest(u) ==
    /\ pc[u] = "failed"
    /\ pc' = [pc EXCEPT ![u] = "out"]
    /\ UNCHANGED <<poolVars, held, browserVars>>

(* PooledBrowser.Close with trash set. *)
Trash(u) ==
    /\ pc[u] = "using"
    /\ pc' = [pc EXCEPT ![u] = "dropping"]
    /\ UNCHANGED <<poolVars, held, browserVars>>

(* PooledBrowser.Close without: checkin reads the pool and the age of the  *)
(* browser, and acts on what it read only later.                           *)
MustDrop_AnyAge(b) == shutdown \/ Cardinality(idle) >= MaxIdle

MustDrop(b) == shutdown \/ Cardinality(idle) >= MaxIdle \/ b \in aged

Checkin(u) ==
    /\ Unlocked
    /\ pc[u] = "using"
    /\ pc' = [pc EXCEPT ![u] = IF MustDrop(held[u]) THEN "dropping" ELSE "pushing"]
    /\ UNCHANGED <<poolVars, held, browserVars>>

Drop_FallsThrough(u) ==
    /\ pc[u] = "dropping"
    /\ CloseBrowser(held[u])
    /\ pc' = [pc EXCEPT ![u] = "pushing"]
    /\ UNCHANGED <<poolVars, held, opened, aged>>

Drop(u) ==
    /\ pc[u] = "dropping"
    /\ CloseBrowser(held[u])
    /\ pc' = [pc EXCEPT ![u] = "out"]
    /\ held' = [held EXCEPT ![u] = NoBrowser]
    /\ UNCHANGED <<poolVars, opened, aged>>

PushIdle_NoTimer(u) ==
    /\ Unlocked
    /\ pc[u] = "pushing"
    /\ idle' = idle \cup {held[u]}
    /\ pc' = [pc EXCEPT ![u] = "out"]
    /\ held' = [held EXCEPT ![u] = NoBrowser]
    /\ UNCHANGED <<shutdown, armed, fired, evicting, closers, sd, browserVars>>

PushIdle(u) ==
    /\ Unlocked
    /\ pc[u] = "pushing"
    /\ idle' = idle \cup {held[u]}
    /\ armed' = armed \cup {held[u]}
    /\ pc' = [pc EXCEPT ![u] = "out"]
    /\ held' = [held EXCEPT ![u] = NoBrowser]
    /\ UNCHANGED <<shutdown, fired, evicting, closers, sd, browserVars>>

(* A timer fires, its goroutine gets the mutex, closes outside of it.  The *)
(* goroutine knows the browser, not the idle period it was started for.    *)
TimerFires(b) ==
    /\ b \in armed /\ fired[b] < MaxFired
    /\ armed' = armed \ {b}
    /\ fired' = [fired EXCEPT ![b] = @ + 1]
    /\ UNCHANGED <<idle, shutdown, evicting, closers, sd, userVars, browserVars>>

EvictIdle_NoLookup(b) ==
    /\ Unlocked
    /\ fired[b] > 0
    /\ fired' = [fired EXCEPT ![b] = @ - 1]
    /\ idle' = idle \ {b}
    /\ evicting' = evicting \cup {b}
    /\ UNCHANGED <<shutdown, armed, closers, sd, userVars, browserVars>>

EvictIdle(b) ==
    /\ Unlocked
    /\ fired[b] > 0
    /\ fired' = [fired EXCEPT ![b] = @ - 1]
    /\ idle' = idle \ {b}
    /\ evicting' = evicting \cup (idle \cap {b})
    /\ UNCHANGED <<shutdown, armed, closers, sd, userVars, browserVars>>

EvictClose(b) ==
    /\ b \in evicting
    /\ evicting' = evicting \ {b}
    /\ CloseBrowser(b)
    /\ UNCHANGED <<idle, shutdown, armed, fired, closers, sd, userVars, opened, aged>>

(* Shutdown stops the timers it can still stop and closes what is idle,    *)
(* each browser in a goroutine; it returns when all are done or when its   *)
(* context ends, and only then gives the mutex back.                       *)
ShutdownBegin_Forgets ==
    /\ sd = "none"
    /\ sd' = "closing" /\ shutdown' = TRUE
    /\ armed' = armed \ idle
    /\ idle' = {}
    /\ UNCHANGED <<fired, evicting, closers, userVars, browserVars>>

ShutdownBegin ==
    /\ sd = "none"
    /\ sd' = "closing" /\ shutdown' = TRUE
    /\ armed' = armed \ idle
    /\ closers' = idle
    /\ idle' = {}
    /\ UNCHANGED <<fired, evicting, userVars, browserVars>>

ShutdownClose(b) ==
    /\ b \in closers
    /\ closers' = closers \ {b}
    /\ CloseBrowser(b)
    /\ UNCHANGED <<idle, shutdown, armed, fired, evicting, sd, userVars, opened, aged>>

ShutdownReturns ==
    /\ sd = "closing" /\ closers = {}
    /\ sd' = "done"
    /\ UNCHANGED <<idle, shutdown, armed, fired, evicting, closers, userVars, browserVars>>

ShutdownTimesOut ==
    /\ sd = "closing"
    /\ sd' = "timedOut"
    /\ UNCHANGED <<idle, shutdown, armed, fired, evicting, closers, userVars, browserVars>>

(* Time passes: a browser outlives maxAge. *)
GrowOld(b) ==
    /\ b \in opened \ aged
    /\ aged' = aged \cup {b}
    /\ UNCHANGED <<poolVars, userVars, opened, closes>>

Checkout(u) ==
    \/ PopShutdown(u)
    \/ \E b \in Browsers : PopIdle(u, b)
    \/ PopNothing(u)

AllocateReturns(u) == (\E b \in Browsers : AllocateDone(u, b)) \/ AllocateFailed(u)

Return(u) == Trash(u) \/ Checkin(u) \/ Drop(u) \/ PushIdle(u)

Timers(b) == TimerFires(b) \/ EvictIdle(b) \/ EvictClose(b)

Shutdown == ShutdownBegin \/ ShutdownReturns \/ ShutdownTimesOut

Next ==
    \/ \E u \in Users : Checkout(u) \/ AllocateReturns(u) \/ NextRequest(u) \/ Return(u)
    \/ \E b \in Browsers : Timers(b) \/ ShutdownClose(b) \/ GrowOld(b)
    \/ Shutdown

Spec == Init /\ [][Next]_vars

(* Timers fire, goroutines run, time passes, and every session ends.  That *)
(* Shutdown is ever called, or a session asks again, is not assumed.       *)
Fairness ==
    /\ \A u \in Users : WF_vars(AllocateReturns(u)) /\ WF_vars(Return(u))
    /\ \A b \in Browsers :
        /\ WF_vars(TimerFires(b)) /\ WF_vars(EvictIdle(b)) /\ WF_vars(EvictClose(b))
        /\ WF_vars(ShutdownClose(b)) /\ WF_vars(GrowOld(b))
    /\ WF_vars(ShutdownReturns \/ ShutdownTimesOut)

FairSpec == Spec /\ Fairness

-----------------------------------------------------------------------------
InUse == {held[u] : u \in Users} \ {NoBrowser}

(* Type invariant; a goroutine has a browser exactly where it should. *)
TypeOK ==
    /\ idle \subseteq opened /\ evicting \subseteq opened /\ closers \subseteq opened
    /\ armed \subseteq opened /\ opened \subseteq Browsers /\ aged \subseteq opened
    /\ fired \in [Browsers -> 0..MaxFired]
    /\ closes \in [Browsers -> Nat]
    /\ shutdown \in BOOLEAN /\ (shutdown <=> sd # "none")
    /\ sd \in {"none", "closing", "done", "timedOut"}
    /\ closers # {} => shutdown
    /\ pc \in [Users -> Places]
    /\ held \in [Users -> opened \cup {NoBrowser}]
    /\ \A u \in Users : held[u] # NoBrowser <=> pc[u] \in InHand

(* A browser is with one session, or idle, or about to be closed by one    *)
(* eviction or by Shutdown: never with two of them, whatever the timers,   *)
(* the sessions and Shutdown race for.                                     *)
OneOwner ==
    /\ \A u, v \in Users : held[u] = held[v] /\ held[u] # NoBrowser => u = v
    /\ InUse \cap (idle \cup evicting \cup closers) = {}
    /\ idle \cap (evicting \cup closers) = {}
    /\ evicting \cap closers = {}

(* Who owns a browser owns an open one: a browser in use, idle or queued   *)
(* for closing has not been closed, and none is closed twice.              *)
OwnedIsOpen ==
    /\ \A b \in InUse \cup idle \cup evicting \cup closers : closes[b] = 0
    /\ \A b \in Browsers : closes[b] <= IF b \in opened THEN 1 ELSE 0

(* No browser is dropped on the floor: one that nobody owns was closed. *)
NoneLost ==
    \A b \in opened : closes[b] = 0 => b \in InUse \cup idle \cup evicting \cup closers

(* An idle browser always has a timer that will reach it. *)
IdleHasTimer == \A b \in idle : b \in armed \/ fired[b] > 0

(* What the sessions, the timers and Shutdown together do to a browser. *)
Custody == OneOwner /\ OwnedIsOpen /\ NoneLost /\ IdleHasTimer

(* maxAge: however often it is reused, each browser is closed in the end. *)
EveryBrowserCloses == \A b \in Browsers : b \in opened ~> closes[b] = 1

(* "Maximum number of idle browsers in the pool". *)
MaxIdleRespected == Cardinality(idle) <= MaxIdle

=============================================================================
