---------------------------- MODULE BrowserStack ----------------------------
(***************************************************************************)
(* The browser managers as init.go stacks them: LimitedBrowserManager      *)
(* (internal/browser/limited) takes a unit of the quota before it asks the *)
(* pool for a browser, and LimitedBrowser gives the unit back before it    *)
(* gives back the browser.                                                 *)
(*                                                                         *)
(* The quota is what LimitQuota implements, FifoSemaphore, with nothing    *)
(* reserved from outside; the pool is BrowserPool, step by step.  Where a  *)
(* goroutine stands follows from both: in line, with a unit and no browser *)
(* (about to check one out), with both (a session), or with a browser that *)
(* nothing pays for any more (in PooledBrowser.Close).                     *)
(***************************************************************************)
EXTENDS BrowserPool, Sequences

CONSTANTS
    Limit,         \* quota limit, one unit per browser
    QueueSize      \* places in the queue

ASSUME LimitAssumption == Limit \in Nat \ {0}
ASSUME QueueSizeAssumption == QueueSize \in Nat

VARIABLES
    owners,        \* goroutines whose Reserve succeeded and has not been released
    line           \* goroutines queued in Reserve

quotaVars == <<owners, line>>
stackVars == <<vars, quotaVars>>

Quota == INSTANCE FifoSemaphore WITH Reqs <- Users, Room <- QueueSize, outside <- 0

StackInit == Init /\ Quota!Init

-----------------------------------------------------------------------------
(* Allocate, its first half: Reserve takes a unit or a place in the queue; *)
(* without either it fails at once and nothing changes.                    *)
Reserve(u) ==
    /\ pc[u] = "out"
    /\ Quota!Acquire(u) \/ Quota!Join(u)
    /\ UNCHANGED vars

(* The queue timeout, or the end of the request's context. *)
ReserveFails(u) ==
    /\ \E i \in DOMAIN line : line[i] = u /\ Quota!GiveUp(i)
    /\ UNCHANGED vars

Release(u) == Quota!PassOn(u) \/ Quota!Return(u)

(* Allocate, its second half, and what it does when the pool fails. *)
AllocateBrowser_Unreserved(u) ==
    /\ Checkout(u) \/ AllocateReturns(u)
    /\ UNCHANGED quotaVars

AllocateBrowser(u) ==
    /\ u \in owners
    /\ Checkout(u) \/ AllocateReturns(u)
    /\ UNCHANGED quotaVars

AllocateFails_KeepsUnit(u) ==
    /\ NextRequest(u)
    /\ UNCHANGED quotaVars

AllocateFails(u) ==
    /\ NextRequest(u)
    /\ Release(u)

(* LimitedBrowser.Close: the unit first, then the pooled browser. *)
CloseReleases(u) ==
    /\ pc[u] = "using"
    /\ Release(u)
    /\ UNCHANGED vars

CloseBrowserOf(u) ==
    /\ u \notin owners
    /\ Return(u)
    /\ UNCHANGED quotaVars

(* What the pool does without a session. *)
PoolWorks ==
    /\ \/ \E b \in Browsers : Timers(b) \/ ShutdownClose(b) \/ GrowOld(b)
       \/ Shutdown
    /\ UNCHANGED quotaVars

Allocates(u) == AllocateBrowser(u) \/ AllocateFails(u)

Closes(u) == CloseReleases(u) \/ CloseBrowserOf(u)

StackNext ==
    \/ \E u \in Users : Reserve(u) \/ ReserveFails(u) \/ Allocates(u) \/ Closes(u)
    \/ PoolWorks

StackSpec == StackInit /\ [][StackNext]_stackVars

(* The fairness of the pool, where sessions now end by way of the quota.   *)
(* That a queue timeout fires is not assumed.                              *)
PoolTakes(step) == step /\ UNCHANGED quotaVars

StackFairness ==
    /\ \A u \in Users : WF_stackVars(Allocates(u)) /\ WF_stackVars(Closes(u))
    /\ \A b \in Browsers :
        /\ WF_stackVars(PoolTakes(TimerFires(b))) /\ WF_stackVars(PoolTakes(EvictIdle(b)))
        /\ WF_stackVars(PoolTakes(EvictClose(b))) /\ WF_stackVars(PoolTakes(ShutdownClose(b)))
        /\ WF_stackVars(PoolTakes(GrowOld(b)))
    /\ WF_stackVars(PoolTakes(ShutdownReturns \/ ShutdownTimesOut))

FairStackSpec == StackSpec /\ StackFairness

-----------------------------------------------------------------------------
Running == {b \in opened : closes[b] = 0}

(* Browsers on their way to their end or back to the pool. *)
Returning == {held[u] : u \in {v \in Users : held[v] # NoBrowser /\ v \notin owners}}
Unpaid == Returning \cup idle \cup evicting \cup closers

Starting == {u \in Users : pc[u] = "allocating"}

(* What the limit does bound: of the browsers that run or are being        *)
(* started, all but those that are returned, idle or being closed.  (Not   *)
(* Running itself, though it is documented as a limit for simultaneously   *)
(* running browsers.)                                                      *)
PaidWithinLimit ==
    Cardinality(Running \ Unpaid) + Cardinality(Starting) <= Limit

(* A request in line is served, or gives up: every unit comes back, also   *)
(* when the pool fails, is shut down, or holds its mutex while it closes.  *)
InLine(u) == \E i \in DOMAIN line : line[i] = u

LineMoves == \A u \in Users : InLine(u) ~> ~InLine(u)

=============================================================================
