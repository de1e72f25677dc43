----------------------------- MODULE LimitQuota -----------------------------
(***************************************************************************)
(* The session quota of Selebrow: LimitQuotaAuthorizer, a counter with a   *)
(* FIFO queue of waiters behind one mutex (pkg/quota/limit/authorizer.go), *)
(* and its only user, LimitedBrowserManager with the LimitedBrowser it     *)
(* hands out (internal/browser/limited).                                   *)
(*                                                                         *)
(* Every r in Reqs is a goroutine that serves create-session requests, one *)
(* after another.  A section of code that runs under the mutex q.m is one  *)
(* action.  The select statements, the context and the wrapped manager run *)
(* outside of it and are actions of their own, so a Release can slip in    *)
(* between a waiter's timeout and the moment it gets the mutex.            *)
(***************************************************************************)
EXTENDS Integers, Sequences, FiniteSets, SequencesExt

CONSTANTS
    Reqs,          \* goroutines that may ask for a browser
    Limit,         \* LimitQuotaAuthorizer.limit
    QLimit,        \* LimitQuotaAuthorizer.qLimit
    MaxExternal    \* bound on the units reserved through ExternalReserve

ASSUME ReqsAssumption == IsFiniteSet(Reqs)
ASSUME LimitAssumption == Limit \in Nat \ {0}    \* initLimitQuotaAuthorizer
ASSUME QLimitAssumption == QLimit \in Int
ASSUME ExternalAssumption == MaxExternal \in Nat

VARIABLES
    allocated,     \* LimitQuotaAuthorizer.allocated
    queue,         \* LimitQuotaAuthorizer.queue, an element named by its owner
    granted,       \* requests whose channel Release has closed, not yet noticed
    qCtx,          \* qCtx of LimitedBrowserManager.Allocate
    pc,            \* where each goroutine stands
    external       \* units taken by ExternalReserve (never given back)

vars == <<allocated, queue, granted, qCtx, pc, external>>

(***************************************************************************)
(* Places of a goroutine.  "expired" has taken the ctx.Done() branch of    *)
(* the select and waits for the mutex; "closing" has released its unit in  *)
(* LimitedBrowser.Close and has not yet closed the browser.  The last      *)
(* three are the ways in which Allocate returns an error.                  *)
(***************************************************************************)
Waits   == {"waiting", "expired"}
Holds   == {"allocating", "running"}
Errors  == {"refused", "cancelled", "failed"}
Places  == {"idle", "closing"} \cup Waits \cup Holds \cup Errors

CtxStates == {"live", "deadline", "cancelled"}

Waiters == {r \in Reqs : pc[r] \in Waits /\ r \notin granted}

(* Requests that own a unit of the quota: those past Reserve, and those to *)
(* which Release has handed a unit that they have not noticed yet.         *)
Holders == {r \in Reqs : pc[r] \in Holds} \cup granted

Goto(r, from, to) ==
    /\ pc[r] = from
    /\ pc' = [pc EXCEPT ![r] = to]

-----------------------------------------------------------------------------
Init ==
    /\ allocated = 0
    /\ queue = <<>>
    /\ granted = {}
    /\ qCtx = [r \in Reqs |-> "live"]
    /\ pc = [r \in Reqs |-> "idle"]
    /\ external = 0

(* ExternalReserve adds to the counter whatever the limit says. *)
ExternalReserve(qty) ==
    /\ external + qty <= MaxExternal
    /\ external' = external + qty
    /\ allocated' = allocated + qty
    /\ UNCHANGED <<queue, granted, qCtx, pc>>

(* Reserve up to the select: one of three outcomes under the mutex. *)

FastPath == allocated + Len(queue) < Limit

ReserveFast(r) ==
    /\ FastPath
    /\ Goto(r, "idle", "allocating")
    /\ allocated' = allocated + 1
    /\ UNCHANGED <<queue, granted, qCtx, external>>

ReserveRejected(r) ==
    /\ ~FastPath
    /\ Len(queue) >= QLimit
    /\ Goto(r, "idle", "refused")
    /\ UNCHANGED <<allocated, queue, granted, qCtx, external>>

ReserveQueued(r) ==
    /\ ~FastPath
    /\ Len(queue) < QLimit
    /\ Goto(r, "idle", "waiting")
    /\ queue' = Append(queue, r)
    /\ UNCHANGED <<allocated, granted, qCtx, external>>

(* qCtx ends while the request waits: after queueTimeout, or because the   *)
(* parent context of the session request was cancelled.                    *)
CtxDone_ParentOnly(r, why) ==
    /\ pc[r] = "waiting"
    /\ qCtx[r] = "live"
    /\ why = "cancelled"
    /\ qCtx' = [qCtx EXCEPT ![r] = why]
    /\ UNCHANGED <<allocated, queue, granted, pc, external>>

CtxDone(r, why) ==
    /\ pc[r] = "waiting"
    /\ qCtx[r] = "live"
    /\ qCtx' = [qCtx EXCEPT ![r] = why]
    /\ UNCHANGED <<allocated, queue, granted, pc, external>>

(* The select of Reserve.  When both channels are ready Go picks any case. *)
SelectDone(r) ==
    /\ qCtx[r] # "live"
    /\ Goto(r, "waiting", "expired")
    /\ UNCHANGED <<allocated, queue, granted, qCtx, external>>

SelectGranted(r) ==
    /\ r \in granted
    /\ Goto(r, "waiting", "allocating")
    /\ granted' = granted \ {r}
    /\ qCtx' = [qCtx EXCEPT ![r] = "live"]
    /\ UNCHANGED <<allocated, queue, external>>

(* The ctx.Done() branch once it has the mutex: a unit handed over in the  *)
(* meantime is kept, otherwise the element leaves the queue.               *)
ExpiredGranted_NoRecheck(r) ==
    /\ r \in granted
    /\ Goto(r, "expired", "refused")
    /\ granted' = granted \ {r}
    /\ qCtx' = [qCtx EXCEPT ![r] = "live"]
    /\ UNCHANGED <<allocated, queue, external>>

ExpiredGranted(r) ==
    /\ r \in granted
    /\ Goto(r, "expired", "allocating")
    /\ granted' = granted \ {r}
    /\ qCtx' = [qCtx EXCEPT ![r] = "live"]
    /\ UNCHANGED <<allocated, queue, external>>

ExpiredLeaves_StaysQueued(r) ==
    /\ r \notin granted
    /\ Goto(r, "expired", IF qCtx[r] = "deadline" THEN "refused" ELSE "cancelled")
    /\ qCtx' = [qCtx EXCEPT ![r] = "live"]
    /\ UNCHANGED <<allocated, queue, granted, external>>

ExpiredLeaves(r) ==
    /\ r \notin granted
    /\ Goto(r, "expired", IF qCtx[r] = "deadline" THEN "refused" ELSE "cancelled")
    /\ \E i \in DOMAIN queue : queue[i] = r /\ queue' = RemoveAt(queue, i)
    /\ qCtx' = [qCtx EXCEPT ![r] = "live"]
    /\ UNCHANGED <<allocated, granted, external>>

(* Release: the unit goes to the front of the queue, which leaves the      *)
(* counter alone, or back to the counter.                                  *)
HandOff_Youngest ==
    /\ queue # <<>>
    /\ granted' = granted \cup {queue[Len(queue)]}
    /\ queue' = SubSeq(queue, 1, Len(queue) - 1)
    /\ UNCHANGED allocated

HandOff ==
    /\ queue # <<>>
    /\ granted' = granted \cup {Head(queue)}
    /\ queue' = Tail(queue)
    /\ UNCHANGED allocated

GiveBack_IgnoresQueue ==
    /\ allocated' = IF allocated < 1 THEN 0 ELSE allocated - 1
    /\ UNCHANGED <<queue, granted>>

GiveBack ==
    /\ queue = <<>>
    /\ allocated' = IF allocated < 1 THEN 0 ELSE allocated - 1
    /\ UNCHANGED <<queue, granted>>

Release == HandOff \/ GiveBack

(* The wrapped manager's Allocate returned a browser, or an error. *)
AllocateDone(r) ==
    /\ Goto(r, "allocating", "running")
    /\ UNCHANGED <<allocated, queue, granted, qCtx, external>>

AllocateFailed(r) ==
    /\ Goto(r, "allocating", "failed")
    /\ Release
    /\ UNCHANGED <<qCtx, external>>

(* LimitedBrowser.Close: release() first, br.Close() after it. *)
CloseRelease(r) ==
    /\ Goto(r, "running", "closing")
    /\ Release
    /\ UNCHANGED <<qCtx, external>>

CloseInner(r) ==
    /\ Goto(r, "closing", "idle")
    /\ UNCHANGED <<allocated, queue, granted, qCtx, external>>

(* The caller saw the error and may try again. *)
NextRequest(r) ==
    /\ pc[r] \in Errors
    /\ pc' = [pc EXCEPT ![r] = "idle"]
    /\ UNCHANGED <<allocated, queue, granted, qCtx, external>>

Reserve(r) == ReserveFast(r) \/ ReserveRejected(r) \/ ReserveQueued(r)

Wake(r) ==
    \/ SelectDone(r)
    \/ SelectGranted(r)
    \/ ExpiredGranted(r)
    \/ ExpiredLeaves(r)

Manager(r) == AllocateDone(r) \/ AllocateFailed(r) \/ CloseRelease(r) \/ CloseInner(r)

Next ==
    \/ \E qty \in 1..MaxExternal : ExternalReserve(qty)
    \/ \E r \in Reqs :
        \/ Reserve(r)
        \/ \E why \in {"deadline", "cancelled"} : CtxDone(r, why)
        \/ Wake(r)
        \/ Manager(r)
        \/ NextRequest(r)

Spec == Init /\ [][Next]_vars

-----------------------------------------------------------------------------
(* Go runs every runnable goroutine and sync.RWMutex does not starve a     *)
(* writer, so a goroutine that can step does.                              *)
FairSpec == Spec /\ \A r \in Reqs : WF_vars(Wake(r))

(* createTimeout bounds the wrapped Allocate.  A session ends with its     *)
(* DELETE request, its idle clean-up or its Playwright connection: that    *)
(* clients do not use one for ever is the assumption about them.           *)
BrowsersEnd == \A r \in Reqs : WF_vars(Manager(r))

(* No assumption on how long a session lives, only on queueTimeout. *)
TimersFire == \A r \in Reqs : WF_vars(CtxDone(r, "deadline"))

-----------------------------------------------------------------------------
(* Type invariant; a unit for each request and each external reservation   *)
(* at most, so the counter stays below their sum.                          *)
TypeOK ==
    /\ allocated \in 0..(Limit + MaxExternal)
    /\ queue \in Seq(Reqs)
    /\ granted \subseteq Reqs
    /\ qCtx \in [Reqs -> CtxStates]
    /\ pc \in [Reqs -> Places]
    /\ external \in 0..MaxExternal

(* The counter of LimitQuotaAuthorizer is the number of requests that own  *)
(* a unit: no unit is lost when a timeout crosses a Release or the wrapped *)
(* Allocate fails, and none is given back twice.                           *)
QuotaConserved == allocated = Cardinality(Holders) + external

(* Reserve never admits more requests than the limit. *)
LimitRespected == Cardinality(Holders) <= Limit

(* An element of the queue is a request that still waits, each once: no    *)
(* element outlives the Reserve call that pushed it.                       *)
QueueIsWaiters ==
    /\ IsInjective(queue)
    /\ Range(queue) = Waiters
    /\ granted \subseteq {r \in Reqs : pc[r] \in Waits}

(* Work conservation: nobody waits while a unit is free. *)
NobodyWaitsForFreeUnit == queue # <<>> => allocated >= Limit

(* Whichever of Release, a timeout and a cancelled request comes first,    *)
(* the queue is the requests that wait, and they wait for a reason.        *)
QueueExact == QueueIsWaiters /\ NobodyWaitsForFreeUnit

(* "avoid granting quota to the new request before any pending requests":  *)
(* a request that never queued gets a unit only when nobody is waiting.    *)
NoOvertaking ==
    [][\A r \in Reqs : pc[r] = "idle" /\ pc'[r] = "allocating" => Waiters = {}]_vars

(* The units go round in the order of a FIFO semaphore: the select, its    *)
(* timeout branch and the hand-off through a closed channel implement it.  *)
Fifo == INSTANCE FifoSemaphore WITH
    owners <- Holders, line <- queue, outside <- external, Room <- QLimit

ImplementsFifoSemaphore == Fifo!Spec

(* As long as its context lives a waiter is served, however many requests  *)
(* keep coming, if every browser is closed in the end.                     *)
NotStarved ==
    BrowsersEnd =>
        \A r \in Reqs : pc[r] = "waiting" ~> (r \in granted \/ qCtx[r] # "live")

(* Reserve returns after queueTimeout at the latest, even if no browser    *)
(* is ever closed.                                                         *)
WaitBounded ==
    TimersFire => \A r \in Reqs : pc[r] = "waiting" ~> pc[r] \notin Waits

=============================================================================
