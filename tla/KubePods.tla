------------------------------ MODULE KubePods ------------------------------
(***************************************************************************)
(* The Kubernetes backend: KubernetesBrowserManager.Allocate creates a pod *)
(* (with retries) and waits until PodWatcherImpl reports it ready          *)
(* (internal/browser/kubernetes/manager.go, watcher.go), from a stream of  *)
(* events that Client.Watch keeps open (pkg/kubeapi/pods.go).              *)
(*                                                                         *)
(* A pod gets a fresh name each time it is created, so a waiter's channel  *)
(* is named by its pod.  The watcher notifies under a read lock, on a      *)
(* channel with room for one value: while it cannot send, nobody can       *)
(* register or remove a waiter.                                            *)
(***************************************************************************)
EXTENDS Integers, Sequences, FiniteSets, SequencesExt

CONSTANTS
    Reqs,          \* goroutines that allocate browsers
    Pods,          \* names of pods; their number bounds the creations
    Steps,         \* Steps of the backoff: how often CreatePod is retried
    MaxStream,     \* bound on the events under way to the watcher
    MaxRewatch,    \* bound on the re-established watches
    NoPod

ASSUME PodsAssumption == IsFiniteSet(Pods) /\ NoPod \notin Pods
ASSUME StepsAssumption == Steps \in Nat
ASSUME BoundsAssumption == MaxStream \in Nat /\ MaxRewatch \in Nat

VARIABLES
    status,        \* of each pod, at the API server
    stream,        \* events that the watcher has not received yet
    rewatches,     \* how often the watch was established again
    watch,         \* "open" until the channel of events is closed
    podsReady,     \* pods whose entry in podsReady is true
    waiters,       \* pods with an entry in PodWatcherImpl.waiters
    buffered,      \* pods whose channel holds the IP
    closed,        \* pods whose channel was closed
    sending,       \* pod to which notifyWaiter sends, under the read lock
    pc, pod, steps, \* per request, where it stands, its pod, retries left
    ended,         \* requests whose context has ended
    lost,          \* pods whose creation or deletion returned an error
    everReady      \* pods that have been ready at some time

serverVars == <<status, stream, rewatches, lost, everReady>>
watcherVars == <<watch, podsReady, sending>>
chanVars == <<waiters, buffered, closed>>
reqVars == <<pc, pod, steps, ended>>
vars == <<serverVars, watcherVars, chanVars, reqVars>>

InWait == {"waiting", "notified", "unready"}
WithPod == {"created", "using", "deleting"} \cup InWait
Allocating == {"creating", "backoff", "created", "deleting"} \cup InWait
Places == {"idle", "failed"} \cup WithPod \cup Allocating

Alive(p) == status[p] \in {"pending", "ready"}

(* The mutex of the watcher is not read-locked by a pending notification. *)
LockFree == sending = NoPod

Goto(r, from, to) ==
    /\ pc[r] = from
    /\ pc' = [pc EXCEPT ![r] = to]

(* The API server tells the watch, if it is open, what happened to a pod. *)
Tell(type, p) ==
    /\ Len(stream) < MaxStream
    /\ stream' = IF watch = "open" THEN Append(stream, <<type, p>>) ELSE stream

-----------------------------------------------------------------------------
Init ==
    /\ status = [p \in Pods |-> "none"] /\ stream = <<>> /\ rewatches = 0
    /\ lost = {} /\ everReady = {}
    /\ watch = "open" /\ podsReady = {} /\ sending = NoPod
    /\ waiters = {} /\ buffered = {} /\ closed = {}
    /\ pc = [r \in Reqs |-> "idle"] /\ pod = [r \in Reqs |-> NoPod]
    /\ steps = [r \in Reqs |-> 0] /\ ended = {}

(* Allocate is called with a new context. *)
Begin(r) ==
    /\ Goto(r, "idle", "creating")
    /\ steps' = [steps EXCEPT ![r] = Steps]
    /\ ended' = ended \ {r}
    /\ UNCHANGED <<serverVars, watcherVars, chanVars, pod>>

(* The context ends: createTimeout, or the client has gone. *)
CtxEnds(r) ==
    /\ pc[r] \in Allocating /\ r \notin ended
    /\ ended' = ended \cup {r}
    /\ UNCHANGED <<serverVars, watcherVars, chanVars, pc, pod, steps>>

(* createPod: CreatePod succeeds, or fails with an error that may be tried *)
(* again; an error does not say whether the server has created the pod.    *)
CreateDone(r, p) ==
    /\ r \notin ended
    /\ status[p] = "none"
    /\ Goto(r, "creating", "created")
    /\ pod' = [pod EXCEPT ![r] = p]
    /\ status' = [status EXCEPT ![p] = "pending"]
    /\ Tell("Added", p)
    /\ UNCHANGED <<rewatches, lost, everReady, watcherVars, chanVars, steps, ended>>

Retry_NoStep(r, retryable) ==
    /\ Goto(r, "creating", IF retryable THEN "backoff" ELSE "failed")
    /\ UNCHANGED steps

Retry(r, retryable) ==
    IF retryable /\ steps[r] >= 1
    THEN /\ Goto(r, "creating", "backoff")
         /\ steps' = [steps EXCEPT ![r] = @ - 1]
    ELSE /\ Goto(r, "creating", "failed")
         /\ UNCHANGED steps

CreateFailed(r, retryable) ==
    /\ Retry(r, retryable)
    /\ UNCHANGED <<serverVars, watcherVars, chanVars, pod, ended>>

CreateUnknown(r, retryable, p) ==
    /\ status[p] = "none"
    /\ Retry(r, retryable)
    /\ status' = [status EXCEPT ![p] = "pending"]
    /\ lost' = lost \cup {p}
    /\ Tell("Added", p)
    /\ UNCHANGED <<rewatches, everReady, watcherVars, chanVars, pod, ended>>

BackoffEnds(r) ==
    /\ \/ Goto(r, "backoff", "creating")
       \/ r \in ended /\ Goto(r, "backoff", "failed")
    /\ UNCHANGED <<serverVars, watcherVars, chanVars, pod, steps, ended>>

(* WaitPodReady: addWaiter, the select, removeWaiter. *)
AddWaiter(r) ==
    /\ LockFree
    /\ Goto(r, "created", "waiting")
    /\ waiters' = waiters \cup {pod[r]}
    /\ UNCHANGED <<serverVars, watcherVars, buffered, closed, pod, steps, ended>>

SelectIP(r) ==
    /\ pod[r] \in buffered
    /\ Goto(r, "waiting", "notified")
    /\ buffered' = buffered \ {pod[r]}
    /\ UNCHANGED <<serverVars, watcherVars, waiters, closed, pod, steps, ended>>

SelectClosed_AsReady(r) ==
    /\ pod[r] \in closed \ buffered
    /\ Goto(r, "waiting", "notified")
    /\ UNCHANGED <<serverVars, watcherVars, chanVars, pod, steps, ended>>

SelectClosed(r) ==
    /\ pod[r] \in closed \ buffered
    /\ Goto(r, "waiting", "unready")
    /\ UNCHANGED <<serverVars, watcherVars, chanVars, pod, steps, ended>>

SelectDone(r) ==
    /\ r \in ended
    /\ Goto(r, "waiting", "unready")
    /\ UNCHANGED <<serverVars, watcherVars, chanVars, pod, steps, ended>>

(* removeWaiter closes the channel if the map still has it. *)
Unregister_KeepsEntry(p) ==
    /\ closed' = closed \cup (waiters \cap {p})
    /\ UNCHANGED waiters

Unregister(p) ==
    /\ closed' = closed \cup (waiters \cap {p})
    /\ waiters' = waiters \ {p}

(* Back in Allocate: createBrowser may still fail. *)
RemoveWaiter(r) ==
    /\ LockFree
    /\ \/ \E to \in {"using", "deleting"} : Goto(r, "notified", to)
       \/ Goto(r, "unready", "deleting")
    /\ Unregister(pod[r])
    /\ UNCHANGED <<serverVars, watcherVars, buffered, pod, steps, ended>>

(* The browser is closed. *)
Close(r) ==
    /\ Goto(r, "using", "deleting")
    /\ UNCHANGED <<serverVars, watcherVars, chanVars, pod, steps, ended>>

(* deletePod; an error (the pod may have gone by itself) is only logged. *)
Gone(p) ==
    /\ status' = [status EXCEPT ![p] = "gone"]
    /\ Tell("Deleted", p)

DeletePod_Skipped(r) ==
    /\ Goto(r, "deleting", "idle")
    /\ pod' = [pod EXCEPT ![r] = NoPod]
    /\ UNCHANGED <<serverVars, watcherVars, chanVars, steps, ended>>

DeletePod(r) ==
    /\ Goto(r, "deleting", "idle")
    /\ pod' = [pod EXCEPT ![r] = NoPod]
    /\ \/ Alive(pod[r]) /\ Gone(pod[r]) /\ UNCHANGED lost
       \/ /\ lost' = lost \cup {p \in {pod[r]} : Alive(p)}
          /\ UNCHANGED <<status, stream>>
    /\ UNCHANGED <<rewatches, everReady, watcherVars, chanVars, steps, ended>>

GiveUp(r) ==
    /\ Goto(r, "failed", "idle")
    /\ UNCHANGED <<serverVars, watcherVars, chanVars, pod, steps, ended>>

-----------------------------------------------------------------------------
(* watchPodEvents: one event.  Only a Modified event reports readiness.    *)
Receive(type, p) ==
    /\ LockFree
    /\ stream # <<>> /\ Head(stream) = <<type, p>>
    /\ stream' = Tail(stream)
    /\ UNCHANGED <<status, rewatches, lost, everReady>>
    /\ UNCHANGED <<watch, reqVars>>

ReceiveAdded(p) ==
    /\ Receive("Added", p)
    /\ podsReady' = podsReady \ {p}
    /\ UNCHANGED <<sending, chanVars>>

ReceiveReady(p) ==
    /\ Receive("Ready", p)
    /\ podsReady' = podsReady \cup {p}
    /\ sending' = IF p \in waiters \ podsReady THEN p ELSE NoPod
    /\ UNCHANGED chanVars

ReceiveDeleted(p) ==
    /\ Receive("Deleted", p)
    /\ podsReady' = podsReady \ {p}
    /\ Unregister(p)
    /\ UNCHANGED <<sending, buffered>>

(* notifyWaiter, once the channel has room. *)
Send ==
    /\ sending # NoPod /\ sending \notin buffered
    /\ buffered' = buffered \cup {sending}
    /\ sending' = NoPod
    /\ UNCHANGED <<serverVars, watch, podsReady, waiters, closed, reqVars>>

(* The channel of events is closed: Shutdown has cancelled the watch, or   *)
(* the RetryWatcher has given up.  watchPodEvents ends.                    *)
WatchEnds ==
    /\ LockFree
    /\ watch = "open"
    /\ watch' = "closed"
    /\ stream' = <<>>
    /\ UNCHANGED <<status, rewatches, lost, everReady>>
    /\ UNCHANGED <<podsReady, sending, chanVars, reqVars>>

-----------------------------------------------------------------------------
(* The API server: all containers of a pod are ready, or are reported so   *)
(* once more; a pod goes by itself.                                        *)
PodReady(p) ==
    /\ Alive(p)
    /\ status' = [status EXCEPT ![p] = "ready"]
    /\ everReady' = everReady \cup {p}
    /\ Tell("Ready", p)
    /\ UNCHANGED <<rewatches, lost, watcherVars, chanVars, reqVars>>

PodVanishes(p) ==
    /\ Alive(p)
    /\ Gone(p)
    /\ UNCHANGED <<rewatches, lost, everReady, watcherVars, chanVars, reqVars>>

(* The watch is broken and established again.  WatchFunc ignores the       *)
(* options of the RetryWatcher, so it starts anew and reports every pod    *)
(* that exists as Added; what happened in between is not reported.         *)
Rewatch ==
    /\ watch = "open" /\ rewatches < MaxRewatch
    /\ rewatches' = rewatches + 1
    /\ \E s \in SetToSeqs({p \in Pods : Alive(p)}) :
        stream' = [i \in DOMAIN s |-> <<"Added", s[i]>>]
    /\ UNCHANGED <<status, lost, everReady, watcherVars, chanVars, reqVars>>

CreatePod(r) ==
    \/ \E p \in Pods : CreateDone(r, p)
    \/ \E retryable \in BOOLEAN :
        \/ CreateFailed(r, retryable)
        \/ \E p \in Pods : CreateUnknown(r, retryable, p)
    \/ BackoffEnds(r)

WaitPodReady(r) ==
    AddWaiter(r) \/ SelectIP(r) \/ SelectClosed(r) \/ SelectDone(r) \/ RemoveWaiter(r)

WatchPodEvents ==
    \/ \E p \in Pods : ReceiveAdded(p) \/ ReceiveReady(p) \/ ReceiveDeleted(p)
    \/ Send

Server ==
    \/ \E p \in Pods : PodReady(p) \/ PodVanishes(p)
    \/ Rewatch

Next ==
    \/ \E r \in Reqs :
        \/ Begin(r) \/ CtxEnds(r) \/ CreatePod(r) \/ WaitPodReady(r)
        \/ Close(r) \/ DeletePod(r) \/ GiveUp(r)
    \/ WatchPodEvents \/ WatchEnds
    \/ Server

Spec == Init /\ [][Next]_vars

(* Goroutines run, createTimeout passes, the API server answers. *)
Fairness ==
    /\ WF_vars(WatchPodEvents)
    /\ \A r \in Reqs :
        /\ WF_vars(CtxEnds(r)) /\ WF_vars(CreatePod(r)) /\ WF_vars(AddWaiter(r))
        /\ WF_vars(SelectIP(r) \/ SelectClosed(r) \/ SelectDone(r))
        /\ WF_vars(RemoveWaiter(r)) /\ WF_vars(DeletePod(r))

FairSpec == Spec /\ Fairness

-----------------------------------------------------------------------------
Held == {pod[r] : r \in Reqs} \ {NoPod}

(* Type invariant; a request has a pod exactly where it should. *)
TypeOK ==
    /\ status \in [Pods -> {"none", "pending", "ready", "gone"}]
    /\ stream \in Seq({"Added", "Ready", "Deleted"} \X Pods) /\ rewatches \in 0..MaxRewatch
    /\ watch \in {"open", "closed"}
    /\ sending \in Pods \cup {NoPod}
    /\ \A S \in {podsReady, waiters, buffered, closed, lost, everReady} :
        S \subseteq {p \in Pods : status[p] # "none"}
    /\ pc \in [Reqs -> Places] /\ ended \subseteq Reqs
    /\ pod \in [Reqs -> Pods \cup {NoPod}]
    /\ \A r \in Reqs : pod[r] # NoPod <=> pc[r] \in WithPod
    /\ steps \in [Reqs -> 0..Steps]

(* Neither panic of a channel can happen: the watcher never sends on a     *)
(* closed channel, and no channel is closed twice.                         *)
NoChannelPanic ==
    /\ waiters \cap closed = {}
    /\ sending # NoPod => sending \in waiters

(* The map holds waiters only: none is left behind by a request that has   *)
(* returned.                                                               *)
NoWaiterLeft == waiters \subseteq {pod[r] : r \in {q \in Reqs : pc[q] \in InWait}}

(* A browser is handed out only for a pod that has been ready: "watcher    *)
(* was closed" and a deleted pod are not taken for an IP.                  *)
OnlyReadyHandedOut == \A r \in Reqs : pc[r] = "using" => pod[r] \in everReady

(* Every pod that exists belongs to one request, except those whose        *)
(* creation or deletion returned an error.                                 *)
PodsAccounted ==
    /\ \A p \in Pods : Alive(p) => p \in Held \cup lost
    /\ Held \cap lost = {}
    /\ \A r, q \in Reqs : pod[r] = pod[q] /\ pod[r] # NoPod => r = q

(* The one place in a waiter's channel is enough: as long as the watch is  *)
(* not established again, the watcher never waits for a waiter.            *)
WatcherNeverBlocks == rewatches = 0 /\ sending # NoPod => sending \notin buffered

(* Watcher, waiter and timeout meet at a channel without a panic, without  *)
(* leaving one behind, and without blocking.                               *)
ChannelsSound == TypeOK /\ NoChannelPanic /\ NoWaiterLeft /\ WatcherNeverBlocks

(* createTimeout: whatever happens to its pod, Allocate returns. *)
AllocateReturns == \A r \in Reqs : pc[r] \in Allocating ~> pc[r] \notin Allocating

=============================================================================
