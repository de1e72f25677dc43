---------------------------- MODULE DockerBackend ---------------------------
(***************************************************************************)
(* DockerBrowserManager (internal/browser/docker): a request creates a     *)
(* container, pulling its image when the daemon lacks it, starts it and    *)
(* waits until its ports are mapped; closing the browser removes the       *)
(* container.  Every call to the daemon may fail, also after the daemon    *)
(* has done what it was asked; a container may exit at any time; and the   *)
(* context of a request (createTimeout, or a client that leaves) may end   *)
(* at any time.  Each Allocate creates one container at most, which goes   *)
(* by the name of its request.                                             *)
(***************************************************************************)
EXTENDS FiniteSets

CONSTANTS
    Reqs,          \* calls of Allocate
    Images,        \* images of the catalogue
    ImageOf        \* the image each request asks for: in [Reqs -> Images]

VARIABLES
    opts,          \* DockerBrowserManagerOpts: mapPorts, pullImages
    boot,          \* where NewDockerBrowserManager stands
    toPull,        \* images pullImages has not come to
    cached,        \* images the daemon has
    pc,            \* where each Allocate, and then its browser, stands
    expired,       \* requests whose context has ended
    puller,        \* the goroutine that pulls for a request
    answer,        \* what that goroutine got from ImagePull
    errCh,         \* its channel, of capacity one
    cont,          \* the container of each request
    mapped,        \* containers whose ports are mapped
    lost           \* containers the daemon made or kept against its answer

bootVars == <<opts, boot, toPull>>
pullVars == <<puller, answer, errCh>>
contVars == <<cont, mapped, lost>>
vars == <<bootVars, cached, pc, expired, pullVars, contVars>>

Options == [mapPorts : BOOLEAN, pullImages : BOOLEAN]

Exists == {"created", "running", "exited"}
Waiting == {"create", "pulling", "recreate", "start", "inspect", "backoff", "cleanup"}
HasContainer == {"start", "inspect", "backoff", "cleanup", "browser"}

Goto(r, place) == pc' = [pc EXCEPT ![r] = place]
ContainerIs(r, state) == cont' = [cont EXCEPT ![r] = state]

(* ImagePull copies the daemon's stream of progress and drops it with the  *)
(* error it may end in: "ok" says that the stream ended.                   *)
ImagePull(image, result) ==
    cached' \in {cached} \cup (IF result = "ok" THEN {cached \cup {image}} ELSE {})

-----------------------------------------------------------------------------
Init ==
    /\ opts \in Options
    /\ boot = "starting"
    /\ toPull = IF opts.pullImages THEN Images ELSE {}
    /\ cached \in SUBSET Images
    /\ pc = [r \in Reqs |-> "out"] /\ expired = {}
    /\ puller = [r \in Reqs |-> "none"]
    /\ answer = [r \in Reqs |-> "none"] /\ errCh = [r \in Reqs |-> "empty"]
    /\ cont = [r \in Reqs |-> "none"] /\ mapped = {} /\ lost = {}

(* pullImages: inspect, and pull what is not there; then detectNetwork     *)
(* unless ports are mapped.  An error of either ends the start-up.         *)
PullPresent(image) ==
    /\ boot = "starting"
    /\ image \in toPull \cap cached
    /\ toPull' = toPull \ {image}
    /\ UNCHANGED <<opts, boot, cached, pc, expired, pullVars, contVars>>

PullMissing(image) ==
    /\ boot = "starting"
    /\ image \in toPull \ cached
    /\ ImagePull(image, "ok")
    /\ toPull' = toPull \ {image}
    /\ UNCHANGED <<opts, boot, pc, expired, pullVars, contVars>>

BootFails ==
    /\ boot = "starting"
    /\ toPull # {} \/ ~opts.mapPorts
    /\ boot' = "failed"
    /\ UNCHANGED <<opts, toPull, cached, pc, expired, pullVars, contVars>>

Serve ==
    /\ boot = "starting" /\ toPull = {}
    /\ boot' = "serving"
    /\ UNCHANGED <<opts, toPull, cached, pc, expired, pullVars, contVars>>

-----------------------------------------------------------------------------
(* Allocate: the look-up of the image, then doCreateContainer. *)
Ask(r) ==
    /\ boot = "serving" /\ pc[r] = "out"
    /\ Goto(r, "create")
    /\ UNCHANGED <<bootVars, cached, expired, pullVars, contVars>>

Creates(r) ==
    /\ pc[r] \in {"create", "recreate"} /\ r \notin expired
    /\ ImageOf[r] \in cached
    /\ Goto(r, "start")
    /\ ContainerIs(r, "created")
    /\ UNCHANGED <<bootVars, cached, expired, pullVars, mapped, lost>>

(* The first answer "not found" starts the goroutine that pulls. *)
CreateNotFound(r) ==
    /\ pc[r] = "create" /\ r \notin expired
    /\ ImageOf[r] \notin cached
    /\ Goto(r, "pulling")
    /\ puller' = [puller EXCEPT ![r] = "pulling"]
    /\ UNCHANGED <<bootVars, cached, expired, answer, errCh, contVars>>

CreateFails(r) ==
    /\ pc[r] \in {"create", "recreate"}
    /\ Goto(r, "failed")
    /\ UNCHANGED <<bootVars, cached, expired, pullVars, contVars>>

(* The daemon creates the container, and nobody learns its id. *)
CreateUnanswered(r) ==
    /\ pc[r] \in {"create", "recreate"} /\ r \notin expired
    /\ ImageOf[r] \in cached
    /\ Goto(r, "failed")
    /\ ContainerIs(r, "created")
    /\ lost' = lost \cup {r}
    /\ UNCHANGED <<bootVars, cached, expired, pullVars, mapped>>

(* The goroutine pulls in the background context and sends its error.  It  *)
(* outlives a request that has left.                                       *)
PullReturns(r) ==
    /\ puller[r] = "pulling"
    /\ \E result \in {"ok", "error"} :
        /\ ImagePull(ImageOf[r], result)
        /\ answer' = [answer EXCEPT ![r] = result]
    /\ puller' = [puller EXCEPT ![r] = "sending"]
    /\ UNCHANGED <<bootVars, pc, expired, errCh, contVars>>

PullSends_Unbuffered(r) ==
    /\ puller[r] = "sending" /\ pc[r] = "pulling"
    /\ errCh' = [errCh EXCEPT ![r] = answer[r]]
    /\ puller' = [puller EXCEPT ![r] = "ended"]
    /\ UNCHANGED <<bootVars, cached, pc, expired, answer, contVars>>

PullSends(r) ==
    /\ puller[r] = "sending" /\ errCh[r] = "empty"
    /\ errCh' = [errCh EXCEPT ![r] = answer[r]]
    /\ puller' = [puller EXCEPT ![r] = "ended"]
    /\ UNCHANGED <<bootVars, cached, pc, expired, answer, contVars>>

(* The select of the request: its context, or the result of the pull. *)
SelectDone_AfterPull(r) ==
    /\ pc[r] = "pulling" /\ r \in expired /\ puller[r] # "pulling"
    /\ Goto(r, "failed")
    /\ UNCHANGED <<bootVars, cached, expired, pullVars, contVars>>

SelectDone(r) ==
    /\ pc[r] = "pulling" /\ r \in expired
    /\ Goto(r, "failed")
    /\ UNCHANGED <<bootVars, cached, expired, pullVars, contVars>>

SelectPulled(r) ==
    /\ pc[r] = "pulling" /\ errCh[r] # "empty"
    /\ errCh' = [errCh EXCEPT ![r] = "empty"]
    /\ Goto(r, IF errCh[r] = "ok" THEN "recreate" ELSE "failed")
    /\ UNCHANGED <<bootVars, cached, expired, puller, answer, contVars>>

-----------------------------------------------------------------------------
(* startContainer; from here on a failure goes by way of "cleanup". *)
Starts(r) ==
    /\ pc[r] = "start" /\ r \notin expired
    /\ Goto(r, "inspect")
    /\ ContainerIs(r, "running")
    /\ UNCHANGED <<bootVars, cached, expired, pullVars, mapped, lost>>

StartFails(r) ==
    /\ pc[r] = "start"
    /\ Goto(r, "cleanup")
    /\ cont' \in {cont, [cont EXCEPT ![r] = "running"]}
    /\ UNCHANGED <<bootVars, cached, expired, pullVars, mapped, lost>>

(* The ports are looked at before the state: a container that has exited   *)
(* has no mapped ports, and in that mode is waited for like a slow one.    *)
Unmapped(r) == opts.mapPorts /\ r \notin mapped

InspectUnmapped(r) ==
    /\ pc[r] = "inspect" /\ r \notin expired
    /\ Unmapped(r)
    /\ Goto(r, "backoff")
    /\ UNCHANGED <<bootVars, cached, expired, pullVars, contVars>>

(* createBrowser follows, with what the answer says of network and ports. *)
InspectRunning(r) ==
    /\ pc[r] = "inspect" /\ r \notin expired
    /\ ~Unmapped(r) /\ cont[r] = "running"
    /\ Goto(r, "browser")
    /\ UNCHANGED <<bootVars, cached, expired, pullVars, contVars>>

(* The call fails, the container has exited, or createBrowser fails. *)
InspectFails(r) ==
    /\ pc[r] = "inspect"
    /\ Goto(r, "cleanup")
    /\ UNCHANGED <<bootVars, cached, expired, pullVars, contVars>>

BackoffPassed(r) ==
    /\ pc[r] = "backoff"
    /\ Goto(r, "inspect")
    /\ UNCHANGED <<bootVars, cached, expired, pullVars, contVars>>

BackoffCancelled(r) ==
    /\ pc[r] = "backoff" /\ r \in expired
    /\ Goto(r, "cleanup")
    /\ UNCHANGED <<bootVars, cached, expired, pullVars, contVars>>

(* removeContainer only logs an error. *)
RemoveContainer(r) ==
    /\ mapped' = mapped \ {r}
    /\ \/ ContainerIs(r, "removed") /\ UNCHANGED lost
       \/ lost' = lost \cup {r} /\ UNCHANGED cont

(* In Allocate, with a context of its own. *)
Cleanup_InRequest(r) ==
    /\ pc[r] = "cleanup"
    /\ Goto(r, "failed")
    /\ IF r \in expired THEN UNCHANGED contVars ELSE RemoveContainer(r)
    /\ UNCHANGED <<bootVars, cached, expired, pullVars>>

Cleanup(r) ==
    /\ pc[r] = "cleanup"
    /\ Goto(r, "failed")
    /\ RemoveContainer(r)
    /\ UNCHANGED <<bootVars, cached, expired, pullVars>>

(* dockerBrowser.Close *)
Close(r) ==
    /\ pc[r] = "browser"
    /\ Goto(r, "closed")
    /\ RemoveContainer(r)
    /\ UNCHANGED <<bootVars, cached, expired, pullVars>>

-----------------------------------------------------------------------------
(* What happens to a container, and to a context. *)
PortsMapped(r) ==
    /\ opts.mapPorts
    /\ cont[r] = "running" /\ r \notin mapped
    /\ mapped' = mapped \cup {r}
    /\ UNCHANGED <<bootVars, cached, pc, expired, pullVars, cont, lost>>

Exits(r) ==
    /\ cont[r] = "running"
    /\ ContainerIs(r, "exited")
    /\ mapped' = mapped \ {r}
    /\ UNCHANGED <<bootVars, cached, pc, expired, pullVars, lost>>

Expires(r) ==
    /\ pc[r] \in Waiting /\ r \notin expired
    /\ expired' = expired \cup {r}
    /\ UNCHANGED <<bootVars, cached, pc, pullVars, contVars>>

CreateReturns(r) ==
    Creates(r) \/ CreateNotFound(r) \/ CreateFails(r) \/ CreateUnanswered(r)

InspectReturns(r) == InspectUnmapped(r) \/ InspectRunning(r) \/ InspectFails(r)

Allocate(r) ==
    \/ CreateReturns(r) \/ SelectDone(r) \/ SelectPulled(r)
    \/ Starts(r) \/ StartFails(r) \/ InspectReturns(r)
    \/ BackoffPassed(r) \/ BackoffCancelled(r) \/ Cleanup(r)

Next ==
    \/ \E image \in Images : PullPresent(image) \/ PullMissing(image)
    \/ BootFails \/ Serve
    \/ \E r \in Reqs :
        \/ Ask(r) \/ Allocate(r) \/ Close(r)
        \/ PullReturns(r) \/ PullSends(r)
        \/ PortsMapped(r) \/ Exits(r) \/ Expires(r)

Spec == Init /\ [][Next]_vars

(* The daemon answers calls other than a pull, and createTimeout passes.   *)
Fairness ==
    \A r \in Reqs : WF_vars(Allocate(r)) /\ WF_vars(PullSends(r)) /\ WF_vars(Expires(r))

FairSpec == Spec /\ Fairness

-----------------------------------------------------------------------------
TypeOK ==
    /\ opts \in Options /\ boot \in {"starting", "serving", "failed"}
    /\ toPull \subseteq Images /\ cached \subseteq Images
    /\ pc \in [Reqs -> {"out", "browser", "failed", "closed"} \cup Waiting]
    /\ expired \subseteq Reqs /\ mapped \subseteq Reqs /\ lost \subseteq Reqs
    /\ puller \in [Reqs -> {"none", "pulling", "sending", "ended"}]
    /\ answer \in [Reqs -> {"none", "ok", "error"}]
    /\ errCh \in [Reqs -> {"empty", "ok", "error"}]
    /\ cont \in [Reqs -> Exists \cup {"none", "removed"}]

(* Whatever failed or came too late, a container that exists is known to   *)
(* its request or to its browser, unless the daemon kept it from us: it    *)
(* refused to remove it, or never said that it created it.                 *)
ContainersAccounted ==
    /\ TypeOK
    /\ \A r \in Reqs : cont[r] \in Exists => pc[r] \in HasContainer \/ r \in lost

(* createTimeout ends an allocation, though a pull may take for ever, a    *)
(* container may exit while its ports are waited for, and a wait that has  *)
(* used up its steps goes on.                                              *)
AllocateReturns == \A r \in Reqs : pc[r] = "create" ~> pc[r] \notin Waiting

(* "It will continue in background": the goroutine that pulls for a        *)
(* request that has left is not stuck with its result.                     *)
PullerEnds == \A r \in Reqs : puller[r] = "sending" ~> puller[r] = "ended"

=============================================================================
