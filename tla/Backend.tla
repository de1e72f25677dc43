------------------------------ MODULE Backend -------------------------------
(***************************************************************************)
(* The lowest of the browser managers: a process serves from one backend,  *)
(* Docker or Kubernetes, which detectBackend chooses when it starts        *)
(* (pkg/app/init.go, app.go).  Only that one's manager is made, so nothing *)
(* of the other one ever moves.                                            *)
(***************************************************************************)
EXTENDS KubePods

CONSTANTS
    Images, ImageOf    \* of DockerBackend

ASSUME ImageOfAssumption == ImageOf \in [Reqs -> Images]

VARIABLES
    backend,           \* what detectBackend returned
    opts, boot, toPull, cached, dockerPc, expired,
    puller, answer, errCh, cont, mapped, dockerLost

dockerVars == <<opts, boot, toPull, cached, dockerPc, expired, puller, answer, errCh, cont,
                mapped, dockerLost>>
backendVars == <<backend, dockerVars, vars>>

Docker == INSTANCE DockerBackend WITH pc <- dockerPc, lost <- dockerLost

BackendInit ==
    /\ backend \in {"docker", "kubernetes"}
    /\ Docker!Init /\ Init
    /\ backend = "kubernetes" =>   \* no Docker manager, options or daemon
        opts = [mapPorts |-> FALSE, pullImages |-> FALSE] /\ cached = {}

DockerStep == backend = "docker" /\ Docker!Next /\ UNCHANGED <<backend, vars>>

KubeStep == backend = "kubernetes" /\ Next /\ UNCHANGED <<backend, dockerVars>>

BackendSpec == BackendInit /\ [][DockerStep \/ KubeStep]_backendVars

(* Each backend runs as it would alone; of the other one nothing is ever   *)
(* enabled that its fairness asks for.                                     *)
FairBackendSpec == BackendSpec /\ Docker!Fairness /\ Fairness

-----------------------------------------------------------------------------
(* Whatever failed or came too late, a container that exists is known to   *)
(* its request or to its browser, unless the daemon kept it from us: it    *)
(* refused to remove it, or never said that it created it.                 *)
ContainersAccounted == Docker!ContainersAccounted

(* createTimeout bounds Allocate in either backend, whatever happens to    *)
(* the container, to the pod, or to the calls for them.                    *)
EveryAllocateReturns == Docker!AllocateReturns /\ AllocateReturns

(* "It will continue in background": the goroutine that pulls for a        *)
(* request that has left is not stuck with its result.                     *)
PullerEnds == Docker!PullerEnds

=============================================================================
