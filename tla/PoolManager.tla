---------------------------- MODULE PoolManager -----------------------------
(***************************************************************************)
(* BrowserPoolManager (internal/browser/pool/manager.go): the map from     *)
(* the unique name of a pool (protocol, browser, hash of the capabilities) *)
(* to the pool, created at its first use, until Shutdown.                  *)
(*                                                                         *)
(* Allocate takes the mutex three times, for the shutdown flag, to look up *)
(* the pool and to create it; Shutdown keeps it until all pools are shut   *)
(* down.  A pool is only open or shut here; BrowserPool has the rest.      *)
(***************************************************************************)
EXTENDS FiniteSets

CONSTANTS
    Users,         \* goroutines that call Allocate
    Names,         \* what getUniquePoolName returns
    Pools,         \* what the factory returns, each at most once
    NoPool

ASSUME PoolsAssumption == NoPool \notin Pools

VARIABLES
    pools,         \* BrowserPoolManager.pools
    sd,            \* where Shutdown stands; the flag is set once it has begun
    toShut,        \* pools that Shutdown has yet to shut down
    shut,          \* pools that were shut down
    created,       \* pools the factory has returned
    stage, name, pool   \* per goroutine, where it stands, its name and its pool

managerVars == <<pools, sd, toShut, shut, created, stage, name, pool>>
userVars == <<stage, name, pool>>

Stages == {"idle", "looking", "missing", "found", "using", "failed"}

Unlocked == sd # "busy"
IsShutdown == sd # "none"

Moves(u, from, to) ==
    /\ stage[u] = from
    /\ stage' = [stage EXCEPT ![u] = to]

-----------------------------------------------------------------------------
ManagerInit ==
    /\ pools = [n \in Names |-> NoPool]
    /\ sd = "none" /\ toShut = {} /\ shut = {} /\ created = {}
    /\ stage = [u \in Users |-> "idle"]
    /\ name \in [Users -> Names]
    /\ pool = [u \in Users |-> NoPool]

(* Allocate: isShutdown. *)
Begin(u, n) ==
    /\ Unlocked /\ ~IsShutdown
    /\ Moves(u, "idle", "looking")
    /\ name' = [name EXCEPT ![u] = n]
    /\ UNCHANGED <<pools, sd, toShut, shut, created, pool>>

Refused(u) ==
    /\ Unlocked /\ IsShutdown
    /\ Moves(u, "idle", "failed")
    /\ UNCHANGED <<pools, sd, toShut, shut, created, name, pool>>

GetPool(u) ==
    /\ Unlocked
    /\ Moves(u, "looking", IF pools[name[u]] = NoPool THEN "missing" ELSE "found")
    /\ pool' = [pool EXCEPT ![u] = pools[name[u]]]
    /\ UNCHANGED <<pools, sd, toShut, shut, created, name>>

(* createPool looks again: another goroutine may have created the pool. *)
CreatePool_NoRecheck(u, p) ==
    /\ Unlocked
    /\ Moves(u, "missing", "found")
    /\ p \notin created
    /\ created' = created \cup {p}
    /\ pools' = [pools EXCEPT ![name[u]] = p]
    /\ pool' = [pool EXCEPT ![u] = p]
    /\ UNCHANGED <<sd, toShut, shut, name>>

CreatePool(u, p) ==
    /\ Unlocked
    /\ Moves(u, "missing", "found")
    /\ \/ /\ pools[name[u]] = NoPool /\ p \notin created
          /\ created' = created \cup {p}
          /\ pools' = [pools EXCEPT ![name[u]] = p]
       \/ p = pools[name[u]] /\ UNCHANGED <<created, pools>>
    /\ pool' = [pool EXCEPT ![u] = p]
    /\ UNCHANGED <<sd, toShut, shut, name>>

(* pool.Checkout: a pool that was shut down refuses. *)
Checkout(u) ==
    /\ Moves(u, "found", IF pool[u] \in shut THEN "failed" ELSE "using")
    /\ UNCHANGED <<pools, sd, toShut, shut, created, name, pool>>

(* The session ends: its browser goes back to its pool. *)
Done(u) ==
    /\ stage[u] \in {"using", "failed"}
    /\ stage' = [stage EXCEPT ![u] = "idle"]
    /\ pool' = [pool EXCEPT ![u] = NoPool]
    /\ UNCHANGED <<pools, sd, toShut, shut, created, name>>

ShutdownBegin ==
    /\ sd = "none"
    /\ sd' = "busy"
    /\ toShut' = {pools[n] : n \in Names} \ {NoPool}
    /\ UNCHANGED <<pools, shut, created, userVars>>

ShutPool(p) ==
    /\ p \in toShut
    /\ toShut' = toShut \ {p}
    /\ shut' = shut \cup {p}
    /\ UNCHANGED <<pools, sd, created, userVars>>

ShutdownReturns_NoWait ==
    /\ sd = "busy"
    /\ sd' \in {"done", "timedOut"}
    /\ UNCHANGED <<pools, toShut, shut, created, userVars>>

ShutdownReturns ==
    /\ sd = "busy"
    /\ sd' \in IF toShut = {} THEN {"done", "timedOut"} ELSE {"timedOut"}
    /\ UNCHANGED <<pools, toShut, shut, created, userVars>>

Allocate(u) ==
    \/ (\E n \in Names : Begin(u, n)) \/ Refused(u)
    \/ GetPool(u) \/ (\E p \in Pools : CreatePool(u, p))
    \/ Checkout(u)

Shutdown == ShutdownBegin \/ (\E p \in Pools : ShutPool(p)) \/ ShutdownReturns

ManagerNext == (\E u \in Users : Allocate(u) \/ Done(u)) \/ Shutdown

ManagerSpec == ManagerInit /\ [][ManagerNext]_managerVars

-----------------------------------------------------------------------------
(* Type invariant; who has found a pool has one. *)
ManagerTypeOK ==
    /\ created \subseteq Pools /\ shut \subseteq created /\ toShut \subseteq created
    /\ pools \in [Names -> created \cup {NoPool}]
    /\ sd \in {"none", "busy", "done", "timedOut"}
    /\ stage \in [Users -> Stages] /\ name \in [Users -> Names]
    /\ pool \in [Users -> created \cup {NoPool}]
    /\ \A u \in Users : stage[u] \in {"found", "using"} => pool[u] # NoPool

(* Goroutines that ask for the same browser share its pool, however they   *)
(* race to create it, and those that ask for another one do not: no pool   *)
(* drops out of the map, where Shutdown would not find it.                 *)
OnePoolPerName ==
    /\ \A u \in Users : pool[u] # NoPool => pools[name[u]] = pool[u]
    /\ \A p \in created : Cardinality({n \in Names : pools[n] = p}) = 1

(* When Shutdown returns in time every pool there is has been shut down,   *)
(* also one that a goroutine was about to create when it began.            *)
ShutdownReachesAll == [][sd # "done" /\ sd' = "done" => created' \subseteq shut']_managerVars

=============================================================================
