----------------------------- MODULE WDSessions -----------------------------
(***************************************************************************)
(* The life of a WebDriver session: LocalSessionStorage                    *)
(* (internal/services/session/storage.go), WDSessionService                *)
(* (internal/services/wdsession/service.go), the handlers that call them   *)
(* (internal/controllers/wdsession.go, ui.go) and the shutdown hooks that  *)
(* the signal handler runs side by side (pkg/signal/signal.go).            *)
(*                                                                         *)
(* A session is named by the browser it wraps: every Allocate returns a    *)
(* new handle, whose Close gives the quota back and must run exactly once. *)
(* Four kinds of code may end a session: a DELETE request, a reset from    *)
(* the UI, the clean-up goroutine and the shutdown of the storage; they    *)
(* agree by removing the session from the storage first.                   *)
(***************************************************************************)
EXTENDS Integers, FiniteSets

CONSTANTS
    Creators,      \* goroutines that serve POST /session
    Handlers,      \* goroutines that serve requests to an existing session
    Cleaner,       \* the goroutine of cleanupSessions
    Handles,       \* browsers; their number bounds the sessions created
    ProxyDelete,   \* WDSessionService.proxyDelete
    NoHandle

ASSUME HandlesAssumption == NoHandle \notin Handles
ASSUME ProcsAssumption == Cleaner \notin Creators \cup Handlers /\ Creators \cap Handlers = {}
ASSUME ProxyDeleteAssumption == ProxyDelete \in BOOLEAN

Requests == Creators \cup Handlers
Deleters == Handlers \cup {Cleaner}
Procs == Requests \cup {Cleaner}

VARIABLES
    stored,        \* sessions in the storage
    storageHook,   \* where the Shutdown of the storage stands
    closers,       \* browsers Shutdown took out of the storage, not closed yet
    stale,         \* stored sessions that were last used too long ago
    todo,          \* what is left of the clean-up's List
    pc, on,        \* per goroutine, where it stands and its browser
    opened,        \* browsers allocated so far
    closes,        \* how often each was closed
    kept,          \* browsers closed with trash = FALSE
    serverHook,    \* where the Shutdown of the HTTP server stands
    cleanerHook,   \* where the Shutdown of the service stands
    signalled,     \* a signal was caught, performShutdown has started the hooks
    late,          \* the context of the shutdown hooks has ended
    exit           \* how the process ended

storageVars == <<stored, storageHook, closers, stale>>
procVars == <<pc, on, todo>>
browserVars == <<opened, closes, kept>>
hookVars == <<serverHook, cleanerHook, signalled, late, exit>>
vars == <<storageVars, procVars, browserVars, hookVars>>

HookStates == {"none", "busy", "done", "timedOut"}

Ending == {"winding", "wiping", "trashing", "keeping"}
WithHandle == {"starting", "storing", "aborting", "proxying", "deleting"} \cup Ending
Owning == {"starting", "storing", "aborting"} \cup Ending
Places == {"idle", "allocating", "created", "failed", "ticking", "scanning", "stopped"}
            \cup WithHandle

(* The mutex of the storage is free, and its shutdown flag. *)
Unlocked == storageHook # "busy"
Down == storageHook # "none"

(* The process has not ended: nothing runs after it has. *)
Alive == exit = "no"

Goto(p, from, to) ==
    /\ Alive
    /\ pc[p] = from
    /\ pc' = [pc EXCEPT ![p] = to]

CloseBrowser(h, trash) ==
    /\ closes' = [closes EXCEPT ![h] = @ + 1]
    /\ kept' = IF trash THEN kept ELSE kept \cup {h}
    /\ UNCHANGED opened

-----------------------------------------------------------------------------
Init ==
    /\ stored = {} /\ storageHook = "none" /\ closers = {} /\ stale = {}
    /\ todo = {}
    /\ pc = [p \in Procs |-> IF p = Cleaner THEN "ticking" ELSE "idle"]
    /\ on = [p \in Procs |-> NoHandle]
    /\ opened = {} /\ closes = [h \in Handles |-> 0] /\ kept = {}
    /\ serverHook = "none" /\ cleanerHook = "none"
    /\ signalled = FALSE /\ late = FALSE /\ exit = "no"

(* CreateSession: the flag is read once at the start and once in Add.      *)
CreateBegin(c) ==
    /\ serverHook = "none"
    /\ Unlocked /\ ~Down
    /\ Goto(c, "idle", "allocating")
    /\ UNCHANGED <<storageVars, on, todo, browserVars, hookVars>>

CreateRefused(c) ==
    /\ serverHook = "none"
    /\ Unlocked /\ Down
    /\ Goto(c, "idle", "failed")
    /\ UNCHANGED <<storageVars, on, todo, browserVars, hookVars>>

AllocateDone(c, h) ==
    /\ h \notin opened
    /\ Goto(c, "allocating", "starting")
    /\ on' = [on EXCEPT ![c] = h]
    /\ opened' = opened \cup {h}
    /\ UNCHANGED <<storageVars, todo, closes, kept, hookVars>>

AllocateFailed(c) ==
    /\ Goto(c, "allocating", "failed")
    /\ UNCHANGED <<storageVars, on, todo, browserVars, hookVars>>

(* The driver answers /status and the proxied create request with an id,   *)
(* or one of the three fails or times out.                                 *)
StartDone(c) ==
    /\ Goto(c, "starting", "storing")
    /\ UNCHANGED <<storageVars, on, todo, browserVars, hookVars>>

StartFailed_Leaks(c) ==
    /\ Goto(c, "starting", "failed")
    /\ on' = [on EXCEPT ![c] = NoHandle]
    /\ UNCHANGED <<storageVars, todo, browserVars, hookVars>>

StartFailed(c) ==
    /\ Goto(c, "starting", "aborting")
    /\ UNCHANGED <<storageVars, on, todo, browserVars, hookVars>>

Store_NoCheck(c) ==
    /\ Unlocked
    /\ Goto(c, "storing", "created")
    /\ stored' = stored \cup {on[c]}
    /\ on' = [on EXCEPT ![c] = NoHandle]
    /\ UNCHANGED <<storageHook, closers, stale, todo, browserVars, hookVars>>

Store(c) ==
    /\ Unlocked /\ ~Down
    /\ Goto(c, "storing", "created")
    /\ stored' = stored \cup {on[c]}
    /\ on' = [on EXCEPT ![c] = NoHandle]
    /\ UNCHANGED <<storageHook, closers, stale, todo, browserVars, hookVars>>

StoreRefused(c) ==
    /\ Unlocked /\ Down
    /\ Goto(c, "storing", "aborting")
    /\ UNCHANGED <<storageVars, on, todo, browserVars, hookVars>>

Abort_FallsThrough(c) ==
    /\ Goto(c, "aborting", "storing")
    /\ CloseBrowser(on[c], TRUE)
    /\ UNCHANGED <<storageVars, on, todo, hookVars>>

Abort(c) ==
    /\ Goto(c, "aborting", "failed")
    /\ CloseBrowser(on[c], TRUE)
    /\ on' = [on EXCEPT ![c] = NoHandle]
    /\ UNCHANGED <<storageVars, todo, hookVars>>

Respond(c) ==
    /\ Alive
    /\ pc[c] \in {"created", "failed"}
    /\ pc' = [pc EXCEPT ![c] = "idle"]
    /\ UNCHANGED <<storageVars, on, todo, browserVars, hookVars>>

(* ValidateSession finds the session and marks it as used just now, then   *)
(* the request is proxied to the driver or is a DELETE.                    *)
Validate(d, h, next) ==
    /\ serverHook = "none"
    /\ Unlocked /\ h \in stored
    /\ Goto(d, "idle", next)
    /\ on' = [on EXCEPT ![d] = h]
    /\ stale' = stale \ {h}
    /\ UNCHANGED <<stored, storageHook, closers, todo, browserVars, hookVars>>

(* UIController.reset finds the session and leaves its time of use alone. *)
ResetFind(d, h) ==
    /\ serverHook = "none"
    /\ Unlocked /\ h \in stored
    /\ Goto(d, "idle", "deleting")
    /\ on' = [on EXCEPT ![d] = h]
    /\ UNCHANGED <<storageVars, todo, browserVars, hookVars>>

ProxyReturns(d) ==
    /\ Goto(d, "proxying", "idle")
    /\ on' = [on EXCEPT ![d] = NoHandle]
    /\ UNCHANGED <<storageVars, todo, browserVars, hookVars>>

(* DeleteSession: only the caller whose Delete finds the session goes on.  *)
BackTo(p) == IF p = Cleaner THEN "scanning" ELSE "idle"

DeleteLost(p) ==
    /\ Unlocked /\ on[p] \notin stored
    /\ Goto(p, "deleting", BackTo(p))
    /\ on' = [on EXCEPT ![p] = NoHandle]
    /\ UNCHANGED <<storageVars, todo, browserVars, hookVars>>

DeleteWon(p) ==
    /\ Unlocked /\ on[p] \in stored
    /\ Goto(p, "deleting", IF ProxyDelete THEN "winding" ELSE "trashing")
    /\ stored' = stored \ {on[p]}
    /\ stale' = stale \ {on[p]}
    /\ UNCHANGED <<storageHook, closers, on, todo, browserVars, hookVars>>

(* The driver answers the DELETE, the file server lets go of the files. *)
WindDown(p) ==
    /\ \/ \E to \in {"wiping", "trashing"} : Goto(p, "winding", to)
       \/ \E to \in {"keeping", "trashing"} : Goto(p, "wiping", to)
    /\ UNCHANGED <<storageVars, on, todo, browserVars, hookVars>>

FinishDelete(p) ==
    /\ Alive
    /\ pc[p] \in {"trashing", "keeping"}
    /\ CloseBrowser(on[p], pc[p] = "trashing")
    /\ pc' = [pc EXCEPT ![p] = BackTo(p)]
    /\ on' = [on EXCEPT ![p] = NoHandle]
    /\ UNCHANGED <<storageVars, todo, hookVars>>

(* cleanupSessions: a tick lists the sessions, then each one that is idle  *)
(* for too long is deleted; what was listed may be gone, or in use again.  *)
Tick ==
    /\ Unlocked
    /\ Goto(Cleaner, "ticking", "scanning")
    /\ todo' = stored
    /\ UNCHANGED <<storageVars, on, browserVars, hookVars>>

ScanFresh_EndsLoop(h) ==
    /\ Alive
    /\ pc[Cleaner] = "scanning"
    /\ h \in todo \ stale
    /\ todo' = {}
    /\ UNCHANGED <<storageVars, pc, on, browserVars, hookVars>>

ScanFresh(h) ==
    /\ Alive
    /\ pc[Cleaner] = "scanning"
    /\ h \in todo \ stale
    /\ todo' = todo \ {h}
    /\ UNCHANGED <<storageVars, pc, on, browserVars, hookVars>>

ScanStale(h) ==
    /\ h \in todo \cap stale
    /\ Goto(Cleaner, "scanning", "deleting")
    /\ on' = [on EXCEPT ![Cleaner] = h]
    /\ todo' = todo \ {h}
    /\ UNCHANGED <<storageVars, browserVars, hookVars>>

ScanEnds ==
    /\ todo = {}
    /\ Goto(Cleaner, "scanning", "ticking")
    /\ UNCHANGED <<storageVars, on, todo, browserVars, hookVars>>

CleanerStops ==
    /\ cleanerHook # "none"
    /\ Goto(Cleaner, "ticking", "stopped")
    /\ UNCHANGED <<storageVars, on, todo, browserVars, hookVars>>

(* Time passes: a stored session is not used for longer than its timeout,  *)
(* which counts from the start of its last request, not from its end.      *)
Expire(h) ==
    /\ Alive
    /\ h \in stored \ stale
    /\ stale' = stale \cup {h}
    /\ UNCHANGED <<stored, storageHook, closers, procVars, browserVars, hookVars>>

-----------------------------------------------------------------------------
(* The hooks of performShutdown, one goroutine each. *)
StorageShutdown ==
    /\ Alive
    /\ signalled /\ storageHook = "none"
    /\ storageHook' = "busy"
    /\ closers' = stored
    /\ stored' = {} /\ stale' = {}
    /\ UNCHANGED <<procVars, browserVars, hookVars>>

StorageCloses(h) ==
    /\ Alive
    /\ h \in closers
    /\ closers' = closers \ {h}
    /\ CloseBrowser(h, TRUE)
    /\ UNCHANGED <<stored, storageHook, stale, procVars, hookVars>>

StorageHookReturns_NoWait ==
    /\ Alive
    /\ storageHook = "busy"
    /\ \/ storageHook' = "done"
       \/ late /\ storageHook' = "timedOut"
    /\ UNCHANGED <<stored, closers, stale, procVars, browserVars, hookVars>>

StorageHookReturns ==
    /\ Alive
    /\ storageHook = "busy"
    /\ \/ closers = {} /\ storageHook' = "done"
       \/ late /\ storageHook' = "timedOut"
    /\ UNCHANGED <<stored, closers, stale, procVars, browserVars, hookVars>>

(* e.Shutdown accepts no more requests and waits for the running ones. *)
ServerShutdown ==
    /\ Alive
    /\ signalled /\ serverHook = "none"
    /\ serverHook' = "busy"
    /\ UNCHANGED <<storageVars, procVars, browserVars, cleanerHook, signalled, late, exit>>

ServerHookReturns ==
    /\ Alive
    /\ serverHook = "busy"
    /\ \/ (\A p \in Requests : pc[p] = "idle") /\ serverHook' = "done"
       \/ late /\ serverHook' = "timedOut"
    /\ UNCHANGED <<storageVars, procVars, browserVars, cleanerHook, signalled, late, exit>>

CleanerShutdown ==
    /\ Alive
    /\ signalled /\ cleanerHook = "none"
    /\ cleanerHook' = "busy"
    /\ UNCHANGED <<storageVars, procVars, browserVars, serverHook, signalled, late, exit>>

CleanerHookReturns ==
    /\ Alive
    /\ cleanerHook = "busy"
    /\ \/ pc[Cleaner] = "stopped" /\ cleanerHook' = "done"
       \/ late /\ cleanerHook' = "timedOut"
    /\ UNCHANGED <<storageVars, procVars, browserVars, serverHook, signalled, late, exit>>

(* Start: a signal, then the hooks' timeout, their end or a second signal. *)
Signal ==
    /\ Alive
    /\ ~signalled
    /\ signalled' = TRUE
    /\ UNCHANGED <<storageVars, procVars, browserVars, serverHook, cleanerHook, late, exit>>

HookTimeout ==
    /\ Alive
    /\ signalled /\ ~late
    /\ late' = TRUE
    /\ UNCHANGED <<storageVars, procVars, browserVars, serverHook, cleanerHook, signalled, exit>>

Hooks == {storageHook, serverHook, cleanerHook}

ExitWith(how) ==
    /\ Alive
    /\ exit' = how
    /\ UNCHANGED <<storageVars, procVars, browserVars, serverHook, cleanerHook, signalled, late>>

Exit ==
    \/ ~late /\ Hooks = {"done"} /\ ExitWith("graceful")
    \/ late /\ ExitWith("forced")

SecondSignal == signalled /\ ~late /\ ExitWith("forced")

-----------------------------------------------------------------------------
Create(c) ==
    \/ CreateBegin(c) \/ CreateRefused(c)
    \/ (\E h \in Handles : AllocateDone(c, h)) \/ AllocateFailed(c)
    \/ StartDone(c) \/ StartFailed(c)
    \/ Store(c) \/ StoreRefused(c)
    \/ Abort(c) \/ Respond(c)

Find(d, h) ==
    \/ \E next \in {"proxying", "deleting"} : Validate(d, h, next)
    \/ ResetFind(d, h)

Delete(p) == DeleteLost(p) \/ DeleteWon(p) \/ WindDown(p) \/ FinishDelete(p)

Clean ==
    \/ Tick \/ ScanEnds \/ CleanerStops
    \/ \E h \in Handles : ScanFresh(h) \/ ScanStale(h)

Shutdown ==
    \/ StorageShutdown \/ StorageHookReturns
    \/ ServerShutdown \/ ServerHookReturns
    \/ CleanerShutdown \/ CleanerHookReturns
    \/ \E h \in Handles : StorageCloses(h)

Next ==
    \/ \E c \in Creators : Create(c)
    \/ \E d \in Handlers : ProxyReturns(d) \/ \E h \in Handles : Find(d, h)
    \/ \E p \in Deleters : Delete(p)
    \/ Clean
    \/ \E h \in Handles : Expire(h)
    \/ Signal \/ Shutdown \/ HookTimeout \/ Exit \/ SecondSignal

Spec == Init /\ [][Next]_vars

(* Goroutines run, and drivers and file servers answer; that anybody sends *)
(* a request, or a signal, is not assumed.                                 *)
Fairness ==
    /\ \A p \in Deleters : WF_vars(Delete(p))
    /\ WF_vars(Clean)
    /\ WF_vars(Shutdown)
    /\ WF_vars(Exit)

FairSpec == Spec /\ Fairness

-----------------------------------------------------------------------------
HeldAt(places) == {on[p] : p \in {q \in Procs : pc[q] \in places}}
InHand == HeldAt(Owning)

(* Type invariant; a goroutine has a session exactly where it should. *)
TypeOK ==
    /\ stored \subseteq opened /\ stale \subseteq stored /\ closers \subseteq opened
    /\ todo \subseteq opened /\ opened \subseteq Handles /\ kept \subseteq opened
    /\ pc \in [Procs -> Places]
    /\ on \in [Procs -> opened \cup {NoHandle}]
    /\ \A p \in Procs : on[p] # NoHandle <=> pc[p] \in WithHandle
    /\ closes \in [Handles -> Nat]
    /\ storageHook \in HookStates /\ serverHook \in HookStates /\ cleanerHook \in HookStates
    /\ signalled \in BOOLEAN /\ late \in BOOLEAN /\ exit \in {"no", "graceful", "forced"}

(* A browser belongs to the request that creates its session, to the       *)
(* storage, to the one goroutine whose Delete found it, or to Shutdown.    *)
OneOwner ==
    /\ \A p, q \in Procs :
        on[p] = on[q] /\ pc[p] \in Owning /\ pc[q] \in Owning => p = q
    /\ InHand \cap (stored \cup closers) = {}
    /\ stored \cap closers = {}

(* Close runs at most once per browser (it would give the quota back       *)
(* twice), and the storage never names a browser that was closed.          *)
ClosedOnce ==
    /\ \A h \in InHand \cup stored \cup closers : closes[h] = 0
    /\ \A h \in Handles : closes[h] <= IF h \in opened THEN 1 ELSE 0

(* A DELETE request, the reset, the clean-up and Shutdown pass a browser   *)
(* on without ever sharing it, so that one of them closes it.              *)
Custody == TypeOK /\ OneOwner /\ ClosedOnce

(* No path of CreateSession or DeleteSession forgets a browser. *)
NoneLost == \A h \in opened : closes[h] = 0 => h \in InHand \cup stored \cup closers

(* What CreateSession, DeleteSession and Shutdown do, and the clean-up     *)
(* among them, is what SessionStore does: no browser skips an owner, goes  *)
(* back to one, or enters the storage that is shut down.                   *)
Fresh == HeldAt({"starting", "storing"})
Ended == closers \cup HeldAt({"aborting"} \cup Ending)
Closed == {h \in opened : closes[h] > 0}

Sessions == INSTANCE SessionStore WITH
    Browsers <- Handles, fresh <- Fresh, ended <- Ended, closed <- Closed, barred <- Down

ImplementsSessionStore == Sessions!Spec

(* Once it is shut down, no session enters the storage any more, not even  *)
(* one whose creation had passed the first check.                          *)
NothingAfterShutdown == Down => stored = {}

(* "graceful shutdown completed": when all hooks are done in time, no      *)
(* browser is left open behind them.                                       *)
GracefulExit == exit = "graceful" => \A h \in opened : closes[h] = 1

(* A session that stays unused is deleted in the end, also while others    *)
(* come and go, and while drivers are slow.                                *)
IdleReaped == \A h \in Handles : h \in stale ~> (h \notin stale \/ exit # "no")

=============================================================================
