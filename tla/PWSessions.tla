----------------------------- MODULE PWSessions -----------------------------
(***************************************************************************)
(* The life of a Playwright session: PWSessionService                      *)
(* (internal/services/pw/service.go), PWController.CreateSession           *)
(* (internal/controllers/pw.go), the reset from the UI and the shutdown of *)
(* the storage (internal/services/session/storage.go) and of the server.   *)
(*                                                                         *)
(* One request is the whole session: its handler allocates the browser,    *)
(* stores the session, proxies the WebSocket until one side closes it, and *)
(* deletes the session when it returns.  Nothing else cleans up: there is  *)
(* no idle timeout.  A session is named by its browser, as in WDSessions.  *)
(***************************************************************************)
EXTENDS Integers, FiniteSets

CONSTANTS
    Clients,       \* goroutines that serve a Playwright connection
    Resetters,     \* goroutines that serve a reset from the UI
    Handles,       \* browsers; their number bounds the sessions created
    NoHandle

ASSUME HandlesAssumption == NoHandle \notin Handles
ASSUME ProcsAssumption == Clients \cap Resetters = {}

Procs == Clients \cup Resetters

VARIABLES
    stored,        \* sessions in the storage
    storageHook,   \* where the Shutdown of the storage stands
    closers,       \* browsers Shutdown took out of the storage, not closed yet
    pc, on,        \* per goroutine, where it stands and its browser
    hijacked,      \* clients whose connection left the HTTP server (101)
    cancelled,     \* sessions whose context was cancelled
    opened,        \* browsers allocated so far
    closes,        \* how often each was closed
    kept,          \* browsers closed with trash = FALSE
    signalled,     \* performShutdown has started the hooks
    serverHook,    \* where the Shutdown of the HTTP server stands
    late,          \* the context of the shutdown hooks has ended
    exit           \* how the process ended

storageVars == <<stored, storageHook, closers>>
procVars == <<pc, on, hijacked, cancelled>>
browserVars == <<opened, closes, kept>>
hookVars == <<signalled, serverHook, late, exit>>
vars == <<storageVars, procVars, browserVars, hookVars>>

HookStates == {"none", "busy", "done", "timedOut"}

Serving == {"connecting", "connected", "deleting"}   \* the session is not its own
Owning == {"starting", "storing", "aborting", "closing"}
Places == {"idle", "allocating"} \cup Serving \cup Owning

(* The mutex of the storage is free, and its shutdown flag. *)
Unlocked == storageHook # "busy"
Down == storageHook # "none"

(* The process has not ended: nothing runs after it has. *)
Alive == exit = "no"

Goto(p, from, to) ==
    /\ Alive
    /\ pc[p] = from
    /\ pc' = [pc EXCEPT ![p] = to]

(* The handler returns, and lets go of its session and its connection. *)

Return(p, from) ==
    /\ Goto(p, from, "idle")
    /\ on' = [on EXCEPT ![p] = NoHandle]
    /\ hijacked' = hijacked \ {p}

CloseBrowser(h, trash) ==
    /\ closes' = [closes EXCEPT ![h] = @ + 1]
    /\ kept' = IF trash THEN kept ELSE kept \cup {h}
    /\ UNCHANGED opened

-----------------------------------------------------------------------------
Init ==
    /\ stored = {} /\ storageHook = "none" /\ closers = {}
    /\ pc = [p \in Procs |-> "idle"]
    /\ on = [p \in Procs |-> NoHandle]
    /\ hijacked = {} /\ cancelled = {}
    /\ opened = {} /\ closes = [h \in Handles |-> 0] /\ kept = {}
    /\ signalled = FALSE /\ serverHook = "none" /\ late = FALSE /\ exit = "no"

(* CreateSession; a request refused by the first check just returns. *)
CreateBegin(c) ==
    /\ serverHook = "none"
    /\ Unlocked /\ ~Down
    /\ Goto(c, "idle", "allocating")
    /\ UNCHANGED <<storageVars, on, hijacked, cancelled, browserVars, hookVars>>

AllocateDone(c, h) ==
    /\ h \notin opened
    /\ Goto(c, "allocating", "starting")
    /\ on' = [on EXCEPT ![c] = h]
    /\ opened' = opened \cup {h}
    /\ UNCHANGED <<storageVars, hijacked, cancelled, closes, kept, hookVars>>

AllocateFailed(c) ==
    /\ Return(c, "allocating")
    /\ UNCHANGED <<storageVars, cancelled, browserVars, hookVars>>

(* waitBrowserServerStarted dials until the port answers or time is up. *)
StartDone(c) ==
    /\ Goto(c, "starting", "storing")
    /\ UNCHANGED <<storageVars, on, hijacked, cancelled, browserVars, hookVars>>

StartFailed_Leaks(c) ==
    /\ Return(c, "starting")
    /\ UNCHANGED <<storageVars, cancelled, browserVars, hookVars>>

StartFailed(c) ==
    /\ Goto(c, "starting", "aborting")
    /\ UNCHANGED <<storageVars, on, hijacked, cancelled, browserVars, hookVars>>

Store_NoCheck(c) ==
    /\ Unlocked
    /\ Goto(c, "storing", "connecting")
    /\ stored' = stored \cup {on[c]}
    /\ UNCHANGED <<storageHook, closers, on, hijacked, cancelled, browserVars, hookVars>>

Store(c) ==
    /\ Unlocked /\ ~Down
    /\ Goto(c, "storing", "connecting")
    /\ stored' = stored \cup {on[c]}
    /\ UNCHANGED <<storageHook, closers, on, hijacked, cancelled, browserVars, hookVars>>

StoreRefused(c) ==
    /\ Unlocked /\ Down
    /\ Goto(c, "storing", "aborting")
    /\ UNCHANGED <<storageVars, on, hijacked, cancelled, browserVars, hookVars>>

Abort(c) ==
    /\ Return(c, "aborting")
    /\ CloseBrowser(on[c], TRUE)
    /\ UNCHANGED <<storageVars, cancelled, hookVars>>

(* The browser answers the upgrade, and the connection belongs to the      *)
(* ReverseProxy; it does not if the session's context has been cancelled.  *)
Upgrade(c) ==
    /\ on[c] \notin cancelled
    /\ Goto(c, "connecting", "connected")
    /\ hijacked' = hijacked \cup {c}
    /\ UNCHANGED <<storageVars, on, cancelled, browserVars, hookVars>>

(* ServeHTTP returns: the request fails, one side closes the connection,   *)
(* or the context of the session is cancelled.  The deferred function then *)
(* deletes the session.                                                    *)
ServeReturns_NoDelete(c) ==
    /\ pc[c] \in {"connecting", "connected"}
    /\ Return(c, pc[c])
    /\ UNCHANGED <<storageVars, cancelled, browserVars, hookVars>>

ServeReturns(c) ==
    /\ pc[c] \in {"connecting", "connected"}
    /\ Goto(c, pc[c], "deleting")
    /\ UNCHANGED <<storageVars, on, hijacked, cancelled, browserVars, hookVars>>

(* What makes it return for certain: the session was reset, or its browser *)
(* was removed.                                                            *)
MustReturn(c) ==
    /\ pc[c] \in {"connecting", "connected"}
    /\ \/ on[c] \in cancelled
       \/ closes[on[c]] > 0 /\ on[c] \notin kept

(* UIController.reset. *)
ResetFind(r, h) ==
    /\ serverHook = "none"
    /\ Unlocked /\ h \in stored
    /\ Goto(r, "idle", "deleting")
    /\ on' = [on EXCEPT ![r] = h]
    /\ UNCHANGED <<storageVars, hijacked, cancelled, browserVars, hookVars>>

(* DeleteSession: only the caller whose Delete finds the session goes on.  *)
DeleteLost_GoesOn(p) ==
    /\ Unlocked /\ on[p] \notin stored
    /\ Goto(p, "deleting", "closing")
    /\ UNCHANGED <<storageVars, on, hijacked, cancelled, browserVars, hookVars>>

DeleteLost(p) ==
    /\ Unlocked /\ on[p] \notin stored
    /\ Return(p, "deleting")
    /\ UNCHANGED <<storageVars, cancelled, browserVars, hookVars>>

DeleteWon_NoCancel(p) ==
    /\ Unlocked /\ on[p] \in stored
    /\ Goto(p, "deleting", "closing")
    /\ stored' = stored \ {on[p]}
    /\ UNCHANGED <<storageHook, closers, on, hijacked, cancelled, browserVars, hookVars>>

DeleteWon(p) ==
    /\ Unlocked /\ on[p] \in stored
    /\ Goto(p, "deleting", "closing")
    /\ stored' = stored \ {on[p]}
    /\ cancelled' = cancelled \cup {on[p]}
    /\ UNCHANGED <<storageHook, closers, on, hijacked, browserVars, hookVars>>

FinishDelete(p) ==
    /\ Return(p, "closing")
    /\ CloseBrowser(on[p], FALSE)
    /\ UNCHANGED <<storageVars, cancelled, hookVars>>

-----------------------------------------------------------------------------
(* The hooks of performShutdown.  The storage closes the browsers but does *)
(* not cancel the contexts of their sessions.                              *)
StorageShutdown ==
    /\ Alive
    /\ signalled /\ storageHook = "none"
    /\ storageHook' = "busy"
    /\ closers' = stored
    /\ stored' = {}
    /\ UNCHANGED <<procVars, browserVars, hookVars>>

StorageCloses(h) ==
    /\ Alive
    /\ h \in closers
    /\ closers' = closers \ {h}
    /\ CloseBrowser(h, TRUE)
    /\ UNCHANGED <<stored, storageHook, procVars, hookVars>>

StorageHookReturns ==
    /\ Alive
    /\ storageHook = "busy"
    /\ \/ closers = {} /\ storageHook' = "done"
       \/ late /\ storageHook' = "timedOut"
    /\ UNCHANGED <<stored, closers, procVars, browserVars, hookVars>>

ServerShutdown ==
    /\ Alive
    /\ signalled /\ serverHook = "none"
    /\ serverHook' = "busy"
    /\ UNCHANGED <<storageVars, procVars, browserVars, signalled, late, exit>>

(* http.Server.Shutdown waits for requests, not for hijacked connections. *)
ServerHookReturns ==
    /\ Alive
    /\ serverHook = "busy"
    /\ \/ (\A p \in Procs : pc[p] = "idle" \/ p \in hijacked) /\ serverHook' = "done"
       \/ late /\ serverHook' = "timedOut"
    /\ UNCHANGED <<storageVars, procVars, browserVars, signalled, late, exit>>

Signal ==
    /\ Alive
    /\ ~signalled
    /\ signalled' = TRUE
    /\ UNCHANGED <<storageVars, procVars, browserVars, serverHook, late, exit>>

HookTimeout ==
    /\ Alive
    /\ signalled /\ ~late
    /\ late' = TRUE
    /\ UNCHANGED <<storageVars, procVars, browserVars, signalled, serverHook, exit>>

ExitWith(how) ==
    /\ Alive
    /\ exit' = how
    /\ UNCHANGED <<storageVars, procVars, browserVars, signalled, serverHook, late>>

Exit ==
    \/ ~late /\ storageHook = "done" /\ serverHook = "done" /\ ExitWith("graceful")
    \/ late /\ ExitWith("forced")

-----------------------------------------------------------------------------
CreateSession(c) ==
    \/ (\E h \in Handles : AllocateDone(c, h)) \/ AllocateFailed(c)
    \/ StartDone(c) \/ StartFailed(c)
    \/ Store(c) \/ StoreRefused(c) \/ Abort(c)

DeleteSession(p) == DeleteLost(p) \/ DeleteWon(p) \/ FinishDelete(p)

Shutdown ==
    \/ StorageShutdown \/ StorageHookReturns
    \/ ServerShutdown \/ ServerHookReturns
    \/ \E h \in Handles : StorageCloses(h)

Next ==
    \/ \E c \in Clients : CreateBegin(c) \/ CreateSession(c) \/ Upgrade(c) \/ ServeReturns(c)
    \/ \E r \in Resetters, h \in Handles : ResetFind(r, h)
    \/ \E p \in Procs : DeleteSession(p)
    \/ Signal \/ Shutdown \/ HookTimeout \/ Exit

Spec == Init /\ [][Next]_vars

(* Goroutines run; a connection ends for certain only when it must. *)
Fairness ==
    /\ \A c \in Clients : WF_vars(MustReturn(c) /\ ServeReturns(c))
    /\ \A p \in Procs : WF_vars(DeleteSession(p))
    /\ WF_vars(Shutdown)

FairSpec == Spec /\ Fairness

-----------------------------------------------------------------------------
HeldAt(places) == {on[p] : p \in {q \in Procs : pc[q] \in places}}
InHand == HeldAt(Owning)

(* Type invariant; a goroutine has a session exactly where it should. *)
TypeOK ==
    /\ stored \subseteq opened /\ closers \subseteq opened /\ cancelled \subseteq opened
    /\ opened \subseteq Handles /\ kept \subseteq opened
    /\ pc \in [Procs -> Places]
    /\ on \in [Procs -> opened \cup {NoHandle}]
    /\ \A p \in Procs : on[p] # NoHandle <=> pc[p] \in Serving \cup Owning
    /\ hijacked \subseteq {c \in Clients : pc[c] \in {"connected", "deleting", "closing"}}
    /\ closes \in [Handles -> Nat]
    /\ storageHook \in HookStates /\ serverHook \in HookStates
    /\ signalled \in BOOLEAN /\ late \in BOOLEAN /\ exit \in {"no", "graceful", "forced"}

(* The handler, a reset and Shutdown end the same session: its browser is  *)
(* closed at most once, and never while the storage still names it.        *)
ClosedOnce ==
    /\ \A p, q \in Procs :
        on[p] = on[q] /\ pc[p] \in Owning /\ pc[q] \in Owning => p = q
    /\ InHand \cap (stored \cup closers) = {} /\ stored \cap closers = {}
    /\ \A h \in InHand \cup stored \cup closers : closes[h] = 0
    /\ \A h \in Handles : closes[h] <= IF h \in opened THEN 1 ELSE 0

(* No path of CreateSession, DeleteSession or Shutdown forgets a browser. *)
NoneLost == \A h \in opened : closes[h] = 0 => h \in InHand \cup stored \cup closers

(* Each browser has an owner until it is closed, and is closed once. *)
BrowserAccounted == ClosedOnce /\ NoneLost

(* The handler, a reset and Shutdown pass a browser on as SessionStore     *)
(* says: none skips an owner, goes back to one, or enters the storage that *)
(* is shut down.                                                           *)
Fresh == HeldAt({"starting", "storing"})
Ended == closers \cup HeldAt({"aborting", "closing"})
Closed == {h \in opened : closes[h] > 0}

Sessions == INSTANCE SessionStore WITH
    Browsers <- Handles, fresh <- Fresh, ended <- Ended, closed <- Closed, barred <- Down

ImplementsSessionStore == Sessions!Spec

(* A stored session always has the handler that will delete it: nobody     *)
(* else would, there is no clean-up of idle Playwright sessions.           *)
StoredHasHandler ==
    \A h \in stored : \E c \in Clients : pc[c] \in Serving /\ on[c] = h

(* "cancel context to reset any active connections": once its session is   *)
(* gone, a connection ends, also when the browser goes back to the pool    *)
(* and runs on.                                                            *)
ConnectionEnds ==
    \A c \in Clients, h \in Handles :
        on[c] = h /\ pc[c] = "connected" /\ h \notin stored ~> on[c] # h \/ exit # "no"

(* "graceful shutdown completed": when all hooks are done in time, no      *)
(* browser is left open behind them.                                       *)
GracefulExit == exit = "graceful" => \A h \in opened : closes[h] = 1

=============================================================================
