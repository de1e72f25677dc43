---------------------------- MODULE SessionStore ----------------------------
(***************************************************************************)
(* What the storage promises of the browsers of its sessions, whichever    *)
(* protocol they speak, without a lock, a goroutine or a list: a browser   *)
(* is with the request that creates its session, then with the storage,    *)
(* then with whoever took it out or gave it up, and that one closes it.    *)
(* No browser goes back, and none enters the storage once it is shut down. *)
(***************************************************************************)

CONSTANT Browsers

VARIABLES
    fresh,     \* with the request that creates the session
    stored,    \* in the storage
    ended,     \* with the one who closes it
    closed,    \* closed
    barred     \* the storage is shut down

vars == <<fresh, stored, ended, closed, barred>>

Init == fresh = {} /\ stored = {} /\ ended = {} /\ closed = {} /\ barred = FALSE

Create(b) ==
    /\ b \notin fresh \cup stored \cup ended \cup closed
    /\ fresh' = fresh \cup {b}
    /\ UNCHANGED <<stored, ended, closed, barred>>

Store(b) ==
    /\ ~barred
    /\ b \in fresh
    /\ fresh' = fresh \ {b}
    /\ stored' = stored \cup {b}
    /\ UNCHANGED <<ended, closed, barred>>

(* The browser does not start, or the storage does not take its session. *)
GiveUp(b) ==
    /\ b \in fresh
    /\ fresh' = fresh \ {b}
    /\ ended' = ended \cup {b}
    /\ UNCHANGED <<stored, closed, barred>>

Take(b) ==
    /\ b \in stored
    /\ stored' = stored \ {b}
    /\ ended' = ended \cup {b}
    /\ UNCHANGED <<fresh, closed, barred>>

(* Shutdown takes what is stored, all of it in one step. *)
Shutdown ==
    /\ ~barred
    /\ barred' = TRUE
    /\ stored' = {}
    /\ ended' = ended \cup stored
    /\ UNCHANGED <<fresh, closed>>

Close(b) ==
    /\ b \in ended
    /\ ended' = ended \ {b}
    /\ closed' = closed \cup {b}
    /\ UNCHANGED <<fresh, stored, barred>>

Next ==
    \/ \E b \in Browsers : Create(b) \/ Store(b) \/ GiveUp(b) \/ Take(b) \/ Close(b)
    \/ Shutdown

Spec == Init /\ [][Next]_vars

=============================================================================
