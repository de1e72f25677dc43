-------------------------- MODULE WDSessionsProofs --------------------------
(***************************************************************************)
(* Custody of the browsers of WebDriver sessions, for any number of        *)
(* requests and browsers, and what the shutdown leaves behind.  OneOwner,  *)
(* ClosedOnce and NoneLost are restated goroutine by goroutine, which is   *)
(* how the steps change them (EachOwned, Accounted); what each shutdown    *)
(* hook has brought about, and nobody undoes, is added (HooksHold).        *)
(***************************************************************************)
EXTENDS WDSessions, TLAPS

Owns(p, h) == pc[p] \in Owning /\ on[p] = h

EachOwned ==
    /\ \A p, q \in Procs : on[p] = on[q] /\ pc[p] \in Owning /\ pc[q] \in Owning => p = q
    /\ \A p \in Procs : pc[p] \in Owning =>
        on[p] \notin stored \cup closers /\ closes[on[p]] = 0
    /\ stored \cap closers = {}
    /\ \A h \in stored \cup closers : closes[h] = 0
    /\ \A h \in Handles : closes[h] <= IF h \in opened THEN 1 ELSE 0

Accounted ==
    \A h \in opened : closes[h] = 0 => h \in stored \cup closers \/ \E p \in Procs : Owns(p, h)

HooksHold ==
    /\ storageHook \in {"none", "done"} => closers = {}
    /\ Down => stored = {}
    /\ serverHook = "done" => \A p \in Requests : pc[p] = "idle"
    /\ cleanerHook = "done" => pc[Cleaner] = "stopped"
    /\ exit = "graceful" =>
          storageHook = "done" /\ serverHook = "done" /\ cleanerHook = "done"

IInv == TypeOK /\ EachOwned /\ Accounted /\ HooksHold

-----------------------------------------------------------------------------
LEMMA InitInv == Init => IInv
  <1> SUFFICES ASSUME Init PROVE IInv
    OBVIOUS
  <1> USE DEF Init
  <1>1. TypeOK
    BY DEF TypeOK, Places, WithHandle, Ending, HookStates
  <1>2. EachOwned
    BY DEF EachOwned, Owning, Ending
  <1>3. Accounted /\ HooksHold
    BY DEF Accounted, HooksHold, Down
  <1>4. QED
    BY <1>1, <1>2, <1>3 DEF IInv

(* TypeOK when one goroutine moves. *)
LEMMA MoveKeepsType ==
    ASSUME TypeOK, NEW p \in Procs, NEW place \in Places, NEW k \in opened' \cup {NoHandle},
           pc' = [pc EXCEPT ![p] = place],
           on' = [on EXCEPT ![p] = k],
           k # NoHandle <=> place \in WithHandle,
           opened \subseteq opened', opened' \subseteq Handles,
           stored' \subseteq opened', stale' \subseteq stored', closers' \subseteq opened',
           todo' \subseteq opened', kept' \subseteq opened',
           closes' \in [Handles -> Nat],
           UNCHANGED <<storageHook, hookVars>>
    PROVE  TypeOK'
  <1>1. /\ pc'[p] = place /\ on'[p] = k
        /\ \A q \in Procs \ {p} : pc'[q] = pc[q] /\ on'[q] = on[q]
    BY DEF TypeOK
  <1>2. pc' \in [Procs -> Places] /\ on' \in [Procs -> opened' \cup {NoHandle}]
    BY DEF TypeOK
  <1>3. \A q \in Procs : on'[q] # NoHandle <=> pc'[q] \in WithHandle
    BY <1>1 DEF TypeOK
  <1>4. /\ storageHook' \in HookStates /\ serverHook' \in HookStates
        /\ cleanerHook' \in HookStates /\ signalled' \in BOOLEAN /\ late' \in BOOLEAN
        /\ exit' \in {"no", "graceful", "forced"}
    BY DEF TypeOK, hookVars
  <1>5. QED
    BY <1>2, <1>3, <1>4 DEF TypeOK

(* HooksHold when one goroutine moves: a request that begins finds the     *)
(* server open, and the clean-up that has stopped does nothing.            *)
LEMMA MoveKeepsHooks ==
    ASSUME IInv, NEW p \in Procs, NEW place,
           pc' = [pc EXCEPT ![p] = place],
           pc[p] # "stopped", pc[p] = "idle" => serverHook = "none",
           Alive, closers' = closers, stored' \subseteq stored \/ ~Down,
           UNCHANGED <<storageHook, hookVars>>
    PROVE  HooksHold'
  <1>1. \A q \in Procs \ {p} : pc'[q] = pc[q]
    BY DEF IInv, TypeOK
  <1>2. serverHook = "done" => p \notin Requests
    BY DEF IInv, HooksHold
  <1>3. cleanerHook = "done" => p # Cleaner
    BY DEF IInv, HooksHold
  <1>4. QED
    BY <1>1, <1>2, <1>3 DEF IInv, HooksHold, hookVars, Alive, Down, Procs

(* A goroutine moves on, and no browser changes hands. *)
LEMMA QuietKeepsInv ==
    ASSUME IInv, NEW p \in Procs, NEW place \in Places, NEW k \in opened \cup {NoHandle},
           pc' = [pc EXCEPT ![p] = place],
           on' = [on EXCEPT ![p] = k],
           k # NoHandle <=> place \in WithHandle,
           pc[p] \in Owning \/ place \in Owning =>
              pc[p] \in Owning /\ place \in Owning /\ k = on[p],
           pc[p] # "stopped", pc[p] = "idle" => serverHook = "none",
           Alive, stale' \subseteq stored, todo' \subseteq opened,
           UNCHANGED <<stored, storageHook, closers, browserVars, hookVars>>
    PROVE  IInv'
  <1> USE DEF browserVars
  <1>1. /\ pc'[p] = place /\ on'[p] = k
        /\ \A q \in Procs \ {p} : pc'[q] = pc[q] /\ on'[q] = on[q]
    BY DEF IInv, TypeOK
  <1>2. TypeOK'
    BY MoveKeepsType DEF IInv, TypeOK
  <1>3. \A q \in Procs : pc'[q] \in Owning <=> pc[q] \in Owning
    BY <1>1
  <1>4. \A q \in Procs : pc[q] \in Owning => on'[q] = on[q]
    BY <1>1
  <1>5. EachOwned'
    BY <1>3, <1>4 DEF IInv, EachOwned
  <1>6. Accounted'
    BY <1>3, <1>4 DEF IInv, Accounted, Owns
  <1>7. HooksHold'
    BY MoveKeepsHooks
  <1>8. QED
    BY <1>2, <1>5, <1>6, <1>7 DEF IInv

(* Abort and FinishDelete: the owner closes its browser. *)
LEMMA CloseKeepsInv ==
    ASSUME IInv, NEW p \in Procs, NEW place \in Places \ WithHandle, NEW trash \in BOOLEAN,
           Alive, pc[p] \in Owning,
           pc' = [pc EXCEPT ![p] = place],
           on' = [on EXCEPT ![p] = NoHandle],
           CloseBrowser(on[p], trash),
           UNCHANGED <<storageVars, todo, hookVars>>
    PROVE  IInv'
  <1> USE DEF storageVars
  <1> DEFINE h == on[p]
  <1>1. /\ pc'[p] = place /\ on'[p] = NoHandle
        /\ \A q \in Procs \ {p} : pc'[q] = pc[q] /\ on'[q] = on[q]
    BY DEF IInv, TypeOK
  <1>2. h \in opened /\ h \in Handles
    BY HandlesAssumption DEF IInv, TypeOK, WithHandle, Owning
  <1>3. /\ closes' \in [Handles -> Nat] /\ closes'[h] = closes[h] + 1
        /\ \A k \in Handles \ {h} : closes'[k] = closes[k]
    BY <1>2 DEF IInv, TypeOK, CloseBrowser
  <1>4. opened' = opened /\ kept' \subseteq opened
    BY <1>2 DEF IInv, TypeOK, CloseBrowser
  <1>5. TypeOK'
    BY <1>3, <1>4, MoveKeepsType DEF IInv, TypeOK
  <1>6. /\ closes[h] = 0 /\ h \notin stored \cup closers
        /\ \A q \in Procs \ {p} : pc[q] \in Owning => on[q] # h
    BY DEF IInv, EachOwned
  <1>7. place \notin Owning
    BY DEF Owning, WithHandle
  <1>8. \A q \in Procs : pc'[q] \in Owning =>
            q # p /\ pc[q] \in Owning /\ on'[q] = on[q] /\ on[q] \in Handles
    <2>1. \A q \in Procs : pc[q] \in Owning => on[q] \in Handles
      BY DEF IInv, TypeOK, WithHandle, Owning
    <2>2. QED
      BY <1>1, <1>7, <2>1
  <1>9. EachOwned'
    <2>1. \A q \in Procs : pc'[q] \in Owning =>
            on'[q] \notin stored' \cup closers' /\ closes'[on'[q]] = 0
      BY <1>3, <1>6, <1>8 DEF IInv, EachOwned
    <2>2. \A q, r \in Procs : on'[q] = on'[r] /\ pc'[q] \in Owning /\ pc'[r] \in Owning => q = r
      BY <1>8 DEF IInv, EachOwned
    <2>3. \A k \in stored' \cup closers' : closes'[k] = 0
      BY <1>3, <1>6 DEF IInv, EachOwned, TypeOK
    <2>4. \A k \in Handles : closes'[k] <= IF k \in opened' THEN 1 ELSE 0
      BY <1>2, <1>3, <1>4, <1>6 DEF IInv, EachOwned
    <2>5. QED
      BY <2>1, <2>2, <2>3, <2>4 DEF IInv, EachOwned
  <1>10. Accounted'
    <2>1. ASSUME NEW k \in opened', closes'[k] = 0, k \notin stored' \cup closers'
          PROVE  \E q \in Procs : Owns(q, k)'
      <3>1. k # h /\ closes[k] = 0 /\ k \in opened
        BY <2>1, <1>2, <1>3, <1>4, <1>6 DEF IInv, TypeOK
      <3>2. PICK q \in Procs : pc[q] \in Owning /\ on[q] = k
        BY <2>1, <3>1 DEF IInv, Accounted, Owns
      <3>3. QED
        BY <3>1, <3>2, <1>1 DEF Owns
    <2>2. QED
      BY <2>1 DEF Accounted
  <1>11. HooksHold'
    <2>1. "stopped" \notin Owning /\ "idle" \notin Owning
      BY DEF Owning, Ending
    <2>2. QED
      BY <2>1, MoveKeepsHooks
  <1>12. QED
    BY <1>5, <1>9, <1>10, <1>11 DEF IInv

LEMMA AllocateDoneKeepsInv ==
    ASSUME IInv, NEW c \in Creators, NEW h \in Handles, AllocateDone(c, h)
    PROVE  IInv'
  <1> USE DEF storageVars
  <1>0. c \in Procs /\ "starting" \in Owning /\ "allocating" \notin Owning
        /\ "starting" \in Places /\ "starting" \in WithHandle /\ Owning \subseteq WithHandle
    BY DEF Procs, Requests, Owning, Ending, WithHandle, Places
  <1>1. /\ pc'[c] = "starting" /\ on'[c] = h /\ pc[c] = "allocating" /\ Alive
        /\ pc' = [pc EXCEPT ![c] = "starting"]
        /\ \A q \in Procs \ {c} : pc'[q] = pc[q] /\ on'[q] = on[q]
    BY <1>0 DEF IInv, TypeOK, AllocateDone, Goto
  <1>2. /\ h \notin opened /\ opened' = opened \cup {h}
        /\ UNCHANGED <<storageVars, todo, closes, kept, hookVars>>
    BY DEF AllocateDone
  <1>3. TypeOK'
    <2>1. on' = [on EXCEPT ![c] = h] /\ h # NoHandle /\ h \in opened' \cup {NoHandle}
      BY <1>2, HandlesAssumption DEF AllocateDone
    <2>2. /\ stored' \subseteq opened' /\ stale' \subseteq stored' /\ closers' \subseteq opened'
          /\ todo' \subseteq opened' /\ kept' \subseteq opened'
          /\ opened \subseteq opened' /\ opened' \subseteq Handles
          /\ closes' \in [Handles -> Nat] /\ UNCHANGED <<storageHook, hookVars>>
      BY <1>2 DEF IInv, TypeOK
    <2>3. QED
      BY <1>0, <1>1, <2>1, <2>2, MoveKeepsType DEF IInv
  <1>4. closes[h] = 0
    BY <1>2 DEF IInv, EachOwned, TypeOK
  <1>5. \A q \in Procs : on[q] # h
    BY <1>2, HandlesAssumption DEF IInv, TypeOK
  <1>6. EachOwned'
    <2>1. \A q, r \in Procs : on'[q] = on'[r] /\ pc'[q] \in Owning /\ pc'[r] \in Owning => q = r
      BY <1>1, <1>5 DEF IInv, EachOwned
    <2>2. \A q \in Procs : pc'[q] \in Owning =>
            on'[q] \notin stored' \cup closers' /\ closes'[on'[q]] = 0
      BY <1>1, <1>2, <1>4 DEF IInv, EachOwned, TypeOK
    <2>3. \A k \in Handles : closes'[k] <= IF k \in opened' THEN 1 ELSE 0
      BY <1>2, <1>4 DEF IInv, EachOwned
    <2>4. QED
      BY <2>1, <2>2, <2>3, <1>2 DEF IInv, EachOwned
  <1>7. Accounted'
    <2>1. \A q \in Procs, k \in opened : Owns(q, k) => Owns(q, k)'
      BY <1>0, <1>1 DEF Owns
    <2>2. Owns(c, h)'
      BY <1>0, <1>1 DEF Owns
    <2>3. ASSUME NEW k \in opened', closes'[k] = 0, k \notin stored' \cup closers'
          PROVE  \E q \in Procs : Owns(q, k)'
      <3>1. k = h \/ (k \in opened /\ \E q \in Procs : Owns(q, k))
        BY <1>2, <2>3 DEF IInv, Accounted
      <3>2. QED
        BY <1>0, <2>1, <2>2, <3>1
    <2>4. QED
      BY <2>3 DEF Accounted
  <1>8. HooksHold'
    BY <1>0, <1>1, <1>2, MoveKeepsHooks
  <1>9. QED
    BY <1>3, <1>6, <1>7, <1>8 DEF IInv

(* The creating request gives its browser to the storage, which is not     *)
(* shut down: Add reads the flag under the lock that Shutdown takes.       *)
LEMMA StoreKeepsInv ==
    ASSUME IInv, NEW c \in Creators, Store(c)
    PROVE  IInv'
  <1> USE DEF browserVars
  <1> DEFINE h == on[c]
  <1>0. c \in Procs /\ "storing" \in Owning /\ "created" \notin Owning
        /\ "created" \in Places /\ "created" \notin WithHandle /\ Owning \subseteq WithHandle
    BY DEF Procs, Requests, Owning, Ending, WithHandle, Places
  <1>1. /\ pc[c] = "storing" /\ pc'[c] = "created" /\ on'[c] = NoHandle /\ Alive
        /\ pc' = [pc EXCEPT ![c] = "created"] /\ on' = [on EXCEPT ![c] = NoHandle]
        /\ \A q \in Procs \ {c} : pc'[q] = pc[q] /\ on'[q] = on[q]
    BY <1>0 DEF IInv, TypeOK, Store, Goto
  <1>2. /\ ~Down /\ stored' = stored \cup {h}
        /\ UNCHANGED <<storageHook, closers, stale, todo, browserVars, hookVars>>
    BY DEF Store
  <1>3. h \in opened
    BY <1>0, <1>1 DEF IInv, TypeOK
  <1>4. TypeOK'
    <2>1. /\ stored' \subseteq opened' /\ stale' \subseteq stored' /\ closers' \subseteq opened'
          /\ todo' \subseteq opened' /\ kept' \subseteq opened'
          /\ opened \subseteq opened' /\ opened' \subseteq Handles
          /\ closes' \in [Handles -> Nat] /\ UNCHANGED <<storageHook, hookVars>>
      BY <1>2, <1>3 DEF IInv, TypeOK
    <2>2. QED
      BY <1>0, <1>1, <2>1, MoveKeepsType DEF IInv
  <1>5. /\ closes[h] = 0 /\ h \notin closers
        /\ \A q \in Procs \ {c} : pc[q] \in Owning => on[q] # h
    BY <1>0, <1>1 DEF IInv, EachOwned
  <1>6. EachOwned'
    BY <1>0, <1>1, <1>2, <1>5 DEF IInv, EachOwned
  <1>7. Accounted'
    <2>1. \A q \in Procs, k \in opened : Owns(q, k) => Owns(q, k)' \/ k \in stored'
      BY <1>1, <1>2 DEF Owns
    <2>2. QED
      BY <1>2, <2>1 DEF IInv, Accounted
  <1>8. HooksHold'
    BY <1>0, <1>1, <1>2, MoveKeepsHooks
  <1>9. QED
    BY <1>4, <1>6, <1>7, <1>8 DEF IInv

(* Of those that delete a session, the one that finds it becomes its owner. *)
LEMMA DeleteWonKeepsInv ==
    ASSUME IInv, NEW p \in Procs, DeleteWon(p)
    PROVE  IInv'
  <1> USE DEF browserVars
  <1> DEFINE h == on[p]
             place == IF ProxyDelete THEN "winding" ELSE "trashing"
  <1>0. "deleting" \notin Owning /\ place \in Owning /\ place \in WithHandle /\ place \in Places
    BY DEF Owning, Ending, WithHandle, Places
  <1>1. /\ pc[p] = "deleting" /\ pc'[p] = place /\ on' = on /\ Alive
        /\ pc' = [pc EXCEPT ![p] = place]
        /\ \A q \in Procs \ {p} : pc'[q] = pc[q]
    BY DEF IInv, TypeOK, DeleteWon, Goto
  <1> HIDE DEF place
  <1>2. /\ h \in stored /\ stored' = stored \ {h} /\ stale' = stale \ {h}
        /\ UNCHANGED <<storageHook, closers, todo, browserVars, hookVars>>
    BY DEF DeleteWon
  <1>3. h \in opened
    BY <1>2 DEF IInv, TypeOK
  <1>4. TypeOK'
    <2>1. on' = [on EXCEPT ![p] = h] /\ h # NoHandle
      BY <1>1, <1>3, HandlesAssumption DEF IInv, TypeOK
    <2>2. /\ stored' \subseteq opened' /\ stale' \subseteq stored' /\ closers' \subseteq opened'
          /\ todo' \subseteq opened' /\ kept' \subseteq opened'
          /\ opened \subseteq opened' /\ opened' \subseteq Handles
          /\ closes' \in [Handles -> Nat] /\ UNCHANGED <<storageHook, hookVars>>
      BY <1>2 DEF IInv, TypeOK
    <2>3. QED
      BY <1>0, <1>1, <1>2, <1>3, <2>1, <2>2, MoveKeepsType DEF IInv
  <1>5. /\ closes[h] = 0 /\ h \notin closers
        /\ \A q \in Procs : pc[q] \in Owning => on[q] # h
    BY <1>2 DEF IInv, EachOwned
  <1>6. EachOwned'
    BY <1>0, <1>1, <1>2, <1>5 DEF IInv, EachOwned
  <1>7. Accounted'
    <2>1. \A q \in Procs, k \in opened : Owns(q, k) => Owns(q, k)'
      BY <1>0, <1>1 DEF Owns
    <2>2. Owns(p, h)'
      BY <1>0, <1>1 DEF Owns
    <2>3. ASSUME NEW k \in opened', closes'[k] = 0, k \notin stored' \cup closers'
          PROVE  \E q \in Procs : Owns(q, k)'
      <3>1. k = h \/ (k \in opened /\ \E q \in Procs : Owns(q, k))
        BY <1>2, <2>3 DEF IInv, Accounted
      <3>2. QED
        BY <1>1, <2>1, <2>2, <3>1 DEF Owns
    <2>4. QED
      BY <2>3 DEF Accounted
  <1>8. HooksHold'
    BY <1>1, <1>2, MoveKeepsHooks
  <1>9. QED
    BY <1>4, <1>6, <1>7, <1>8 DEF IInv

(* The hooks: Shutdown of the storage takes over what is stored. *)
LEMMA StorageShutdownKeepsInv == IInv /\ StorageShutdown => IInv'
  <1> SUFFICES ASSUME IInv, StorageShutdown PROVE IInv'
    OBVIOUS
  <1> USE DEF StorageShutdown, procVars, browserVars
  <1>1. storageHook' = "busy" /\ closers' = stored /\ stored' = {} /\ closers = {}
    BY DEF IInv, HooksHold
  <1>2. TypeOK'
    BY <1>1 DEF IInv, TypeOK, hookVars, HookStates
  <1>3. EachOwned'
    BY <1>1 DEF IInv, EachOwned
  <1>4. Accounted'
    BY <1>1 DEF IInv, Accounted, Owns
  <1>5. HooksHold'
    BY <1>1 DEF IInv, HooksHold, hookVars, Alive
  <1>6. QED
    BY <1>2, <1>3, <1>4, <1>5 DEF IInv

LEMMA StorageHookReturnsKeepsInv == IInv /\ StorageHookReturns => IInv'
  <1> SUFFICES ASSUME IInv, StorageHookReturns PROVE IInv'
    OBVIOUS
  <1> USE DEF StorageHookReturns, procVars, browserVars
  <1>1. TypeOK'
    BY DEF IInv, TypeOK, hookVars, HookStates
  <1>2. EachOwned' /\ Accounted'
    BY DEF IInv, EachOwned, Accounted, Owns
  <1>3. HooksHold'
    BY DEF IInv, HooksHold, hookVars, Alive, Down
  <1>4. QED
    BY <1>1, <1>2, <1>3 DEF IInv

LEMMA StorageClosesKeepsInv ==
    ASSUME IInv, NEW h \in Handles, StorageCloses(h)
    PROVE  IInv'
  <1> USE DEF procVars
  <1>1. /\ h \in closers /\ closers' = closers \ {h} /\ Alive
        /\ UNCHANGED <<stored, storageHook, stale, procVars, hookVars>>
    BY DEF StorageCloses
  <1>2. /\ opened' = opened /\ h \in opened /\ kept' = kept
        /\ closes' \in [Handles -> Nat] /\ closes'[h] = closes[h] + 1
        /\ \A k \in Handles \ {h} : closes'[k] = closes[k]
    BY <1>1 DEF IInv, TypeOK, StorageCloses, CloseBrowser
  <1>3. closes[h] = 0 /\ h \notin stored /\ \A q \in Procs : pc[q] \in Owning => on[q] # h
    BY <1>1 DEF IInv, EachOwned
  <1>4. TypeOK'
    BY <1>1, <1>2 DEF IInv, TypeOK, hookVars
  <1>5. EachOwned'
    <2>1. \A q \in Procs : pc[q] \in Owning => on[q] \in Handles
      BY DEF IInv, TypeOK, WithHandle, Owning
    <2>2. \A q \in Procs : pc'[q] \in Owning =>
            on'[q] \notin stored' \cup closers' /\ closes'[on'[q]] = 0
      BY <1>1, <1>2, <1>3, <2>1 DEF IInv, EachOwned
    <2>3. \A k \in stored' \cup closers' : closes'[k] = 0
      BY <1>1, <1>2, <1>3 DEF IInv, EachOwned, TypeOK
    <2>4. \A k \in Handles : closes'[k] <= IF k \in opened' THEN 1 ELSE 0
      BY <1>1, <1>2, <1>3 DEF IInv, EachOwned
    <2>5. QED
      BY <2>2, <2>3, <2>4, <1>1 DEF IInv, EachOwned
  <1>6. Accounted'
    <2>1. ASSUME NEW k \in opened', closes'[k] = 0, k \notin stored' \cup closers'
          PROVE  \E q \in Procs : Owns(q, k)'
      <3>1. k # h /\ k \in opened /\ closes[k] = 0 /\ k \notin stored \cup closers
        BY <1>1, <1>2, <1>3, <2>1 DEF IInv, TypeOK
      <3>2. PICK q \in Procs : pc[q] \in Owning /\ on[q] = k
        BY <3>1 DEF IInv, Accounted, Owns
      <3>3. QED
        BY <1>1, <3>2 DEF Owns
    <2>2. QED
      BY <2>1 DEF Accounted
  <1>7. HooksHold'
    BY <1>1 DEF IInv, HooksHold, hookVars, Down
  <1>8. QED
    BY <1>4, <1>5, <1>6, <1>7 DEF IInv

(* The other two hooks wait for what HooksHold says of them; the process   *)
(* ends gracefully when all three are done.                                *)
LEMMA HooksKeepInv ==
    ASSUME IInv,
           \/ ServerShutdown \/ ServerHookReturns \/ CleanerShutdown \/ CleanerHookReturns
           \/ Signal \/ HookTimeout \/ Exit \/ SecondSignal \/ UNCHANGED vars
    PROVE  IInv'
  <1> USE DEF ServerShutdown, ServerHookReturns, CleanerShutdown, CleanerHookReturns, Signal,
              HookTimeout, Exit, SecondSignal, ExitWith, vars, hookVars
  <1>1. UNCHANGED <<storageVars, procVars, browserVars>>
    OBVIOUS
  <1>2. serverHook' \in HookStates /\ cleanerHook' \in HookStates
    BY DEF IInv, TypeOK, HookStates
  <1>3. /\ signalled' \in BOOLEAN /\ late' \in BOOLEAN
        /\ exit' \in {"no", "graceful", "forced"}
    BY DEF IInv, TypeOK
  <1>4. TypeOK'
    BY <1>1, <1>2, <1>3 DEF IInv, TypeOK, storageVars, procVars, browserVars
  <1>5. EachOwned' /\ Accounted'
    BY <1>1 DEF IInv, EachOwned, Accounted, Owns, storageVars, procVars, browserVars
  <1>6. /\ serverHook' = "done" =>
              serverHook = "done" \/ \A p \in Requests : pc[p] = "idle"
        /\ cleanerHook' = "done" => cleanerHook = "done" \/ pc[Cleaner] = "stopped"
    OBVIOUS
  <1>7. exit' = "graceful" =>
            storageHook' = "done" /\ serverHook' = "done" /\ cleanerHook' = "done"
    BY <1>1 DEF IInv, HooksHold, Alive, Hooks, storageVars
  <1>8. HooksHold'
    BY <1>1, <1>6, <1>7 DEF IInv, HooksHold, Down, storageVars, procVars
  <1>9. QED
    BY <1>4, <1>5, <1>8 DEF IInv

(* Time passes. *)
LEMMA ExpireKeepsInv ==
    ASSUME IInv, NEW h \in Handles, Expire(h)
    PROVE  IInv'
  <1> USE DEF Expire, procVars, browserVars
  <1>1. TypeOK'
    BY DEF IInv, TypeOK, hookVars
  <1>2. EachOwned' /\ Accounted' /\ HooksHold'
    BY DEF IInv, EachOwned, Accounted, Owns, HooksHold, hookVars, Down
  <1>3. QED
    BY <1>1, <1>2 DEF IInv

-----------------------------------------------------------------------------
(* The steps of goroutines that change no custody: first what they have in *)
(* common.                                                                 *)
LEMMA OnStays ==
    ASSUME IInv, NEW p \in Procs
    PROVE  /\ on = [on EXCEPT ![p] = on[p]] /\ on[p] \in opened \cup {NoHandle}
           /\ on[p] # NoHandle <=> pc[p] \in WithHandle
           /\ stale \subseteq stored /\ todo \subseteq opened /\ stored \subseteq opened
  BY DEF IInv, TypeOK

LEMMA CreatorQuiet ==
    ASSUME IInv, NEW c \in Creators,
           \/ CreateBegin(c) \/ CreateRefused(c) \/ AllocateFailed(c) \/ StartDone(c)
           \/ StartFailed(c) \/ StoreRefused(c) \/ Respond(c)
    PROVE  IInv'
  <1> USE DEF Goto, storageVars, Places, WithHandle, Owning, Ending
  <1>1. c \in Procs
    BY DEF Procs, Requests
  <1>2. CASE CreateBegin(c)
    <2>1. on' = [on EXCEPT ![c] = on[c]]
      BY <1>1, <1>2, OnStays DEF CreateBegin
    <2>2. QED
      BY <1>1, <1>2, <2>1, OnStays, QuietKeepsInv DEF CreateBegin
  <1>3. CASE CreateRefused(c)
    <2>1. on' = [on EXCEPT ![c] = on[c]]
      BY <1>1, <1>3, OnStays DEF CreateRefused
    <2>2. QED
      BY <1>1, <1>3, <2>1, OnStays, QuietKeepsInv DEF CreateRefused
  <1>4. CASE AllocateFailed(c)
    <2>1. on' = [on EXCEPT ![c] = on[c]]
      BY <1>1, <1>4, OnStays DEF AllocateFailed
    <2>2. QED
      BY <1>1, <1>4, <2>1, OnStays, QuietKeepsInv DEF AllocateFailed
  <1>5. CASE StartDone(c)
    <2>1. on' = [on EXCEPT ![c] = on[c]]
      BY <1>1, <1>5, OnStays DEF StartDone
    <2>2. QED
      BY <1>1, <1>5, <2>1, OnStays, QuietKeepsInv DEF StartDone
  <1>6. CASE StartFailed(c) \/ StoreRefused(c)
    <2>1. on' = [on EXCEPT ![c] = on[c]]
      BY <1>1, <1>6, OnStays DEF StartFailed, StoreRefused
    <2>2. QED
      BY <1>1, <1>6, <2>1, OnStays, QuietKeepsInv DEF StartFailed, StoreRefused
  <1>7. CASE Respond(c)
    <2>1. on' = [on EXCEPT ![c] = on[c]]
      BY <1>1, <1>7, OnStays DEF Respond
    <2>2. QED
      BY <1>1, <1>7, <2>1, OnStays, QuietKeepsInv DEF Respond
  <1>8. QED
    BY <1>2, <1>3, <1>4, <1>5, <1>6, <1>7

(* A request to an existing session names it, but does not own it. *)
LEMMA HandlerQuiet ==
    ASSUME IInv, NEW d \in Handlers,
           ProxyReturns(d) \/ \E h \in Handles : Find(d, h)
    PROVE  IInv'
  <1> USE DEF Goto, storageVars, Places, WithHandle, Owning, Ending
  <1>1. d \in Procs
    BY DEF Procs, Requests
  <1>2. CASE ProxyReturns(d)
    BY <1>1, <1>2, OnStays, QuietKeepsInv DEF ProxyReturns
  <1>3. ASSUME NEW h \in Handles, NEW next \in {"proxying", "deleting"}, Validate(d, h, next)
        PROVE  IInv'
    <2>1. h \in opened /\ h # NoHandle
      BY <1>1, <1>3, OnStays, HandlesAssumption DEF Validate
    <2>2. stale' \subseteq stored /\ todo' \subseteq opened
      BY <1>1, <1>3, OnStays DEF Validate
    <2>3. QED
      BY <1>1, <1>3, <2>1, <2>2, QuietKeepsInv DEF Validate
  <1>4. ASSUME NEW h \in Handles, ResetFind(d, h)
        PROVE  IInv'
    <2>1. h \in opened /\ h # NoHandle
      BY <1>1, <1>4, OnStays, HandlesAssumption DEF ResetFind
    <2>2. QED
      BY <1>1, <1>4, <2>1, OnStays, QuietKeepsInv DEF ResetFind
  <1>5. QED
    BY <1>2, <1>3, <1>4 DEF Find

LEMMA DeleteKeepsInv ==
    ASSUME IInv, NEW p \in Deleters, Delete(p)
    PROVE  IInv'
  <1>1. p \in Procs
    BY DEF Deleters, Procs, Requests
  <1>2. BackTo(p) \in Places \ WithHandle
    BY DEF BackTo, Places, WithHandle, Owning, Ending
  <1>3. CASE DeleteLost(p)
    <2>1. BackTo(p) \notin Owning /\ "deleting" \notin Owning
      BY <1>2 DEF WithHandle, Owning, Ending
    <2>2. QED
      BY <1>1, <1>2, <1>3, <2>1, OnStays, QuietKeepsInv DEF DeleteLost, Goto, storageVars
  <1>4. CASE DeleteWon(p)
    BY <1>1, <1>4, DeleteWonKeepsInv
  <1>5. CASE WindDown(p)
    <2>1. PICK to \in Ending : pc[p] \in Ending /\ Goto(p, pc[p], to)
      BY <1>5 DEF WindDown, Goto, Ending
    <2>2. on' = [on EXCEPT ![p] = on[p]]
      BY <1>1, <1>5, OnStays DEF WindDown
    <2>3. to \in Owning /\ to \in Places /\ to \in WithHandle
          /\ pc[p] \in Owning /\ pc[p] \in WithHandle /\ pc[p] \notin {"stopped", "idle"}
      BY <2>1 DEF Owning, Ending, WithHandle, Places
    <2>4. Alive /\ pc' = [pc EXCEPT ![p] = to]
      BY <2>1 DEF Goto
    <2>5. UNCHANGED <<storageVars, todo, browserVars, hookVars>>
      BY <1>5 DEF WindDown
    <2>6. QED
      BY <1>1, <2>2, <2>3, <2>4, <2>5, OnStays, QuietKeepsInv DEF storageVars
  <1>6. CASE FinishDelete(p)
    <2>1. pc[p] \in Owning /\ (pc[p] = "trashing") \in BOOLEAN
      BY <1>6 DEF FinishDelete, Owning, Ending
    <2>2. QED
      BY <1>1, <1>2, <1>6, <2>1, CloseKeepsInv DEF FinishDelete
  <1>7. QED
    BY <1>3, <1>4, <1>5, <1>6 DEF Delete

LEMMA CleanKeepsInv == IInv /\ Clean => IInv'
  <1> SUFFICES ASSUME IInv, Clean PROVE IInv'
    OBVIOUS
  <1> USE DEF Goto, storageVars, Places, WithHandle, Owning, Ending
  <1>1. Cleaner \in Procs
    BY DEF Procs
  <1>2. CASE Tick
    <2>1. on' = [on EXCEPT ![Cleaner] = on[Cleaner]]
      BY <1>1, <1>2, OnStays DEF Tick
    <2>2. QED
      BY <1>1, <1>2, <2>1, OnStays, QuietKeepsInv DEF Tick
  <1>3. CASE ScanEnds
    <2>1. on' = [on EXCEPT ![Cleaner] = on[Cleaner]]
      BY <1>1, <1>3, OnStays DEF ScanEnds
    <2>2. QED
      BY <1>1, <1>3, <2>1, OnStays, QuietKeepsInv DEF ScanEnds
  <1>4. CASE CleanerStops
    <2>1. on' = [on EXCEPT ![Cleaner] = on[Cleaner]]
      BY <1>1, <1>4, OnStays DEF CleanerStops
    <2>2. QED
      BY <1>1, <1>4, <2>1, OnStays, QuietKeepsInv DEF CleanerStops
  <1>5. ASSUME NEW h \in Handles, ScanFresh(h)
        PROVE  IInv'
    <2>1. /\ on' = [on EXCEPT ![Cleaner] = on[Cleaner]]
          /\ pc[Cleaner] = "scanning" /\ pc' = [pc EXCEPT ![Cleaner] = "scanning"]
          /\ Alive /\ todo' \subseteq opened
      BY <1>1, <1>5 DEF ScanFresh, IInv, TypeOK
    <2>2. UNCHANGED <<storageVars, browserVars, hookVars>>
      BY <1>5 DEF ScanFresh
    <2>3. QED
      BY <1>1, <2>1, <2>2, OnStays, QuietKeepsInv
  <1>6. ASSUME NEW h \in Handles, ScanStale(h)
        PROVE  IInv'
    <2>1. h \in opened /\ h # NoHandle /\ todo' \subseteq opened
      BY <1>1, <1>6, OnStays, HandlesAssumption DEF ScanStale
    <2>2. QED
      BY <1>1, <1>6, <2>1, OnStays, QuietKeepsInv DEF ScanStale
  <1>7. QED
    BY <1>2, <1>3, <1>4, <1>5, <1>6 DEF Clean

LEMMA StepKeepsInv == IInv /\ [Next]_vars => IInv'
  <1> SUFFICES ASSUME IInv, [Next]_vars PROVE IInv'
    OBVIOUS
  <1>1. ASSUME NEW c \in Creators, Create(c)
        PROVE  IInv'
    <2>1. CASE Abort(c)
      <3>1. c \in Procs /\ "failed" \in Places \ WithHandle /\ "aborting" \in Owning
        BY DEF Procs, Requests, Places, WithHandle, Owning, Ending
      <3>2. QED
        BY <2>1, <3>1, CloseKeepsInv DEF Abort, Goto
    <2>2. QED
      BY <1>1, <2>1, CreatorQuiet, AllocateDoneKeepsInv, StoreKeepsInv DEF Create
  <1>2. ASSUME NEW d \in Handlers, ProxyReturns(d) \/ \E h \in Handles : Find(d, h)
        PROVE  IInv'
    BY <1>2, HandlerQuiet
  <1>3. CASE Shutdown
    BY <1>3, StorageShutdownKeepsInv, StorageHookReturnsKeepsInv, StorageClosesKeepsInv,
       HooksKeepInv DEF Shutdown
  <1>4. QED
    BY <1>1, <1>2, <1>3, DeleteKeepsInv, CleanKeepsInv, ExpireKeepsInv, HooksKeepInv DEF Next

-----------------------------------------------------------------------------
(* The inductive invariant always holds. *)
THEOREM InvariantHolds == Spec => []IInv
  BY InitInv, StepKeepsInv, PTL DEF Spec

(* A DELETE request, the reset, the clean-up and Shutdown pass a browser   *)
(* on without ever sharing it, and close it at most once.                  *)
THEOREM BrowserHasOneOwner == Spec => []Custody
  <1>1. IInv => Custody
    <2> SUFFICES ASSUME IInv PROVE Custody
      OBVIOUS
    <2>1. InHand \cap (stored \cup closers) = {} /\ \A h \in InHand : closes[h] = 0
      BY DEF IInv, EachOwned, InHand, HeldAt
    <2>2. QED
      BY <2>1 DEF IInv, EachOwned, Custody, OneOwner, ClosedOnce
  <1>2. QED
    BY <1>1, InvariantHolds, PTL

(* No path of CreateSession, DeleteSession or Shutdown forgets a browser. *)
THEOREM BrowserIsNeverLost == Spec => []NoneLost
  <1>1. IInv => NoneLost
    BY DEF IInv, Accounted, Owns, NoneLost, InHand, HeldAt
  <1>2. QED
    BY <1>1, InvariantHolds, PTL

(* No session enters a storage that is shut down, whichever of its two     *)
(* checks CreateSession had passed before.                                 *)
THEOREM StorageStaysEmpty == Spec => []NothingAfterShutdown
  <1>1. IInv => NothingAfterShutdown
    BY DEF IInv, HooksHold, NothingAfterShutdown
  <1>2. QED
    BY <1>1, InvariantHolds, PTL

(* When "graceful shutdown completed" is logged, no browser is left open:  *)
(* neither in the storage, nor with a request the server did not wait for, *)
(* nor with the clean-up.                                                  *)
THEOREM ShutdownLeavesNothing == Spec => []GracefulExit
  <1>1. IInv => GracefulExit
    <2> SUFFICES ASSUME IInv, exit = "graceful", NEW h \in opened
                 PROVE  closes[h] = 1
      BY DEF GracefulExit
    <2>1. stored = {} /\ closers = {}
      BY DEF IInv, HooksHold, Down
    <2>2. \A p \in Procs : pc[p] \in {"idle", "stopped"}
      BY DEF IInv, HooksHold, Procs
    <2>3. \A p \in Procs : ~Owns(p, h)
      BY <2>2 DEF Owns, Owning, Ending
    <2>4. closes[h] # 0
      BY <2>1, <2>3 DEF IInv, Accounted
    <2>5. closes[h] \in Nat /\ closes[h] <= 1
      BY DEF IInv, TypeOK, EachOwned
    <2>6. QED
      BY <2>4, <2>5
  <1>2. QED
    BY <1>1, InvariantHolds, PTL

-----------------------------------------------------------------------------
(* The refinement.  How the browsers held at some places change when one   *)
(* goroutine moves; owners are distinct, so one that leaves takes its      *)
(* browser along.                                                          *)
LEMMA HeldChanges ==
    ASSUME IInv, NEW p \in Procs, NEW S \in SUBSET Owning,
           \A q \in Procs \ {p} : pc'[q] = pc[q] /\ on'[q] = on[q]
    PROVE  /\ pc[p] \in S /\ pc'[p] \notin S => HeldAt(S)' = HeldAt(S) \ {on[p]}
           /\ pc[p] \notin S /\ pc'[p] \in S => HeldAt(S)' = HeldAt(S) \cup {on'[p]}
           /\ pc[p] \notin S /\ pc'[p] \notin S => HeldAt(S)' = HeldAt(S)
           /\ pc[p] \in S /\ pc'[p] \in S /\ on'[p] = on[p] => HeldAt(S)' = HeldAt(S)
  <1>1. CASE pc[p] \in S /\ pc'[p] \notin S
    <2>1. \A q \in Procs \ {p} : pc[q] \in S => on[q] # on[p]
      BY <1>1 DEF IInv, EachOwned
    <2>2. HeldAt(S)' = HeldAt(S) \ {on[p]}
      BY <1>1, <2>1 DEF HeldAt
    <2>3. QED
      BY <1>1, <2>2
  <1>2. CASE pc[p] \notin S /\ pc'[p] \in S
    <2>1. HeldAt(S)' = HeldAt(S) \cup {on'[p]}
      BY <1>2 DEF HeldAt
    <2>2. QED
      BY <1>2, <2>1
  <1>3. CASE pc[p] \notin S /\ pc'[p] \notin S
    <2>1. HeldAt(S)' = HeldAt(S)
      BY <1>3 DEF HeldAt
    <2>2. QED
      BY <1>3, <2>1
  <1>4. CASE pc[p] \in S /\ pc'[p] \in S
    <2>1. on'[p] = on[p] => HeldAt(S)' = HeldAt(S)
      BY <1>4 DEF HeldAt
    <2>2. QED
      BY <1>4, <2>1
  <1>5. QED
    BY <1>1, <1>2, <1>3, <1>4

FreshPlaces == {"starting", "storing"}
EndPlaces == {"aborting"} \cup Ending

LEMMA PlacesOwn == FreshPlaces \subseteq Owning /\ EndPlaces \subseteq Owning
  BY DEF FreshPlaces, EndPlaces, Owning

LEMMA FreshEnded ==
    /\ Fresh = HeldAt(FreshPlaces) /\ Fresh' = HeldAt(FreshPlaces)'
    /\ Ended = closers \cup HeldAt(EndPlaces) /\ Ended' = closers' \cup HeldAt(EndPlaces)'
  BY DEF Fresh, Ended, FreshPlaces, EndPlaces

LEMMA MovesFresh ==
    ASSUME IInv, NEW p \in Procs,
           \A q \in Procs \ {p} : pc'[q] = pc[q] /\ on'[q] = on[q]
    PROVE  /\ pc[p] \in FreshPlaces /\ pc'[p] \notin FreshPlaces => Fresh' = Fresh \ {on[p]}
           /\ pc[p] \notin FreshPlaces /\ pc'[p] \in FreshPlaces => Fresh' = Fresh \cup {on'[p]}
           /\ pc[p] \notin FreshPlaces /\ pc'[p] \notin FreshPlaces => Fresh' = Fresh
           /\ pc[p] \in FreshPlaces /\ pc'[p] \in FreshPlaces /\ on'[p] = on[p] => Fresh' = Fresh
  BY HeldChanges, PlacesOwn, FreshEnded

LEMMA MovesEnded ==
    ASSUME IInv, NEW p \in Procs, closers' = closers,
           \A q \in Procs \ {p} : pc'[q] = pc[q] /\ on'[q] = on[q]
    PROVE  /\ pc[p] \in EndPlaces /\ pc'[p] \notin EndPlaces => Ended' = Ended \ {on[p]}
           /\ pc[p] \notin EndPlaces /\ pc'[p] \in EndPlaces => Ended' = Ended \cup {on'[p]}
           /\ pc[p] \notin EndPlaces /\ pc'[p] \notin EndPlaces => Ended' = Ended
           /\ pc[p] \in EndPlaces /\ pc'[p] \in EndPlaces /\ on'[p] = on[p] => Ended' = Ended
  <1>1. pc[p] \in EndPlaces => on[p] \notin closers
    BY PlacesOwn DEF IInv, EachOwned
  <1>2. QED
    BY <1>1, HeldChanges, PlacesOwn, FreshEnded

(* One browser is closed, which was not before. *)
LEMMA ClosesOne ==
    ASSUME IInv, NEW h \in opened, NEW trash \in BOOLEAN, CloseBrowser(h, trash)
    PROVE  Closed' = Closed \cup {h}
  <1>1. opened' = opened /\ closes \in [Handles -> Nat] /\ opened \subseteq Handles
    BY DEF CloseBrowser, IInv, TypeOK
  <1>2. closes'[h] = closes[h] + 1 /\ \A k \in opened \ {h} : closes'[k] = closes[k]
    BY <1>1 DEF CloseBrowser
  <1>3. QED
    BY <1>1, <1>2 DEF Closed

LEMMA ClosedStays == UNCHANGED browserVars => Closed' = Closed
  BY DEF browserVars, Closed

(* A step of one goroutine that changes no owner. *)
LEMMA QuietStutters ==
    ASSUME IInv, NEW p \in Procs, NEW place, NEW k,
           pc' = [pc EXCEPT ![p] = place],
           on' = [on EXCEPT ![p] = k],
           pc[p] \in FreshPlaces <=> place \in FreshPlaces,
           pc[p] \in EndPlaces <=> place \in EndPlaces,
           pc[p] \in FreshPlaces \cup EndPlaces => k = on[p],
           UNCHANGED <<stored, storageHook, closers, browserVars>>
    PROVE  UNCHANGED Sessions!vars
  <1>1. /\ pc'[p] = place /\ on'[p] = k
        /\ \A q \in Procs \ {p} : pc'[q] = pc[q] /\ on'[q] = on[q]
    BY DEF IInv, TypeOK
  <1>2. Fresh' = Fresh
    BY <1>1, MovesFresh
  <1>3. Ended' = Ended
    BY <1>1, MovesEnded
  <1>4. QED
    BY <1>2, <1>3, ClosedStays DEF Sessions!vars, Down

(* The owner of an ended session closes its browser. *)
LEMMA CloseIsClose ==
    ASSUME IInv, NEW p \in Procs, NEW place, NEW trash \in BOOLEAN,
           pc[p] \in EndPlaces, place \notin EndPlaces \cup FreshPlaces,
           pc' = [pc EXCEPT ![p] = place],
           on' = [on EXCEPT ![p] = NoHandle],
           CloseBrowser(on[p], trash),
           UNCHANGED <<stored, storageHook, closers>>
    PROVE  Sessions!Close(on[p])
  <1>1. /\ pc'[p] = place /\ on'[p] = NoHandle
        /\ \A q \in Procs \ {p} : pc'[q] = pc[q] /\ on'[q] = on[q]
    BY DEF IInv, TypeOK
  <1>2. pc[p] \notin FreshPlaces
    BY DEF EndPlaces, FreshPlaces, Ending
  <1>3. Fresh' = Fresh /\ Ended' = Ended \ {on[p]}
    BY <1>1, <1>2, MovesFresh, MovesEnded
  <1>4. on[p] \in Ended
    BY FreshEnded DEF HeldAt
  <1>5. on[p] \in opened
    BY PlacesOwn, HandlesAssumption DEF IInv, TypeOK, WithHandle, Owning
  <1>6. Closed' = Closed \cup {on[p]}
    BY <1>5, ClosesOne
  <1>7. QED
    BY <1>3, <1>4, <1>6 DEF Sessions!Close, Down

LEMMA CreateRefines ==
    ASSUME IInv, NEW c \in Creators, Create(c)
    PROVE  [Sessions!Next]_(Sessions!vars)
  <1> USE DEF Goto, FreshPlaces, EndPlaces, Ending
  <1>1. c \in Procs /\ pc[c] \in Places
    BY DEF Procs, Requests, IInv, TypeOK
  <1>2. on = [on EXCEPT ![c] = on[c]]
    BY <1>1 DEF IInv, TypeOK
  <1>3. ASSUME CreateBegin(c) \/ CreateRefused(c) \/ AllocateFailed(c) \/ StartDone(c) \/ Respond(c)
        PROVE  UNCHANGED Sessions!vars
    <2>1. PICK place \in {"allocating", "failed", "storing", "idle"} :
            /\ pc' = [pc EXCEPT ![c] = place]
            /\ pc[c] = "starting" <=> place = "storing"
            /\ pc[c] \in {"idle", "allocating", "starting", "created", "failed"}
      BY <1>3 DEF CreateBegin, CreateRefused, AllocateFailed, StartDone, Respond
    <2>2. UNCHANGED <<on, storageVars, browserVars>>
      BY <1>3 DEF CreateBegin, CreateRefused, AllocateFailed, StartDone, Respond
    <2>3. QED
      BY <1>1, <1>2, <2>1, <2>2, QuietStutters DEF storageVars
  <1>4. ASSUME NEW h \in Handles, AllocateDone(c, h)
        PROVE  Sessions!Create(h)
    <2>1. /\ pc[c] = "allocating" /\ pc'[c] = "starting" /\ on'[c] = h
          /\ \A q \in Procs \ {c} : pc'[q] = pc[q] /\ on'[q] = on[q]
          /\ h \notin opened /\ opened' = opened \cup {h}
          /\ UNCHANGED <<storageVars, closes>>
      BY <1>1, <1>4 DEF AllocateDone, IInv, TypeOK
    <2>2. Fresh' = Fresh \cup {h} /\ Ended' = Ended
      BY <1>1, <2>1, MovesFresh, MovesEnded DEF storageVars
    <2>3. closes[h] = 0
      BY <2>1 DEF IInv, EachOwned, TypeOK
    <2>4. Closed' = Closed
      BY <2>1, <2>3 DEF Closed
    <2>5. h \notin Fresh \cup stored \cup Ended \cup Closed
      <3>1. \A q \in Procs : on[q] # h
        BY <2>1, HandlesAssumption DEF IInv, TypeOK
      <3>2. h \notin HeldAt(FreshPlaces) /\ h \notin HeldAt(EndPlaces)
        BY <3>1 DEF HeldAt
      <3>3. QED
        BY <2>1, <3>2, FreshEnded DEF IInv, TypeOK, Closed
    <2>6. QED
      BY <2>1, <2>2, <2>4, <2>5 DEF Sessions!Create, storageVars, Down
  <1>5. ASSUME StartFailed(c) \/ StoreRefused(c)
        PROVE  on[c] \in Handles /\ Sessions!GiveUp(on[c])
    <2>1. /\ pc[c] \in {"starting", "storing"} /\ pc' = [pc EXCEPT ![c] = "aborting"]
          /\ UNCHANGED <<on, storageVars, browserVars>>
      BY <1>5 DEF StartFailed, StoreRefused
    <2>2. pc'[c] = "aborting" /\ \A q \in Procs \ {c} : pc'[q] = pc[q] /\ on'[q] = on[q]
      BY <1>1, <2>1 DEF IInv, TypeOK
    <2>3. Fresh' = Fresh \ {on[c]} /\ Ended' = Ended \cup {on[c]}
      BY <1>1, <2>1, <2>2, MovesFresh, MovesEnded DEF storageVars
    <2>4. on[c] \in Fresh
      BY <1>1, <2>1, FreshEnded DEF HeldAt
    <2>5. on[c] \in Handles
      BY <1>1, <2>1 DEF IInv, TypeOK, WithHandle
    <2>6. QED
      BY <2>1, <2>3, <2>4, <2>5, ClosedStays DEF Sessions!GiveUp, storageVars, Down
  <1>6. ASSUME Store(c)
        PROVE  on[c] \in Handles /\ Sessions!Store(on[c])
    <2>1. /\ pc[c] = "storing" /\ pc'[c] = "created" /\ ~Down
          /\ \A q \in Procs \ {c} : pc'[q] = pc[q] /\ on'[q] = on[q]
          /\ stored' = stored \cup {on[c]} /\ UNCHANGED <<storageHook, closers, browserVars>>
      BY <1>1, <1>6 DEF Store, IInv, TypeOK
    <2>2. Fresh' = Fresh \ {on[c]} /\ Ended' = Ended
      BY <1>1, <2>1, MovesFresh, MovesEnded
    <2>3. on[c] \in Fresh
      BY <1>1, <2>1, FreshEnded DEF HeldAt
    <2>4. on[c] \in Handles
      BY <1>1, <2>1 DEF IInv, TypeOK, WithHandle
    <2>5. QED
      BY <2>1, <2>2, <2>3, <2>4, ClosedStays DEF Sessions!Store, Down
  <1>7. ASSUME Abort(c)
        PROVE  on[c] \in Handles /\ Sessions!Close(on[c])
    <2>1. on[c] \in Handles
      BY <1>1, <1>7 DEF Abort, IInv, TypeOK, WithHandle
    <2>2. QED
      BY <1>1, <1>7, <2>1, CloseIsClose DEF Abort, storageVars
  <1>8. QED
    BY <1>3, <1>4, <1>5, <1>6, <1>7 DEF Create, Sessions!Next

LEMMA DeleteRefines ==
    ASSUME IInv, NEW p \in Deleters, Delete(p)
    PROVE  [Sessions!Next]_(Sessions!vars)
  <1> USE DEF FreshPlaces, EndPlaces, Ending
  <1>1. p \in Procs /\ BackTo(p) \in {"scanning", "idle"}
    BY DEF Deleters, Procs, Requests, BackTo
  <1>2. on = [on EXCEPT ![p] = on[p]]
    BY <1>1 DEF IInv, TypeOK
  <1>3. ASSUME DeleteLost(p)
        PROVE  UNCHANGED Sessions!vars
    BY <1>1, <1>3, QuietStutters DEF DeleteLost, Goto, storageVars
  <1>4. ASSUME DeleteWon(p)
        PROVE  on[p] \in Handles /\ Sessions!Take(on[p])
    <2>1. /\ pc[p] = "deleting" /\ pc'[p] \in Ending
          /\ \A q \in Procs \ {p} : pc'[q] = pc[q] /\ on'[q] = on[q]
          /\ on' = on
          /\ on[p] \in stored /\ stored' = stored \ {on[p]}
          /\ UNCHANGED <<storageHook, closers, browserVars>>
      BY <1>1, <1>4 DEF DeleteWon, Goto, IInv, TypeOK
    <2>2. Fresh' = Fresh /\ Ended' = Ended \cup {on[p]}
      BY <1>1, <2>1, MovesFresh, MovesEnded
    <2>3. on[p] \in Handles
      BY <2>1 DEF IInv, TypeOK
    <2>4. QED
      BY <2>1, <2>2, <2>3, ClosedStays DEF Sessions!Take, Down
  <1>5. ASSUME WindDown(p)
        PROVE  UNCHANGED Sessions!vars
    <2>1. PICK to \in Ending : pc[p] \in Ending /\ pc' = [pc EXCEPT ![p] = to]
      BY <1>5 DEF WindDown, Goto
    <2>2. UNCHANGED <<on, storageVars, browserVars>>
      BY <1>5 DEF WindDown
    <2>3. QED
      BY <1>1, <1>2, <2>1, <2>2, QuietStutters DEF storageVars
  <1>6. ASSUME FinishDelete(p)
        PROVE  on[p] \in Handles /\ Sessions!Close(on[p])
    <2>1. pc[p] \in {"trashing", "keeping"} /\ (pc[p] = "trashing") \in BOOLEAN
      BY <1>6 DEF FinishDelete
    <2>2. on[p] \in Handles
      BY <1>1, <2>1 DEF IInv, TypeOK, WithHandle
    <2>3. QED
      BY <1>1, <1>6, <2>1, <2>2, CloseIsClose DEF FinishDelete, storageVars
  <1>7. QED
    BY <1>3, <1>4, <1>5, <1>6 DEF Delete, Sessions!Next

LEMMA HandlerStutters ==
    ASSUME IInv, NEW d \in Handlers, ProxyReturns(d) \/ \E h \in Handles : Find(d, h)
    PROVE  UNCHANGED Sessions!vars
  <1>1. d \in Procs
    BY DEF Procs, Requests
  <1>2. PICK place \in {"idle", "proxying", "deleting"},
              k \in Handles \cup {NoHandle} :
          /\ pc[d] \in {"idle", "proxying"}
          /\ pc' = [pc EXCEPT ![d] = place] /\ on' = [on EXCEPT ![d] = k]
    BY DEF ProxyReturns, Find, Validate, ResetFind, Goto
  <1>3. UNCHANGED <<stored, storageHook, closers, browserVars>>
    BY DEF ProxyReturns, Find, Validate, ResetFind, storageVars
  <1>4. QED
    BY <1>1, <1>2, <1>3, QuietStutters DEF FreshPlaces, EndPlaces, Ending

LEMMA CleanStutters ==
    ASSUME IInv, Clean
    PROVE  UNCHANGED Sessions!vars
  <1>1. Cleaner \in Procs
    BY DEF Procs
  <1>2. PICK place \in {"ticking", "scanning", "stopped", "deleting"},
              k \in Handles \cup {NoHandle} :
          /\ pc[Cleaner] \in {"ticking", "scanning"}
          /\ pc' = [pc EXCEPT ![Cleaner] = place] /\ on' = [on EXCEPT ![Cleaner] = k]
    <2>1. /\ on = [on EXCEPT ![Cleaner] = on[Cleaner]] /\ on[Cleaner] \in Handles \cup {NoHandle}
          /\ pc = [pc EXCEPT ![Cleaner] = pc[Cleaner]]
      BY <1>1 DEF IInv, TypeOK
    <2>2. QED
      BY <2>1 DEF Clean, Tick, ScanEnds, CleanerStops, ScanFresh, ScanStale, Goto
  <1>3. UNCHANGED <<stored, storageHook, closers, browserVars>>
    BY DEF Clean, Tick, ScanEnds, CleanerStops, ScanFresh, ScanStale, storageVars
  <1>4. QED
    BY <1>1, <1>2, <1>3, QuietStutters DEF FreshPlaces, EndPlaces, Ending

(* Nobody moves: what is held at any place is what was. *)
LEMMA HeldStays ==
    UNCHANGED <<pc, on>> =>
        Fresh' = Fresh /\ HeldAt(EndPlaces)' = HeldAt(EndPlaces)
  BY DEF Fresh, HeldAt

LEMMA StorageRefines ==
    ASSUME IInv, StorageShutdown \/ \E h \in Handles : StorageCloses(h)
    PROVE  Sessions!Next
  <1> USE DEF procVars
  <1>1. ASSUME StorageShutdown
        PROVE  Sessions!Shutdown
    <2>1. closers = {} /\ ~Down
      BY <1>1 DEF StorageShutdown, IInv, HooksHold, Down
    <2>2. Down' /\ closers' = stored /\ stored' = {} /\ UNCHANGED <<pc, on, browserVars>>
      BY <1>1 DEF StorageShutdown, Down
    <2>3. Fresh' = Fresh /\ Ended' = Ended \cup stored /\ Closed' = Closed
      BY <2>1, <2>2, HeldStays, FreshEnded, ClosedStays
    <2>4. QED
      BY <2>1, <2>2, <2>3 DEF Sessions!Shutdown, Down
  <1>2. ASSUME NEW h \in Handles, StorageCloses(h)
        PROVE  Sessions!Close(h)
    <2>1. /\ h \in closers /\ closers' = closers \ {h} /\ CloseBrowser(h, TRUE)
          /\ UNCHANGED <<stored, storageHook, pc, on>>
      BY <1>2 DEF StorageCloses
    <2>2. h \in opened
      BY <2>1 DEF IInv, TypeOK
    <2>3. h \notin HeldAt(EndPlaces)
      BY <2>1, PlacesOwn DEF IInv, EachOwned, HeldAt
    <2>4. h \in Ended /\ Ended' = Ended \ {h} /\ Fresh' = Fresh
      BY <2>1, <2>3, HeldStays, FreshEnded
    <2>5. QED
      BY <2>1, <2>2, <2>4, ClosesOne DEF Sessions!Close, Down
  <1>3. QED
    BY <1>1, <1>2 DEF Sessions!Next

LEMMA HooksStutter ==
    ASSUME StorageHookReturns \/ ServerShutdown \/ ServerHookReturns \/ CleanerShutdown
           \/ CleanerHookReturns \/ Signal \/ HookTimeout \/ Exit \/ SecondSignal
           \/ UNCHANGED vars \/ \E h \in Handles : Expire(h)
    PROVE  UNCHANGED Sessions!vars
  <1>1. UNCHANGED <<stored, closers, pc, on, browserVars>> /\ Down' = Down
    BY DEF StorageHookReturns, ServerShutdown, ServerHookReturns, CleanerShutdown,
           CleanerHookReturns, Signal, HookTimeout, Exit, SecondSignal, ExitWith, vars, Expire,
           storageVars, procVars, Down
  <1>2. QED
    BY <1>1, HeldStays, FreshEnded, ClosedStays DEF Sessions!vars

(* Every step is one of SessionStore or leaves its state alone: requests,  *)
(* the reset, the clean-up and Shutdown pass each browser from the request *)
(* to the storage, to one who ends it, and to its Close, in this order.    *)
THEOREM SessionsImplementStore == Spec => ImplementsSessionStore
  <1>1. Init => Sessions!Init
    <2> SUFFICES ASSUME Init PROVE Sessions!Init
      OBVIOUS
    <2>1. Fresh = {} /\ HeldAt(EndPlaces) = {}
      BY DEF Init, Fresh, HeldAt, EndPlaces, Ending
    <2>2. QED
      BY <2>1, FreshEnded DEF Init, Sessions!Init, Closed, Down
  <1>2. IInv /\ [Next]_vars => [Sessions!Next]_(Sessions!vars)
    BY CreateRefines, DeleteRefines, HandlerStutters, CleanStutters, StorageRefines, HooksStutter
       DEF Next, Shutdown
  <1>3. QED
    BY <1>1, <1>2, InvariantHolds, PTL DEF Spec, ImplementsSessionStore, Sessions!Spec

=============================================================================
