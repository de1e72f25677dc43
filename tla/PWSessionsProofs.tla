-------------------------- MODULE PWSessionsProofs --------------------------
(***************************************************************************)
(* Custody of the browsers of Playwright sessions, for any number of       *)
(* connections, resets and browsers.  The invariants of PWSessions are     *)
(* restated goroutine by goroutine, which is how the steps change them;    *)
(* what is added is that Shutdown has nothing to close before it begins.   *)
(***************************************************************************)
EXTENDS PWSessions, TLAPS

Owns(p, h) == pc[p] \in Owning /\ on[p] = h

Custody ==
    /\ \A p, q \in Procs : on[p] = on[q] /\ pc[p] \in Owning /\ pc[q] \in Owning => p = q
    /\ \A p \in Procs : pc[p] \in Owning =>
        on[p] \notin stored \cup closers /\ closes[on[p]] = 0
    /\ stored \cap closers = {}
    /\ \A h \in stored \cup closers : closes[h] = 0
    /\ \A h \in Handles : closes[h] <= IF h \in opened THEN 1 ELSE 0

Accounted ==
    \A h \in opened : closes[h] = 0 => h \in stored \cup closers \/ \E p \in Procs : Owns(p, h)

IInv ==
    /\ TypeOK
    /\ Custody
    /\ Accounted
    /\ StoredHasHandler
    /\ storageHook = "none" => closers = {}

CustodyVars == <<stored, closers, opened, closes, kept>>

-----------------------------------------------------------------------------
LEMMA InitInv == Init => IInv
  <1> SUFFICES ASSUME Init PROVE IInv
    OBVIOUS
  <1> USE DEF Init
  <1>1. TypeOK
    BY DEF TypeOK, Places, Serving, Owning, HookStates
  <1>2. Custody
    BY DEF Custody, Owning
  <1>3. Accounted /\ StoredHasHandler
    BY DEF Accounted, StoredHasHandler
  <1>4. QED
    BY <1>1, <1>2, <1>3 DEF IInv

(* TypeOK when one goroutine moves. *)
LEMMA MoveKeepsType ==
    ASSUME TypeOK, NEW p \in Procs, NEW place \in Places, NEW k \in opened' \cup {NoHandle},
           pc' = [pc EXCEPT ![p] = place],
           on' = [on EXCEPT ![p] = k],
           k # NoHandle <=> place \in Serving \cup Owning,
           opened \subseteq opened', opened' \subseteq Handles,
           stored' \subseteq opened', closers' \subseteq opened', cancelled' \subseteq opened',
           kept' \subseteq opened',
           hijacked' \subseteq hijacked \cup {p},
           p \in hijacked' => p \in Clients /\ place \in {"connected", "deleting", "closing"},
           closes' \in [Handles -> Nat],
           UNCHANGED <<storageHook, hookVars>>
    PROVE  TypeOK'
  <1>1. /\ pc'[p] = place /\ on'[p] = k
        /\ \A q \in Procs \ {p} : pc'[q] = pc[q] /\ on'[q] = on[q]
    BY DEF TypeOK
  <1>2. pc' \in [Procs -> Places] /\ on' \in [Procs -> opened' \cup {NoHandle}]
    BY DEF TypeOK
  <1>3. \A q \in Procs : on'[q] # NoHandle <=> pc'[q] \in Serving \cup Owning
    BY <1>1 DEF TypeOK
  <1>4. hijacked' \subseteq {c \in Clients : pc'[c] \in {"connected", "deleting", "closing"}}
    BY <1>1 DEF TypeOK, Procs
  <1>5. /\ storageHook' \in HookStates /\ serverHook' \in HookStates
        /\ signalled' \in BOOLEAN /\ late' \in BOOLEAN
        /\ exit' \in {"no", "graceful", "forced"}
    BY DEF TypeOK, hookVars
  <1>6. QED
    BY <1>2, <1>3, <1>4, <1>5 DEF TypeOK

(* A goroutine moves on; no browser, and no session, changes hands. *)
LEMMA QuietKeepsInv ==
    ASSUME IInv, NEW p \in Procs, NEW place \in Places, NEW k \in opened \cup {NoHandle},
           pc' = [pc EXCEPT ![p] = place],
           on' = [on EXCEPT ![p] = k],
           k # NoHandle <=> place \in Serving \cup Owning,
           pc[p] \in Owning \/ place \in Owning => pc[p] \in Owning /\ place \in Owning /\ k = on[p],
           pc[p] \in Serving /\ on[p] \in stored => place \in Serving /\ k = on[p],
           hijacked' \subseteq hijacked \cup {p},
           p \in hijacked' => p \in Clients /\ place \in {"connected", "deleting", "closing"},
           UNCHANGED <<storageVars, cancelled, browserVars, hookVars>>
    PROVE  IInv'
  <1> USE DEF storageVars, browserVars
  <1>1. /\ pc'[p] = place /\ on'[p] = k
        /\ \A q \in Procs \ {p} : pc'[q] = pc[q] /\ on'[q] = on[q]
    BY DEF IInv, TypeOK
  <1>2. TypeOK'
    BY MoveKeepsType DEF IInv, TypeOK
  <1>3. \A q \in Procs :
          pc'[q] \in Owning <=> pc[q] \in Owning
    BY <1>1
  <1>4. \A q \in Procs : pc[q] \in Owning => on'[q] = on[q]
    BY <1>1
  <1>5. Custody'
    BY <1>3, <1>4 DEF IInv, Custody
  <1>6. Accounted'
    BY <1>3, <1>4 DEF IInv, Accounted, Owns
  <1>7. StoredHasHandler'
    BY <1>1 DEF IInv, StoredHasHandler, Procs
  <1>8. QED
    BY <1>2, <1>5, <1>6, <1>7 DEF IInv

(* Abort and FinishDelete: the owner closes its browser. *)
LEMMA CloseKeepsInv ==
    ASSUME IInv, NEW p \in Procs, NEW trash \in BOOLEAN,
           pc[p] \in Owning,
           pc' = [pc EXCEPT ![p] = "idle"],
           on' = [on EXCEPT ![p] = NoHandle],
           hijacked' = hijacked \ {p},
           CloseBrowser(on[p], trash),
           UNCHANGED <<storageVars, cancelled, hookVars>>
    PROVE  IInv'
  <1> USE DEF storageVars
  <1> DEFINE h == on[p]
  <1>1. /\ pc'[p] = "idle" /\ on'[p] = NoHandle
        /\ \A q \in Procs \ {p} : pc'[q] = pc[q] /\ on'[q] = on[q]
    BY DEF IInv, TypeOK
  <1>2. h \in opened /\ h \in Handles
    BY HandlesAssumption DEF IInv, TypeOK
  <1>3. /\ closes' \in [Handles -> Nat] /\ closes'[h] = closes[h] + 1
        /\ \A k \in Handles \ {h} : closes'[k] = closes[k]
    BY <1>2 DEF IInv, TypeOK, CloseBrowser
  <1>4. opened' = opened /\ kept' \subseteq opened
    BY <1>2 DEF IInv, TypeOK, CloseBrowser
  <1>5. TypeOK'
    <2>1. "idle" \in Places /\ "idle" \notin Serving \cup Owning
      BY DEF Places, Serving, Owning
    <2>2. QED
      BY <2>1, <1>3, <1>4, MoveKeepsType DEF IInv, TypeOK
  <1>6. /\ closes[h] = 0 /\ h \notin stored \cup closers
        /\ \A q \in Procs \ {p} : pc[q] \in Owning => on[q] # h
    BY DEF IInv, Custody
  <1>7. "idle" \notin Owning /\ "idle" \notin Serving
    BY DEF Owning, Serving
  <1>8. \A q \in Procs : pc'[q] \in Owning => q # p /\ pc[q] \in Owning /\ on'[q] = on[q] /\ on[q] \in Handles
    BY <1>1, <1>7, HandlesAssumption DEF IInv, TypeOK
  <1>9. Custody'
    <2>1. \A q \in Procs : pc'[q] \in Owning =>
            on'[q] \notin stored' \cup closers' /\ closes'[on'[q]] = 0
      BY <1>3, <1>6, <1>8 DEF IInv, Custody
    <2>2. \A q, r \in Procs : on'[q] = on'[r] /\ pc'[q] \in Owning /\ pc'[r] \in Owning => q = r
      BY <1>8 DEF IInv, Custody
    <2>3. \A k \in stored' \cup closers' : closes'[k] = 0
      BY <1>3, <1>6 DEF IInv, Custody, TypeOK
    <2>4. \A k \in Handles : closes'[k] <= IF k \in opened' THEN 1 ELSE 0
      BY <1>2, <1>3, <1>4, <1>6 DEF IInv, Custody
    <2>5. QED
      BY <2>1, <2>2, <2>3, <2>4 DEF IInv, Custody
  <1>10. Accounted'
    <2>1. ASSUME NEW k \in opened', closes'[k] = 0, k \notin stored' \cup closers'
          PROVE  \E q \in Procs : Owns(q, k)'
      <3>1. k # h /\ closes[k] = 0 /\ k \in opened
        BY <2>1, <1>2, <1>3, <1>4, <1>6 DEF IInv, TypeOK
      <3>2. PICK q \in Procs : pc[q] \in Owning /\ on[q] = k
        BY <2>1, <3>1 DEF IInv, Accounted, Owns
      <3>3. QED
        BY <3>1, <3>2, <1>1 DEF Owns
    <2>2. QED
      BY <2>1 DEF Accounted
  <1>11. StoredHasHandler'
    <2>1. ASSUME NEW k \in stored
          PROVE  \E c \in Clients : pc'[c] \in Serving /\ on'[c] = k
      <3>1. PICK c \in Clients : pc[c] \in Serving /\ on[c] = k
        BY DEF IInv, StoredHasHandler
      <3>2. c # p
        BY <3>1 DEF Serving, Owning
      <3>3. QED
        BY <3>1, <3>2, <1>1 DEF Procs
    <2>2. QED
      BY <2>1 DEF StoredHasHandler
  <1>12. QED
    BY <1>5, <1>9, <1>10, <1>11 DEF IInv

LEMMA AllocateDoneKeepsInv ==
    ASSUME IInv, NEW c \in Clients, NEW h \in Handles, AllocateDone(c, h)
    PROVE  IInv'
  <1> USE DEF storageVars
  <1>0. c \in Procs
    BY DEF Procs
  <1>1. /\ pc'[c] = "starting" /\ on'[c] = h /\ pc[c] = "allocating"
        /\ \A q \in Procs \ {c} : pc'[q] = pc[q] /\ on'[q] = on[q]
    BY <1>0 DEF IInv, TypeOK, AllocateDone, Goto
  <1>2. /\ h \notin opened /\ opened' = opened \cup {h}
        /\ UNCHANGED <<storageVars, hijacked, cancelled, closes, kept, hookVars>>
    BY DEF AllocateDone
  <1>3. TypeOK'
    <2>1. "starting" \in Places /\ "starting" \in Serving \cup Owning
      BY DEF Places, Serving, Owning
    <2>2. c \notin hijacked
      BY <1>1 DEF IInv, TypeOK
    <2>3. pc' = [pc EXCEPT ![c] = "starting"] /\ on' = [on EXCEPT ![c] = h] /\ h # NoHandle
      BY HandlesAssumption DEF AllocateDone, Goto
    <2>4. /\ stored' \subseteq opened' /\ closers' \subseteq opened' /\ cancelled' \subseteq opened'
          /\ kept' \subseteq opened' /\ opened \subseteq opened' /\ opened' \subseteq Handles
          /\ closes' \in [Handles -> Nat] /\ hijacked' = hijacked
          /\ UNCHANGED <<storageHook, hookVars>>
      BY <1>2 DEF IInv, TypeOK
    <2>5. h \in opened' \cup {NoHandle} /\ TypeOK
      BY <1>2 DEF IInv
    <2>6. QED
      BY <1>0, <2>1, <2>2, <2>3, <2>4, <2>5, MoveKeepsType
  <1>4. closes[h] = 0
    BY <1>2 DEF IInv, Custody, TypeOK
  <1>5. \A q \in Procs : on[q] # h
    BY <1>2, HandlesAssumption DEF IInv, TypeOK
  <1>6. Custody'
    <2>1. \A q, r \in Procs : on'[q] = on'[r] /\ pc'[q] \in Owning /\ pc'[r] \in Owning => q = r
      BY <1>1, <1>5 DEF IInv, Custody
    <2>2. \A q \in Procs : pc'[q] \in Owning =>
            on'[q] \notin stored' \cup closers' /\ closes'[on'[q]] = 0
      BY <1>1, <1>2, <1>4 DEF IInv, Custody, TypeOK
    <2>3. \A k \in Handles : closes'[k] <= IF k \in opened' THEN 1 ELSE 0
      BY <1>2, <1>4 DEF IInv, Custody
    <2>4. QED
      BY <2>1, <2>2, <2>3, <1>2 DEF IInv, Custody
  <1>7. Accounted'
    <2>1. "starting" \in Owning /\ "allocating" \notin Owning
      BY DEF Owning
    <2>2. \A q \in Procs, k \in opened : Owns(q, k) => Owns(q, k)'
      BY <1>1, <2>1 DEF Owns
    <2>3. Owns(c, h)'
      BY <1>1, <2>1 DEF Owns
    <2>4. QED
      BY <1>0, <1>2, <2>2, <2>3 DEF IInv, Accounted
  <1>8. StoredHasHandler'
    BY <1>1, <1>2 DEF IInv, StoredHasHandler, Procs, Serving
  <1>9. QED
    BY <1>2, <1>3, <1>6, <1>7, <1>8 DEF IInv

LEMMA StoreKeepsInv ==
    ASSUME IInv, NEW c \in Clients, Store(c)
    PROVE  IInv'
  <1> USE DEF browserVars
  <1> DEFINE h == on[c]
  <1>0. c \in Procs
    BY DEF Procs
  <1>1. /\ pc[c] = "storing" /\ pc'[c] = "connecting" /\ on' = on
        /\ pc' = [pc EXCEPT ![c] = "connecting"]
        /\ \A q \in Procs \ {c} : pc'[q] = pc[q]
    BY <1>0 DEF IInv, TypeOK, Store, Goto
  <1>2. /\ stored' = stored \cup {h}
        /\ UNCHANGED <<storageHook, closers, on, hijacked, cancelled, browserVars, hookVars>>
    BY DEF Store
  <1>3. "storing" \in Owning /\ "connecting" \notin Owning /\ "connecting" \in Serving
    BY DEF Owning, Serving
  <1>4. h \in opened
    BY <1>0, <1>1, <1>3 DEF IInv, TypeOK
  <1>5. TypeOK'
    <2>1. "connecting" \in Places /\ "connecting" \in Serving \cup Owning
      BY DEF Places, Serving
    <2>2. c \notin hijacked
      BY <1>1 DEF IInv, TypeOK
    <2>3. on' = [on EXCEPT ![c] = h] /\ h # NoHandle
      BY <1>0, <1>1, <1>4, HandlesAssumption DEF IInv, TypeOK
    <2>4. /\ stored' \subseteq opened' /\ closers' \subseteq opened' /\ cancelled' \subseteq opened'
          /\ kept' \subseteq opened' /\ opened \subseteq opened' /\ opened' \subseteq Handles
          /\ closes' \in [Handles -> Nat] /\ hijacked' = hijacked
          /\ UNCHANGED <<storageHook, hookVars>>
      BY <1>2, <1>4 DEF IInv, TypeOK
    <2>5. QED
      BY <1>0, <1>1, <1>2, <1>4, <2>1, <2>2, <2>3, <2>4, MoveKeepsType DEF IInv
  <1>6. /\ closes[h] = 0 /\ h \notin closers
        /\ \A q \in Procs \ {c} : pc[q] \in Owning => on[q] # h
    BY <1>0, <1>1, <1>3 DEF IInv, Custody
  <1>7. Custody'
    BY <1>1, <1>2, <1>3, <1>6 DEF IInv, Custody
  <1>8. Accounted'
    <2>1. \A q \in Procs, k \in opened : Owns(q, k) => Owns(q, k)' \/ k \in stored'
      BY <1>1, <1>2 DEF Owns
    <2>2. QED
      BY <1>2, <2>1 DEF IInv, Accounted
  <1>9. StoredHasHandler'
    <2>1. \A d \in Clients : pc[d] \in Serving => pc'[d] \in Serving
      BY <1>1, <1>3 DEF Procs
    <2>2. QED
      BY <1>1, <1>2, <1>3, <2>1 DEF IInv, StoredHasHandler
  <1>10. QED
    BY <1>2, <1>5, <1>7, <1>8, <1>9 DEF IInv

(* Of those that delete a session, the one that finds it becomes its owner. *)
LEMMA DeleteWonKeepsInv ==
    ASSUME IInv, NEW p \in Procs, DeleteWon(p)
    PROVE  IInv'
  <1> USE DEF browserVars
  <1> DEFINE h == on[p]
  <1>1. /\ pc[p] = "deleting" /\ pc'[p] = "closing" /\ on' = on
        /\ pc' = [pc EXCEPT ![p] = "closing"]
        /\ \A q \in Procs \ {p} : pc'[q] = pc[q]
    BY DEF IInv, TypeOK, DeleteWon, Goto
  <1>2. /\ h \in stored /\ stored' = stored \ {h} /\ cancelled' = cancelled \cup {h}
        /\ UNCHANGED <<storageHook, closers, on, hijacked, browserVars, hookVars>>
    BY DEF DeleteWon
  <1>3. "deleting" \notin Owning /\ "closing" \in Owning /\ "closing" \notin Serving
    BY DEF Owning, Serving
  <1>4. h \in opened
    BY <1>2 DEF IInv, TypeOK
  <1>5. TypeOK'
    <2>1. "closing" \in Places /\ "closing" \in Serving \cup Owning
      BY DEF Places, Owning
    <2>2. on' = [on EXCEPT ![p] = h] /\ h # NoHandle
      BY <1>1, <1>4, HandlesAssumption DEF IInv, TypeOK
    <2>3. p \in hijacked => p \in Clients
      BY DEF IInv, TypeOK
    <2>4. /\ stored' \subseteq opened' /\ closers' \subseteq opened' /\ cancelled' \subseteq opened'
          /\ kept' \subseteq opened' /\ opened \subseteq opened' /\ opened' \subseteq Handles
          /\ closes' \in [Handles -> Nat] /\ hijacked' = hijacked
          /\ UNCHANGED <<storageHook, hookVars>>
      BY <1>2, <1>4 DEF IInv, TypeOK
    <2>5. QED
      BY <1>1, <1>2, <1>4, <2>1, <2>2, <2>3, <2>4, MoveKeepsType DEF IInv
  <1>6. /\ closes[h] = 0 /\ h \notin closers
        /\ \A q \in Procs : pc[q] \in Owning => on[q] # h
    BY <1>2 DEF IInv, Custody
  <1>7. Custody'
    BY <1>1, <1>2, <1>3, <1>6 DEF IInv, Custody
  <1>8. Accounted'
    <2>1. \A q \in Procs, k \in opened : Owns(q, k) => Owns(q, k)'
      BY <1>1, <1>3 DEF Owns
    <2>2. Owns(p, h)'
      BY <1>1, <1>3 DEF Owns
    <2>3. QED
      BY <1>2, <2>1, <2>2 DEF IInv, Accounted
  <1>9. StoredHasHandler'
    <2>1. ASSUME NEW k \in stored'
          PROVE  \E c \in Clients : pc'[c] \in Serving /\ on'[c] = k
      <3>1. PICK c \in Clients : pc[c] \in Serving /\ on[c] = k
        BY <1>2 DEF IInv, StoredHasHandler
      <3>2. c # p
        BY <1>2, <3>1
      <3>3. QED
        BY <3>1, <3>2, <1>1 DEF Procs
    <2>2. QED
      BY <2>1 DEF StoredHasHandler
  <1>10. QED
    BY <1>2, <1>5, <1>7, <1>8, <1>9 DEF IInv

(* The hooks: Shutdown of the storage takes over what is stored. *)
LEMMA StorageKeepsInv ==
    IInv /\ (StorageShutdown \/ StorageHookReturns \/ \E h \in Handles : StorageCloses(h)) => IInv'
  <1> USE DEF procVars, browserVars
  <1>1. ASSUME IInv, StorageShutdown
        PROVE  IInv'
    <2> USE <1>1 DEF StorageShutdown
    <2>1. storageHook' = "busy" /\ closers' = stored /\ stored' = {} /\ closers = {}
      BY DEF IInv
    <2>2. TypeOK'
      BY <2>1 DEF IInv, TypeOK, hookVars, HookStates
    <2>3. Custody'
      BY <2>1 DEF IInv, Custody
    <2>4. Accounted'
      BY <2>1 DEF IInv, Accounted, Owns
    <2>5. QED
      BY <2>1, <2>2, <2>3, <2>4 DEF IInv, StoredHasHandler
  <1>2. ASSUME IInv, StorageHookReturns
        PROVE  IInv'
    <2> USE <1>2 DEF StorageHookReturns
    <2>1. storageHook' \in {"done", "timedOut"}
      OBVIOUS
    <2>2. TypeOK'
      BY <2>1 DEF IInv, TypeOK, hookVars, HookStates
    <2>3. Custody' /\ Accounted' /\ StoredHasHandler'
      BY DEF IInv, Custody, Accounted, Owns, StoredHasHandler
    <2>4. QED
      BY <2>1, <2>2, <2>3 DEF IInv
  <1>3. ASSUME IInv, NEW h \in Handles, StorageCloses(h)
        PROVE  IInv'
    <2> USE <1>3 DEF StorageCloses
    <2>1. /\ h \in closers /\ closers' = closers \ {h}
          /\ UNCHANGED <<stored, storageHook, procVars, hookVars>>
          /\ opened' = opened /\ kept' = kept
      BY DEF CloseBrowser
    <2>2. /\ closes' \in [Handles -> Nat] /\ closes'[h] = closes[h] + 1
          /\ \A k \in Handles \ {h} : closes'[k] = closes[k]
      BY DEF IInv, TypeOK, CloseBrowser
    <2>3. /\ closes[h] = 0 /\ h \notin stored /\ h \in opened
          /\ \A q \in Procs : pc[q] \in Owning => on[q] # h
      BY <2>1 DEF IInv, Custody, TypeOK
    <2>4. TypeOK'
      BY <2>1, <2>2 DEF IInv, TypeOK, hookVars
    <2>5. Custody'
      <3>1. \A q \in Procs : pc[q] \in Owning => on[q] \in Handles
        BY HandlesAssumption DEF IInv, TypeOK
      <3>2. \A q \in Procs : pc'[q] \in Owning =>
              on'[q] \notin stored' \cup closers' /\ closes'[on'[q]] = 0
        BY <3>1, <2>1, <2>2, <2>3 DEF IInv, Custody
      <3>3. \A k \in stored' \cup closers' : closes'[k] = 0
        BY <2>1, <2>2, <2>3 DEF IInv, Custody, TypeOK
      <3>4. \A k \in Handles : closes'[k] <= IF k \in opened' THEN 1 ELSE 0
        BY <2>1, <2>2, <2>3 DEF IInv, Custody
      <3>5. QED
        BY <3>2, <3>3, <3>4, <2>1 DEF IInv, Custody
    <2>6. Accounted'
      BY <2>1, <2>2, <2>3 DEF IInv, Accounted, Owns, TypeOK
    <2>7. StoredHasHandler'
      BY <2>1 DEF IInv, StoredHasHandler
    <2>8. QED
      BY <2>1, <2>4, <2>5, <2>6, <2>7 DEF IInv
  <1>4. QED
    BY <1>1, <1>2, <1>3

LEMMA HooksKeepInv ==
    ASSUME IInv,
           ServerShutdown \/ ServerHookReturns \/ Signal \/ HookTimeout \/ Exit
           \/ UNCHANGED vars
    PROVE  IInv'
  <1> USE DEF ServerShutdown, ServerHookReturns, Signal, HookTimeout, Exit, ExitWith, vars, hookVars
  <1>1. UNCHANGED <<storageVars, procVars, browserVars>>
    OBVIOUS
  <1>2. serverHook' \in HookStates
    BY DEF IInv, TypeOK, HookStates
  <1>3. /\ signalled' \in BOOLEAN /\ late' \in BOOLEAN
        /\ exit' \in {"no", "graceful", "forced"}
    BY DEF IInv, TypeOK
  <1>4. TypeOK'
    BY <1>1, <1>2, <1>3 DEF IInv, TypeOK, storageVars, procVars, browserVars
  <1>5. Custody' /\ Accounted' /\ StoredHasHandler' /\ (storageHook' = "none" => closers' = {})
    BY <1>1 DEF IInv, Custody, Accounted, Owns, StoredHasHandler, storageVars, procVars, browserVars
  <1>6. QED
    BY <1>4, <1>5 DEF IInv

-----------------------------------------------------------------------------
(* The steps of a connection's handler that change no custody. *)
LEMMA ClientQuiet ==
    ASSUME IInv, NEW c \in Clients,
           \/ CreateBegin(c) \/ AllocateFailed(c) \/ StartDone(c) \/ StartFailed(c)
           \/ StoreRefused(c) \/ Upgrade(c) \/ ServeReturns(c)
    PROVE  IInv'
  <1> USE DEF Goto, Return
  <1>1. c \in Procs /\ on[c] \in opened \cup {NoHandle} /\ on = [on EXCEPT ![c] = on[c]]
    BY DEF IInv, TypeOK, Procs
  <1>2. on[c] # NoHandle <=> pc[c] \in Serving \cup Owning
    BY <1>1 DEF IInv, TypeOK
  <1>3. c \in hijacked => pc[c] \in {"connected", "deleting", "closing"}
    BY DEF IInv, TypeOK
  <1> USE DEF Places, Serving, Owning
  <1>4. CASE CreateBegin(c)
    <2>1. on' = [on EXCEPT ![c] = on[c]]
      BY <1>1, <1>4 DEF CreateBegin
    <2>2. QED
      BY <1>1, <1>2, <1>3, <1>4, <2>1, QuietKeepsInv DEF CreateBegin
  <1>5. CASE AllocateFailed(c)
    BY <1>1, <1>2, <1>3, <1>5, QuietKeepsInv DEF AllocateFailed
  <1>6. CASE StartDone(c)
    <2>1. on' = [on EXCEPT ![c] = on[c]]
      BY <1>1, <1>6 DEF StartDone
    <2>2. QED
      BY <1>1, <1>2, <1>3, <1>6, <2>1, QuietKeepsInv DEF StartDone
  <1>7. CASE StartFailed(c) \/ StoreRefused(c)
    <2>1. on' = [on EXCEPT ![c] = on[c]]
      BY <1>1, <1>7 DEF StartFailed, StoreRefused
    <2>2. QED
      BY <1>1, <1>2, <1>3, <1>7, <2>1, QuietKeepsInv DEF StartFailed, StoreRefused
  <1>8. CASE Upgrade(c)
    <2>1. on' = [on EXCEPT ![c] = on[c]]
      BY <1>1, <1>8 DEF Upgrade
    <2>2. QED
      BY <1>1, <1>2, <1>3, <1>8, <2>1, QuietKeepsInv DEF Upgrade
  <1>9. CASE ServeReturns(c)
    <2>1. on' = [on EXCEPT ![c] = on[c]]
      BY <1>1, <1>9 DEF ServeReturns
    <2>2. QED
      BY <1>1, <1>2, <1>3, <1>9, <2>1, QuietKeepsInv DEF ServeReturns
  <1>10. QED
    BY <1>4, <1>5, <1>6, <1>7, <1>8, <1>9

LEMMA ResetFindKeepsInv ==
    ASSUME IInv, NEW r \in Resetters, NEW h \in Handles, ResetFind(r, h)
    PROVE  IInv'
  <1>1. r \in Procs /\ r \notin hijacked /\ h \in opened /\ h # NoHandle
    BY ProcsAssumption, HandlesAssumption DEF IInv, TypeOK, Procs, ResetFind
  <1>2. QED
    BY <1>1, QuietKeepsInv DEF ResetFind, Goto, Places, Serving, Owning

LEMMA DeleteKeepsInv ==
    ASSUME IInv, NEW p \in Procs, DeleteSession(p)
    PROVE  IInv'
  <1>1. CASE DeleteLost(p)
    BY <1>1, QuietKeepsInv DEF DeleteLost, Return, Goto, Places, Serving, Owning
  <1>2. CASE DeleteWon(p)
    BY <1>2, DeleteWonKeepsInv
  <1>3. CASE FinishDelete(p)
    BY <1>3, CloseKeepsInv DEF FinishDelete, Return, Goto, Owning
  <1>4. QED
    BY <1>1, <1>2, <1>3 DEF DeleteSession

LEMMA StepKeepsInv == IInv /\ [Next]_vars => IInv'
  <1> SUFFICES ASSUME IInv, [Next]_vars PROVE IInv'
    OBVIOUS
  <1>1. ASSUME NEW c \in Clients,
               CreateBegin(c) \/ CreateSession(c) \/ Upgrade(c) \/ ServeReturns(c)
        PROVE  IInv'
    <2>1. CASE Abort(c)
      <3>1. c \in Procs
        BY DEF Procs
      <3>2. QED
        BY <2>1, <3>1, CloseKeepsInv DEF Abort, Return, Goto, Owning
    <2>2. QED
      BY <1>1, <2>1, ClientQuiet, AllocateDoneKeepsInv, StoreKeepsInv DEF CreateSession
  <1>2. QED
    BY <1>1, ResetFindKeepsInv, DeleteKeepsInv, StorageKeepsInv, HooksKeepInv DEF Next, Shutdown

-----------------------------------------------------------------------------
(* The inductive invariant always holds. *)
THEOREM InvariantHolds == Spec => []IInv
  BY InitInv, StepKeepsInv, PTL DEF Spec

(* Goroutines have a session exactly where they should. *)
THEOREM TypeCorrect == Spec => []TypeOK
  <1>1. IInv => TypeOK
    BY DEF IInv
  <1>2. QED
    BY <1>1, InvariantHolds, PTL

(* The handler, the reset and Shutdown never close a browser twice, and no *)
(* path of CreateSession, DeleteSession or Shutdown forgets one.           *)
THEOREM EachBrowserIsAccounted == Spec => []BrowserAccounted
  <1>1. IInv => ClosedOnce
    <2> SUFFICES ASSUME IInv PROVE ClosedOnce
      OBVIOUS
    <2>1. InHand \cap (stored \cup closers) = {} /\ \A h \in InHand : closes[h] = 0
      BY DEF IInv, Custody, InHand, HeldAt
    <2>2. QED
      BY <2>1 DEF IInv, Custody, ClosedOnce
  <1>2. IInv => NoneLost
    BY DEF IInv, Accounted, Owns, NoneLost, InHand, HeldAt
  <1>3. IInv => BrowserAccounted
    BY <1>1, <1>2 DEF BrowserAccounted
  <1>4. QED
    BY <1>3, InvariantHolds, PTL

(* A stored session has a handler that will delete it. *)
THEOREM SessionHasHandler == Spec => []StoredHasHandler
  <1>1. IInv => StoredHasHandler
    BY DEF IInv
  <1>2. QED
    BY <1>1, InvariantHolds, PTL

-----------------------------------------------------------------------------
(* The refinement.  How the browsers held at some places change when one   *)
(* goroutine moves; owners are distinct, so one that leaves takes its      *)
(* browser along.                                                          *)
LEMMA HeldChanges ==
    ASSUME IInv, NEW p \in Procs, NEW S \in SUBSET Owning,
           \A q \in Procs \ {p} : pc'[q] = pc[q] /\ on'[q] = on[q]
    PROVE  /\ pc[p] \in S /\ pc'[p] \notin S => HeldAt(S)' = HeldAt(S) \ {on[p]}
           /\ pc[p] \notin S /\ pc'[p] \in S => HeldAt(S)' = HeldAt(S) \cup {on'[p]}
           /\ pc[p] \notin S /\ pc'[p] \notin S => HeldAt(S)' = HeldAt(S)
           /\ pc[p] \in S /\ pc'[p] \in S /\ on'[p] = on[p] => HeldAt(S)' = HeldAt(S)
  <1>1. CASE pc[p] \in S /\ pc'[p] \notin S
    <2>1. \A q \in Procs \ {p} : pc[q] \in S => on[q] # on[p]
      BY <1>1 DEF IInv, Custody
    <2>2. HeldAt(S)' = HeldAt(S) \ {on[p]}
      BY <1>1, <2>1 DEF HeldAt
    <2>3. QED
      BY <1>1, <2>2
  <1>2. CASE pc[p] \notin S /\ pc'[p] \in S
    <2>1. HeldAt(S)' = HeldAt(S) \cup {on'[p]}
      BY <1>2 DEF HeldAt
    <2>2. QED
      BY <1>2, <2>1
  <1>3. CASE pc[p] \notin S /\ pc'[p] \notin S
    <2>1. HeldAt(S)' = HeldAt(S)
      BY <1>3 DEF HeldAt
    <2>2. QED
      BY <1>3, <2>1
  <1>4. CASE pc[p] \in S /\ pc'[p] \in S
    <2>1. on'[p] = on[p] => HeldAt(S)' = HeldAt(S)
      BY <1>4 DEF HeldAt
    <2>2. QED
      BY <1>4, <2>1
  <1>5. QED
    BY <1>1, <1>2, <1>3, <1>4

FreshPlaces == {"starting", "storing"}
EndPlaces == {"aborting", "closing"}

LEMMA PlacesOwn == FreshPlaces \subseteq Owning /\ EndPlaces \subseteq Owning
  BY DEF FreshPlaces, EndPlaces, Owning

LEMMA FreshEnded ==
    /\ Fresh = HeldAt(FreshPlaces) /\ Fresh' = HeldAt(FreshPlaces)'
    /\ Ended = closers \cup HeldAt(EndPlaces) /\ Ended' = closers' \cup HeldAt(EndPlaces)'
  BY DEF Fresh, Ended, FreshPlaces, EndPlaces

LEMMA MovesFresh ==
    ASSUME IInv, NEW p \in Procs,
           \A q \in Procs \ {p} : pc'[q] = pc[q] /\ on'[q] = on[q]
    PROVE  /\ pc[p] \in FreshPlaces /\ pc'[p] \notin FreshPlaces => Fresh' = Fresh \ {on[p]}
           /\ pc[p] \notin FreshPlaces /\ pc'[p] \in FreshPlaces => Fresh' = Fresh \cup {on'[p]}
           /\ pc[p] \notin FreshPlaces /\ pc'[p] \notin FreshPlaces => Fresh' = Fresh
           /\ pc[p] \in FreshPlaces /\ pc'[p] \in FreshPlaces /\ on'[p] = on[p] => Fresh' = Fresh
  BY HeldChanges, PlacesOwn, FreshEnded

LEMMA MovesEnded ==
    ASSUME IInv, NEW p \in Procs, closers' = closers,
           \A q \in Procs \ {p} : pc'[q] = pc[q] /\ on'[q] = on[q]
    PROVE  /\ pc[p] \in EndPlaces /\ pc'[p] \notin EndPlaces => Ended' = Ended \ {on[p]}
           /\ pc[p] \notin EndPlaces /\ pc'[p] \in EndPlaces => Ended' = Ended \cup {on'[p]}
           /\ pc[p] \notin EndPlaces /\ pc'[p] \notin EndPlaces => Ended' = Ended
           /\ pc[p] \in EndPlaces /\ pc'[p] \in EndPlaces /\ on'[p] = on[p] => Ended' = Ended
  <1>1. pc[p] \in EndPlaces => on[p] \notin closers
    BY PlacesOwn DEF IInv, Custody
  <1>2. QED
    BY <1>1, HeldChanges, PlacesOwn, FreshEnded

(* One browser is closed, which was not before. *)
LEMMA ClosesOne ==
    ASSUME IInv, NEW h \in opened, NEW trash \in BOOLEAN, CloseBrowser(h, trash)
    PROVE  Closed' = Closed \cup {h}
  <1>1. opened' = opened /\ closes \in [Handles -> Nat] /\ opened \subseteq Handles
    BY DEF CloseBrowser, IInv, TypeOK
  <1>2. closes'[h] = closes[h] + 1 /\ \A k \in opened \ {h} : closes'[k] = closes[k]
    BY <1>1 DEF CloseBrowser
  <1>3. QED
    BY <1>1, <1>2 DEF Closed

LEMMA ClosedStays == UNCHANGED browserVars => Closed' = Closed
  BY DEF browserVars, Closed

(* A step of one goroutine that changes no owner. *)
LEMMA QuietStutters ==
    ASSUME IInv, NEW p \in Procs, NEW place, NEW k,
           pc' = [pc EXCEPT ![p] = place],
           on' = [on EXCEPT ![p] = k],
           pc[p] \in FreshPlaces <=> place \in FreshPlaces,
           pc[p] \in EndPlaces <=> place \in EndPlaces,
           pc[p] \in FreshPlaces \cup EndPlaces => k = on[p],
           UNCHANGED <<stored, storageHook, closers, browserVars>>
    PROVE  UNCHANGED Sessions!vars
  <1>1. /\ pc'[p] = place /\ on'[p] = k
        /\ \A q \in Procs \ {p} : pc'[q] = pc[q] /\ on'[q] = on[q]
    BY DEF IInv, TypeOK
  <1>2. Fresh' = Fresh
    BY <1>1, MovesFresh
  <1>3. Ended' = Ended
    BY <1>1, MovesEnded
  <1>4. QED
    BY <1>2, <1>3, ClosedStays DEF Sessions!vars, Down

(* The owner of an ended session closes its browser. *)
LEMMA CloseIsClose ==
    ASSUME IInv, NEW p \in Procs, NEW place, NEW trash \in BOOLEAN,
           pc[p] \in EndPlaces, place \notin EndPlaces \cup FreshPlaces,
           pc' = [pc EXCEPT ![p] = place],
           on' = [on EXCEPT ![p] = NoHandle],
           CloseBrowser(on[p], trash),
           UNCHANGED <<stored, storageHook, closers>>
    PROVE  Sessions!Close(on[p])
  <1>1. /\ pc'[p] = place /\ on'[p] = NoHandle
        /\ \A q \in Procs \ {p} : pc'[q] = pc[q] /\ on'[q] = on[q]
    BY DEF IInv, TypeOK
  <1>2. pc[p] \notin FreshPlaces
    BY DEF EndPlaces, FreshPlaces
  <1>3. Fresh' = Fresh /\ Ended' = Ended \ {on[p]}
    BY <1>1, <1>2, MovesFresh, MovesEnded
  <1>4. on[p] \in Ended
    BY FreshEnded DEF HeldAt
  <1>5. on[p] \in opened
    BY PlacesOwn, HandlesAssumption DEF IInv, TypeOK
  <1>6. Closed' = Closed \cup {on[p]}
    BY <1>5, ClosesOne
  <1>7. QED
    BY <1>3, <1>4, <1>6 DEF Sessions!Close, Down

LEMMA ClientStutters ==
    ASSUME IInv, NEW c \in Clients,
           \/ CreateBegin(c) \/ AllocateFailed(c) \/ StartDone(c) \/ Upgrade(c)
           \/ ServeReturns(c)
    PROVE  UNCHANGED Sessions!vars
  <1>1. c \in Procs /\ on = [on EXCEPT ![c] = on[c]] /\ on[c] \in Handles \cup {NoHandle}
    BY DEF Procs, IInv, TypeOK
  <1>2. PICK place \in {"idle", "allocating", "storing", "connected", "deleting"},
              k \in Handles \cup {NoHandle} :
          /\ pc' = [pc EXCEPT ![c] = place] /\ on' = [on EXCEPT ![c] = k]
          /\ pc[c] = "starting" <=> place = "storing"
          /\ pc[c] = "starting" => k = on[c]
          /\ pc[c] \in {"idle", "allocating", "starting", "connecting", "connected"}
    BY <1>1 DEF CreateBegin, AllocateFailed, StartDone, Upgrade, ServeReturns, Goto, Return
  <1>3. UNCHANGED <<stored, storageHook, closers, browserVars>>
    BY DEF CreateBegin, AllocateFailed, StartDone, Upgrade, ServeReturns, storageVars
  <1>4. QED
    BY <1>1, <1>2, <1>3, QuietStutters DEF FreshPlaces, EndPlaces

LEMMA CreateRefines ==
    ASSUME IInv, NEW c \in Clients, CreateSession(c)
    PROVE  [Sessions!Next]_(Sessions!vars)
  <1> USE DEF Goto, FreshPlaces, EndPlaces
  <1>1. c \in Procs
    BY DEF Procs
  <1>2. ASSUME NEW h \in Handles, AllocateDone(c, h)
        PROVE  Sessions!Create(h)
    <2>1. /\ pc[c] = "allocating" /\ pc'[c] = "starting" /\ on'[c] = h
          /\ \A q \in Procs \ {c} : pc'[q] = pc[q] /\ on'[q] = on[q]
          /\ h \notin opened /\ opened' = opened \cup {h}
          /\ UNCHANGED <<storageVars, closes>>
      BY <1>1, <1>2 DEF AllocateDone, IInv, TypeOK
    <2>2. Fresh' = Fresh \cup {h} /\ Ended' = Ended
      BY <1>1, <2>1, MovesFresh, MovesEnded DEF storageVars
    <2>3. closes[h] = 0
      BY <2>1 DEF IInv, Custody, TypeOK
    <2>4. Closed' = Closed
      BY <2>1, <2>3 DEF Closed
    <2>5. h \notin Fresh \cup stored \cup Ended \cup Closed
      <3>1. \A q \in Procs : on[q] # h
        BY <2>1, HandlesAssumption DEF IInv, TypeOK
      <3>2. h \notin HeldAt(FreshPlaces) /\ h \notin HeldAt(EndPlaces)
        BY <3>1 DEF HeldAt
      <3>3. QED
        BY <2>1, <3>2, FreshEnded DEF IInv, TypeOK, Closed
    <2>6. QED
      BY <2>1, <2>2, <2>4, <2>5 DEF Sessions!Create, storageVars, Down
  <1>3. ASSUME StartFailed(c) \/ StoreRefused(c)
        PROVE  on[c] \in Handles /\ Sessions!GiveUp(on[c])
    <2>1. /\ pc[c] \in {"starting", "storing"} /\ pc' = [pc EXCEPT ![c] = "aborting"]
          /\ UNCHANGED <<on, storageVars, browserVars>>
      BY <1>3 DEF StartFailed, StoreRefused
    <2>2. pc'[c] = "aborting" /\ \A q \in Procs \ {c} : pc'[q] = pc[q] /\ on'[q] = on[q]
      BY <1>1, <2>1 DEF IInv, TypeOK
    <2>3. Fresh' = Fresh \ {on[c]} /\ Ended' = Ended \cup {on[c]}
      BY <1>1, <2>1, <2>2, MovesFresh, MovesEnded DEF storageVars
    <2>4. on[c] \in Fresh
      BY <1>1, <2>1, FreshEnded DEF HeldAt
    <2>5. on[c] \in Handles
      BY <1>1, <2>1 DEF IInv, TypeOK, Owning
    <2>6. QED
      BY <2>1, <2>3, <2>4, <2>5, ClosedStays DEF Sessions!GiveUp, storageVars, Down
  <1>4. ASSUME Store(c)
        PROVE  on[c] \in Handles /\ Sessions!Store(on[c])
    <2>1. /\ pc[c] = "storing" /\ pc'[c] = "connecting" /\ ~Down
          /\ \A q \in Procs \ {c} : pc'[q] = pc[q] /\ on'[q] = on[q]
          /\ stored' = stored \cup {on[c]} /\ UNCHANGED <<storageHook, closers, browserVars>>
      BY <1>1, <1>4 DEF Store, IInv, TypeOK
    <2>2. Fresh' = Fresh \ {on[c]} /\ Ended' = Ended
      BY <1>1, <2>1, MovesFresh, MovesEnded
    <2>3. on[c] \in Fresh
      BY <1>1, <2>1, FreshEnded DEF HeldAt
    <2>4. on[c] \in Handles
      BY <1>1, <2>1 DEF IInv, TypeOK, Owning
    <2>5. QED
      BY <2>1, <2>2, <2>3, <2>4, ClosedStays DEF Sessions!Store, Down
  <1>5. ASSUME Abort(c)
        PROVE  on[c] \in Handles /\ Sessions!Close(on[c])
    <2>1. on[c] \in Handles
      BY <1>1, <1>5 DEF Abort, Return, IInv, TypeOK, Owning
    <2>2. QED
      BY <1>1, <1>5, <2>1, CloseIsClose DEF Abort, Return, storageVars
  <1>6. QED
    BY <1>2, <1>3, <1>4, <1>5, ClientStutters DEF CreateSession, Sessions!Next

LEMMA DeleteRefines ==
    ASSUME IInv, NEW p \in Procs, DeleteSession(p)
    PROVE  [Sessions!Next]_(Sessions!vars)
  <1> USE DEF FreshPlaces, EndPlaces
  <1>1. ASSUME DeleteLost(p)
        PROVE  UNCHANGED Sessions!vars
    BY <1>1, QuietStutters DEF DeleteLost, Return, Goto, storageVars
  <1>2. ASSUME DeleteWon(p)
        PROVE  on[p] \in Handles /\ Sessions!Take(on[p])
    <2>1. /\ pc[p] = "deleting" /\ pc'[p] = "closing"
          /\ \A q \in Procs \ {p} : pc'[q] = pc[q] /\ on'[q] = on[q]
          /\ on' = on
          /\ on[p] \in stored /\ stored' = stored \ {on[p]}
          /\ UNCHANGED <<storageHook, closers, browserVars>>
      BY <1>2 DEF DeleteWon, Goto, IInv, TypeOK
    <2>2. Fresh' = Fresh /\ Ended' = Ended \cup {on[p]}
      BY <2>1, MovesFresh, MovesEnded
    <2>3. on[p] \in Handles
      BY <2>1 DEF IInv, TypeOK
    <2>4. QED
      BY <2>1, <2>2, <2>3, ClosedStays DEF Sessions!Take, Down
  <1>3. ASSUME FinishDelete(p)
        PROVE  on[p] \in Handles /\ Sessions!Close(on[p])
    <2>1. on[p] \in Handles
      BY <1>3 DEF FinishDelete, Return, Goto, IInv, TypeOK, Owning
    <2>2. QED
      BY <1>3, <2>1, CloseIsClose DEF FinishDelete, Return, Goto, storageVars
  <1>4. QED
    BY <1>1, <1>2, <1>3 DEF DeleteSession, Sessions!Next

LEMMA ResetFindStutters ==
    ASSUME IInv, NEW r \in Resetters, NEW h \in Handles, ResetFind(r, h)
    PROVE  UNCHANGED Sessions!vars
  BY QuietStutters DEF ResetFind, Goto, Procs, FreshPlaces, EndPlaces, storageVars

(* Nobody moves: what is held at any place is what was. *)
LEMMA HeldStays ==
    UNCHANGED <<pc, on>> =>
        Fresh' = Fresh /\ HeldAt(EndPlaces)' = HeldAt(EndPlaces)
  BY DEF Fresh, HeldAt

LEMMA StorageRefines ==
    ASSUME IInv, StorageShutdown \/ \E h \in Handles : StorageCloses(h)
    PROVE  Sessions!Next
  <1> USE DEF procVars
  <1>1. ASSUME StorageShutdown
        PROVE  Sessions!Shutdown
    <2>1. closers = {} /\ ~Down
      BY <1>1 DEF StorageShutdown, IInv, Down
    <2>2. Down' /\ closers' = stored /\ stored' = {} /\ UNCHANGED <<pc, on, browserVars>>
      BY <1>1 DEF StorageShutdown, Down
    <2>3. Fresh' = Fresh /\ Ended' = Ended \cup stored /\ Closed' = Closed
      BY <2>1, <2>2, HeldStays, FreshEnded, ClosedStays
    <2>4. QED
      BY <2>1, <2>2, <2>3 DEF Sessions!Shutdown, Down
  <1>2. ASSUME NEW h \in Handles, StorageCloses(h)
        PROVE  Sessions!Close(h)
    <2>1. /\ h \in closers /\ closers' = closers \ {h} /\ CloseBrowser(h, TRUE)
          /\ UNCHANGED <<stored, storageHook, pc, on>>
      BY <1>2 DEF StorageCloses
    <2>2. h \in opened
      BY <2>1 DEF IInv, TypeOK
    <2>3. h \notin HeldAt(EndPlaces)
      BY <2>1, PlacesOwn DEF IInv, Custody, HeldAt
    <2>4. h \in Ended /\ Ended' = Ended \ {h} /\ Fresh' = Fresh
      BY <2>1, <2>3, HeldStays, FreshEnded
    <2>5. QED
      BY <2>1, <2>2, <2>4, ClosesOne DEF Sessions!Close, Down
  <1>3. QED
    BY <1>1, <1>2 DEF Sessions!Next

LEMMA HooksStutter ==
    ASSUME StorageHookReturns \/ ServerShutdown \/ ServerHookReturns \/ Signal
           \/ HookTimeout \/ Exit \/ UNCHANGED vars
    PROVE  UNCHANGED Sessions!vars
  <1>1. UNCHANGED <<stored, closers, pc, on, browserVars>> /\ Down' = Down
    BY DEF StorageHookReturns, ServerShutdown, ServerHookReturns, Signal, HookTimeout, Exit,
           ExitWith, vars, storageVars, procVars, Down
  <1>2. QED
    BY <1>1, HeldStays, FreshEnded, ClosedStays DEF Sessions!vars

(* The handler, a reset and Shutdown pass each browser on as SessionStore  *)
(* says, whoever comes first: to the storage, to one who ends it, and to   *)
(* its Close.                                                              *)
THEOREM SessionsImplementStore == Spec => ImplementsSessionStore
  <1>1. Init => Sessions!Init
    <2> SUFFICES ASSUME Init PROVE Sessions!Init
      OBVIOUS
    <2>1. Fresh = {} /\ HeldAt(EndPlaces) = {}
      BY DEF Init, Fresh, HeldAt, EndPlaces
    <2>2. QED
      BY <2>1, FreshEnded DEF Init, Sessions!Init, Closed, Down
  <1>2. IInv /\ [Next]_vars => [Sessions!Next]_(Sessions!vars)
    BY ClientStutters, CreateRefines, DeleteRefines, ResetFindStutters, StorageRefines,
       HooksStutter DEF Next, Shutdown
  <1>3. QED
    BY <1>1, <1>2, InvariantHolds, PTL DEF Spec, ImplementsSessionStore, Sessions!Spec

=============================================================================
