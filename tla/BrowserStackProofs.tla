------------------------- MODULE BrowserStackProofs -------------------------
(***************************************************************************)
(* The pool, and the stack of quota and pool, for any number of sessions,  *)
(* goroutines, browsers, units and pending evictions.                      *)
(*                                                                         *)
(* The invariants of BrowserPool are inductive together: a timer that      *)
(* fires late is harmless only because its browser, if it is in the map,   *)
(* has no other owner, and if it is not, is owned by somebody else.  The   *)
(* steps of the stack are steps of the pool, so what is shown of the pool  *)
(* holds of the stack; with what the quota adds, the browsers that are     *)
(* paid for are counted.                                                   *)
(***************************************************************************)
EXTENDS BrowserStack, FiniteSetTheorems, SequenceTheorems, TLAPS

IInv == TypeOK /\ Custody

(* Browsers that somebody will use or close. *)
Owned == InUse \cup idle \cup evicting \cup closers

-----------------------------------------------------------------------------
(* What a user holds, when only one user's browser changes. *)
LEMMA InUseAfter ==
    ASSUME TypeOK, OneOwner, NEW u \in Users, NEW b \in Browsers \cup {NoBrowser},
           held' = [held EXCEPT ![u] = b]
    PROVE  InUse' = (InUse \ {held[u]}) \cup ({b} \ {NoBrowser})
  <1> DEFINE X == (InUse \ {held[u]}) \cup ({b} \ {NoBrowser})
  <1>1. /\ held'[u] = b
        /\ \A v \in Users \ {u} : held'[v] = held[v]
    BY DEF TypeOK
  <1>2. ASSUME NEW c \in InUse'
        PROVE  c \in X
    <2>1. PICK v \in Users : c = held'[v] /\ c # NoBrowser
      BY <1>2 DEF InUse
    <2>2. QED
      BY <1>1, <2>1 DEF InUse, OneOwner
  <1>3. ASSUME NEW c \in X
        PROVE  c \in InUse'
    <2>1. CASE c = b /\ b # NoBrowser
      BY <1>1, <2>1 DEF InUse
    <2>2. CASE c \in InUse \ {held[u]}
      <3>1. PICK v \in Users : c = held[v] /\ c # NoBrowser
        BY <2>2 DEF InUse
      <3>2. v # u
        BY <2>2, <3>1
      <3>3. QED
        BY <1>1, <3>1, <3>2 DEF InUse
    <2>3. QED
      BY <1>3, <2>1, <2>2
  <1>4. QED
    BY <1>2, <1>3

LEMMA InitInv == Init => IInv
  <1> SUFFICES ASSUME Init PROVE IInv
    OBVIOUS
  <1> USE DEF Init
  <1>1. InUse = {} /\ Owned = {}
    BY DEF InUse, Owned
  <1>2. TypeOK
    <2>1. shutdown \in BOOLEAN /\ (shutdown <=> sd # "none")
      BY Zenon
    <2>2. fired \in [Browsers -> 0..MaxFired] /\ closes \in [Browsers -> Nat]
      BY MaxFiredAssumption
    <2>3. /\ pc \in [Users -> Places] /\ held \in [Users -> opened \cup {NoBrowser}]
          /\ \A u \in Users : held[u] # NoBrowser <=> pc[u] \in InHand
      BY DEF Places, InHand
    <2>4. QED
      BY <2>1, <2>2, <2>3 DEF TypeOK
  <1>3. Custody
    BY <1>1 DEF Custody, OneOwner, OwnedIsOpen, NoneLost, IdleHasTimer
  <1>4. QED
    BY <1>2, <1>3 DEF IInv

(* Steps that only move a goroutine: nothing changes owner. *)
LEMMA MoveKeepsInv ==
    ASSUME IInv, NEW u \in Users, NEW to \in Places,
           pc' = [pc EXCEPT ![u] = to], pc[u] \in InHand <=> to \in InHand,
           UNCHANGED <<poolVars, held, browserVars>>
    PROVE  IInv'
  <1> USE DEF IInv, poolVars, browserVars
  <1>1. TypeOK'
    BY DEF TypeOK
  <1>2. InUse' = InUse
    BY DEF InUse
  <1>3. Custody'
    BY <1>2 DEF Custody, OneOwner, OwnedIsOpen, NoneLost, IdleHasTimer
  <1>4. QED
    BY <1>1, <1>3

LEMMA PopIdleKeepsInv ==
    ASSUME IInv, NEW u \in Users, NEW b \in Browsers, PopIdle(u, b)
    PROVE  IInv'
  <1> USE DEF IInv, browserVars
  <1>1. held[u] = NoBrowser /\ NoBrowser \notin Browsers /\ b \in opened
    BY BrowsersAssumption DEF PopIdle, TypeOK, InHand
  <1>2. InUse' = InUse \cup {b}
    <2>1. /\ held' = [held EXCEPT ![u] = b] /\ TypeOK /\ OneOwner
          /\ NoBrowser \notin InUse /\ b # NoBrowser
      BY <1>1 DEF PopIdle, Custody, InUse
    <2>2. InUse' = (InUse \ {held[u]}) \cup ({b} \ {NoBrowser})
      BY <2>1, InUseAfter
    <2>3. QED
      BY <1>1, <2>1, <2>2
  <1>3. TypeOK'
    BY <1>1 DEF PopIdle, TypeOK, Places, InHand
  <1>4. OneOwner'
    BY <1>1, <1>2 DEF PopIdle, TypeOK, Custody, OneOwner, InUse
  <1>5. OwnedIsOpen' /\ NoneLost' /\ IdleHasTimer'
    BY <1>2 DEF PopIdle, Custody, OneOwner, OwnedIsOpen, NoneLost, IdleHasTimer, TypeOK
  <1>6. QED
    BY <1>3, <1>4, <1>5 DEF Custody

LEMMA AllocateDoneKeepsInv ==
    ASSUME IInv, NEW u \in Users, NEW b \in Browsers, AllocateDone(u, b)
    PROVE  IInv'
  <1> USE DEF IInv, poolVars
  <1>1. held[u] = NoBrowser /\ NoBrowser \notin Browsers /\ b \notin opened
    BY BrowsersAssumption DEF AllocateDone, TypeOK, InHand
  <1>2. InUse' = InUse \cup {b} /\ InUse \subseteq opened
    BY <1>1, InUseAfter DEF AllocateDone, Custody, InUse, TypeOK
  <1>3. TypeOK'
    BY <1>1 DEF AllocateDone, TypeOK, Places, InHand
  <1>4. OneOwner'
    BY <1>1, <1>2 DEF AllocateDone, TypeOK, Custody, OneOwner, InUse
  <1>5. OwnedIsOpen' /\ NoneLost' /\ IdleHasTimer'
    BY <1>1, <1>2 DEF AllocateDone, Custody, OwnedIsOpen, NoneLost, IdleHasTimer, TypeOK
  <1>6. QED
    BY <1>3, <1>4, <1>5 DEF Custody

LEMMA DropKeepsInv ==
    ASSUME IInv, NEW u \in Users, Drop(u)
    PROVE  IInv'
  <1> USE DEF IInv, poolVars
  <1> DEFINE b == held[u]
  <1>1. /\ b \in InUse /\ b \in opened /\ b \in Browsers
        /\ closes[b] = 0 /\ closes' = [closes EXCEPT ![b] = 1]
    <2>1. b \in InUse /\ b \in opened /\ b \in Browsers
      BY DEF Drop, TypeOK, InHand, InUse
    <2>2. closes[b] = 0
      BY <2>1 DEF Custody, OwnedIsOpen
    <2>3. QED
      BY <2>1, <2>2 DEF Drop, CloseBrowser
  <1>2. InUse' = InUse \ {b}
    <2>1. held' = [held EXCEPT ![u] = NoBrowser] /\ TypeOK /\ OneOwner
      BY DEF Drop, Custody
    <2>2. InUse' = (InUse \ {held[u]}) \cup ({NoBrowser} \ {NoBrowser})
      BY <2>1, InUseAfter
    <2>3. QED
      BY <2>2
  <1>3. TypeOK'
    BY <1>1 DEF Drop, TypeOK, Places, InHand
  <1>4. OneOwner'
    BY <1>1, <1>2 DEF Drop, TypeOK, Custody, OneOwner
  <1>5. OwnedIsOpen'
    BY <1>1, <1>2 DEF Drop, TypeOK, Custody, OneOwner, OwnedIsOpen
  <1>6. NoneLost' /\ IdleHasTimer'
    <2>1. \A c \in Browsers \ {b} : closes'[c] = closes[c]
      BY <1>1 DEF TypeOK
    <2>2. QED
      BY <1>1, <1>2, <2>1 DEF Drop, TypeOK, Custody, NoneLost, IdleHasTimer
  <1>7. QED
    BY <1>3, <1>4, <1>5, <1>6 DEF Custody

LEMMA PushIdleKeepsInv ==
    ASSUME IInv, NEW u \in Users, PushIdle(u)
    PROVE  IInv'
  <1> USE DEF IInv, browserVars
  <1> DEFINE b == held[u]
  <1>1. /\ b \in InUse /\ b \in opened /\ b \in Browsers
        /\ idle' = idle \cup {b} /\ armed' = armed \cup {b}
    BY DEF PushIdle, TypeOK, InHand, InUse
  <1>2. InUse' = InUse \ {b}
    <2>1. held' = [held EXCEPT ![u] = NoBrowser] /\ TypeOK /\ OneOwner
      BY DEF PushIdle, Custody
    <2>2. InUse' = (InUse \ {held[u]}) \cup ({NoBrowser} \ {NoBrowser})
      BY <2>1, InUseAfter
    <2>3. QED
      BY <2>2
  <1>3. TypeOK'
    BY <1>1 DEF PushIdle, TypeOK, Places, InHand
  <1>4. OneOwner'
    BY <1>1, <1>2 DEF PushIdle, TypeOK, Custody, OneOwner
  <1>5. OwnedIsOpen' /\ NoneLost' /\ IdleHasTimer'
    BY <1>1, <1>2 DEF PushIdle, Custody, OwnedIsOpen, NoneLost, IdleHasTimer
  <1>6. QED
    BY <1>3, <1>4, <1>5 DEF Custody

LEMMA TimerFiresKeepsInv ==
    ASSUME IInv, NEW b \in Browsers, TimerFires(b)
    PROVE  IInv'
  <1> USE DEF IInv, userVars, browserVars, TimerFires
  <1>1. InUse' = InUse
    BY DEF InUse
  <1>2. TypeOK'
    BY MaxFiredAssumption DEF TypeOK
  <1>3. IdleHasTimer'
    BY MaxFiredAssumption DEF Custody, IdleHasTimer, TypeOK
  <1>4. QED
    BY <1>1, <1>2, <1>3 DEF Custody, OneOwner, OwnedIsOpen, NoneLost

(* The late timer: it moves its browser only if the browser is idle. *)
LEMMA EvictIdleKeepsInv ==
    ASSUME IInv, NEW b \in Browsers, EvictIdle(b)
    PROVE  IInv'
  <1> USE DEF IInv, userVars, browserVars, EvictIdle
  <1>1. InUse' = InUse
    BY DEF InUse
  <1>2. TypeOK'
    BY MaxFiredAssumption DEF TypeOK
  <1>3. OneOwner'
    BY <1>1 DEF Custody, OneOwner
  <1>4. OwnedIsOpen' /\ NoneLost'
    BY <1>1 DEF Custody, OwnedIsOpen, NoneLost
  <1>5. IdleHasTimer'
    BY DEF Custody, IdleHasTimer, TypeOK
  <1>6. QED
    BY <1>2, <1>3, <1>4, <1>5 DEF Custody

(* The close after an eviction and the one in Shutdown, which differ only  *)
(* in the set the browser comes from.                                      *)
LEMMA CloseKeepsInv ==
    ASSUME IInv, NEW b \in Browsers, EvictClose(b) \/ ShutdownClose(b)
    PROVE  IInv'
  <1> USE DEF IInv, userVars, EvictClose, ShutdownClose
  <1>1. InUse' = InUse
    BY DEF InUse
  <1>2. /\ b \in opened /\ closes[b] = 0 /\ closes' = [closes EXCEPT ![b] = 1]
        /\ b \notin InUse \cup idle
        /\ (evicting' \cup closers') = (evicting \cup closers) \ {b}
        /\ evicting' \subseteq evicting /\ closers' \subseteq closers
        /\ UNCHANGED <<idle, shutdown, armed, fired, sd, pc, held, opened, aged>>
    BY DEF CloseBrowser, Custody, OneOwner, OwnedIsOpen, TypeOK
  <1> HIDE DEF EvictClose, ShutdownClose
  <1>3. TypeOK'
    BY <1>2 DEF TypeOK
  <1>4. OneOwner'
    BY <1>1, <1>2 DEF Custody, OneOwner
  <1>5. OwnedIsOpen' /\ NoneLost'
    BY <1>1, <1>2 DEF Custody, OwnedIsOpen, NoneLost, TypeOK
  <1>6. IdleHasTimer'
    BY <1>2 DEF Custody, IdleHasTimer
  <1>7. QED
    BY <1>3, <1>4, <1>5, <1>6 DEF Custody

LEMMA ShutdownKeepsInv ==
    ASSUME IInv, Shutdown
    PROVE  IInv'
  <1> USE DEF IInv, userVars, browserVars
  <1>1. InUse' = InUse
    BY DEF InUse, Shutdown, ShutdownBegin, ShutdownReturns, ShutdownTimesOut
  <1>2. CASE ShutdownBegin
    <2>1. TypeOK'
      BY <1>2 DEF ShutdownBegin, TypeOK
    <2>2. closers = {}
      BY <1>2 DEF ShutdownBegin, TypeOK
    <2>3. QED
      BY <1>1, <1>2, <2>1, <2>2
         DEF ShutdownBegin, Custody, OneOwner, OwnedIsOpen, NoneLost, IdleHasTimer
  <1>3. CASE ShutdownReturns \/ ShutdownTimesOut
    <2>1. TypeOK'
      BY <1>3 DEF ShutdownReturns, ShutdownTimesOut, TypeOK
    <2>2. QED
      BY <1>1, <1>3, <2>1 DEF ShutdownReturns, ShutdownTimesOut, Custody, OneOwner,
                              OwnedIsOpen, NoneLost, IdleHasTimer
  <1>4. QED
    BY <1>2, <1>3 DEF Shutdown

LEMMA GrowOldKeepsInv ==
    ASSUME IInv, NEW b \in Browsers, GrowOld(b)
    PROVE  IInv'
  <1> USE DEF IInv, userVars, poolVars, GrowOld
  <1>1. InUse' = InUse
    BY DEF InUse
  <1>2. TypeOK'
    BY DEF TypeOK
  <1>3. QED
    BY <1>1, <1>2 DEF Custody, OneOwner, OwnedIsOpen, NoneLost, IdleHasTimer

(* One step per action of Next. *)
LEMMA StepKeepsInv == IInv /\ [Next]_vars => IInv'
  <1> SUFFICES ASSUME IInv, [Next]_vars PROVE IInv'
    OBVIOUS
  <1>1. ASSUME NEW u \in Users,
               PopShutdown(u) \/ PopNothing(u) \/ AllocateFailed(u) \/ NextRequest(u)
        PROVE  IInv'
    <2>1. PICK to \in {"failed", "allocating", "out"} :
            /\ pc' = [pc EXCEPT ![u] = to] /\ pc[u] \in {"out", "allocating", "failed"}
            /\ UNCHANGED <<poolVars, held, browserVars>>
      BY <1>1 DEF PopShutdown, PopNothing, AllocateFailed, NextRequest
    <2>2. to \in Places /\ pc[u] \notin InHand /\ to \notin InHand
      BY <2>1 DEF Places, InHand
    <2>3. QED
      BY <2>1, <2>2, MoveKeepsInv
  <1>2. ASSUME NEW u \in Users, Trash(u) \/ Checkin(u)
        PROVE  IInv'
    <2>1. PICK to \in {"dropping", "pushing"} :
            /\ pc' = [pc EXCEPT ![u] = to] /\ pc[u] = "using"
            /\ UNCHANGED <<poolVars, held, browserVars>>
      BY <1>2 DEF Trash, Checkin
    <2>2. to \in Places /\ pc[u] \in InHand /\ to \in InHand
      BY <2>1 DEF Places, InHand
    <2>3. QED
      BY <2>1, <2>2, MoveKeepsInv
  <1>3. ASSUME NEW u \in Users, NEW b \in Browsers, PopIdle(u, b) \/ AllocateDone(u, b)
        PROVE  IInv'
    BY <1>3, PopIdleKeepsInv, AllocateDoneKeepsInv
  <1>4. ASSUME NEW u \in Users, Drop(u) \/ PushIdle(u)
        PROVE  IInv'
    BY <1>4, DropKeepsInv, PushIdleKeepsInv
  <1>5. ASSUME NEW b \in Browsers, Timers(b) \/ ShutdownClose(b) \/ GrowOld(b)
        PROVE  IInv'
    BY <1>5, TimerFiresKeepsInv, EvictIdleKeepsInv, CloseKeepsInv, GrowOldKeepsInv
       DEF Timers
  <1>6. CASE Shutdown
    BY <1>6, ShutdownKeepsInv
  <1>7. CASE UNCHANGED vars
    BY <1>7 DEF vars, poolVars, userVars, browserVars, IInv, Custody, TypeOK, OneOwner,
                OwnedIsOpen, NoneLost, IdleHasTimer, InUse
  <1>8. QED
    BY <1>1, <1>2, <1>3, <1>4, <1>5, <1>6, <1>7
       DEF Next, Checkout, AllocateReturns, Return

-----------------------------------------------------------------------------
(* The inductive invariant of the pool. *)
THEOREM InvariantHolds == Spec => []IInv
  BY InitInv, StepKeepsInv, PTL DEF Spec

(* Every part of the pool keeps its type. *)
THEOREM TypeCorrect == Spec => []TypeOK
  <1>1. IInv => TypeOK
    BY DEF IInv
  <1>2. QED
    BY <1>1, InvariantHolds, PTL

(* However checkouts, check-ins, timers that fire late and Shutdown cross, *)
(* a browser has one owner; while it has, it is open, and it is closed     *)
(* once; none is dropped without being closed, and an idle one always has  *)
(* a timer, armed or fired, that will evict it.                            *)
THEOREM BrowsersInCustody == Spec => []Custody
  <1>1. IInv => Custody
    BY DEF IInv
  <1>2. QED
    BY <1>1, InvariantHolds, PTL
-----------------------------------------------------------------------------
(* The stack *)
(* A goroutine that allocates, or has failed to, still has its unit. *)
UnitsHeld ==
    /\ owners \subseteq Users
    /\ Cardinality(owners) <= Limit
    /\ line \in Seq(Users)
    /\ \A u \in Users : pc[u] \in {"allocating", "failed"} => u \in owners

-----------------------------------------------------------------------------
(* A step of the stack is a step of the pool, or does not touch it. *)
LEMMA StepOfPool == [StackNext]_stackVars => [Next]_vars
  <1> SUFFICES ASSUME [StackNext]_stackVars PROVE [Next]_vars
    OBVIOUS
  <1>1. CASE UNCHANGED stackVars
    BY <1>1 DEF stackVars
  <1>2. ASSUME NEW u \in Users, Reserve(u) \/ ReserveFails(u) \/ CloseReleases(u)
        PROVE  UNCHANGED vars
    BY <1>2 DEF Reserve, ReserveFails, CloseReleases
  <1>3. ASSUME NEW u \in Users, Allocates(u) \/ CloseBrowserOf(u)
        PROVE  Checkout(u) \/ AllocateReturns(u) \/ NextRequest(u) \/ Return(u)
    BY <1>3 DEF Allocates, AllocateBrowser, AllocateFails, CloseBrowserOf
  <1>4. CASE PoolWorks
    BY <1>4 DEF PoolWorks, Next
  <1>5. QED
    BY <1>1, <1>2, <1>3, <1>4 DEF StackNext, Closes, Next

LEMMA StackInvariant == StackSpec => []IInv
  <1>1. StackInit => Init
    BY DEF StackInit
  <1>2. QED
    BY <1>1, InitInv, StepOfPool, StepKeepsInv, PTL DEF StackSpec

(* Passing a unit on, or returning it, keeps the number of units. *)
LEMMA ReleaseKeepsUnits ==
    ASSUME UnitsHeld, NEW u \in Users, Release(u)
    PROVE  /\ owners' \subseteq Users
           /\ Cardinality(owners') <= Limit
           /\ line' \in Seq(Users)
           /\ owners \ {u} \subseteq owners'
  <1> USE UsersAssumption, LimitAssumption
  <1>1. IsFiniteSet(owners) /\ Cardinality(owners) \in Nat /\ u \in owners
    BY FS_Subset, FS_CardinalityType
       DEF UnitsHeld, Release, Quota!PassOn, Quota!Return
  <1>2. /\ IsFiniteSet(owners \ {u})
        /\ Cardinality(owners \ {u}) = Cardinality(owners) - 1
    BY <1>1, FS_RemoveElement
  <1>3. CASE Quota!PassOn(u)
    <2>1. Head(line) \in Users /\ Tail(line) \in Seq(Users)
      BY <1>3, HeadTailProperties DEF UnitsHeld, Quota!PassOn
    <2>2. Cardinality((owners \ {u}) \cup {Head(line)}) <= Cardinality(owners)
      <3> DEFINE rest == owners \ {u}
      <3>1. Cardinality(rest \cup {Head(line)})
              = IF Head(line) \in rest THEN Cardinality(rest) ELSE Cardinality(rest) + 1
        BY <1>2, FS_AddElement
      <3>2. QED
        BY <1>1, <1>2, <3>1
    <2>3. /\ owners' = (owners \ {u}) \cup {Head(line)} /\ line' = Tail(line)
          /\ owners \subseteq Users /\ Cardinality(owners) <= Limit
      BY <1>3 DEF UnitsHeld, Quota!PassOn
    <2>4. Cardinality(owners') \in Nat
      BY <1>2, <2>3, FS_AddElement, FS_CardinalityType
    <2>5. QED
      BY <1>1, <2>1, <2>2, <2>3, <2>4
  <1>4. CASE Quota!Return(u)
    BY <1>1, <1>2, <1>4 DEF UnitsHeld, Quota!Return
  <1>5. QED
    BY <1>3, <1>4 DEF Release

(* Reserve: a unit is there, or the line grows. *)
LEMMA ReserveKeepsUnits ==
    ASSUME UnitsHeld, NEW u \in Users, Reserve(u)
    PROVE  UnitsHeld'
  <1> USE UsersAssumption, LimitAssumption
  <1>1. IsFiniteSet(owners) /\ Cardinality(owners) \in Nat
    BY FS_Subset, FS_CardinalityType DEF UnitsHeld
  <1>2. pc' = pc
    BY DEF Reserve, vars, userVars
  <1>3. CASE Quota!Acquire(u)
    <2>1. /\ owners' = owners \cup {u} /\ line' = line
          /\ Cardinality(owners) < Limit
      BY <1>1, <1>3 DEF Quota!Acquire, Quota!Full, Quota!Cardinality, Cardinality
    <2>2. /\ Cardinality(owners') <= Cardinality(owners) + 1
          /\ Cardinality(owners') \in Nat
      <3>1. Cardinality(owners \cup {u})
              = IF u \in owners THEN Cardinality(owners) ELSE Cardinality(owners) + 1
        BY <1>1, FS_AddElement
      <3>2. QED
        BY <1>1, <2>1, <3>1
    <2>3. Cardinality(owners') <= Limit
      BY <1>1, <2>1, <2>2
    <2>4. QED
      BY <1>2, <2>1, <2>3 DEF UnitsHeld
  <1>4. CASE Quota!Join(u)
    <2>1. owners' = owners /\ line' \in Seq(Users)
      BY <1>4, AppendProperties DEF UnitsHeld, Quota!Join
    <2>2. QED
      BY <1>2, <2>1 DEF UnitsHeld
  <1>5. QED
    BY <1>3, <1>4 DEF Reserve

(* Leaving the line by the timeout. *)
LEMMA ReserveFailsKeepsUnits ==
    ASSUME UnitsHeld, NEW u \in Users, ReserveFails(u)
    PROVE  UnitsHeld'
  <1>1. PICK i \in DOMAIN line : Quota!GiveUp(i)
    BY DEF ReserveFails
  <1>2. i \in 1..Len(line) /\ line \in Seq(Users)
    BY <1>1 DEF UnitsHeld
  <1>3. SubSeq(line, 1, i - 1) \in Seq(Users) /\ SubSeq(line, i + 1, Len(line)) \in Seq(Users)
    BY <1>2, SubSeqProperties
  <1>4. line' = SubSeq(line, 1, i - 1) \o SubSeq(line, i + 1, Len(line)) /\ owners' = owners
    BY <1>1 DEF Quota!GiveUp, Quota!RemoveAt
  <1>5. line' \in Seq(Users)
    BY <1>3, <1>4, ConcatProperties
  <1>6. QED
    BY <1>4, <1>5 DEF ReserveFails, vars, userVars, UnitsHeld

(* Checking out moves a goroutine that has its unit, or ends in "using". *)
LEMMA AllocateKeepsUnits ==
    ASSUME IInv, UnitsHeld, NEW u \in Users, AllocateBrowser(u)
    PROVE  UnitsHeld'
  <1>1. u \in owners /\ owners' = owners /\ line' = line
    BY DEF AllocateBrowser, quotaVars
  <1>2. \A v \in Users \ {u} : pc'[v] = pc[v]
    BY DEF AllocateBrowser, Checkout, AllocateReturns, PopShutdown, PopIdle, PopNothing,
           AllocateDone, AllocateFailed, IInv, TypeOK
  <1>3. QED
    BY <1>1, <1>2 DEF UnitsHeld

(* A failed allocation gives the unit back and stands outside again. *)
LEMMA FailureKeepsUnits ==
    ASSUME IInv, UnitsHeld, NEW u \in Users, AllocateFails(u)
    PROVE  UnitsHeld'
  <1>1. pc' = [pc EXCEPT ![u] = "out"] /\ pc \in [Users -> Places]
    BY DEF AllocateFails, NextRequest, IInv, TypeOK
  <1>2. \A v \in Users : pc'[v] = IF v = u THEN "out" ELSE pc[v]
    BY <1>1
  <1>3. QED
    BY <1>2, ReleaseKeepsUnits DEF AllocateFails, UnitsHeld

(* Closing: first the unit of a session, then the browser without one. *)
LEMMA CloseKeepsUnits ==
    ASSUME IInv, UnitsHeld, NEW u \in Users, Closes(u)
    PROVE  UnitsHeld'
  <1>1. CASE CloseReleases(u)
    <2>1. pc' = pc /\ pc[u] = "using"
      BY <1>1 DEF CloseReleases, vars, userVars
    <2>2. Release(u)
      BY <1>1 DEF CloseReleases
    <2>3. QED
      BY <2>1, <2>2, ReleaseKeepsUnits DEF UnitsHeld
  <1>2. CASE CloseBrowserOf(u)
    <2>1. owners' = owners /\ line' = line
      BY <1>2 DEF CloseBrowserOf, quotaVars
    <2>2. \A v \in Users : pc'[v] = pc[v] \/ pc'[v] \in {"dropping", "pushing", "out"}
      BY <1>2 DEF CloseBrowserOf, Return, Trash, Checkin, Drop, PushIdle, IInv, TypeOK
    <2>3. QED
      BY <2>1, <2>2 DEF UnitsHeld
  <1>3. QED
    BY <1>1, <1>2 DEF Closes

LEMMA StepKeepsUnits == IInv /\ UnitsHeld /\ [StackNext]_stackVars => UnitsHeld'
  <1> SUFFICES ASSUME IInv, UnitsHeld, [StackNext]_stackVars PROVE UnitsHeld'
    OBVIOUS
  <1>1. CASE PoolWorks
    <2>1. UNCHANGED <<pc, quotaVars>>
      BY <1>1 DEF PoolWorks, Timers, TimerFires, EvictIdle, EvictClose, ShutdownClose,
                  GrowOld, Shutdown, ShutdownBegin, ShutdownReturns, ShutdownTimesOut,
                  userVars
    <2>2. QED
      BY <2>1 DEF UnitsHeld, quotaVars
  <1>2. CASE UNCHANGED stackVars
    BY <1>2 DEF stackVars, quotaVars, vars, userVars, UnitsHeld
  <1>3. QED
    BY <1>1, <1>2, ReserveKeepsUnits, ReserveFailsKeepsUnits, AllocateKeepsUnits,
       FailureKeepsUnits, CloseKeepsUnits DEF StackNext, Allocates

LEMMA InitUnits == StackInit => UnitsHeld
  <1>1. Cardinality({}) = 0
    BY FS_EmptySet
  <1>2. QED
    BY <1>1, LimitAssumption DEF StackInit, Init, Quota!Init, UnitsHeld

-----------------------------------------------------------------------------
(* A browser that runs, and is neither idle nor on its way out, is with a  *)
(* goroutine that has a unit; no goroutine has a unit for two.             *)
LEMMA UnitsCount ==
    ASSUME IInv, UnitsHeld
    PROVE  PaidWithinLimit
  <1> USE UsersAssumption, LimitAssumption
  <1> DEFINE holders == {u \in owners : held[u] # NoBrowser}
             paid == Running \ Unpaid
             f == [u \in holders |-> held[u]]
  <1>1. /\ IsFiniteSet(owners) /\ Cardinality(owners) \in Nat
        /\ IsFiniteSet(holders) /\ IsFiniteSet(Starting)
        /\ Cardinality(holders) \in Nat /\ Cardinality(Starting) \in Nat
    BY FS_Subset, FS_CardinalityType DEF UnitsHeld, Starting
  <1>2. ASSUME NEW b \in paid
        PROVE  \E u \in holders : b = f[u]
    <2>1. PICK u \in Users : b = held[u] /\ b # NoBrowser
      BY <1>2 DEF Running, Unpaid, IInv, Custody, NoneLost, InUse
    <2>2. u \in owners
      BY <1>2, <2>1 DEF Unpaid, Returning
    <2>3. QED
      BY <2>1, <2>2
  <1>3. IsFiniteSet(paid) /\ Cardinality(paid) <= Cardinality(holders)
    <2>1. /\ IsFiniteSet({held[u] : u \in holders})
          /\ Cardinality({held[u] : u \in holders}) <= Cardinality(holders)
      <3> DEFINE image == {held[u] : u \in holders}
      <3>1. f \in Surjection(holders, image)
        BY DEF Surjection
      <3> HIDE DEF image, f, holders
      <3>2. IsFiniteSet(image) /\ Cardinality(image) <= Cardinality(holders)
        BY <1>1, <3>1, FS_Surjection
      <3>3. QED
        BY <3>2 DEF image
    <2>2. paid \subseteq {held[u] : u \in holders}
      BY <1>2
    <2>3. Cardinality({held[u] : u \in holders}) \in Nat
      BY <2>1, FS_CardinalityType
    <2>4. IsFiniteSet(paid) /\ Cardinality(paid) <= Cardinality({held[u] : u \in holders})
      BY <2>1, <2>2, FS_Subset, Zenon
    <2>5. Cardinality(paid) \in Nat
      BY <2>4, FS_CardinalityType
    <2>6. QED
      BY <1>1, <2>1, <2>3, <2>4, <2>5
  <1>4. Starting \subseteq owners /\ holders \cap Starting = {}
    BY DEF Starting, UnitsHeld, IInv, TypeOK, InHand
  <1>5. Cardinality(holders) + Cardinality(Starting) <= Cardinality(owners)
    <2>1. Cardinality(holders \cup Starting)
            = Cardinality(holders) + Cardinality(Starting) - Cardinality({})
      BY <1>1, <1>4, FS_Union, Zenon
    <2>2. Cardinality(holders \cup Starting) <= Cardinality(owners)
      BY <1>1, <1>4, FS_Subset
    <2>3. QED
      BY <1>1, <2>1, <2>2, FS_EmptySet
  <1>6. Cardinality(paid) \in Nat
    BY <1>3, FS_CardinalityType
  <1>7. Cardinality(paid) + Cardinality(Starting) <= Limit
    BY <1>1, <1>3, <1>5, <1>6 DEF UnitsHeld
  <1>8. QED
    BY <1>7 DEF PaidWithinLimit

(* What was proved of the pool alone holds under the quota. *)
THEOREM StackKeepsCustody == StackSpec => []Custody
  <1>1. IInv => Custody
    BY DEF IInv
  <1>2. QED
    BY <1>1, StackInvariant, PTL

(* The limit bounds the browsers that run, leaving out those that the code *)
(* has stopped to count: idle, being returned, or being closed.            *)
THEOREM LimitBoundsPaidBrowsers == StackSpec => []PaidWithinLimit
  <1>1. StackSpec => []UnitsHeld
    BY InitUnits, StepKeepsUnits, StackInvariant, PTL DEF StackSpec
  <1>2. IInv /\ UnitsHeld => PaidWithinLimit
    BY UnitsCount
  <1>3. QED
    BY <1>1, <1>2, StackInvariant, PTL

=============================================================================
