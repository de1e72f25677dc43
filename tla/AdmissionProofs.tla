--------------------------- MODULE AdmissionProofs ---------------------------
(***************************************************************************)
(* What a request for a browser passes before it comes to a pool, each     *)
(* proved for any number of goroutines: the quota of sessions, with any    *)
(* limit and any size of its queue, and the map of pools, with any number  *)
(* of kinds of browser.  They share no state, and neither calls the other: *)
(* these are two state machines, each with an invariant of its own.        *)
(*                                                                         *)
(* The inductive invariant of the quota is the conjunction of the named    *)
(* invariants of LimitQuota: the counter can only be bounded through the   *)
(* number of owners, and the owners only through what stands in the queue. *)
(* That of the map adds to the properties of PoolManager what Shutdown     *)
(* relies on: while it holds the mutex, the pools it has yet to shut down  *)
(* and those it has shut down are all there are.                           *)
(***************************************************************************)
EXTENDS LimitQuota, PoolManager, FiniteSetTheorems, SequenceTheorems, TLAPS

-----------------------------------------------------------------------------
(* The quota                                                               *)
IInv ==
    /\ TypeOK
    /\ QuotaConserved
    /\ LimitRespected
    /\ QueueIsWaiters
    /\ NobodyWaitsForFreeUnit

-----------------------------------------------------------------------------
(* list.Remove takes one element out and keeps the order of the others. *)
LEMMA RemoveAtProperties ==
    ASSUME NEW S, NEW q \in Seq(S), NEW i \in 1..Len(q)
    PROVE  /\ RemoveAt(q, i) \in Seq(S)
           /\ Len(RemoveAt(q, i)) = Len(q) - 1
           /\ \A j \in 1..(Len(q) - 1) :
                RemoveAt(q, i)[j] = IF j < i THEN q[j] ELSE q[j + 1]
  <1> DEFINE front == SubSeq(q, 1, i - 1)
             back == SubSeq(q, i + 1, Len(q))
  <1>1. /\ front \in Seq(S)
        /\ Len(front) = i - 1
        /\ \A j \in 1..(i - 1) : front[j] = q[j]
    BY SubSeqProperties, ElementOfSeq
  <1>2. /\ back \in Seq(S)
        /\ Len(back) = Len(q) - i
        /\ \A j \in 1..(Len(q) - i) : back[j] = q[i + j]
    BY SubSeqProperties, ElementOfSeq
  <1> HIDE DEF front, back
  <1>3. /\ front \o back \in Seq(S)
        /\ Len(front \o back) = Len(q) - 1
        /\ \A j \in 1..(Len(q) - 1) :
             (front \o back)[j] = IF j <= i - 1 THEN front[j] ELSE back[j - (i - 1)]
    BY <1>1, <1>2, ConcatProperties
  <1>4. RemoveAt(q, i) = front \o back
    BY DEF RemoveAt, front, back
  <1>5. ASSUME NEW j \in 1..(Len(q) - 1)
        PROVE  (front \o back)[j] = IF j < i THEN q[j] ELSE q[j + 1]
    <2>1. CASE j < i
      BY <2>1, <1>1, <1>3
    <2>2. CASE ~(j < i)
      <3>1. j - (i - 1) \in 1..(Len(q) - i) /\ i + (j - (i - 1)) = j + 1
        BY <2>2
      <3>2. QED
        BY <2>2, <3>1, <1>2, <1>3
    <2>3. QED
      BY <2>1, <2>2
  <1>6. QED
    BY <1>3, <1>4, <1>5

(* Removing position i of a queue without duplicates removes its element. *)
LEMMA RemoveAtDistinct ==
    ASSUME NEW S, NEW q \in Seq(S), IsInjective(q), NEW i \in 1..Len(q)
    PROVE  /\ IsInjective(RemoveAt(q, i))
           /\ Range(RemoveAt(q, i)) = Range(q) \ {q[i]}
  <1> DEFINE s == RemoveAt(q, i)
  <1>1. /\ s \in Seq(S)
        /\ Len(s) = Len(q) - 1
        /\ \A j \in 1..(Len(q) - 1) : s[j] = IF j < i THEN q[j] ELSE q[j + 1]
    BY RemoveAtProperties
  <1> HIDE DEF s
  <1>2. IsInjective(s)
    <2> SUFFICES ASSUME NEW a \in DOMAIN s, NEW b \in DOMAIN s, s[a] = s[b]
                 PROVE  a = b
      BY DEF IsInjective
    <2> DEFINE at(j) == IF j < i THEN j ELSE j + 1
    <2>1. /\ a \in Nat /\ at(a) \in DOMAIN q /\ s[a] = q[at(a)]
          /\ b \in Nat /\ at(b) \in DOMAIN q /\ s[b] = q[at(b)]
      BY <1>1
    <2>2. at(a) = at(b)
      BY <2>1 DEF IsInjective
    <2>3. QED
      BY <2>1, <2>2
  <1>3. ASSUME NEW j \in 1..Len(s)
        PROVE  s[j] \in Range(q) \ {q[i]}
    <2>1. PICK k \in 1..Len(q) : k # i /\ s[j] = q[k]
      BY <1>1
    <2>2. QED
      BY <2>1 DEF Range, IsInjective
  <1>4. ASSUME NEW k \in 1..Len(q), k # i
        PROVE  q[k] \in Range(s)
    <2>1. CASE k < i
      BY <2>1, <1>1 DEF Range
    <2>2. CASE k > i
      <3>1. k - 1 \in 1..Len(s) /\ s[k - 1] = q[k]
        BY <2>2, <1>1
      <3>2. QED
        BY <3>1, <1>1 DEF Range
    <2>3. QED
      BY <2>1, <2>2, <1>4
  <1>5. Range(s) = Range(q) \ {q[i]}
    <2>1. DOMAIN s = 1..Len(s) /\ DOMAIN q = 1..Len(q)
      BY <1>1
    <2>2. ASSUME NEW e \in Range(s) PROVE e \in Range(q) \ {q[i]}
      <3>1. PICK j \in 1..Len(s) : e = s[j]
        BY <2>1 DEF Range
      <3>2. QED
        BY <3>1, <1>3
    <2>3. ASSUME NEW e \in Range(q) \ {q[i]} PROVE e \in Range(s)
      <3>1. PICK k \in 1..Len(q) : e = q[k] /\ k # i
        BY <2>1 DEF Range
      <3>2. QED
        BY <3>1, <1>4
    <2>4. QED
      BY <2>2, <2>3
  <1>6. QED
    BY <1>2, <1>5 DEF s

(* A newcomer at the back of a queue without duplicates. *)
LEMMA AppendDistinct ==
    ASSUME NEW S, NEW q \in Seq(S), IsInjective(q), NEW e \in S, e \notin Range(q)
    PROVE  /\ IsInjective(Append(q, e))
           /\ Range(Append(q, e)) = Range(q) \cup {e}
  <1> DEFINE s == Append(q, e)
  <1>1. /\ s \in Seq(S)
        /\ Len(s) = Len(q) + 1
        /\ \A j \in 1..Len(q) : s[j] = q[j]
        /\ s[Len(q) + 1] = e
    OBVIOUS
  <1> HIDE DEF s
  <1>2. \A j \in 1..Len(q) : q[j] # e
    BY DEF Range
  <1>3. IsInjective(s)
    <2> SUFFICES ASSUME NEW a \in DOMAIN s, NEW b \in DOMAIN s, s[a] = s[b]
                 PROVE  a = b
      BY DEF IsInjective
    <2>1. CASE a \in DOMAIN q /\ b \in DOMAIN q
      BY <1>1, <2>1 DEF IsInjective
    <2>2. CASE a = Len(q) + 1 \/ b = Len(q) + 1
      BY <1>1, <1>2, <2>2
    <2>3. QED
      BY <1>1, <2>1, <2>2
  <1>4. Range(s) = Range(q) \cup {e}
    BY <1>1 DEF Range
  <1>5. QED
    BY <1>3, <1>4 DEF s

(* Taking the front of a queue without duplicates. *)
LEMMA TailDistinct ==
    ASSUME NEW S, NEW q \in Seq(S), IsInjective(q), q # <<>>
    PROVE  /\ Head(q) \in Range(q)
           /\ IsInjective(Tail(q))
           /\ Range(Tail(q)) = Range(q) \ {Head(q)}
  <1> DEFINE s == Tail(q)
  <1>1. /\ s \in Seq(S)
        /\ Len(s) = Len(q) - 1
        /\ \A j \in 1..Len(s) : s[j] = q[j + 1]
        /\ Len(q) \in Nat \ {0}
        /\ Head(q) = q[1]
    BY HeadTailProperties, EmptySeq
  <1> HIDE DEF s
  <1>2. IsInjective(s)
    <2> SUFFICES ASSUME NEW a \in DOMAIN s, NEW b \in DOMAIN s, s[a] = s[b]
                 PROVE  a = b
      BY DEF IsInjective
    <2>1. /\ a \in Nat /\ a + 1 \in DOMAIN q /\ s[a] = q[a + 1]
          /\ b \in Nat /\ b + 1 \in DOMAIN q /\ s[b] = q[b + 1]
      BY <1>1
    <2>2. a + 1 = b + 1
      BY <2>1 DEF IsInjective
    <2>3. QED
      BY <2>1, <2>2
  <1>3. ASSUME NEW j \in 1..Len(s)
        PROVE  s[j] \in Range(q) \ {q[1]}
    <2>1. j + 1 \in 1..Len(q) /\ j + 1 # 1
      BY <1>1
    <2>2. QED
      BY <1>1, <2>1 DEF Range, IsInjective
  <1>4. ASSUME NEW k \in 1..Len(q), k # 1
        PROVE  q[k] \in Range(s)
    <2>1. k - 1 \in 1..Len(s) /\ s[k - 1] = q[k]
      BY <1>1, <1>4
    <2>2. QED
      BY <2>1, <1>1 DEF Range
  <1>5. Range(s) = Range(q) \ {q[1]}
    <2>1. DOMAIN s = 1..Len(s) /\ DOMAIN q = 1..Len(q)
      BY <1>1
    <2>2. ASSUME NEW e \in Range(s) PROVE e \in Range(q) \ {q[1]}
      <3>1. PICK j \in 1..Len(s) : e = s[j]
        BY <2>1 DEF Range
      <3>2. QED
        BY <3>1, <1>3
    <2>3. ASSUME NEW e \in Range(q) \ {q[1]} PROVE e \in Range(s)
      <3>1. PICK k \in 1..Len(q) : e = q[k] /\ k # 1
        BY <2>1 DEF Range
      <3>2. QED
        BY <3>1, <1>4
    <2>4. QED
      BY <2>2, <2>3
  <1>6. q[1] \in Range(q)
    BY <1>1 DEF Range
  <1>7. QED
    BY <1>1, <1>2, <1>5, <1>6 DEF s

(* Only finitely many requests own a unit. *)
LEMMA HoldersFinite ==
    ASSUME TypeOK
    PROVE  Holders \subseteq Reqs /\ IsFiniteSet(Holders) /\ Cardinality(Holders) \in Nat
  <1>1. Holders \subseteq Reqs
    BY DEF TypeOK, Holders
  <1>2. QED
    BY <1>1, ReqsAssumption, FS_Subset, FS_CardinalityType

-----------------------------------------------------------------------------
(* The counter stays in its range: from conservation and the limit. *)
LEMMA CounterInRange ==
    ASSUME Cardinality(Holders) \in Nat, external \in 0..MaxExternal,
           QuotaConserved, LimitRespected
    PROVE  allocated \in 0..(Limit + MaxExternal)
  BY LimitAssumption, ExternalAssumption DEF QuotaConserved, LimitRespected

(* A unit that an owner gives up goes to the front waiter or to the        *)
(* counter; the heart of the argument, used for both callers of Release.   *)
LEMMA ReleaseKeepsInv ==
    ASSUME IInv, NEW r \in Reqs, NEW to \in Places \ (Waits \cup Holds),
           pc[r] \in Holds, pc' = [pc EXCEPT ![r] = to],
           Release, UNCHANGED <<qCtx, external>>
    PROVE  /\ IInv'
           /\ r \in Holders
           /\ \/ /\ queue # <<>>
                 /\ Holders' = (Holders \ {r}) \cup {Head(queue)}
                 /\ queue' = Tail(queue)
              \/ /\ queue = <<>>
                 /\ Holders' = Holders \ {r}
                 /\ queue' = queue
  <1> USE DEF IInv
  <1>1. /\ IsFiniteSet(Holders) /\ r \in Holders /\ r \notin granted /\ r \notin Waiters
        /\ Cardinality(Holders) \in Nat
        /\ Cardinality(Holders \ {r}) = Cardinality(Holders) - 1
        /\ IsFiniteSet(Holders \ {r})
        /\ Cardinality(Holders \ {r}) \in Nat
    <2>1. r \in Holders /\ r \notin granted /\ r \notin Waiters
      BY DEF Holders, Waiters, QueueIsWaiters, Waits, Holds
    <2>2. QED
      BY <2>1, HoldersFinite, FS_RemoveElement, FS_CardinalityType
  <1>2. CASE HandOff
    <2> DEFINE h == Head(queue)
    <2>1. /\ h \in Waiters /\ h \in Reqs /\ h # r
          /\ IsInjective(queue')
          /\ Range(queue') = Range(queue) \ {h}
          /\ queue' \in Seq(Reqs)
          /\ queue # <<>>
      <3>1. queue \in Seq(Reqs) /\ queue # <<>> /\ IsInjective(queue) /\ Range(queue) = Waiters
        BY <1>2 DEF TypeOK, HandOff, QueueIsWaiters
      <3>2. queue' = Tail(queue)
        BY <1>2 DEF HandOff
      <3>3. QED
        BY <3>1, <3>2, <1>1, TailDistinct, HeadTailProperties
    <2> HIDE DEF h
    <2>2. /\ granted' = granted \cup {h}
          /\ allocated' = allocated
      BY <1>2 DEF HandOff, h
    <2>3. Holders' = (Holders \ {r}) \cup {h}
      BY <1>1, <2>1, <2>2 DEF Holders, TypeOK, Waiters, Waits, Holds
    <2>4. h \notin Holders
      BY <2>1 DEF Waiters, Holders, Waits, Holds
    <2>5. Waiters' = Waiters \ {h}
      BY <1>1, <2>1, <2>2 DEF Waiters, TypeOK, Waits, Holds
    <2>6. Cardinality(Holders') = Cardinality(Holders)
      <3>1. Cardinality((Holders \ {r}) \cup {h}) = Cardinality(Holders \ {r}) + 1
        BY <1>1, <2>4, FS_AddElement
      <3>2. QED
        BY <1>1, <2>3, <3>1
    <2>7. QuotaConserved' /\ LimitRespected'
      BY <2>2, <2>6 DEF QuotaConserved, LimitRespected
    <2>8. TypeOK'
      BY <2>1, <2>2, <2>6, <2>7 DEF TypeOK
    <2>9. QueueIsWaiters'
      BY <2>1, <2>2, <2>5 DEF QueueIsWaiters, Waiters, TypeOK, Waits, Holds
    <2>10. NobodyWaitsForFreeUnit'
      BY <2>1, <2>2 DEF NobodyWaitsForFreeUnit
    <2>11. QED
      BY <1>1, <1>2, <2>1, <2>3, <2>7, <2>8, <2>9, <2>10 DEF HandOff, h
  <1>3. CASE GiveBack
    <2>1. Holders' = Holders \ {r} /\ Waiters' = Waiters
      BY <1>1, <1>3 DEF GiveBack, Holders, Waiters, TypeOK, Waits, Holds
    <2>2. allocated >= 1
      BY <1>1 DEF QuotaConserved, TypeOK
    <2>3. allocated' = allocated - 1 /\ queue' = queue /\ granted' = granted
      BY <1>3, <2>2 DEF GiveBack, TypeOK
    <2>4. QuotaConserved' /\ LimitRespected'
      BY <1>1, <2>1, <2>3, LimitAssumption DEF QuotaConserved, LimitRespected, TypeOK
    <2>5. TypeOK'
      BY <2>2, <2>3, LimitAssumption, ExternalAssumption DEF TypeOK
    <2>6. QueueIsWaiters'
      BY <1>1, <2>1, <2>3 DEF QueueIsWaiters, Waiters, TypeOK, Waits, Holds
    <2>7. NobodyWaitsForFreeUnit'
      BY <1>3, <2>3 DEF NobodyWaitsForFreeUnit, GiveBack
    <2>8. QED
      BY <1>1, <1>3, <2>1, <2>3, <2>4, <2>5, <2>6, <2>7 DEF GiveBack
  <1>4. QED
    BY <1>2, <1>3 DEF Release

(* A request that gets a unit without queueing. *)
LEMMA FastPathKeepsInv ==
    ASSUME IInv, NEW r \in Reqs, ReserveFast(r)
    PROVE  IInv' /\ Holders' = Holders \cup {r} /\ r \notin Holders /\ queue = <<>>
  <1> USE DEF IInv
  <1>1. /\ r \notin Holders /\ Holders' = Holders \cup {r} /\ Waiters' = Waiters
        /\ IsFiniteSet(Holders) /\ Cardinality(Holders) \in Nat
    BY HoldersFinite
       DEF ReserveFast, Goto, TypeOK, QueueIsWaiters, Holders, Waiters, Holds, Waits
  <1>2. Cardinality(Holders') = Cardinality(Holders) + 1
    BY <1>1, FS_AddElement
  <1>3. /\ queue = <<>> /\ allocated < Limit /\ allocated' = allocated + 1
        /\ UNCHANGED <<queue, granted, qCtx, external>>
    <2>1. Len(queue) \in Nat /\ allocated \in Nat
      BY LenProperties, LimitAssumption, ExternalAssumption DEF TypeOK
    <2>2. allocated < Limit
      BY <2>1, LimitAssumption DEF ReserveFast, FastPath
    <2>3. queue = <<>>
      BY <2>1, <2>2, LimitAssumption DEF NobodyWaitsForFreeUnit
    <2>4. QED
      BY <2>2, <2>3 DEF ReserveFast
  <1>4. QuotaConserved' /\ LimitRespected'
    BY <1>1, <1>2, <1>3, LimitAssumption DEF QuotaConserved, LimitRespected, TypeOK
  <1>5. TypeOK'
    BY <1>3, LimitAssumption, ExternalAssumption
       DEF TypeOK, ReserveFast, Goto, Places, Holds
  <1>6. QueueIsWaiters'
    BY <1>1, <1>3 DEF QueueIsWaiters, TypeOK, ReserveFast, Goto, Waits
  <1>7. NobodyWaitsForFreeUnit'
    BY <1>3 DEF NobodyWaitsForFreeUnit
  <1>8. QED
    BY <1>1, <1>3, <1>4, <1>5, <1>6, <1>7

(* A request that goes to the back of the queue. *)
LEMMA QueueingKeepsInv ==
    ASSUME IInv, NEW r \in Reqs, ReserveQueued(r)
    PROVE  IInv' /\ Holders' = Holders /\ r \notin Holders /\ r \notin Range(queue)
           /\ Cardinality(Holders) + external >= Limit
  <1> USE DEF IInv
  <1>1. /\ r \notin Holders /\ Holders' = Holders
        /\ r \notin Waiters /\ Waiters' = Waiters \cup {r}
    BY DEF ReserveQueued, Goto, TypeOK, QueueIsWaiters, Holders, Waiters, Holds, Waits
  <1>2. /\ r \notin Range(queue) /\ IsInjective(queue')
        /\ Range(queue') = Range(queue) \cup {r} /\ queue' \in Seq(Reqs)
    BY <1>1, AppendDistinct DEF ReserveQueued, QueueIsWaiters, TypeOK
  <1>3. allocated >= Limit
    <2>1. CASE queue = <<>>
      BY <2>1, LimitAssumption, ExternalAssumption DEF ReserveQueued, FastPath, TypeOK
    <2>2. CASE queue # <<>>
      BY <2>2 DEF NobodyWaitsForFreeUnit
    <2>3. QED
      BY <2>1, <2>2
  <1>4. UNCHANGED <<allocated, granted, qCtx, external>>
    BY DEF ReserveQueued
  <1>5. TypeOK'
    BY <1>2, <1>4 DEF TypeOK, ReserveQueued, Goto, Places, Waits
  <1>6. QueueIsWaiters'
    BY <1>1, <1>2, <1>4 DEF QueueIsWaiters, TypeOK, ReserveQueued, Goto, Waits
  <1>7. QuotaConserved' /\ LimitRespected' /\ NobodyWaitsForFreeUnit'
    BY <1>1, <1>3, <1>4 DEF QuotaConserved, LimitRespected, NobodyWaitsForFreeUnit
  <1>8. QED
    BY <1>1, <1>2, <1>3, <1>5, <1>6, <1>7 DEF QuotaConserved

(* A waiter that notices its unit, before or after its context ended. *)
LEMMA NoticingKeepsInv ==
    ASSUME IInv, NEW r \in Reqs, SelectGranted(r) \/ ExpiredGranted(r)
    PROVE  IInv' /\ Holders' = Holders
  <1> USE DEF IInv
  <1>1. /\ r \in granted /\ pc[r] \in Waits
        /\ pc' = [pc EXCEPT ![r] = "allocating"]
        /\ granted' = granted \ {r}
        /\ qCtx' = [qCtx EXCEPT ![r] = "live"]
        /\ UNCHANGED <<allocated, queue, external>>
    BY DEF SelectGranted, ExpiredGranted, Goto, Waits
  <1>2. Holders' = Holders /\ Waiters' = Waiters
    BY <1>1 DEF TypeOK, QueueIsWaiters, Holders, Waiters, Holds, Waits
  <1>3. TypeOK'
    BY <1>1 DEF TypeOK, Places, Holds, CtxStates
  <1>4. QueueIsWaiters'
    BY <1>1, <1>2 DEF QueueIsWaiters, TypeOK, Waits
  <1>5. QED
    BY <1>1, <1>2, <1>3, <1>4 DEF QuotaConserved, LimitRespected, NobodyWaitsForFreeUnit

(* A waiter that leaves the queue because its context ended. *)
LEMMA LeavingKeepsInv ==
    ASSUME IInv, NEW r \in Reqs, ExpiredLeaves(r)
    PROVE  IInv' /\ Holders' = Holders
  <1> USE DEF IInv
  <1>1. PICK i \in DOMAIN queue : queue[i] = r /\ queue' = RemoveAt(queue, i)
    BY DEF ExpiredLeaves
  <1>2. i \in 1..Len(queue) /\ queue # <<>>
    BY <1>1 DEF TypeOK
  <1>3. /\ IsInjective(queue') /\ Range(queue') = Range(queue) \ {r}
        /\ queue' \in Seq(Reqs)
    BY <1>1, <1>2, RemoveAtDistinct, RemoveAtProperties DEF TypeOK, QueueIsWaiters
  <1>4. /\ r \notin granted /\ pc[r] = "expired"
        /\ \E e \in Errors : pc' = [pc EXCEPT ![r] = e]
        /\ qCtx' = [qCtx EXCEPT ![r] = "live"]
        /\ UNCHANGED <<allocated, granted, external>>
    BY DEF ExpiredLeaves, Goto, Errors
  <1>5. Holders' = Holders /\ Waiters' = Waiters \ {r}
    BY <1>4 DEF TypeOK, Holders, Waiters, Holds, Waits, Errors
  <1>6. TypeOK'
    BY <1>3, <1>4 DEF TypeOK, Places, Errors, CtxStates
  <1>7. QueueIsWaiters'
    BY <1>3, <1>4, <1>5 DEF QueueIsWaiters, TypeOK, Waits, Errors
  <1>8. NobodyWaitsForFreeUnit'
    BY <1>2, <1>4 DEF NobodyWaitsForFreeUnit
  <1>9. QED
    BY <1>4, <1>5, <1>6, <1>7, <1>8 DEF QuotaConserved, LimitRespected

(* The steps of a goroutine that neither move a unit nor touch the queue. *)
Bystander(r) ==
    \/ ReserveRejected(r) \/ SelectDone(r) \/ AllocateDone(r) \/ CloseInner(r) \/ NextRequest(r)
    \/ \E why \in {"deadline", "cancelled"} : CtxDone(r, why)

LEMMA BystanderKeepsInv ==
    ASSUME IInv, NEW r \in Reqs, Bystander(r)
    PROVE  IInv' /\ Holders' = Holders /\ UNCHANGED <<queue, external>>
  <1> USE DEF IInv
  <1>1. /\ pc' \in [Reqs -> Places] /\ qCtx' \in [Reqs -> CtxStates]
        /\ UNCHANGED <<allocated, queue, granted, external>>
    BY DEF Bystander, ReserveRejected, SelectDone, AllocateDone, CloseInner, NextRequest,
           CtxDone, Goto, TypeOK, Places, Waits, Holds, Errors, CtxStates
  <1>2. \A s \in Reqs : (pc[s] \in Waits <=> pc'[s] \in Waits)
                        /\ (pc[s] \in Holds <=> pc'[s] \in Holds)
    BY DEF Bystander, ReserveRejected, SelectDone, AllocateDone, CloseInner, NextRequest,
           CtxDone, Goto, TypeOK, Waits, Holds, Errors
  <1>3. Holders' = Holders /\ Waiters' = Waiters
    BY <1>1, <1>2 DEF Holders, Waiters
  <1>4. QueueIsWaiters'
    BY <1>1, <1>2, <1>3 DEF QueueIsWaiters
  <1>5. QED
    BY <1>1, <1>3, <1>4
       DEF TypeOK, QuotaConserved, LimitRespected, NobodyWaitsForFreeUnit

(* Other programs may take units outside of the limit. *)
LEMMA ExternalKeepsInv ==
    ASSUME IInv, NEW qty \in 1..MaxExternal, ExternalReserve(qty)
    PROVE  IInv' /\ Holders' = Holders /\ queue' = queue
           /\ external' \in Nat /\ external' > external
  <1> USE DEF IInv
  <1>1. /\ Holders' = Holders /\ Waiters' = Waiters
        /\ UNCHANGED <<queue, granted, qCtx, pc>>
        /\ external' = external + qty /\ allocated' = allocated + qty
        /\ external' <= MaxExternal
    BY DEF ExternalReserve, Holders, Waiters
  <1>2. QuotaConserved' /\ LimitRespected' /\ Cardinality(Holders) \in Nat
    BY <1>1, HoldersFinite DEF QuotaConserved, LimitRespected, TypeOK
  <1>3. TypeOK'
    BY <1>1, <1>2, LimitAssumption, ExternalAssumption
       DEF TypeOK, QuotaConserved, LimitRespected
  <1>4. QED
    BY <1>1, <1>2, <1>3, LimitAssumption, ExternalAssumption
       DEF TypeOK, QueueIsWaiters, NobodyWaitsForFreeUnit

LEMMA InitEstablishesInv == Init => IInv /\ Holders = {}
  <1> SUFFICES ASSUME Init PROVE IInv /\ Holders = {}
    OBVIOUS
  <1> USE DEF Init
  <1>1. Holders = {} /\ Waiters = {} /\ Cardinality(Holders) = 0
    BY FS_EmptySet DEF Holders, Waiters, Holds, Waits
  <1>2. TypeOK
    BY LimitAssumption, ExternalAssumption DEF TypeOK, CtxStates, Places
  <1>3. QueueIsWaiters
    BY <1>1 DEF QueueIsWaiters, IsInjective, Range
  <1>4. QED
    BY <1>1, <1>2, <1>3, LimitAssumption
       DEF IInv, QuotaConserved, LimitRespected, NobodyWaitsForFreeUnit

(* One step per action of Next. *)
LEMMA StepKeepsInv == IInv /\ [Next]_vars => IInv'
  <1> SUFFICES ASSUME IInv, [Next]_vars PROVE IInv'
    OBVIOUS
  <1>1. ASSUME NEW qty \in 1..MaxExternal, ExternalReserve(qty)
        PROVE  IInv'
    BY <1>1, ExternalKeepsInv
  <1>2. ASSUME NEW r \in Reqs, Bystander(r)
        PROVE  IInv'
    BY <1>2, BystanderKeepsInv
  <1>3. ASSUME NEW r \in Reqs, ReserveFast(r)
        PROVE  IInv'
    BY <1>3, FastPathKeepsInv
  <1>4. ASSUME NEW r \in Reqs, ReserveQueued(r)
        PROVE  IInv'
    BY <1>4, QueueingKeepsInv
  <1>5. ASSUME NEW r \in Reqs, SelectGranted(r) \/ ExpiredGranted(r)
        PROVE  IInv'
    BY <1>5, NoticingKeepsInv
  <1>6. ASSUME NEW r \in Reqs, ExpiredLeaves(r)
        PROVE  IInv'
    BY <1>6, LeavingKeepsInv
  <1>7. ASSUME NEW r \in Reqs, AllocateFailed(r)
        PROVE  IInv'
    BY <1>7, ReleaseKeepsInv DEF AllocateFailed, Goto, Places, Errors, Holds, Waits
  <1>8. ASSUME NEW r \in Reqs, CloseRelease(r)
        PROVE  IInv'
    BY <1>8, ReleaseKeepsInv DEF CloseRelease, Goto, Places, Holds, Waits
  <1>9. CASE UNCHANGED vars
    BY <1>9 DEF IInv, vars, TypeOK, QuotaConserved, LimitRespected, QueueIsWaiters,
                NobodyWaitsForFreeUnit, Holders, Waiters
  <1>10. QED
    BY <1>1, <1>2, <1>3, <1>4, <1>5, <1>6, <1>7, <1>8, <1>9
       DEF Next, Reserve, Wake, Manager, Bystander

-----------------------------------------------------------------------------
(* The inductive invariant of the quota. *)
THEOREM InvariantHolds == Spec => []IInv
  BY InitEstablishesInv, StepKeepsInv, PTL DEF Spec

(* Every field of the authorizer keeps its type and the counter its range. *)
THEOREM TypeCorrect == Spec => []TypeOK
  <1>1. IInv => TypeOK
    BY DEF IInv
  <1>2. QED
    BY <1>1, InvariantHolds, PTL

(* No unit of the quota is lost or given back twice, whatever races the    *)
(* hand-off in Release: the counter always equals the number of owners.    *)
THEOREM QuotaIsConserved == Spec => []QuotaConserved
  <1>1. IInv => QuotaConserved
    BY DEF IInv
  <1>2. QED
    BY <1>1, InvariantHolds, PTL

(* At most limit requests ever own a unit. *)
THEOREM LimitIsRespected == Spec => []LimitRespected
  <1>1. IInv => LimitRespected
    BY DEF IInv
  <1>2. QED
    BY <1>1, InvariantHolds, PTL

(* The queue holds exactly the requests that wait, and a free unit never   *)
(* stands idle beside it.                                                  *)
THEOREM QueueIsExact == Spec => []QueueExact
  <1>1. IInv => QueueExact
    BY DEF IInv, QueueExact
  <1>2. QED
    BY <1>1, InvariantHolds, PTL

(* The comment in Reserve: no new request gets quota before a pending one. *)
THEOREM NobodyOvertakes == Spec => NoOvertaking
  <1> DEFINE Fair == \A r \in Reqs : pc[r] = "idle" /\ pc'[r] = "allocating" => Waiters = {}
  <1>1. IInv /\ [Next]_vars => [Fair]_vars
    <2> SUFFICES ASSUME IInv, [Next]_vars, NEW r \in Reqs,
                        pc[r] = "idle", pc'[r] = "allocating"
                 PROVE  Waiters = {}
      OBVIOUS
    <2>1. ReserveFast(r)
      <3>1. PICK s \in Reqs : pc[s] # pc'[s]
        BY DEF IInv, TypeOK
      <3>2. /\ ~ \E qty \in 1..MaxExternal : ExternalReserve(qty)
            /\ ~UNCHANGED vars
        BY <3>1 DEF ExternalReserve, vars
      <3>3. PICK t \in Reqs : Reserve(t) \/ Wake(t) \/ Manager(t) \/ NextRequest(t)
        BY <3>1, <3>2 DEF Next, CtxDone
      <3>4. t = r
        BY <3>3 DEF Reserve, ReserveFast, ReserveRejected, ReserveQueued,
                    Wake, SelectDone, SelectGranted, ExpiredGranted, ExpiredLeaves,
                    Manager, AllocateDone, AllocateFailed, CloseRelease, CloseInner,
                    NextRequest, Goto, IInv, TypeOK, Errors
      <3>5. ~(Wake(r) \/ Manager(r) \/ NextRequest(r))
        BY DEF Wake, SelectDone, SelectGranted, ExpiredGranted, ExpiredLeaves,
               Manager, AllocateDone, AllocateFailed, CloseRelease, CloseInner,
               NextRequest, Goto, Errors
      <3>6. ~ReserveRejected(r) /\ ~ReserveQueued(r)
        BY DEF ReserveRejected, ReserveQueued, Goto, IInv, TypeOK
      <3>7. QED
        BY <3>3, <3>4, <3>5, <3>6 DEF Reserve
    <2>2. queue = <<>> /\ Range(queue) = Waiters
      BY <2>1, FastPathKeepsInv DEF IInv, QueueIsWaiters
    <2>3. QED
      BY <2>2 DEF Range
  <1>2. QED
    BY <1>1, InvariantHolds, PTL DEF Spec, NoOvertaking

-----------------------------------------------------------------------------
(* The library operators of the semaphore are those of the quota. *)
LEMMA FifoOperators ==
    /\ \A S : Fifo!Cardinality(S) = Cardinality(S)
    /\ \A q, i : Fifo!RemoveAt(q, i) = RemoveAt(q, i)
  BY DEF Fifo!Cardinality, Cardinality, Fifo!RemoveAt, RemoveAt

(* Every step of the quota is a step of the FIFO semaphore or changes      *)
(* nothing of it.                                                          *)
LEMMA StepImplementsFifo == IInv /\ [Next]_vars => [Fifo!Next]_(Fifo!vars)
  <1> SUFFICES ASSUME IInv, [Next]_vars PROVE [Fifo!Next]_(Fifo!vars)
    OBVIOUS
  <1> USE DEF Fifo!vars
  <1>1. ASSUME NEW qty \in 1..MaxExternal, ExternalReserve(qty)
        PROVE  Fifo!TakeOutside
    BY <1>1, ExternalKeepsInv DEF Fifo!TakeOutside
  <1>2. ASSUME NEW r \in Reqs, Bystander(r)
        PROVE  UNCHANGED Fifo!vars
    BY <1>2, BystanderKeepsInv
  <1>3. ASSUME NEW r \in Reqs, ReserveFast(r)
        PROVE  Fifo!Acquire(r)
    <2>1. /\ Holders' = Holders \cup {r} /\ r \notin Holders /\ queue = <<>>
          /\ UNCHANGED <<queue, external>>
      BY <1>3, FastPathKeepsInv DEF ReserveFast
    <2>2. allocated < Limit /\ allocated = Cardinality(Holders) + external
      BY <1>3, <2>1, LimitAssumption, ExternalAssumption
         DEF ReserveFast, FastPath, IInv, TypeOK, QuotaConserved
    <2>3. ~Fifo!Full
      BY <2>2, FifoOperators, LimitAssumption, ExternalAssumption
         DEF Fifo!Full, IInv, TypeOK
    <2>4. QED
      BY <2>1, <2>3 DEF Fifo!Acquire
  <1>4. ASSUME NEW r \in Reqs, ReserveQueued(r)
        PROVE  Fifo!Join(r)
    <2>1. /\ Holders' = Holders /\ r \notin Holders /\ r \notin Range(queue)
          /\ Cardinality(Holders) + external >= Limit
      BY <1>4, QueueingKeepsInv
    <2>2. /\ queue' = Append(queue, r) /\ Len(queue) < QLimit /\ external' = external
      BY <1>4 DEF ReserveQueued
    <2>3. QED
      BY <2>1, <2>2, FifoOperators DEF Fifo!Join, Fifo!Full, Range
  <1>5. ASSUME NEW r \in Reqs, SelectGranted(r) \/ ExpiredGranted(r)
        PROVE  UNCHANGED Fifo!vars
    BY <1>5, NoticingKeepsInv DEF SelectGranted, ExpiredGranted
  <1>6. ASSUME NEW r \in Reqs, ExpiredLeaves(r)
        PROVE  \E i \in DOMAIN queue : Fifo!GiveUp(i)
    BY <1>6, LeavingKeepsInv, FifoOperators DEF ExpiredLeaves, Fifo!GiveUp
  <1>7. ASSUME NEW r \in Reqs, AllocateFailed(r) \/ CloseRelease(r)
        PROVE  Fifo!PassOn(r) \/ Fifo!Return(r)
    <2>1. /\ r \in Holders /\ external' = external
          /\ \/ /\ queue # <<>>
                /\ Holders' = (Holders \ {r}) \cup {Head(queue)}
                /\ queue' = Tail(queue)
             \/ /\ queue = <<>>
                /\ Holders' = Holders \ {r}
                /\ queue' = queue
      BY <1>7, ReleaseKeepsInv
         DEF AllocateFailed, CloseRelease, Goto, Places, Errors, Holds, Waits
    <2>2. QED
      BY <2>1 DEF Fifo!PassOn, Fifo!Return
  <1>8. CASE UNCHANGED vars
    BY <1>8 DEF vars, Holders
  <1>9. QED
    BY <1>1, <1>2, <1>3, <1>4, <1>5, <1>6, <1>7, <1>8
       DEF Next, Reserve, Wake, Manager, Bystander, Fifo!Next

(* The authorizer and its users implement a FIFO semaphore. *)
THEOREM QuotaImplementsFifo == Spec => ImplementsFifoSemaphore
  <1>1. Init => Fifo!Init
    BY InitEstablishesInv DEF Init, Fifo!Init
  <1>2. QED
    BY <1>1, StepImplementsFifo, InvariantHolds, PTL
       DEF Spec, ImplementsFifoSemaphore, Fifo!Spec

-----------------------------------------------------------------------------
(* The map of pools                                                        *)

WithPool == {"found", "using", "failed"}

(* Each pool is in the map under one name, which is the one that whoever   *)
(* uses it asked for.                                                      *)
MapInv ==
    /\ \A u \in Users : pool[u] # NoPool => stage[u] \in WithPool
    /\ \A u \in Users : pool[u] # NoPool => pools[name[u]] = pool[u]
    /\ \A p \in created : \E n \in Names : pools[n] = p
    /\ \A m, n \in Names : pools[m] = pools[n] /\ pools[m] # NoPool => m = n

ShutInv ==
    /\ sd = "none" => toShut = {} /\ shut = {}
    /\ sd = "busy" => created \subseteq toShut \cup shut

ManagerInv == ManagerTypeOK /\ MapInv /\ ShutInv

-----------------------------------------------------------------------------
LEMMA ManagerInitInv == ManagerInit => ManagerInv
  <1> SUFFICES ASSUME ManagerInit PROVE ManagerInv
    OBVIOUS
  <1> USE DEF ManagerInit
  <1>1. ManagerTypeOK
    BY DEF ManagerTypeOK, Stages
  <1>2. MapInv /\ ShutInv
    BY DEF MapInv, ShutInv
  <1>3. QED
    BY <1>1, <1>2 DEF ManagerInv

(* Steps that leave the map and Shutdown alone: a goroutine moves on, with *)
(* the pool that the map has for its name or with none.                    *)
LEMMA MoveKeepsManagerInv ==
    ASSUME ManagerInv, NEW u \in Users, NEW place \in Stages, NEW n \in Names,
           NEW p \in created \cup {NoPool},
           p # NoPool => pools[n] = p,
           place \in {"found", "using"} => p # NoPool,
           p # NoPool => place \in WithPool,
           stage' = [stage EXCEPT ![u] = place],
           name' = [name EXCEPT ![u] = n],
           pool' = [pool EXCEPT ![u] = p],
           UNCHANGED <<pools, sd, toShut, shut, created>>
    PROVE  ManagerInv'
  <1>1. /\ stage'[u] = place /\ name'[u] = n /\ pool'[u] = p
        /\ \A v \in Users \ {u} :
             stage'[v] = stage[v] /\ name'[v] = name[v] /\ pool'[v] = pool[v]
    BY DEF ManagerInv, ManagerTypeOK
  <1>2. ManagerTypeOK'
    <2>1. /\ stage' \in [Users -> Stages] /\ name' \in [Users -> Names]
          /\ pool' \in [Users -> created' \cup {NoPool}]
      BY DEF ManagerInv, ManagerTypeOK
    <2>2. \A v \in Users : stage'[v] \in {"found", "using"} => pool'[v] # NoPool
      BY <1>1 DEF ManagerInv, ManagerTypeOK
    <2>3. QED
      BY <2>1, <2>2 DEF ManagerInv, ManagerTypeOK
  <1>3. MapInv'
    <2>1. \A v \in Users : pool'[v] # NoPool =>
             stage'[v] \in WithPool /\ pools[name'[v]] = pool'[v]
      BY <1>1 DEF ManagerInv, MapInv
    <2>2. QED
      BY <2>1 DEF ManagerInv, MapInv
  <1>4. ShutInv'
    BY DEF ManagerInv, ShutInv
  <1>5. QED
    BY <1>2, <1>3, <1>4 DEF ManagerInv

(* A goroutine that changes neither its name nor its pool only moves on. *)
LEMMA StayKeepsManagerInv ==
    ASSUME ManagerInv, NEW u \in Users, NEW place \in Stages,
           place \in {"found", "using"} => pool[u] # NoPool,
           pool[u] # NoPool => place \in WithPool,
           stage' = [stage EXCEPT ![u] = place],
           UNCHANGED <<pools, sd, toShut, shut, created, name, pool>>
    PROVE  ManagerInv'
  <1>1. name' = [name EXCEPT ![u] = name[u]] /\ pool' = [pool EXCEPT ![u] = pool[u]]
    BY DEF ManagerInv, ManagerTypeOK
  <1>2. name[u] \in Names /\ pool[u] \in created \cup {NoPool}
    BY DEF ManagerInv, ManagerTypeOK
  <1>3. PICK n \in Names, p \in created \cup {NoPool} : n = name[u] /\ p = pool[u]
    BY <1>2
  <1>4. p # NoPool => pools[n] = p
    BY <1>3 DEF ManagerInv, MapInv
  <1>5. UNCHANGED <<pools, sd, toShut, shut, created>>
    OBVIOUS
  <1>6. name' = [name EXCEPT ![u] = n] /\ pool' = [pool EXCEPT ![u] = p]
    BY <1>1, <1>3
  <1>7. /\ place \in {"found", "using"} => p # NoPool
        /\ p # NoPool => place \in WithPool
    BY <1>3
  <1>8. QED
    BY <1>4, <1>5, <1>6, <1>7, MoveKeepsManagerInv

(* createPool, in the case that nobody has created the pool in between. *)
LEMMA CreateKeepsManagerInv ==
    ASSUME ManagerInv, NEW u \in Users, NEW p \in Pools \ created,
           Unlocked, pools[name[u]] = NoPool,
           stage' = [stage EXCEPT ![u] = "found"],
           created' = created \cup {p},
           pools' = [pools EXCEPT ![name[u]] = p],
           pool' = [pool EXCEPT ![u] = p],
           UNCHANGED <<sd, toShut, shut, name>>
    PROVE  ManagerInv'
  <1> DEFINE n == name[u]
  <1>1. n \in Names /\ p # NoPool
    BY PoolsAssumption DEF ManagerInv, ManagerTypeOK
  <1>2. /\ pools'[n] = p /\ pool'[u] = p /\ stage'[u] = "found"
        /\ \A m \in Names \ {n} : pools'[m] = pools[m]
        /\ \A v \in Users \ {u} : stage'[v] = stage[v] /\ pool'[v] = pool[v]
    BY <1>1 DEF ManagerInv, ManagerTypeOK
  <1>3. ManagerTypeOK'
    <2>1. /\ created' \subseteq Pools /\ shut' \subseteq created' /\ toShut' \subseteq created'
          /\ pools' \in [Names -> created' \cup {NoPool}]
          /\ pool' \in [Users -> created' \cup {NoPool}]
      BY <1>1 DEF ManagerInv, ManagerTypeOK
    <2>2. stage' \in [Users -> Stages]
      BY DEF ManagerInv, ManagerTypeOK, Stages
    <2>3. \A v \in Users : stage'[v] \in {"found", "using"} => pool'[v] # NoPool
      BY <1>1, <1>2 DEF ManagerInv, ManagerTypeOK
    <2>4. QED
      BY <2>1, <2>2, <2>3 DEF ManagerInv, ManagerTypeOK
  <1>4. \A m \in Names : pools[m] # p
    BY <1>1 DEF ManagerInv, ManagerTypeOK
  <1>5. MapInv'
    <2>1. ASSUME NEW v \in Users, pool'[v] # NoPool
          PROVE  pools'[name[v]] = pool'[v] /\ stage'[v] \in WithPool
      <3>1. CASE v = u
        BY <3>1, <1>2 DEF WithPool
      <3>2. CASE v # u
        <4>1. /\ pools[name[v]] = pool[v] /\ pool[v] # NoPool /\ name[v] \in Names
              /\ stage'[v] \in WithPool
          BY <3>2, <2>1, <1>2 DEF ManagerInv, MapInv, ManagerTypeOK
        <4>2. QED
          BY <4>1, <3>2, <1>2
      <3>3. QED
        BY <3>1, <3>2
    <2>2. ASSUME NEW q \in created'
          PROVE  \E m \in Names : pools'[m] = q
      <3>1. CASE q = p
        BY <3>1, <1>1, <1>2
      <3>2. CASE q \in created
        <4>1. PICK m \in Names : pools[m] = q
          BY <3>2 DEF ManagerInv, MapInv
        <4>2. m # n
          BY <4>1, <3>2, PoolsAssumption DEF ManagerInv, ManagerTypeOK
        <4>3. QED
          BY <4>1, <4>2, <1>2
      <3>3. QED
        BY <2>2, <3>1, <3>2
    <2>3. ASSUME NEW m \in Names, NEW k \in Names, pools'[m] = pools'[k], pools'[m] # NoPool
          PROVE  m = k
      BY <2>3, <1>2, <1>4 DEF ManagerInv, MapInv
    <2>4. QED
      BY <2>1, <2>2, <2>3 DEF MapInv
  <1>6. ShutInv'
    BY DEF ManagerInv, ShutInv, Unlocked
  <1>7. QED
    BY <1>3, <1>5, <1>6 DEF ManagerInv

(* Shutdown finds every pool in the map. *)
LEMMA ShutdownKeepsManagerInv == ManagerInv /\ Shutdown => ManagerInv'
  <1> SUFFICES ASSUME ManagerInv, Shutdown PROVE ManagerInv'
    OBVIOUS
  <1>1. CASE ShutdownBegin
    <2> USE <1>1 DEF ShutdownBegin, userVars
    <2>1. toShut' = created
      <3>1. \A n \in Names : pools[n] \in created \cup {NoPool}
        BY DEF ManagerInv, ManagerTypeOK
      <3>2. NoPool \notin created
        BY PoolsAssumption DEF ManagerInv, ManagerTypeOK
      <3>3. QED
        BY <3>1, <3>2 DEF ManagerInv, MapInv
    <2>2. ManagerTypeOK'
      BY <2>1 DEF ManagerInv, ManagerTypeOK
    <2>3. MapInv'
      BY DEF ManagerInv, MapInv
    <2>4. ShutInv'
      BY <2>1 DEF ManagerInv, ShutInv
    <2>5. QED
      BY <2>2, <2>3, <2>4 DEF ManagerInv
  <1>2. CASE \E p \in Pools : ShutPool(p)
    <2>1. PICK p \in Pools : ShutPool(p)
      BY <1>2
    <2> USE <2>1 DEF ShutPool, userVars
    <2>2. ManagerTypeOK'
      BY DEF ManagerInv, ManagerTypeOK
    <2>3. MapInv'
      BY DEF ManagerInv, MapInv
    <2>4. ShutInv'
      BY DEF ManagerInv, ShutInv
    <2>5. QED
      BY <2>2, <2>3, <2>4 DEF ManagerInv
  <1>3. CASE ShutdownReturns
    <2> USE <1>3 DEF ShutdownReturns, userVars
    <2>1. sd' \in {"done", "timedOut"}
      OBVIOUS
    <2>2. ManagerTypeOK'
      BY <2>1 DEF ManagerInv, ManagerTypeOK
    <2>3. MapInv'
      BY DEF ManagerInv, MapInv
    <2>4. ShutInv'
      BY <2>1 DEF ManagerInv, ShutInv
    <2>5. QED
      BY <2>2, <2>3, <2>4 DEF ManagerInv
  <1>4. QED
    BY <1>1, <1>2, <1>3 DEF Shutdown

LEMMA AllocateKeepsManagerInv ==
    ASSUME ManagerInv, NEW u \in Users, Allocate(u) \/ Done(u)
    PROVE  ManagerInv'
  <1>1. CASE \E n \in Names : Begin(u, n)
    <2>1. PICK n \in Names : Begin(u, n)
      BY <1>1
    <2>2. pool[u] = NoPool
      BY <2>1 DEF Begin, Moves, ManagerInv, MapInv, WithPool
    <2>3. pool' = [pool EXCEPT ![u] = NoPool]
      BY <2>1, <2>2 DEF Begin, ManagerInv, ManagerTypeOK
    <2>4. /\ stage' = [stage EXCEPT ![u] = "looking"] /\ name' = [name EXCEPT ![u] = n]
          /\ UNCHANGED <<pools, sd, toShut, shut, created>>
      BY <2>1 DEF Begin, Moves
    <2>5. QED
      BY <2>3, <2>4, MoveKeepsManagerInv DEF Stages
  <1>2. CASE Refused(u)
    BY <1>2, StayKeepsManagerInv DEF Refused, Moves, Stages, WithPool
  <1>3. CASE GetPool(u)
    <2> DEFINE p == pools[name[u]]
               place == IF p = NoPool THEN "missing" ELSE "found"
    <2>1. name' = [name EXCEPT ![u] = name[u]] /\ name[u] \in Names
      BY <1>3 DEF GetPool, ManagerInv, ManagerTypeOK
    <2>2. p \in created \cup {NoPool} /\ place \in Stages
      BY <2>1 DEF ManagerInv, ManagerTypeOK, Stages
    <2>3. /\ place \in {"found", "using"} => p # NoPool
          /\ p # NoPool => place \in WithPool
      BY DEF WithPool
    <2>4. /\ stage' = [stage EXCEPT ![u] = place] /\ pool' = [pool EXCEPT ![u] = p]
          /\ UNCHANGED <<pools, sd, toShut, shut, created>>
      BY <1>3 DEF GetPool, Moves
    <2> HIDE DEF place
    <2>5. QED
      BY <2>1, <2>2, <2>3, <2>4, MoveKeepsManagerInv
  <1>4. CASE \E p \in Pools : CreatePool(u, p)
    <2>1. PICK p \in Pools : CreatePool(u, p)
      BY <1>4
    <2>2. CASE pools[name[u]] = NoPool /\ p \notin created /\ created' = created \cup {p}
               /\ pools' = [pools EXCEPT ![name[u]] = p]
      BY <2>1, <2>2, CreateKeepsManagerInv DEF CreatePool, Moves
    <2>3. CASE p = pools[name[u]] /\ UNCHANGED <<created, pools>>
      <3>1. name' = [name EXCEPT ![u] = name[u]] /\ name[u] \in Names
        BY <2>1 DEF CreatePool, ManagerInv, ManagerTypeOK
      <3>2. p # NoPool /\ p \in created
        BY <2>3, <3>1, PoolsAssumption DEF ManagerInv, ManagerTypeOK
      <3>3. QED
        BY <2>1, <2>3, <3>1, <3>2, MoveKeepsManagerInv DEF CreatePool, Moves, Stages, WithPool
    <2>4. QED
      BY <2>1, <2>2, <2>3 DEF CreatePool
  <1>5. CASE Checkout(u)
    <2>1. pool[u] # NoPool
      BY <1>5 DEF Checkout, Moves, ManagerInv, ManagerTypeOK
    <2>2. QED
      BY <1>5, <2>1, StayKeepsManagerInv DEF Checkout, Moves, Stages, WithPool
  <1>6. CASE Done(u)
    <2>1. name' = [name EXCEPT ![u] = name[u]] /\ name[u] \in Names
      BY <1>6 DEF Done, ManagerInv, ManagerTypeOK
    <2>2. QED
      BY <1>6, <2>1, MoveKeepsManagerInv DEF Done, Stages
  <1>7. QED
    BY <1>1, <1>2, <1>3, <1>4, <1>5, <1>6 DEF Allocate

LEMMA ManagerStepKeepsInv == ManagerInv /\ [ManagerNext]_managerVars => ManagerInv'
  <1> SUFFICES ASSUME ManagerInv, [ManagerNext]_managerVars PROVE ManagerInv'
    OBVIOUS
  <1>1. CASE ManagerNext
    BY <1>1, AllocateKeepsManagerInv, ShutdownKeepsManagerInv DEF ManagerNext
  <1>2. CASE UNCHANGED managerVars
    BY <1>2 DEF managerVars, ManagerInv, ManagerTypeOK, MapInv, ShutInv
  <1>3. QED
    BY <1>1, <1>2

-----------------------------------------------------------------------------
(* The strengthened invariant of the map and of Shutdown always holds. *)
THEOREM ManagerInvariantHolds == ManagerSpec => []ManagerInv
  BY ManagerInitInv, ManagerStepKeepsInv, PTL DEF ManagerSpec

(* Who has found a pool has one, and the sets of pools stay consistent. *)
THEOREM ManagerTypeCorrect == ManagerSpec => []ManagerTypeOK
  <1>1. ManagerInv => ManagerTypeOK
    BY DEF ManagerInv
  <1>2. QED
    BY <1>1, ManagerInvariantHolds, PTL

(* createPool: goroutines that ask for the same kind of browser share one  *)
(* pool, and no pool is in the map under two names or under none.          *)
THEOREM PoolIsUnique == ManagerSpec => []OnePoolPerName
  <1>1. ManagerInv => OnePoolPerName
    <2> SUFFICES ASSUME ManagerInv PROVE OnePoolPerName
      OBVIOUS
    <2>1. ASSUME NEW p \in created
          PROVE  Cardinality({n \in Names : pools[n] = p}) = 1
      <3>1. PICK n \in Names : pools[n] = p
        BY DEF ManagerInv, MapInv
      <3>2. p # NoPool
        BY PoolsAssumption DEF ManagerInv, ManagerTypeOK
      <3>3. {m \in Names : pools[m] = p} = {n}
        BY <3>1, <3>2 DEF ManagerInv, MapInv
      <3>4. QED
        BY <3>3, FS_Singleton
    <2>2. QED
      BY <2>1 DEF OnePoolPerName, ManagerInv, MapInv
  <1>2. QED
    BY <1>1, ManagerInvariantHolds, PTL

(* Shutdown of the manager: when it returns in time, no pool is open. *)
THEOREM ShutdownIsComplete == ManagerSpec => ShutdownReachesAll
  <1> DEFINE Reached == sd # "done" /\ sd' = "done" => created' \subseteq shut'
  <1>1. ManagerInv /\ [ManagerNext]_managerVars => [Reached]_managerVars
    <2> SUFFICES ASSUME ManagerInv, ManagerNext, sd # "done", sd' = "done"
                 PROVE  created' \subseteq shut'
      OBVIOUS
    <2>1. ASSUME NEW u \in Users, Allocate(u) \/ Done(u)
          PROVE  FALSE
      BY <2>1 DEF Allocate, Done, Begin, Refused, GetPool, CreatePool, Checkout
    <2>2. ShutdownReturns
      BY <2>1 DEF ManagerNext, Shutdown, ShutdownBegin, ShutPool
    <2>3. sd = "busy" /\ toShut = {} /\ created' = created /\ shut' = shut
      BY <2>2 DEF ShutdownReturns
    <2>4. QED
      BY <2>3 DEF ManagerInv, ShutInv
  <1>2. QED
    BY <1>1, ManagerInvariantHolds, PTL DEF ManagerSpec, ShutdownReachesAll

==============================================================================
