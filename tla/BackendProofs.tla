---------------------------- MODULE BackendProofs ---------------------------
(***************************************************************************)
(* Both backends, alone and in the process that chose between them, for    *)
(* any number of requests, images, pods, retries, events under way and     *)
(* broken watches.                                                         *)
(*                                                                         *)
(* What the runs check is not inductive.  Of Kubernetes: that a closed     *)
(* channel is never sent on needs that a waiter registers a channel nobody *)
(* has seen before, and that one place in it is enough needs what may be   *)
(* under way in the stream of events.  Of Docker: a request that fails     *)
(* before it has a container must be known not to have one, or the failure *)
(* of its call would leave one behind.                                     *)
(***************************************************************************)
EXTENDS Backend, FiniteSetTheorems, TLAPS

(* The watcher, its channels and the pods                                  *)

Events == {"Added", "Ready", "Deleted"} \X Pods

(* What the stream says of a pod is true of it. *)
StreamTrue ==
    \A i \in DOMAIN stream :
        /\ status[stream[i][2]] # "none"
        /\ stream[i][1] = "Ready" => stream[i][2] \in everReady

(* So is what a waiter gets to know. *)
NotifiedTrue ==
    /\ buffered \subseteq everReady
    /\ sending # NoPod => sending \in everReady \cap podsReady
    /\ \A r \in Reqs : pc[r] = "notified" => pod[r] \in everReady

(* A waiter registers a channel that nobody has used before. *)
FreshChannel ==
    /\ buffered \subseteq waiters \cup closed
    /\ \A r \in Reqs : pc[r] = "created" => pod[r] \notin waiters \cup closed

(* A pod is reported as Added before anything else is said of it. *)
AddedFirst ==
    \A i \in DOMAIN stream : stream[i][1] = "Added" =>
        /\ stream[i][2] \notin podsReady
        /\ \A j \in 1..(i - 1) : stream[j][2] # stream[i][2]

(* So the watcher remembers whom it has notified. *)
NotifiedOnce == rewatches = 0 => AddedFirst /\ buffered \cap waiters \subseteq podsReady

(* A request has only pods that were created. *)
HeldExist == \A r \in Reqs : pod[r] # NoPod => status[pod[r]] # "none"

Channels == NoChannelPanic /\ NoWaiterLeft /\ FreshChannel
Truth == OnlyReadyHandedOut /\ StreamTrue /\ NotifiedTrue
Once == NotifiedOnce /\ WatcherNeverBlocks

Custody == HeldExist /\ PodsAccounted

IInv == TypeOK /\ Channels /\ Truth /\ Once /\ Custody

-----------------------------------------------------------------------------
(* The sets of TypeOK, one by one. *)
LEMMA Existing ==
    ASSUME TypeOK
    PROVE  /\ podsReady \subseteq Pods /\ waiters \subseteq Pods /\ buffered \subseteq Pods
           /\ closed \subseteq Pods /\ lost \subseteq Pods /\ everReady \subseteq Pods
           /\ \A p \in podsReady \cup waiters \cup buffered \cup closed \cup lost \cup everReady :
                status[p] # "none"
  BY DEF TypeOK

(* The stream after Tell. *)
LEMMA ToldLast ==
    ASSUME TypeOK, NEW type \in {"Added", "Ready", "Deleted"}, NEW p \in Pods,
           Tell(type, p), NEW i \in DOMAIN stream'
    PROVE  /\ \/ i \in DOMAIN stream /\ stream'[i] = stream[i]
              \/ i = Len(stream) + 1 /\ stream'[i] = <<type, p>>
           /\ \A j \in 1..(i - 1) : j \in DOMAIN stream /\ stream'[j] = stream[j]
  <1>1. CASE stream' = stream
    <2>1. stream \in Seq(Events)
      BY DEF TypeOK, Events
    <2>2. QED
      BY <1>1, <2>1
  <1>2. CASE stream' = Append(stream, <<type, p>>)
    <2>1. stream \in Seq(Events)
      BY DEF TypeOK, Events
    <2>2. QED
      BY <1>2, <2>1
  <1>3. QED
    BY <1>1, <1>2 DEF Tell

LEMMA TellKeepsStream ==
    ASSUME TypeOK, StreamTrue,
           NEW type \in {"Added", "Ready", "Deleted"}, NEW p \in Pods, Tell(type, p),
           status'[p] # "none", type = "Ready" => p \in everReady',
           \A q \in Pods : status[q] # "none" => status'[q] # "none",
           everReady \subseteq everReady'
    PROVE  stream' \in Seq(Events) /\ StreamTrue'
  <1>1. stream \in Seq(Events) /\ <<type, p>> \in Events
    BY DEF TypeOK, Events
  <1>2. stream' \in Seq(Events)
    BY <1>1 DEF Tell
  <1>3. ASSUME NEW i \in DOMAIN stream'
        PROVE  /\ status'[stream'[i][2]] # "none"
               /\ stream'[i][1] = "Ready" => stream'[i][2] \in everReady'
    <2>1. CASE i \in DOMAIN stream /\ stream'[i] = stream[i]
      <3>1. stream[i] \in Events
        BY <1>1, <2>1
      <3>2. QED
        BY <2>1, <3>1 DEF StreamTrue, Events
    <2>2. CASE stream'[i] = <<type, p>>
      BY <2>2
    <2>3. QED
      BY <1>3, <2>1, <2>2, ToldLast
  <1>4. QED
    BY <1>2, <1>3 DEF StreamTrue

LEMMA TellKeepsAddedFirst ==
    ASSUME TypeOK, StreamTrue, AddedFirst,
           NEW type \in {"Added", "Ready", "Deleted"}, NEW p \in Pods, Tell(type, p),
           type = "Added" => status[p] = "none", podsReady' = podsReady
    PROVE  AddedFirst'
  <1>1. SUFFICES ASSUME NEW i \in DOMAIN stream', stream'[i][1] = "Added"
                 PROVE  /\ stream'[i][2] \notin podsReady
                        /\ \A j \in 1..(i - 1) : stream'[j][2] # stream'[i][2]
    BY DEF AddedFirst
  <1>2. CASE i \in DOMAIN stream /\ stream'[i] = stream[i]
    BY <1>1, <1>2, ToldLast DEF AddedFirst
  <1>3. CASE stream'[i] = <<type, p>>
    <2>1. status[p] = "none"
      BY <1>1, <1>3
    <2>2. p \notin podsReady
      BY <2>1, Existing
    <2>3. QED
      BY <1>1, <1>3, <2>1, <2>2, ToldLast DEF StreamTrue
  <1>4. QED
    BY <1>1, <1>2, <1>3, ToldLast

(* The stream after an event was received. *)
LEMMA TailKeepsStream ==
    ASSUME TypeOK, StreamTrue, stream # <<>>, stream' = Tail(stream),
           UNCHANGED <<status, everReady>>
    PROVE  /\ stream' \in Seq(Events) /\ StreamTrue'
           /\ AddedFirst /\ podsReady' \subseteq podsReady \cup {Head(stream)[2]} => AddedFirst'
  <1>1. stream \in Seq(Events)
    BY DEF TypeOK, Events
  <1>2. /\ stream' \in Seq(Events) /\ 1 \in DOMAIN stream /\ Head(stream) = stream[1]
        /\ \A i \in DOMAIN stream' :
             i \in Nat \ {0} /\ i + 1 \in DOMAIN stream /\ stream'[i] = stream[i + 1]
    BY <1>1
  <1>3. StreamTrue'
    BY <1>2 DEF StreamTrue
  <1>4. ASSUME AddedFirst, podsReady' \subseteq podsReady \cup {Head(stream)[2]}
        PROVE  AddedFirst'
    <2>1. SUFFICES ASSUME NEW i \in DOMAIN stream', stream'[i][1] = "Added"
                   PROVE  /\ stream'[i][2] \notin podsReady'
                          /\ \A j \in 1..(i - 1) : stream'[j][2] # stream'[i][2]
      BY DEF AddedFirst
    <2>2. /\ stream[i + 1][1] = "Added" /\ i + 1 \in DOMAIN stream
          /\ stream'[i] = stream[i + 1] /\ i \in Nat \ {0}
      BY <1>2, <2>1
    <2>3. /\ stream[i + 1][2] \notin podsReady
          /\ \A j \in 1..i : stream[j][2] # stream[i + 1][2]
      BY <1>4, <2>2 DEF AddedFirst
    <2>4. stream[1][2] # stream[i + 1][2]
      BY <2>2, <2>3
    <2>5. ASSUME NEW j \in 1..(i - 1)
          PROVE  stream'[j][2] # stream'[i][2]
      <3>1. j \in DOMAIN stream' /\ j + 1 \in 1..i
        BY <1>2, <2>1, <2>2
      <3>2. QED
        BY <1>2, <2>2, <2>3, <3>1
    <2>6. QED
      BY <1>2, <1>4, <2>2, <2>3, <2>4, <2>5
  <1>5. QED
    BY <1>2, <1>3, <1>4

(* Who waits goes on waiting for the same pod. *)
LEMMA WaitersStay ==
    ASSUME NoWaiterLeft, waiters' \subseteq waiters,
           \A q \in Reqs : pc[q] \in InWait => pc'[q] \in InWait /\ pod'[q] = pod[q]
    PROVE  NoWaiterLeft'
  <1>1. SUFFICES ASSUME NEW w \in waiters'
                 PROVE  \E q \in Reqs : pc'[q] \in InWait /\ pod'[q] = w
    BY DEF NoWaiterLeft
  <1>2. PICK q \in Reqs : pc[q] \in InWait /\ pod[q] = w
    BY <1>1 DEF NoWaiterLeft
  <1>3. QED
    BY <1>2

(* Pods go, and no request gets or loses one. *)
LEMMA PodsStay ==
    ASSUME TypeOK, Custody, UNCHANGED <<pod, lost>>,
           \A p \in Pods : (Alive(p)' => Alive(p)) /\ (status[p] # "none" => status'[p] # "none")
    PROVE  Custody'
  <1>1. Held' = Held
    BY DEF Held
  <1>2. QED
    BY <1>1 DEF Custody, HeldExist, PodsAccounted, TypeOK

-----------------------------------------------------------------------------
LEMMA InitInv == Init => IInv
  <1> SUFFICES ASSUME Init PROVE IInv
    OBVIOUS
  <1> USE DEF Init
  <1>1. TypeOK
    <2>1. \A r \in Reqs : pod[r] = NoPod /\ pc[r] \notin WithPod
      BY DEF WithPod, InWait
    <2>2. pc \in [Reqs -> Places] /\ pod \in [Reqs -> Pods \cup {NoPod}]
      BY DEF Places
    <2>3. steps \in [Reqs -> 0..Steps] /\ rewatches \in 0..MaxRewatch
      BY StepsAssumption, BoundsAssumption
    <2>4. QED
      BY <2>1, <2>2, <2>3 DEF TypeOK
  <1>2. stream = <<>> /\ DOMAIN stream = {}
    OBVIOUS
  <1>3. Channels
    BY DEF Channels, NoChannelPanic, NoWaiterLeft, FreshChannel
  <1>4. Truth /\ Once
    BY <1>2 DEF Truth, OnlyReadyHandedOut, StreamTrue, NotifiedTrue, Once, NotifiedOnce,
                AddedFirst, WatcherNeverBlocks
  <1>5. Custody
    BY DEF Custody, HeldExist, PodsAccounted, Alive, Held
  <1>6. QED
    BY <1>1, <1>3, <1>4, <1>5 DEF IInv

(* Steps of a request that leave pods, channels and the watcher alone. *)
LEMMA MoveKeepsInv ==
    ASSUME IInv, NEW r \in Reqs, NEW to \in Places, to # "created",
           pc' = [pc EXCEPT ![r] = to],
           pc[r] \in WithPod <=> to \in WithPod,
           pc[r] \in InWait => to \in InWait,
           to \in {"using", "notified"} => pod[r] \in everReady,
           steps' \in [Reqs -> 0..Steps], ended' \subseteq Reqs,
           UNCHANGED <<serverVars, watcherVars, chanVars, pod>>
    PROVE  IInv'
  <1> USE DEF IInv, serverVars, watcherVars, chanVars
  <1>1. TypeOK'
    BY DEF TypeOK
  <1>2. pc \in [Reqs -> Places]
    BY DEF TypeOK
  <1>3. Channels'
    BY <1>2 DEF Channels, NoChannelPanic, NoWaiterLeft, FreshChannel
  <1>4. Truth'
    BY <1>2 DEF Truth, OnlyReadyHandedOut, StreamTrue, NotifiedTrue
  <1>5. Once'
    BY DEF Once, NotifiedOnce, AddedFirst, WatcherNeverBlocks
  <1>6. Custody'
    BY DEF Custody, HeldExist, PodsAccounted, Alive, Held
  <1>7. QED
    BY <1>1, <1>3, <1>4, <1>5, <1>6

(* A pod gets a request when it is created. *)
LEMMA CreateDoneKeepsInv ==
    ASSUME IInv, NEW r \in Reqs, NEW p \in Pods, CreateDone(r, p)
    PROVE  IInv'
  <1> USE DEF IInv, watcherVars, chanVars
  <1>1. /\ status[p] = "none" /\ Tell("Added", p)
        /\ status' = [status EXCEPT ![p] = "pending"]
        /\ pod' = [pod EXCEPT ![r] = p] /\ pc' = [pc EXCEPT ![r] = "created"]
        /\ pc[r] = "creating" /\ pod[r] = NoPod
    BY DEF CreateDone, Goto, TypeOK, WithPod, InWait
  <1>2. /\ stream' \in Seq(Events) /\ StreamTrue'
    BY <1>1, TellKeepsStream DEF CreateDone, Truth, TypeOK
  <1>3. TypeOK'
    BY <1>1, <1>2, PodsAssumption DEF CreateDone, TypeOK, Events, Places, WithPod
  <1>4. /\ p \notin waiters \cup closed \cup lost /\ \A q \in Reqs : pod[q] # p
    BY <1>1, Existing, PodsAssumption DEF Custody, HeldExist
  <1>5. Channels'
    <2>1. NoWaiterLeft'
      BY <1>1, WaitersStay DEF CreateDone, TypeOK, Channels, InWait
    <2>2. FreshChannel'
      BY <1>1, <1>4 DEF CreateDone, TypeOK, Channels, FreshChannel
    <2>3. QED
      BY <2>1, <2>2 DEF CreateDone, Channels, NoChannelPanic
  <1>6. Truth'
    BY <1>1, <1>2 DEF CreateDone, TypeOK, Truth, OnlyReadyHandedOut, NotifiedTrue
  <1>7. Once'
    BY <1>1, TellKeepsAddedFirst DEF CreateDone, Truth, Once, NotifiedOnce, WatcherNeverBlocks
  <1>8. HeldExist'
    BY <1>1, PodsAssumption DEF TypeOK, Custody, HeldExist
  <1>9. PodsAccounted'
    <2>1. Held' = Held \cup {p}
      BY <1>1, PodsAssumption DEF Held, TypeOK
    <2>2. \A q \in Pods : Alive(q)' => Alive(q) \/ q = p
      BY <1>1 DEF Alive, TypeOK
    <2>3. QED
      BY <1>1, <1>4, <2>1, <2>2 DEF CreateDone, Custody, PodsAccounted, TypeOK
  <1>10. QED
    BY <1>3, <1>5, <1>6, <1>7, <1>8, <1>9 DEF Custody

(* The server creates a pod and nobody learns of it. *)
LEMMA CreateUnknownKeepsInv ==
    ASSUME IInv, NEW r \in Reqs, NEW retryable \in BOOLEAN, NEW p \in Pods,
           CreateUnknown(r, retryable, p)
    PROVE  IInv'
  <1> USE DEF IInv, watcherVars, chanVars
  <1>1. PICK to \in {"backoff", "failed"} :
          /\ pc[r] = "creating" /\ pc' = [pc EXCEPT ![r] = to]
          /\ steps' \in [Reqs -> 0..Steps]
    BY StepsAssumption DEF CreateUnknown, Retry, Goto, TypeOK
  <1>2. /\ status[p] = "none" /\ Tell("Added", p) /\ lost' = lost \cup {p}
        /\ status' = [status EXCEPT ![p] = "pending"]
        /\ UNCHANGED <<rewatches, everReady, watcherVars, chanVars, pod, ended>>
    BY DEF CreateUnknown
  <1>3. stream' \in Seq(Events) /\ StreamTrue'
    BY <1>2, TellKeepsStream DEF Truth, TypeOK
  <1>4. TypeOK'
    BY <1>1, <1>2, <1>3 DEF TypeOK, Events, Places, WithPod, InWait, Allocating
  <1>5. Channels'
    <2>1. NoWaiterLeft'
      BY <1>1, <1>2, WaitersStay DEF TypeOK, Channels, InWait
    <2>2. QED
      BY <1>1, <1>2, <2>1 DEF TypeOK, Channels, NoChannelPanic, FreshChannel
  <1>6. Truth'
    BY <1>1, <1>2, <1>3 DEF TypeOK, Truth, OnlyReadyHandedOut, NotifiedTrue
  <1>7. Once'
    BY <1>2, TellKeepsAddedFirst DEF Truth, Once, NotifiedOnce, WatcherNeverBlocks
  <1>8. Custody'
    <2>1. Held' = Held /\ p \notin Held
      BY <1>2, PodsAssumption DEF Held, Custody, HeldExist
    <2>2. \A q \in Pods : Alive(q)' => Alive(q) \/ q = p
      BY <1>2 DEF Alive, TypeOK
    <2>3. QED
      BY <1>2, <2>1, <2>2 DEF Custody, HeldExist, PodsAccounted, TypeOK
  <1>9. QED
    BY <1>4, <1>5, <1>6, <1>7, <1>8

-----------------------------------------------------------------------------
(* The new entry of the map is a channel nobody has closed. *)
LEMMA AddWaiterKeepsInv ==
    ASSUME IInv, NEW r \in Reqs, AddWaiter(r)
    PROVE  IInv'
  <1> USE DEF IInv, serverVars, watcherVars
  <1>1. /\ pc[r] = "created" /\ pc' = [pc EXCEPT ![r] = "waiting"]
        /\ waiters' = waiters \cup {pod[r]} /\ sending = NoPod
        /\ pod[r] \in Pods /\ status[pod[r]] # "none"
        /\ UNCHANGED <<serverVars, watcherVars, buffered, closed, pod, steps, ended>>
    BY DEF AddWaiter, Goto, LockFree, TypeOK, WithPod, Custody, HeldExist
  <1>2. TypeOK'
    BY <1>1 DEF TypeOK, Places, WithPod, InWait
  <1>3. pod[r] \notin waiters \cup closed \cup buffered
    BY <1>1 DEF Channels, FreshChannel
  <1>4. Channels'
    <2>1. NoWaiterLeft'
      <3>1. SUFFICES ASSUME NEW w \in waiters'
                     PROVE  \E q \in Reqs : pc'[q] \in InWait /\ pod'[q] = w
        BY DEF NoWaiterLeft
      <3>2. CASE w = pod[r]
        BY <1>1, <3>2 DEF TypeOK, InWait
      <3>3. CASE w \in waiters
        <4>1. PICK q \in Reqs : pc[q] \in InWait /\ pod[q] = w
          BY <3>3 DEF Channels, NoWaiterLeft
        <4>2. QED
          BY <1>1, <4>1 DEF TypeOK, InWait
      <3>4. QED
        BY <1>1, <3>1, <3>2, <3>3
    <2>2. FreshChannel'
      <3>1. ASSUME NEW q \in Reqs, pc'[q] = "created"
            PROVE  pod[q] \notin waiters' \cup closed
        <4>1. q # r /\ pc[q] = "created" /\ pod[q] # NoPod
          BY <1>1, <3>1 DEF TypeOK, WithPod
        <4>2. pod[q] # pod[r]
          BY <4>1 DEF Custody, PodsAccounted
        <4>3. QED
          BY <1>1, <4>1, <4>2 DEF Channels, FreshChannel
      <3>2. QED
        BY <1>1, <3>1 DEF Channels, FreshChannel
    <2>3. QED
      BY <1>1, <1>3, <2>1, <2>2 DEF Channels, NoChannelPanic
  <1>5. Truth'
    BY <1>1 DEF TypeOK, Truth, OnlyReadyHandedOut, StreamTrue, NotifiedTrue
  <1>6. Once'
    BY <1>1, <1>3 DEF Once, NotifiedOnce, AddedFirst, WatcherNeverBlocks
  <1>7. Custody'
    BY <1>1, PodsStay DEF Alive
  <1>8. QED
    BY <1>2, <1>4, <1>5, <1>6, <1>7

LEMMA SelectIPKeepsInv ==
    ASSUME IInv, NEW r \in Reqs, SelectIP(r)
    PROVE  IInv'
  <1> USE DEF IInv, serverVars, watcherVars
  <1>1. /\ pc[r] = "waiting" /\ pc' = [pc EXCEPT ![r] = "notified"]
        /\ pod[r] \in buffered /\ buffered' = buffered \ {pod[r]}
        /\ UNCHANGED <<serverVars, watcherVars, waiters, closed, pod, steps, ended>>
    BY DEF SelectIP, Goto
  <1>2. TypeOK'
    BY <1>1 DEF TypeOK, Places, WithPod, InWait
  <1>3. Channels'
    <2>1. NoWaiterLeft'
      BY <1>1, WaitersStay DEF TypeOK, Channels, InWait
    <2>2. QED
      BY <1>1, <2>1 DEF TypeOK, Channels, NoChannelPanic, FreshChannel
  <1>4. Truth'
    BY <1>1 DEF TypeOK, Truth, OnlyReadyHandedOut, StreamTrue, NotifiedTrue
  <1>5. Once'
    BY <1>1 DEF Once, NotifiedOnce, AddedFirst, WatcherNeverBlocks
  <1>6. Custody'
    BY <1>1, PodsStay DEF Alive
  <1>7. QED
    BY <1>2, <1>3, <1>4, <1>5, <1>6

(* Nobody sends while the waiter takes itself out of the map. *)
LEMMA RemoveWaiterKeepsInv ==
    ASSUME IInv, NEW r \in Reqs, RemoveWaiter(r)
    PROVE  IInv'
  <1> USE DEF IInv, serverVars, watcherVars
  <1>1. PICK to \in {"using", "deleting"} :
          /\ pc[r] \in InWait /\ pc' = [pc EXCEPT ![r] = to]
          /\ to = "using" => pc[r] = "notified"
    BY DEF RemoveWaiter, Goto, InWait
  <1>2. /\ sending = NoPod
        /\ closed' = closed \cup (waiters \cap {pod[r]}) /\ waiters' = waiters \ {pod[r]}
        /\ UNCHANGED <<serverVars, watcherVars, buffered, pod, steps, ended>>
    BY DEF RemoveWaiter, LockFree, Unregister
  <1>3. TypeOK'
    BY <1>1, <1>2 DEF TypeOK, Places, WithPod, InWait
  <1>4. Channels'
    <2>1. NoWaiterLeft'
      <3>1. SUFFICES ASSUME NEW w \in waiters'
                     PROVE  \E q \in Reqs : pc'[q] \in InWait /\ pod'[q] = w
        BY DEF NoWaiterLeft
      <3>2. PICK q \in Reqs : pc[q] \in InWait /\ pod[q] = w
        BY <1>2, <3>1 DEF Channels, NoWaiterLeft
      <3>3. q # r
        BY <1>2, <3>1, <3>2
      <3>4. QED
        BY <1>1, <1>2, <3>2, <3>3 DEF TypeOK
    <2>2. FreshChannel'
      BY <1>1, <1>2 DEF TypeOK, Channels, FreshChannel, InWait
    <2>3. QED
      BY <1>2, <2>1, <2>2 DEF Channels, NoChannelPanic
  <1>5. Truth'
    BY <1>1, <1>2 DEF TypeOK, Truth, OnlyReadyHandedOut, StreamTrue, NotifiedTrue
  <1>6. Once'
    BY <1>2 DEF Once, NotifiedOnce, AddedFirst, WatcherNeverBlocks
  <1>7. Custody'
    BY <1>2, PodsStay DEF Alive
  <1>8. QED
    BY <1>3, <1>4, <1>5, <1>6, <1>7

(* The pod goes, or its deletion returns an error and it counts as lost. *)
LEMMA DeletePodKeepsInv ==
    ASSUME IInv, NEW r \in Reqs, DeletePod(r)
    PROVE  IInv'
  <1> USE DEF IInv, watcherVars, chanVars
  <1> DEFINE p == pod[r]
  <1>1. /\ pc[r] = "deleting" /\ pc' = [pc EXCEPT ![r] = "idle"]
        /\ p \in Pods /\ pod' = [pod EXCEPT ![r] = NoPod] /\ status[p] # "none"
        /\ UNCHANGED <<rewatches, everReady, watcherVars, chanVars, steps, ended>>
    BY DEF DeletePod, Goto, TypeOK, WithPod, Custody, HeldExist
  <1>2. \/ /\ status' = [status EXCEPT ![p] = "gone"] /\ Tell("Deleted", p)
           /\ lost' = lost
        \/ /\ status' = status /\ stream' = stream
           /\ lost' = lost \cup {q \in {p} : Alive(q)}
    BY DEF DeletePod, Gone
  <1>3. /\ \A q \in Pods : status[q] # "none" => status'[q] # "none"
        /\ status' \in [Pods -> {"none", "pending", "ready", "gone"}]
        /\ lost \subseteq lost' /\ lost' \subseteq lost \cup {p}
    BY <1>1, <1>2 DEF TypeOK
  <1>4. stream' \in Seq(Events) /\ StreamTrue'
    <2>1. CASE Tell("Deleted", p)
      BY <1>1, <1>3, <2>1, TellKeepsStream DEF Truth
    <2>2. CASE stream' = stream /\ status' = status
      BY <1>1, <2>2 DEF Truth, StreamTrue, TypeOK, Events
    <2>3. QED
      BY <1>2, <2>1, <2>2
  <1>5. TypeOK'
    BY <1>1, <1>3, <1>4, PodsAssumption DEF TypeOK, Events, Places, WithPod, InWait
  <1>6. Channels'
    <2>1. NoWaiterLeft'
      BY <1>1, WaitersStay DEF TypeOK, Channels, InWait
    <2>2. FreshChannel'
      BY <1>1 DEF TypeOK, Channels, FreshChannel
    <2>3. QED
      BY <1>1, <2>1, <2>2 DEF Channels, NoChannelPanic
  <1>7. Truth'
    BY <1>1, <1>4 DEF TypeOK, Truth, OnlyReadyHandedOut, NotifiedTrue
  <1>8. Once'
    <2>1. rewatches = 0 => AddedFirst'
      <3>1. CASE Tell("Deleted", p)
        BY <1>1, <3>1, TellKeepsAddedFirst DEF Truth, Once, NotifiedOnce
      <3>2. CASE stream' = stream
        BY <1>1, <3>2 DEF Once, NotifiedOnce, AddedFirst
      <3>3. QED
        BY <1>2, <3>1, <3>2
    <2>2. QED
      BY <1>1, <2>1 DEF Once, NotifiedOnce, WatcherNeverBlocks
  <1>9. Custody'
    <2>1. HeldExist'
      BY <1>1, <1>3 DEF Custody, HeldExist, TypeOK
    <2>2. Held' = Held \ {p}
      BY <1>1, PodsAssumption DEF Held, Custody, PodsAccounted, TypeOK
    <2>3. ASSUME NEW q \in Pods, Alive(q)'
          PROVE  q \in Held' \cup lost'
      <3>1. Alive(q) /\ (q = p => q \in lost')
        BY <1>1, <1>2, <2>3 DEF Alive, TypeOK
      <3>2. QED
        BY <1>3, <2>2, <3>1 DEF Custody, PodsAccounted
    <2>4. Held' \cap lost' = {}
      BY <1>3, <2>2 DEF Custody, PodsAccounted
    <2>5. \A q, u \in Reqs : pod'[q] = pod'[u] /\ pod'[q] # NoPod => q = u
      BY <1>1 DEF Custody, PodsAccounted, TypeOK
    <2>6. QED
      BY <2>1, <2>3, <2>4, <2>5 DEF Custody, PodsAccounted
  <1>10. QED
    BY <1>5, <1>6, <1>7, <1>8, <1>9

-----------------------------------------------------------------------------
LEMMA ReceiveAddedKeepsInv ==
    ASSUME IInv, NEW p \in Pods, ReceiveAdded(p)
    PROVE  IInv'
  <1> USE DEF IInv, reqVars, chanVars
  <1>1. /\ sending = NoPod /\ stream # <<>> /\ Head(stream) = <<"Added", p>>
        /\ stream' = Tail(stream) /\ podsReady' = podsReady \ {p}
        /\ UNCHANGED <<status, rewatches, lost, everReady, watch, reqVars, chanVars, sending>>
    BY DEF ReceiveAdded, Receive, LockFree
  <1>2. /\ stream' \in Seq(Events) /\ StreamTrue' /\ (AddedFirst => AddedFirst')
    BY <1>1, TailKeepsStream DEF Truth
  <1>3. TypeOK'
    BY <1>1, <1>2 DEF TypeOK, Events
  <1>4. Channels'
    BY <1>1 DEF Channels, NoChannelPanic, NoWaiterLeft, FreshChannel
  <1>5. Truth'
    BY <1>1, <1>2 DEF Truth, OnlyReadyHandedOut, NotifiedTrue
  <1>6. rewatches = 0 => p \notin podsReady
    <2>1. stream \in Seq(Events) /\ 1 \in DOMAIN stream /\ stream[1] = <<"Added", p>>
      BY <1>1 DEF TypeOK, Events
    <2>2. QED
      BY <2>1 DEF Once, NotifiedOnce, AddedFirst
  <1>7. Once'
    BY <1>1, <1>2, <1>6 DEF Once, NotifiedOnce, WatcherNeverBlocks
  <1>8. Custody'
    BY <1>1, PodsStay DEF Alive
  <1>9. QED
    BY <1>3, <1>4, <1>5, <1>7, <1>8

(* The place in the channel is free, unless the watch was broken. *)
LEMMA ReceiveReadyKeepsInv ==
    ASSUME IInv, NEW p \in Pods, ReceiveReady(p)
    PROVE  IInv'
  <1> USE DEF IInv, reqVars, chanVars
  <1>1. /\ sending = NoPod /\ stream # <<>> /\ Head(stream) = <<"Ready", p>>
        /\ stream' = Tail(stream) /\ podsReady' = podsReady \cup {p}
        /\ sending' \in {p, NoPod} /\ (sending' # NoPod => p \in waiters \ podsReady)
        /\ UNCHANGED <<status, rewatches, lost, everReady, watch, reqVars, chanVars>>
    BY DEF ReceiveReady, Receive, LockFree
  <1>2. /\ stream' \in Seq(Events) /\ StreamTrue' /\ (AddedFirst => AddedFirst')
    BY <1>1, TailKeepsStream DEF Truth
  <1>3. p \in everReady /\ status[p] # "none"
    <2>1. stream \in Seq(Events) /\ 1 \in DOMAIN stream /\ stream[1] = <<"Ready", p>>
      BY <1>1 DEF TypeOK, Events
    <2>2. QED
      BY <2>1 DEF Truth, StreamTrue
  <1>4. TypeOK'
    BY <1>1, <1>2, <1>3 DEF TypeOK, Events
  <1>5. Channels'
    BY <1>1 DEF Channels, NoChannelPanic, NoWaiterLeft, FreshChannel
  <1>6. Truth'
    BY <1>1, <1>2, <1>3 DEF Truth, OnlyReadyHandedOut, NotifiedTrue
  <1>7. Once'
    BY <1>1, <1>2 DEF Once, NotifiedOnce, WatcherNeverBlocks
  <1>8. Custody'
    BY <1>1, PodsStay DEF Alive
  <1>9. QED
    BY <1>4, <1>5, <1>6, <1>7, <1>8

(* The watcher closes the channel; the waiter keeps its pod. *)
LEMMA ReceiveDeletedKeepsInv ==
    ASSUME IInv, NEW p \in Pods, ReceiveDeleted(p)
    PROVE  IInv'
  <1> USE DEF IInv, reqVars
  <1>1. /\ sending = NoPod /\ stream # <<>> /\ Head(stream) = <<"Deleted", p>>
        /\ stream' = Tail(stream) /\ podsReady' = podsReady \ {p}
        /\ closed' = closed \cup (waiters \cap {p}) /\ waiters' = waiters \ {p}
        /\ UNCHANGED <<status, rewatches, lost, everReady, watch, reqVars, sending, buffered>>
    BY DEF ReceiveDeleted, Receive, LockFree, Unregister
  <1>2. /\ stream' \in Seq(Events) /\ StreamTrue' /\ (AddedFirst => AddedFirst')
    BY <1>1, TailKeepsStream DEF Truth
  <1>3. TypeOK'
    BY <1>1, <1>2 DEF TypeOK, Events
  <1>4. Channels'
    <2>1. NoWaiterLeft'
      BY <1>1, WaitersStay DEF Channels
    <2>2. QED
      BY <1>1, <2>1 DEF Channels, NoChannelPanic, FreshChannel
  <1>5. Truth'
    BY <1>1, <1>2 DEF Truth, OnlyReadyHandedOut, NotifiedTrue
  <1>6. Once'
    BY <1>1, <1>2 DEF Once, NotifiedOnce, WatcherNeverBlocks
  <1>7. Custody'
    BY <1>1, PodsStay DEF Alive
  <1>8. QED
    BY <1>3, <1>4, <1>5, <1>6, <1>7

LEMMA SendKeepsInv ==
    ASSUME IInv, Send
    PROVE  IInv'
  <1> USE DEF IInv, serverVars, reqVars
  <1>1. /\ sending # NoPod /\ sending \notin buffered /\ sending \in waiters
        /\ buffered' = buffered \cup {sending} /\ sending' = NoPod
        /\ UNCHANGED <<serverVars, watch, podsReady, waiters, closed, reqVars>>
    BY DEF Send, Channels, NoChannelPanic
  <1>2. TypeOK'
    BY <1>1 DEF TypeOK
  <1>3. Channels'
    BY <1>1 DEF Channels, NoChannelPanic, NoWaiterLeft, FreshChannel
  <1>4. Truth'
    BY <1>1 DEF Truth, OnlyReadyHandedOut, StreamTrue, NotifiedTrue
  <1>5. Once'
    BY <1>1 DEF Truth, NotifiedTrue, Once, NotifiedOnce, AddedFirst, WatcherNeverBlocks
  <1>6. Custody'
    BY <1>1, PodsStay DEF Alive
  <1>7. QED
    BY <1>2, <1>3, <1>4, <1>5, <1>6

LEMMA WatchEndsKeepsInv ==
    ASSUME IInv, WatchEnds
    PROVE  IInv'
  <1> USE DEF IInv, reqVars, chanVars
  <1>1. /\ stream' = <<>> /\ DOMAIN stream' = {} /\ watch' = "closed"
        /\ UNCHANGED <<status, rewatches, lost, everReady, podsReady, sending, chanVars, reqVars>>
    BY DEF WatchEnds
  <1>2. TypeOK'
    BY <1>1 DEF TypeOK
  <1>3. Channels'
    BY <1>1 DEF Channels, NoChannelPanic, NoWaiterLeft, FreshChannel
  <1>4. Truth' /\ Once'
    BY <1>1 DEF Truth, OnlyReadyHandedOut, StreamTrue, NotifiedTrue,
                Once, NotifiedOnce, AddedFirst, WatcherNeverBlocks
  <1>5. Custody'
    BY <1>1, PodsStay DEF Alive
  <1>6. QED
    BY <1>2, <1>3, <1>4, <1>5

(* A pod becomes ready, or goes by itself. *)
LEMMA ServerKeepsInv ==
    ASSUME IInv, NEW p \in Pods, PodReady(p) \/ PodVanishes(p)
    PROVE  IInv'
  <1> USE DEF IInv, watcherVars, chanVars, reqVars
  <1>1. PICK type \in {"Ready", "Deleted"}, to \in {"ready", "gone"} :
          /\ Alive(p) /\ status' = [status EXCEPT ![p] = to] /\ Tell(type, p)
          /\ everReady' \in {everReady, everReady \cup {p}}
          /\ type = "Ready" => p \in everReady'
          /\ UNCHANGED <<rewatches, lost, watcherVars, chanVars, reqVars>>
    BY DEF PodReady, PodVanishes, Gone
  <1>2. \A q \in Pods : (Alive(q)' => Alive(q)) /\ (status[q] # "none" => status'[q] # "none")
    BY <1>1 DEF Alive, TypeOK
  <1>3. stream' \in Seq(Events) /\ StreamTrue'
    BY <1>1, <1>2, TellKeepsStream DEF Truth, TypeOK
  <1>4. TypeOK'
    BY <1>1, <1>3 DEF TypeOK, Events
  <1>5. Channels'
    BY <1>1 DEF Channels, NoChannelPanic, NoWaiterLeft, FreshChannel
  <1>6. Truth'
    BY <1>1, <1>3 DEF Truth, OnlyReadyHandedOut, NotifiedTrue
  <1>7. Once'
    BY <1>1, TellKeepsAddedFirst DEF Truth, Once, NotifiedOnce, WatcherNeverBlocks
  <1>8. Custody'
    BY <1>1, <1>2, PodsStay
  <1>9. QED
    BY <1>4, <1>5, <1>6, <1>7, <1>8

(* From here on a pod may be reported, and its waiter notified, twice. *)
LEMMA RewatchKeepsInv ==
    ASSUME IInv, Rewatch
    PROVE  IInv'
  <1> USE DEF IInv, watcherVars, chanVars, reqVars
  <1>1. /\ rewatches' = rewatches + 1 /\ rewatches' \in 0..MaxRewatch /\ rewatches' # 0
        /\ UNCHANGED <<status, lost, everReady, watcherVars, chanVars, reqVars>>
    BY BoundsAssumption DEF Rewatch, TypeOK
  <1> DEFINE Living == {p \in Pods : Alive(p)}
  <1>2. PICK s \in SetToSeqs(Living) : stream' = [i \in DOMAIN s |-> <<"Added", s[i]>>]
    BY DEF Rewatch
  <1>3. Cardinality(Living) \in Nat
    <2>1. Living \subseteq Pods /\ IsFiniteSet(Pods)
      BY PodsAssumption
    <2>2. IsFiniteSet(Living)
      BY <2>1, FS_Subset
    <2>3. QED
      BY <2>2, FS_CardinalityType
  <1>4. /\ DOMAIN s = 1..Cardinality(Living)
        /\ \A i \in DOMAIN s : s[i] \in Living
    BY DEF SetToSeqs
  <1>5. stream' \in Seq(Events) /\ StreamTrue'
    <2>1. \A i \in DOMAIN s : <<"Added", s[i]>> \in Events /\ status[s[i]] # "none"
      BY <1>4 DEF Events, Alive
    <2>2. stream' \in Seq(Events)
      <3> DEFINE n == Cardinality(Living)
      <3>1. n \in Nat /\ stream' = [i \in 1..n |-> <<"Added", s[i]>>]
        BY <1>2, <1>3, <1>4
      <3>2. \A i \in 1..n : <<"Added", s[i]>> \in Events
        BY <1>4, <2>1
      <3> HIDE DEF n
      <3>3. QED
        BY <3>1, <3>2
    <2>3. QED
      BY <1>1, <1>2, <2>1, <2>2 DEF StreamTrue
  <1>6. TypeOK'
    BY <1>1, <1>5 DEF TypeOK, Events
  <1>7. Channels'
    BY <1>1 DEF Channels, NoChannelPanic, NoWaiterLeft, FreshChannel
  <1>8. Truth' /\ Once'
    BY <1>1, <1>5 DEF Truth, OnlyReadyHandedOut, NotifiedTrue, Once, NotifiedOnce,
                      WatcherNeverBlocks
  <1>9. Custody'
    BY <1>1, PodsStay DEF Alive
  <1>10. QED
    BY <1>6, <1>7, <1>8, <1>9

-----------------------------------------------------------------------------
(* One step per action of Next. *)
LEMMA StepKeepsInv == IInv /\ [Next]_vars => IInv'
  <1> SUFFICES ASSUME IInv, [Next]_vars PROVE IInv'
    OBVIOUS
  <1>1. ASSUME NEW r \in Reqs,
               \/ Begin(r) \/ BackoffEnds(r) \/ GiveUp(r) \/ Close(r)
               \/ SelectClosed(r) \/ SelectDone(r)
               \/ \E retryable \in BOOLEAN : CreateFailed(r, retryable)
        PROVE  IInv'
    <2>1. UNCHANGED <<serverVars, watcherVars, chanVars, pod>>
      BY <1>1 DEF Begin, BackoffEnds, GiveUp, Close, SelectClosed, SelectDone, CreateFailed
    <2>2. steps' \in [Reqs -> 0..Steps] /\ ended' \subseteq Reqs
      <3>1. steps \in [Reqs -> 0..Steps] /\ ended \subseteq Reqs
        BY DEF IInv, TypeOK
      <3>2. \/ steps' = steps
            \/ steps' = [steps EXCEPT ![r] = Steps]
            \/ steps[r] >= 1 /\ steps' = [steps EXCEPT ![r] = @ - 1]
        BY <1>1 DEF Begin, BackoffEnds, GiveUp, Close, SelectClosed, SelectDone, CreateFailed,
                    Retry
      <3>3. ended' \subseteq ended
        BY <1>1 DEF Begin, BackoffEnds, GiveUp, Close, SelectClosed, SelectDone, CreateFailed,
                    Retry
      <3>4. QED
        BY <3>1, <3>2, <3>3, StepsAssumption
    <2>3. \/ /\ pc[r] \in {"idle", "failed", "creating", "backoff"}
             /\ \E to \in {"idle", "failed", "creating", "backoff"} : pc' = [pc EXCEPT ![r] = to]
          \/ pc[r] = "using" /\ pc' = [pc EXCEPT ![r] = "deleting"]
          \/ pc[r] = "waiting" /\ pc' = [pc EXCEPT ![r] = "unready"]
      BY <1>1 DEF Begin, BackoffEnds, GiveUp, Close, SelectClosed, SelectDone, CreateFailed,
                  Retry, Goto
    <2>4. PICK to \in Places :
            /\ to # "created" /\ to \notin {"using", "notified"}
            /\ pc' = [pc EXCEPT ![r] = to]
            /\ pc[r] \in WithPod <=> to \in WithPod
            /\ pc[r] \in InWait => to \in InWait
      BY <2>3 DEF Places, WithPod, InWait, Allocating
    <2>5. QED
      BY <2>1, <2>2, <2>4, MoveKeepsInv
  <1>2. ASSUME NEW r \in Reqs, CtxEnds(r)
        PROVE  IInv'
    BY <1>2 DEF CtxEnds, IInv, serverVars, watcherVars, chanVars, TypeOK, Channels,
                NoChannelPanic, NoWaiterLeft, FreshChannel, Truth, OnlyReadyHandedOut,
                StreamTrue, NotifiedTrue, Once, NotifiedOnce, AddedFirst, WatcherNeverBlocks,
                Custody, HeldExist, PodsAccounted, Held, Alive
  <1>3. ASSUME NEW r \in Reqs, NEW p \in Pods,
               CreateDone(r, p) \/ \E retryable \in BOOLEAN : CreateUnknown(r, retryable, p)
        PROVE  IInv'
    BY <1>3, CreateDoneKeepsInv, CreateUnknownKeepsInv
  <1>4. ASSUME NEW r \in Reqs, AddWaiter(r) \/ SelectIP(r) \/ RemoveWaiter(r) \/ DeletePod(r)
        PROVE  IInv'
    BY <1>4, AddWaiterKeepsInv, SelectIPKeepsInv, RemoveWaiterKeepsInv, DeletePodKeepsInv
  <1>5. CASE WatchPodEvents \/ WatchEnds
    BY <1>5, ReceiveAddedKeepsInv, ReceiveReadyKeepsInv, ReceiveDeletedKeepsInv, SendKeepsInv,
       WatchEndsKeepsInv DEF WatchPodEvents
  <1>6. CASE Server
    BY <1>6, ServerKeepsInv, RewatchKeepsInv DEF Server
  <1>7. CASE UNCHANGED vars
    BY <1>7 DEF vars, IInv, serverVars, watcherVars, chanVars, reqVars, TypeOK, Channels,
                NoChannelPanic, NoWaiterLeft, FreshChannel, Truth, OnlyReadyHandedOut,
                StreamTrue, NotifiedTrue, Once, NotifiedOnce, AddedFirst, WatcherNeverBlocks,
                Custody, HeldExist, PodsAccounted, Held, Alive
  <1>8. QED
    BY <1>1, <1>2, <1>3, <1>4, <1>5, <1>6, <1>7 DEF Next, CreatePod, WaitPodReady

-----------------------------------------------------------------------------
(* The inductive invariant of the backend. *)
THEOREM InvariantHolds == Spec => []IInv
  BY InitInv, StepKeepsInv, PTL DEF Spec

(* notifyWaiter, addWaiter and removeWaiter, called by the watcher and by  *)
(* waiters that time out: no channel is closed twice or sent on once it is *)
(* closed, no waiter stays in the map, and until a watch was broken the    *)
(* watcher never waits for a waiter.                                       *)
THEOREM ChannelsAreSound == Spec => []ChannelsSound
  <1>1. IInv => ChannelsSound
    BY DEF IInv, Channels, Once, ChannelsSound
  <1>2. QED
    BY <1>1, InvariantHolds, PTL

(* WaitPodReady takes no closed channel for an IP: Allocate returns a      *)
(* browser only for a pod that has been ready.                             *)
THEOREM OnlyReadyPods == Spec => []OnlyReadyHandedOut
  <1>1. IInv => OnlyReadyHandedOut
    BY DEF IInv, Truth
  <1>2. QED
    BY <1>1, InvariantHolds, PTL

(* Allocate, on each of its paths, and Close: a pod that exists belongs to *)
(* one request, but for those the API server did not answer for.           *)
THEOREM PodsAreAccounted == Spec => []PodsAccounted
  <1>1. IInv => PodsAccounted
    BY DEF IInv, Custody
  <1>2. QED
    BY <1>1, InvariantHolds, PTL

-----------------------------------------------------------------------------
(* The containers of Docker                                                *)

(* Nothing exists for a request before the daemon was told to create it. *)
NotYet ==
    \A r \in Reqs :
        dockerPc[r] \in {"out", "create", "pulling", "recreate"} => cont[r] = "none"

(* One place in the channel of a pull is enough: the goroutine is started  *)
(* once, and sends once.                                                   *)
RoomForResult ==
    \A r \in Reqs : /\ dockerPc[r] \in {"out", "create"} => puller[r] = "none"
                    /\ errCh[r] # "empty" => puller[r] = "ended"

(* A result is "ok" or an error once the pull is over. *)
ResultKnown == \A r \in Reqs : puller[r] = "sending" => answer[r] # "none"

DockerInv == Docker!ContainersAccounted /\ NotYet /\ RoomForResult /\ ResultKnown

-----------------------------------------------------------------------------
LEMMA DockerInitInv == Docker!Init => DockerInv
  BY Zenon
     DEF Docker!Init, DockerInv, Docker!ContainersAccounted, NotYet, RoomForResult,
         ResultKnown, Docker!TypeOK, Docker!Exists

(* The start-up, and a request that comes in. *)
LEMMA BootKeepsInv ==
    ASSUME DockerInv,
           \/ \E image \in Images : Docker!PullPresent(image) \/ Docker!PullMissing(image)
           \/ Docker!BootFails \/ Docker!Serve \/ UNCHANGED Docker!vars
    PROVE  DockerInv'
  BY DEF DockerInv, Docker!ContainersAccounted, NotYet, RoomForResult, ResultKnown,
         Docker!TypeOK, Docker!vars, Docker!bootVars, Docker!pullVars, Docker!contVars,
         Docker!PullPresent, Docker!PullMissing, Docker!ImagePull, Docker!BootFails,
         Docker!Serve

(* Steps that leave images, containers and channels alone.  A request that *)
(* fails in one of them has no container yet.                              *)
LEMMA WaitKeepsInv ==
    ASSUME DockerInv, NEW r \in Reqs,
           \/ Docker!Ask(r) \/ Docker!CreateFails(r) \/ Docker!SelectDone(r)
           \/ Docker!InspectReturns(r)
           \/ Docker!BackoffPassed(r) \/ Docker!BackoffCancelled(r) \/ Docker!Expires(r)
    PROVE  DockerInv'
  <1>1. /\ UNCHANGED <<Docker!bootVars, cached, Docker!pullVars, Docker!contVars>>
        /\ expired' \subseteq Reqs
        /\ \A q \in Reqs \ {r} : dockerPc'[q] = dockerPc[q]
        /\ dockerPc' \in [Reqs -> {"out", "browser", "failed", "closed"} \cup Docker!Waiting]
        /\ \/ dockerPc[r] \in Docker!HasContainer /\ dockerPc'[r] \in Docker!HasContainer
           \/ dockerPc[r] \notin Docker!HasContainer \cup {"browser", "closed", "failed"}
              /\ dockerPc'[r] \notin Docker!HasContainer
              /\ (dockerPc'[r] \in {"out", "create"} => dockerPc[r] \in {"out", "create"})
    BY DEF DockerInv, Docker!ContainersAccounted, Docker!TypeOK, Docker!Ask,
           Docker!CreateFails, Docker!SelectDone, Docker!InspectReturns,
           Docker!InspectUnmapped, Docker!InspectRunning, Docker!InspectFails,
           Docker!BackoffPassed, Docker!BackoffCancelled, Docker!Expires, Docker!Goto,
           Docker!Waiting, Docker!HasContainer
  <1>2. Docker!TypeOK'
    BY <1>1 DEF DockerInv, Docker!ContainersAccounted, Docker!TypeOK, Docker!bootVars,
                Docker!pullVars, Docker!contVars
  <1>3. NotYet' /\ RoomForResult' /\ ResultKnown'
    BY <1>1 DEF DockerInv, NotYet, RoomForResult, ResultKnown, Docker!pullVars,
                Docker!contVars, Docker!HasContainer, Docker!ContainersAccounted,
                Docker!TypeOK, Docker!Waiting
  <1>4. Docker!ContainersAccounted'
    BY <1>1, <1>2 DEF DockerInv, Docker!ContainersAccounted, NotYet, Docker!contVars,
                      Docker!Exists, Docker!HasContainer, Docker!TypeOK, Docker!Waiting
  <1>5. QED
    BY <1>2, <1>3, <1>4 DEF DockerInv

(* The pull: its goroutine, and the request that waits for it. *)
LEMMA PullKeepsInv ==
    ASSUME DockerInv, NEW r \in Reqs,
           \/ Docker!CreateNotFound(r) \/ Docker!PullReturns(r)
           \/ Docker!PullSends(r) \/ Docker!SelectPulled(r)
    PROVE  DockerInv'
  <1> USE DEF DockerInv, Docker!ContainersAccounted, NotYet, RoomForResult, ResultKnown,
              Docker!TypeOK, Docker!Goto, Docker!bootVars, Docker!contVars, Docker!Waiting,
              Docker!HasContainer
  <1>1. CASE Docker!CreateNotFound(r)
    BY <1>1 DEF Docker!CreateNotFound
  <1>2. CASE Docker!PullReturns(r)
    <2>1. PICK result \in {"ok", "error"} :
             /\ cached' \in {cached, cached \cup {ImageOf[r]}}
             /\ answer' = [answer EXCEPT ![r] = result]
      BY <1>2 DEF Docker!PullReturns, Docker!ImagePull
    <2>2. /\ puller[r] = "pulling" /\ puller' = [puller EXCEPT ![r] = "sending"]
          /\ UNCHANGED <<opts, boot, toPull, dockerPc, expired, errCh, cont, mapped, dockerLost>>
      BY <1>2 DEF Docker!PullReturns
    <2>3. Docker!TypeOK'
      <3>1. cached' \subseteq Images
        <4>1. ImageOf[r] \in Images /\ cached \subseteq Images
          BY ImageOfAssumption
        <4>2. QED
          BY <2>1, <4>1
      <3>2. /\ puller' \in [Reqs -> {"none", "pulling", "sending", "ended"}]
            /\ answer' \in [Reqs -> {"none", "ok", "error"}]
        BY <2>1, <2>2
      <3>3. QED
        BY <2>2, <3>1, <3>2, Zenon
    <2>4. QED
      BY <2>1, <2>2, <2>3
  <1>3. CASE Docker!PullSends(r)
    BY <1>3 DEF Docker!PullSends
  <1>4. CASE Docker!SelectPulled(r)
    BY <1>4 DEF Docker!SelectPulled
  <1>5. QED
    BY <1>1, <1>2, <1>3, <1>4

(* What happens to a container: by its request, or of its own accord.      *)
LEMMA ContainerKeepsInv ==
    ASSUME DockerInv, NEW r \in Reqs,
           \/ Docker!Creates(r) \/ Docker!CreateUnanswered(r)
           \/ Docker!Starts(r) \/ Docker!StartFails(r) \/ Docker!Cleanup(r) \/ Docker!Close(r)
           \/ Docker!PortsMapped(r) \/ Docker!Exits(r)
    PROVE  DockerInv'
  <1> USE DEF DockerInv, Docker!ContainersAccounted, NotYet, RoomForResult, ResultKnown,
              Docker!TypeOK, Docker!Goto, Docker!ContainerIs, Docker!Exists, Docker!bootVars,
              Docker!pullVars, Docker!contVars, Docker!Waiting, Docker!HasContainer
  <1>1. CASE Docker!Creates(r) \/ Docker!CreateUnanswered(r)
    BY <1>1 DEF Docker!Creates, Docker!CreateUnanswered
  <1>2. CASE Docker!Starts(r) \/ Docker!StartFails(r)
    BY <1>2 DEF Docker!Starts, Docker!StartFails
  <1>3. CASE Docker!Cleanup(r) \/ Docker!Close(r)
    BY <1>3 DEF Docker!Cleanup, Docker!Close, Docker!RemoveContainer
  <1>4. CASE Docker!PortsMapped(r) \/ Docker!Exits(r)
    BY <1>4 DEF Docker!PortsMapped, Docker!Exits
  <1>5. QED
    BY <1>1, <1>2, <1>3, <1>4

LEMMA DockerStepKeepsInv == DockerInv /\ [Docker!Next]_(Docker!vars) => DockerInv'
  BY BootKeepsInv, WaitKeepsInv, PullKeepsInv, ContainerKeepsInv
     DEF Docker!Next, Docker!Allocate, Docker!CreateReturns

-----------------------------------------------------------------------------
(* Whatever call to the daemon fails, and whenever the context of the      *)
(* request ends: a container that exists is known to its request or to its *)
(* browser, which will remove it, but for those the daemon kept from us.   *)
THEOREM ContainersAreAccounted == Docker!Spec => []ContainersAccounted
  <1>1. DockerInv => ContainersAccounted
    BY DEF DockerInv, ContainersAccounted
  <1>2. QED
    BY <1>1, DockerInitInv, DockerStepKeepsInv, PTL DEF Docker!Spec

(* errCh of doCreateContainer: the goroutine that pulls never finds its    *)
(* channel full, though nobody may be left to receive.                     *)
ResultFits == \A r \in Reqs : puller[r] = "sending" => errCh[r] = "empty"
THEOREM PullerFindsRoom == Docker!Spec => []ResultFits
  <1>1. DockerInv => ResultFits
    BY DEF DockerInv, Docker!ContainersAccounted, Docker!TypeOK, RoomForResult, ResultFits
  <1>2. QED
    BY <1>1, DockerInitInv, DockerStepKeepsInv, PTL DEF Docker!Spec

-----------------------------------------------------------------------------
(* In the process that chose one backend: a step of the other one leaves   *)
(* Docker alone, so its containers are accounted for there too.            *)
THEOREM BackendKeepsContainers == BackendSpec => []ContainersAccounted
  <1>1. BackendInit => Docker!Init
    BY DEF BackendInit
  <1>2. [DockerStep \/ KubeStep]_backendVars => [Docker!Next]_(Docker!vars)
    BY DEF DockerStep, KubeStep, backendVars, dockerVars, Docker!vars, Docker!bootVars,
           Docker!pullVars, Docker!contVars
  <1>3. BackendSpec => Docker!Spec
    BY <1>1, <1>2, PTL DEF BackendSpec, Docker!Spec
  <1>4. QED
    BY <1>3, ContainersAreAccounted, PTL

(* Nor does Docker touch the pods and the channels of the watcher.         *)
THEOREM BackendKeepsPods ==
    BackendSpec => [](ChannelsSound /\ OnlyReadyHandedOut /\ PodsAccounted)
  <1>1. BackendInit => Init
    BY DEF BackendInit
  <1>2. [DockerStep \/ KubeStep]_backendVars => [Next]_vars
    BY DEF DockerStep, KubeStep, backendVars
  <1>3. BackendSpec => Spec
    BY <1>1, <1>2, PTL DEF BackendSpec, Spec
  <1>4. QED
    BY <1>3, ChannelsAreSound, OnlyReadyPods, PodsAreAccounted, PTL

=============================================================================
