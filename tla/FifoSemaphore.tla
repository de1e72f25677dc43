--------------------------- MODULE FifoSemaphore ----------------------------
(***************************************************************************)
(* What the quota promises, without a counter, a mutex or a channel: at    *)
(* most Limit owners, a bounded line of requests, a unit that becomes free *)
(* goes to the head of the line in the same step, and nobody joins the     *)
(* line or passes it while a unit is free for the taking.                  *)
(***************************************************************************)
EXTENDS Integers, Sequences, FiniteSets, SequencesExt

CONSTANTS Reqs, Limit, Room

VARIABLES
    owners,    \* requests that own a unit
    line,      \* requests in line, the oldest first
    outside    \* units taken by others, which may exceed the limit

vars == <<owners, line, outside>>

Full == Cardinality(owners) + outside >= Limit

Init == owners = {} /\ line = <<>> /\ outside = 0

Acquire(r) ==
    /\ ~Full
    /\ line = <<>>
    /\ r \notin owners
    /\ owners' = owners \cup {r}
    /\ UNCHANGED <<line, outside>>

Join(r) ==
    /\ Full
    /\ Len(line) < Room
    /\ r \notin owners
    /\ \A i \in DOMAIN line : line[i] # r
    /\ line' = Append(line, r)
    /\ UNCHANGED <<owners, outside>>

(* A request may give up until the very moment it is served. *)
GiveUp(i) ==
    /\ line' = RemoveAt(line, i)
    /\ UNCHANGED <<owners, outside>>

PassOn(r) ==
    /\ r \in owners
    /\ line # <<>>
    /\ owners' = (owners \ {r}) \cup {Head(line)}
    /\ line' = Tail(line)
    /\ UNCHANGED outside

Return(r) ==
    /\ r \in owners
    /\ line = <<>>
    /\ owners' = owners \ {r}
    /\ UNCHANGED <<line, outside>>

TakeOutside ==
    /\ outside' \in Nat
    /\ outside' > outside
    /\ UNCHANGED <<owners, line>>

Next ==
    \/ \E r \in Reqs : Acquire(r) \/ Join(r) \/ PassOn(r) \/ Return(r)
    \/ \E i \in DOMAIN line : GiveUp(i)
    \/ TakeOutside

Spec == Init /\ [][Next]_vars

=============================================================================
