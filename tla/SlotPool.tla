------------------------------- MODULE SlotPool -------------------------------
(***************************************************************************)
(* SlotPool<T> of raw_engine.hpp: a vector of slots whose retired slots    *)
(* are threaded into a singly linked free list.  Every identifier of the   *)
(* raw engine (vertex, edge, skeleton, occurrence) is an index into one of *)
(* these pools, so an identifier handed out twice would let two skeletons  *)
(* own the same vertex.                                                    *)
(***************************************************************************)
EXTENDS Integers, FiniteSets

CONSTANTS
  Val,       \* the values a slot may hold
  NIL,       \* NIL_U32
  MaxSlots   \* bound of the model: the pool never grows past it

\* Below NIL every index fits in a u32 and differs from NIL: the code has no
\* check of its own, 2^32 - 1 slots do not fit in memory.
ASSUME SlotPoolAssumption ==
  /\ NIL \in Nat
  /\ MaxSlots \in Nat
  /\ MaxSlots <= NIL

VARIABLES
  a,         \* the vector: index -> [val, alive, nextFree]
  size,      \* a.size()
  freeHead,  \* first slot of the free list
  ret        \* what the last call returned

vars == <<a, size, freeHead, ret>>

Ids == 0 .. size - 1
Slot == [val : Val, alive : BOOLEAN, nextFree : Nat]
LiveIds == {id \in Ids : a[id].alive}
DeadIds == {id \in Ids : ~a[id].alive}

Init ==
  /\ a = [id \in {} |-> NIL]
  /\ size = 0
  /\ freeHead = NIL
  /\ ret = NIL

\* Mutant: the reused slot keeps its link.
AllocReusedKeepsLink(x) ==
  /\ freeHead # NIL
  /\ a' = [a EXCEPT ![freeHead] = [val |-> x, alive |-> TRUE, nextFree |-> a[freeHead].nextFree]]
  /\ freeHead' = a[freeHead].nextFree
  /\ ret' = freeHead
  /\ UNCHANGED size

\* alloc, first branch: pop the head of the free list.
AllocReused(x) ==
  /\ freeHead # NIL
  /\ a' = [a EXCEPT ![freeHead] = [val |-> x, alive |-> TRUE, nextFree |-> NIL]]
  /\ freeHead' = a[freeHead].nextFree
  /\ ret' = freeHead
  /\ UNCHANGED size

\* Mutant: grow although a retired slot could be reused.
AllocPushedAlways(x) ==
  /\ size < MaxSlots
  /\ a' = [id \in 0 .. size |->
             IF id = size THEN [val |-> x, alive |-> TRUE, nextFree |-> NIL] ELSE a[id]]
  /\ size' = size + 1
  /\ ret' = size
  /\ UNCHANGED freeHead

\* alloc, second branch: push_back.
AllocPushed(x) ==
  /\ freeHead = NIL
  /\ size < MaxSlots
  /\ a' = [id \in 0 .. size |->
             IF id = size THEN [val |-> x, alive |-> TRUE, nextFree |-> NIL] ELSE a[id]]
  /\ size' = size + 1
  /\ ret' = size
  /\ UNCHANGED freeHead

\* Mutant: the retired slot is not linked to the rest of the list.
RetireDropsList(id) ==
  /\ id \in LiveIds
  /\ a' = [a EXCEPT ![id] = [val |-> a[id].val, alive |-> FALSE, nextFree |-> NIL]]
  /\ freeHead' = id
  /\ ret' = NIL
  /\ UNCHANGED size

\* retire: the assertion (a live identifier) is the caller's obligation.
Retire(id) ==
  /\ id \in LiveIds
  /\ a' = [a EXCEPT ![id] = [val |-> a[id].val, alive |-> FALSE, nextFree |-> freeHead]]
  /\ freeHead' = id
  /\ ret' = NIL
  /\ UNCHANGED size

RetireNil ==
  /\ ret' = NIL
  /\ UNCHANGED <<a, size, freeHead>>

\* A write through the reference get(id) returns.
Write(id, x) ==
  /\ id \in LiveIds
  /\ a' = [a EXCEPT ![id].val = x]
  /\ ret' = NIL
  /\ UNCHANGED <<size, freeHead>>

Next ==
  \/ \E x \in Val : AllocReused(x) \/ AllocPushed(x)
  \/ \E id \in Ids :
       \/ Retire(id)
       \/ \E x \in Val : Write(id, x)
  \/ RetireNil

Spec == Init /\ [][Next]_vars

------------------------------------------------------------------------------
(* Properties. *)

\* The shape of the pool: links stay inside the vector, and a slot in use
\* carries no stale link (alloc resets it; no other code does).
TypeOK ==
  /\ size \in 0 .. MaxSlots
  /\ a \in [Ids -> Slot]
  /\ freeHead \in Ids \cup {NIL}
  /\ ret \in Ids \cup {NIL}
  /\ \A id \in Ids : a[id].nextFree \in Ids \cup {NIL}
  /\ \A id \in LiveIds : a[id].nextFree = NIL

\* s lists the free list from its head: consecutive links, ending in NIL, every
\* retired slot once and no slot in use.
IsFreeChain(s, n) ==
  /\ \A id \in DeadIds : \E i \in 1 .. n : s[i] = id
  /\ \A i, j \in 1 .. n : s[i] = s[j] => i = j
  /\ freeHead = IF n = 0 THEN NIL ELSE s[1]
  /\ \A i \in 1 .. n : a[s[i]].nextFree = IF i = n THEN NIL ELSE s[i + 1]

\* Following nextFree from freeHead visits each retired slot exactly once and
\* stops: no slot leaks, none is listed twice, the list has no cycle and never
\* reaches a slot in use.  alloc and retire keep this only because one pops and
\* resets exactly what the other pushed.
FreeListExact ==
  \E n \in 0 .. size : \E s \in [1 .. n -> DeadIds] : IsFreeChain(s, n)

Allocator == INSTANCE IdAllocator
               WITH held <- [id \in LiveIds |-> a[id].val]

\* Seen through its live slots the pool is the plain allocator: alloc never
\* returns an identifier in use, a value stays until it is written or retired,
\* and the vector grows only when no slot is free.
ImplementsAllocator == Allocator!Spec
=============================================================================
