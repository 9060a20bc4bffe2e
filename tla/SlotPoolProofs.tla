---------------------------- MODULE SlotPoolProofs ----------------------------
(***************************************************************************)
(* Theorems about SlotPool for any number of slots: the shape of the pool, *)
(* the exactness of its free list, and the refinement of IdAllocator.      *)
(*                                                                         *)
(* TypeOK alone says nothing about where a link leads, so neither theorem  *)
(* is inductive without Chained: the free list is described by a sequence  *)
(* of retired slots, which alloc shortens at the front and retire extends  *)
(* at the front.                                                           *)
(***************************************************************************)
EXTENDS SlotPool, FiniteSetTheorems, TLAPS

\* FreeListExact without the bound on the length of the list.
Chained ==
  \E n \in Nat : \E s \in [1 .. n -> DeadIds] : IsFreeChain(s, n)

IInv == TypeOK /\ Chained

\* An injective list of slots is no longer than the vector.
LEMMA ChainLength ==
  ASSUME NEW n \in Nat, NEW m \in Nat, NEW s \in [1 .. n -> 0 .. m - 1],
         \A i, j \in 1 .. n : s[i] = s[j] => i = j
  PROVE  n <= m
<1>1. IsFiniteSet(1 .. n) /\ Cardinality(1 .. n) = n
  BY FS_Interval
<1>2. IsFiniteSet(0 .. m - 1) /\ Cardinality(0 .. m - 1) = m
  BY FS_Interval
<1>3. ASSUME n > m PROVE FALSE
  <2>1. Cardinality(0 .. m - 1) < Cardinality(1 .. n)
    BY <1>1, <1>2, <1>3
  <2>2. \E i, j \in 1 .. n : i # j /\ s[i] = s[j]
    BY <1>1, <1>2, <2>1, FS_PigeonHole
  <2>. QED
    BY <2>2
<1>. QED
  BY <1>3

LEMMA InitIInv == Init => IInv
<1>. SUFFICES ASSUME Init PROVE IInv
  OBVIOUS
<1>1. TypeOK
  BY SlotPoolAssumption DEF Init, TypeOK, Ids, LiveIds, Slot
<1>2. [i \in 1 .. 0 |-> 0] \in [1 .. 0 -> DeadIds]
  OBVIOUS
<1>3. IsFreeChain([i \in 1 .. 0 |-> 0], 0)
  BY DEF Init, IsFreeChain, DeadIds, Ids
<1>. QED
  BY <1>1, <1>2, <1>3 DEF IInv, Chained

------------------------------------------------------------------------------
(* Each action keeps the shape of the pool. *)

LEMMA TypeOKStep == TypeOK /\ Chained /\ [Next]_vars => TypeOK'
<1>. SUFFICES ASSUME TypeOK, Chained, [Next]_vars PROVE TypeOK'
  OBVIOUS
<1>. USE SlotPoolAssumption DEF TypeOK, Ids, Slot, LiveIds
<1>1. ASSUME NEW x \in Val, AllocReused(x) PROVE TypeOK'
  BY <1>1 DEF AllocReused
<1>2. ASSUME NEW x \in Val, AllocPushed(x) PROVE TypeOK'
  BY <1>2 DEF AllocPushed
<1>3. ASSUME NEW id \in Ids, Retire(id) PROVE TypeOK'
  BY <1>3 DEF Retire
<1>4. ASSUME NEW id \in Ids, NEW x \in Val, Write(id, x) PROVE TypeOK'
  BY <1>4 DEF Write
<1>5. CASE RetireNil
  BY <1>5 DEF RetireNil
<1>6. CASE UNCHANGED vars
  BY <1>6 DEF vars
<1>. QED
  BY <1>1, <1>2, <1>3, <1>4, <1>5, <1>6 DEF Next

------------------------------------------------------------------------------
(* Each action keeps the free list a chain. *)

LEMMA ReuseChain ==
  ASSUME TypeOK, Chained, NEW x \in Val, AllocReused(x)
  PROVE  Chained'
<1>. USE SlotPoolAssumption
<1>1. PICK n \in Nat : \E s \in [1 .. n -> DeadIds] : IsFreeChain(s, n)
  BY DEF Chained
<1>2. PICK s \in [1 .. n -> DeadIds] : IsFreeChain(s, n)
  BY <1>1
<1>3. n # 0 /\ freeHead = s[1] /\ freeHead \in DeadIds
  BY <1>2 DEF IsFreeChain, AllocReused
<1>. DEFINE m == n - 1
            t == [i \in 1 .. m |-> s[i + 1]]
<1>4. m \in Nat
  BY <1>3
<1>5. DeadIds' = DeadIds \ {freeHead}
  BY <1>3 DEF AllocReused, DeadIds, Ids, TypeOK
<1>6. \A i \in 1 .. m : i + 1 \in 1 .. n /\ s[i + 1] # s[1] /\ s[i + 1] \in DeadIds
  BY <1>2, <1>3 DEF IsFreeChain
<1>7. t \in [1 .. m -> DeadIds']
  BY <1>3, <1>5, <1>6
<1>8. \A i \in 1 .. m : a'[t[i]].nextFree = a[t[i]].nextFree
  BY <1>3, <1>6 DEF AllocReused, TypeOK, DeadIds
<1>9. IsFreeChain(t, m)'
  <2>1. \A id \in DeadIds' : \E i \in 1 .. m : t[i] = id
    <3>1. ASSUME NEW id \in DeadIds' PROVE \E i \in 1 .. m : t[i] = id
      <4>1. PICK j \in 1 .. n : s[j] = id
        BY <1>2, <1>5 DEF IsFreeChain
      <4>2. j # 1
        BY <4>1, <1>3, <1>5
      <4>3. j - 1 \in 1 .. m /\ t[j - 1] = id
        BY <4>1, <4>2
      <4>. QED
        BY <4>3
    <3>. QED
      BY <3>1
  <2>2. \A i, j \in 1 .. m : t[i] = t[j] => i = j
    BY <1>2, <1>6 DEF IsFreeChain
  <2>3. freeHead' = IF m = 0 THEN NIL ELSE t[1]
    BY <1>2, <1>3 DEF IsFreeChain, AllocReused
  <2>4. \A i \in 1 .. m : a'[t[i]].nextFree = IF i = m THEN NIL ELSE t[i + 1]
    BY <1>2, <1>6, <1>8 DEF IsFreeChain
  <2>. QED
    BY <2>1, <2>2, <2>3, <2>4 DEF IsFreeChain
<1>. QED
  BY <1>4, <1>7, <1>9 DEF Chained

LEMMA RetireChain ==
  ASSUME TypeOK, Chained, NEW id \in Ids, Retire(id)
  PROVE  Chained'
<1>. USE SlotPoolAssumption
<1>1. PICK n \in Nat : \E s \in [1 .. n -> DeadIds] : IsFreeChain(s, n)
  BY DEF Chained
<1>2. PICK s \in [1 .. n -> DeadIds] : IsFreeChain(s, n)
  BY <1>1
<1>. DEFINE m == n + 1
            t == [i \in 1 .. m |-> IF i = 1 THEN id ELSE s[i - 1]]
<1>3. id \notin DeadIds
  BY DEF Retire, LiveIds, DeadIds
<1>4. DeadIds' = DeadIds \cup {id}
  BY DEF Retire, DeadIds, LiveIds, Ids, TypeOK
<1>5. \A i \in 2 .. m : i - 1 \in 1 .. n /\ t[i] = s[i - 1] /\ t[i] \in DeadIds
  OBVIOUS
<1>6. t \in [1 .. m -> DeadIds']
  BY <1>4, <1>5
<1>7. \A d \in DeadIds : a'[d].nextFree = a[d].nextFree
  BY <1>3 DEF Retire, TypeOK, DeadIds
<1>8. IsFreeChain(t, m)'
  <2>1. \A d \in DeadIds' : \E i \in 1 .. m : t[i] = d
    <3>1. t[1] = id
      OBVIOUS
    <3>2. ASSUME NEW d \in DeadIds PROVE \E i \in 1 .. m : t[i] = d
      <4>1. PICK j \in 1 .. n : s[j] = d
        BY <1>2 DEF IsFreeChain
      <4>2. j + 1 \in 1 .. m /\ t[j + 1] = d
        BY <4>1
      <4>. QED
        BY <4>2
    <3>. QED
      BY <3>1, <3>2, <1>4
  <2>2. \A i, j \in 1 .. m : t[i] = t[j] => i = j
    BY <1>2, <1>3, <1>5 DEF IsFreeChain
  <2>3. freeHead' = t[1]
    BY DEF Retire
  <2>4. a'[t[1]].nextFree = IF 1 = m THEN NIL ELSE t[2]
    BY <1>2 DEF Retire, IsFreeChain, TypeOK
  <2>5. ASSUME NEW i \in 2 .. m
        PROVE  a'[t[i]].nextFree = IF i = m THEN NIL ELSE t[i + 1]
    <3>1. a'[t[i]].nextFree = a[s[i - 1]].nextFree
      BY <1>5, <1>7
    <3>2. a[s[i - 1]].nextFree = IF i - 1 = n THEN NIL ELSE s[i]
      BY <1>2, <1>5 DEF IsFreeChain
    <3>. QED
      BY <3>1, <3>2
  <2>6. \A i \in 1 .. m : a'[t[i]].nextFree = IF i = m THEN NIL ELSE t[i + 1]
    <3>1. \A i \in 1 .. m : i = 1 \/ i \in 2 .. m
      OBVIOUS
    <3>. HIDE DEF m, t
    <3>. QED
      BY <2>4, <2>5, <3>1
  <2>7. m # 0
    OBVIOUS
  <2>. HIDE DEF m, t
  <2>. QED
    BY <2>1, <2>2, <2>3, <2>6, <2>7 DEF IsFreeChain
<1>. QED
  BY <1>6, <1>8 DEF Chained

LEMMA SameChain ==
  ASSUME Chained, freeHead' = freeHead, DeadIds' = DeadIds,
         \A id \in DeadIds : a'[id].nextFree = a[id].nextFree
  PROVE  Chained'
<1>1. PICK n \in Nat : \E s \in [1 .. n -> DeadIds] : IsFreeChain(s, n)
  BY DEF Chained
<1>2. PICK s \in [1 .. n -> DeadIds] : IsFreeChain(s, n)
  BY <1>1
<1>3. \A i \in 1 .. n : s[i] \in DeadIds
  OBVIOUS
<1>4. IsFreeChain(s, n)'
  BY <1>2, <1>3 DEF IsFreeChain
<1>5. s \in [1 .. n -> DeadIds']
  BY <1>2
<1>. QED
  BY <1>4, <1>5 DEF Chained

LEMMA ChainedStep == TypeOK /\ Chained /\ [Next]_vars => Chained'
<1>. SUFFICES ASSUME TypeOK, Chained, [Next]_vars PROVE Chained'
  OBVIOUS
<1>1. ASSUME NEW x \in Val, AllocReused(x) PROVE Chained'
  BY <1>1, ReuseChain
<1>2. ASSUME NEW x \in Val, AllocPushed(x) PROVE Chained'
  <2>1. DeadIds' = DeadIds
    BY <1>2 DEF AllocPushed, DeadIds, Ids, TypeOK
  <2>2. \A id \in DeadIds : a'[id].nextFree = a[id].nextFree
    BY <1>2 DEF AllocPushed, DeadIds, Ids, TypeOK
  <2>. QED
    BY <1>2, <2>1, <2>2, SameChain DEF AllocPushed
<1>3. ASSUME NEW id \in Ids, Retire(id) PROVE Chained'
  BY <1>3, RetireChain
<1>4. ASSUME NEW id \in Ids, NEW x \in Val, Write(id, x) PROVE Chained'
  <2>1. DeadIds' = DeadIds /\ \A d \in DeadIds : a'[d].nextFree = a[d].nextFree
    BY <1>4 DEF Write, DeadIds, LiveIds, Ids, TypeOK, Slot
  <2>. QED
    BY <1>4, <2>1, SameChain DEF Write
<1>5. CASE RetireNil
  BY <1>5, SameChain DEF RetireNil, DeadIds, Ids
<1>6. CASE UNCHANGED vars
  BY <1>6, SameChain DEF vars, DeadIds, Ids
<1>. QED
  BY <1>1, <1>2, <1>3, <1>4, <1>5, <1>6 DEF Next

LEMMA Invariant == Spec => []IInv
<1>1. IInv /\ [Next]_vars => IInv'
  BY TypeOKStep, ChainedStep DEF IInv
<1>. QED
  BY InitIInv, <1>1, PTL DEF Spec

------------------------------------------------------------------------------
(* The theorems. *)

\* The links of every reachable pool stay inside the vector and a slot in use
\* carries none, whatever the number of slots and the order of the calls.
THEOREM TypeCorrect == Spec => []TypeOK
<1>1. IInv => TypeOK
  BY DEF IInv
<1>. QED
  BY Invariant, <1>1, PTL

\* In every reachable pool the free list holds each retired slot exactly once
\* and no slot in use.
THEOREM FreeListCorrect == Spec => []FreeListExact
<1>1. ASSUME IInv PROVE FreeListExact
  <2>1. PICK n \in Nat : \E s \in [1 .. n -> DeadIds] : IsFreeChain(s, n)
    BY <1>1 DEF IInv, Chained
  <2>2. PICK s \in [1 .. n -> DeadIds] : IsFreeChain(s, n)
    BY <2>1
  <2>3. s \in [1 .. n -> 0 .. size - 1] /\ size \in Nat
    BY <1>1, SlotPoolAssumption DEF IInv, TypeOK, DeadIds, Ids
  <2>4. n <= size
    BY <2>2, <2>3, ChainLength DEF IsFreeChain
  <2>5. n \in 0 .. size
    BY <2>3, <2>4
  <2>. QED
    BY <2>2, <2>5 DEF FreeListExact
<1>. QED
  BY Invariant, <1>1, PTL

------------------------------------------------------------------------------
(* Refinement: each call is the call of the same name of the allocator. *)

\* The live slots, as the allocator sees them.
Held == [id \in LiveIds |-> a[id].val]

LEMMA ReuseRefines ==
  ASSUME IInv, NEW x \in Val, AllocReused(x)
  PROVE  Allocator!Reuse(x)
<1>1. PICK n \in Nat : \E s \in [1 .. n -> DeadIds] : IsFreeChain(s, n)
  BY DEF IInv, Chained
<1>2. PICK s \in [1 .. n -> DeadIds] : IsFreeChain(s, n)
  BY <1>1
<1>3. freeHead \in DeadIds
  BY <1>2 DEF IsFreeChain, AllocReused
<1>4. freeHead \in Ids /\ freeHead \notin LiveIds
  BY <1>3 DEF DeadIds, LiveIds
<1>5. LiveIds' = LiveIds \cup {freeHead}
  BY <1>4 DEF AllocReused, LiveIds, Ids, IInv, TypeOK
<1>6. \A id \in LiveIds' : a'[id].val = IF id = freeHead THEN x ELSE a[id].val
  BY <1>4, <1>5 DEF AllocReused, LiveIds, IInv, TypeOK
<1>7. Held' = [id \in DOMAIN Held \cup {freeHead} |-> IF id = freeHead THEN x ELSE Held[id]]
  BY <1>5, <1>6 DEF Held
<1>. QED
  BY <1>4, <1>7 DEF Allocator!Reuse, Allocator!Hold, AllocReused, Held, Ids

LEMMA PushRefines ==
  ASSUME IInv, NEW x \in Val, AllocPushed(x)
  PROVE  Allocator!Grow(x)
<1>1. PICK n \in Nat : \E s \in [1 .. n -> DeadIds] : IsFreeChain(s, n)
  BY DEF IInv, Chained
<1>2. PICK s \in [1 .. n -> DeadIds] : IsFreeChain(s, n)
  BY <1>1
\* An empty list means that no slot is retired.
<1>3. DeadIds = {}
  <2>1. n = 0
    BY <1>2, SlotPoolAssumption DEF IsFreeChain, AllocPushed, IInv, TypeOK, DeadIds, Ids
  <2>. QED
    BY <1>2, <2>1 DEF IsFreeChain
<1>4. LiveIds = 0 .. size - 1
  BY <1>3 DEF LiveIds, DeadIds, Ids
<1>5. size \in Nat
  BY SlotPoolAssumption DEF IInv, TypeOK
<1>6. LiveIds' = LiveIds \cup {size}
  BY <1>4, <1>5 DEF AllocPushed, LiveIds, Ids
<1>7. \A id \in LiveIds' : a'[id].val = IF id = size THEN x ELSE a[id].val
  BY <1>4, <1>5, <1>6 DEF AllocPushed
<1>8. Held' = [id \in DOMAIN Held \cup {size} |-> IF id = size THEN x ELSE Held[id]]
  BY <1>6, <1>7 DEF Held
<1>. QED
  BY <1>4, <1>8 DEF Allocator!Grow, Allocator!Hold, AllocPushed, Held

LEMMA RetireRefines ==
  ASSUME IInv, NEW id \in Ids, Retire(id)
  PROVE  Allocator!Release(id)
<1>1. LiveIds' = LiveIds \ {id}
  BY DEF Retire, LiveIds, Ids, IInv, TypeOK
<1>2. \A i \in LiveIds' : a'[i].val = a[i].val
  BY <1>1 DEF Retire, LiveIds, IInv, TypeOK
<1>3. Held' = [i \in DOMAIN Held \ {id} |-> Held[i]]
  BY <1>1, <1>2 DEF Held
<1>. QED
  BY <1>3 DEF Allocator!Release, Retire, Held

LEMMA WriteRefines ==
  ASSUME IInv, NEW id \in Ids, NEW x \in Val, Write(id, x)
  PROVE  Allocator!Write(id, x)
<1>1. LiveIds' = LiveIds
  BY DEF Write, LiveIds, Ids, IInv, TypeOK, Slot
<1>2. \A i \in LiveIds : a'[i].val = IF i = id THEN x ELSE a[i].val
  BY DEF Write, LiveIds, IInv, TypeOK, Slot
<1>3. Held' = [Held EXCEPT ![id] = x]
  BY <1>1, <1>2 DEF Held
<1>. QED
  BY <1>3 DEF Allocator!Write, Write, Held

\* For any number of slots the linked free list behaves as the plain allocator:
\* in particular alloc never returns an identifier that is in use.
THEOREM PoolRefinesAllocator == Spec => ImplementsAllocator
<1>1. Init => Allocator!Init
  <2>1. Init => LiveIds = {}
    BY DEF Init, LiveIds, Ids
  <2>. QED
    BY <2>1 DEF Init, Allocator!Init
<1>2. IInv /\ [Next]_vars => [Allocator!Next]_(Allocator!vars)
  <2>. SUFFICES ASSUME IInv, [Next]_vars PROVE [Allocator!Next]_(Allocator!vars)
    OBVIOUS
  <2>1. ASSUME NEW x \in Val, AllocReused(x) PROVE Allocator!Next
    BY <2>1, ReuseRefines DEF Allocator!Next
  <2>2. ASSUME NEW x \in Val, AllocPushed(x) PROVE Allocator!Next
    BY <2>2, PushRefines DEF Allocator!Next
  <2>3. ASSUME NEW id \in Ids, Retire(id) PROVE Allocator!Next
    BY <2>3, RetireRefines DEF Allocator!Next, Ids
  <2>4. ASSUME NEW id \in Ids, NEW x \in Val, Write(id, x) PROVE Allocator!Next
    BY <2>4, WriteRefines DEF Allocator!Next, Ids
  <2>5. CASE RetireNil
    BY <2>5 DEF RetireNil, Allocator!Next, Allocator!ReleaseNothing, LiveIds, Ids
  <2>6. CASE UNCHANGED vars
    BY <2>6 DEF vars, Allocator!vars, LiveIds, Ids
  <2>. QED
    BY <2>1, <2>2, <2>3, <2>4, <2>5, <2>6 DEF Next
<1>. QED
  BY Invariant, <1>1, <1>2, PTL DEF Spec, ImplementsAllocator, Allocator!Spec
=============================================================================
