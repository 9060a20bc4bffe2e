--------------------------------- MODULE Pool ---------------------------------
(***************************************************************************)
(* A SlotPool as its clients use it, as one value: the identifiers in use  *)
(* with what they hold, the retired ones in the order alloc will reuse     *)
(* them (the free list is a stack), and the number created so far.         *)
(*                                                                         *)
(* commit_skeleton and retire_skeleton_contents call alloc and retire in a *)
(* loop; AllocAll and RetireAll are such a loop in closed form, by lemmas  *)
(* AllocIsLoop and RetireIsLoop of RawPrimitivesProofs.  That one call is  *)
(* the batch of length one on the linked list that module SlotPool holds,  *)
(* is StepsArePoolSteps of SlotPoolView.                                   *)
(***************************************************************************)
EXTENDS Integers, Sequences, SequencesExt

EmptyPool == [val |-> [id \in {} |-> 0], free |-> <<>>, size |-> 0]

Live(p) == DOMAIN p.val

\* get(id) = x
Put(p, id, x) ==
  [val |-> [i \in Live(p) |-> IF i = id THEN x ELSE p.val[i]], free |-> p.free, size |-> p.size]

\* The identifiers n successive calls of alloc return: the stack from its top,
\* then new slots.
NewIds(p, n) ==
  [i \in 1 .. n |->
     IF i <= Len(p.free) THEN p.free[i] ELSE p.size + i - Len(p.free) - 1]

\* alloc(xs[1]); alloc(xs[2]); ...
AllocAll(p, xs) ==
  LET n   == Len(xs)
      ids == NewIds(p, n)
      at(id) == CHOOSE i \in 1 .. n : ids[i] = id
  IN  [val  |-> [id \in Live(p) \cup ToSet(ids) |->
                   IF id \in ToSet(ids) THEN xs[at(id)] ELSE p.val[id]],
       free |-> SubSeq(p.free, n + 1, Len(p.free)),
       size |-> IF n <= Len(p.free) THEN p.size ELSE p.size + n - Len(p.free)]

\* Mutant: the last retired is reused last.
RetireAllQueued(p, ids) ==
  [val  |-> [id \in Live(p) \ ToSet(ids) |-> p.val[id]],
   free |-> p.free \o ids,
   size |-> p.size]

\* retire(ids[1]); retire(ids[2]); ...: the last one retired is reused first.
RetireAll(p, ids) ==
  [val  |-> [id \in Live(p) \ ToSet(ids) |-> p.val[id]],
   free |-> Reverse(ids) \o p.free,
   size |-> p.size]

\* Every slot is in use or on the stack, never both, and on the stack once.
IsPool(p) ==
  /\ p.size \in Nat
  /\ p.free \in Seq(Nat)
  /\ \A i, j \in DOMAIN p.free : p.free[i] = p.free[j] => i = j
  /\ Live(p) \cap ToSet(p.free) = {}
  /\ Live(p) \cup ToSet(p.free) = 0 .. p.size - 1
=============================================================================
