----------------------------- MODULE SlotPoolView -----------------------------
(***************************************************************************)
(* SlotPool seen as the one value of module Pool, which the raw engine is  *)
(* modelled with: the live slots and the free list as a sequence.          *)
(***************************************************************************)
EXTENDS SlotPool, Sequences

P == INSTANCE Pool

\* The first n slots of the list from id on.
Chain(id, n) ==
  LET f[k \in 0 .. n] == IF k = 0 THEN <<>>
                         ELSE Append(f[k - 1], IF k = 1 THEN id ELSE a[f[k - 1][k - 1]].nextFree)
  IN  f[n]

View ==
  [val  |-> [id \in LiveIds |-> a[id].val],
   free |-> Chain(freeHead, Cardinality(DeadIds)),
   size |-> size]

\* One call of alloc, retire or a write is the operation of module Pool: alloc
\* takes what was retired last, wherever in the vector it is.
StepsArePoolSteps ==
  [][\/ \E x \in Val : View' = P!AllocAll(View, <<x>>) /\ ret' = P!NewIds(View, 1)[1]
     \/ \E id \in LiveIds : \/ View' = P!RetireAll(View, <<id>>)
                            \/ \E x \in Val : View' = P!Put(View, id, x)
     \/ View' = View]_vars
=============================================================================
