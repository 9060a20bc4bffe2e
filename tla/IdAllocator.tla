----------------------------- MODULE IdAllocator -----------------------------
(***************************************************************************)
(* What SlotPool (raw_engine.hpp) promises its callers, with no free list: *)
(* an identifier is handed out only while nobody holds it, it keeps the    *)
(* value last written to it until it is retired, and the pool grows only   *)
(* when every identifier it has is held.  Which free identifier is reused  *)
(* is left open.                                                           *)
(***************************************************************************)
EXTENDS Integers

CONSTANTS
  Val,    \* the values a slot may hold
  NIL     \* NIL_U32, the largest u32: never the identifier of a slot

VARIABLES
  held,   \* the value behind every identifier in use
  size,   \* number of identifiers created so far
  ret     \* what the last call returned (NIL for a call that returns nothing)

vars == <<held, size, ret>>

Init ==
  /\ held = [id \in {} |-> NIL]
  /\ size = 0
  /\ ret = NIL

Hold(id, x) ==
  /\ held' = [i \in DOMAIN held \cup {id} |-> IF i = id THEN x ELSE held[i]]
  /\ ret' = id

Reuse(x) ==
  \E id \in (0 .. size - 1) \ DOMAIN held :
    /\ Hold(id, x)
    /\ UNCHANGED size

Grow(x) ==
  /\ DOMAIN held = 0 .. size - 1
  /\ Hold(size, x)
  /\ size' = size + 1

Write(id, x) ==
  /\ id \in DOMAIN held
  /\ held' = [held EXCEPT ![id] = x]
  /\ ret' = NIL
  /\ UNCHANGED size

Release(id) ==
  /\ id \in DOMAIN held
  /\ held' = [i \in DOMAIN held \ {id} |-> held[i]]
  /\ ret' = NIL
  /\ UNCHANGED size

\* retire(NIL_U32) is a call that does nothing.
ReleaseNothing ==
  /\ ret' = NIL
  /\ UNCHANGED <<held, size>>

Next ==
  \/ \E x \in Val : Reuse(x) \/ Grow(x)
  \/ \E id \in 0 .. size - 1 :
       \/ Release(id)
       \/ \E x \in Val : Write(id, x)
  \/ ReleaseNothing

Spec == Init /\ [][Next]_vars
=============================================================================
