------------------------------ MODULE MCSlotPool ------------------------------
(***************************************************************************)
(* SlotPool on a pool of at most MaxSlots slots: every order of alloc,     *)
(* retire, write and retire(NIL), including full reuse in every order.     *)
(***************************************************************************)
EXTENDS SlotPoolView
=============================================================================
