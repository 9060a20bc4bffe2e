------------------------------ MODULE MCStagedRun ------------------------------
EXTENDS StagedRun

(***************************************************************************)
(* Two runs, the first with the session's budget and the second with its   *)
(* own; a run of two seeds with a failing iteration; and a run with a cap  *)
(* for exact keys.                                                         *)
(***************************************************************************)
Sound == << [seeds |-> 1, iters |-> 2, budget |-> Unset, cap |-> FALSE, failing |-> {}],
            [seeds |-> 1, iters |-> 1, budget |-> 1, cap |-> FALSE, failing |-> {}] >>
Faulty == << [seeds |-> 2, iters |-> 1, budget |-> 1, cap |-> FALSE, failing |-> {<<2, 0>>}] >>
Capped == << [seeds |-> 1, iters |-> 3, budget |-> 1, cap |-> TRUE, failing |-> {}] >>

Campaigns == {Sound, Faulty, Capped}

(***************************************************************************)
(* A chunk size of one and no limits; chunks of two and a stop after two   *)
(* of them; the default chunk size, no budget, and stops at any time.      *)
(***************************************************************************)
OneByOne == [every |-> 1, budget |-> 1, maxPartial |-> 0, stopAfter |-> FALSE, wall |-> FALSE]
TwoByTwo == [every |-> 2, budget |-> 1, maxPartial |-> 2, stopAfter |-> FALSE, wall |-> FALSE]
Stopping == [every |-> 0, budget |-> 0, maxPartial |-> 0, stopAfter |-> TRUE, wall |-> TRUE]

Lines == {OneByOne, TwoByTwo, Stopping}

ToRun ==
  { [opts |-> OneByOne, resume |-> FALSE, keep |-> TRUE, retries |-> 1],
    [opts |-> OneByOne, resume |-> TRUE, keep |-> FALSE, retries |-> 1],
    [opts |-> TwoByTwo, resume |-> FALSE, keep |-> TRUE, retries |-> 0],
    [opts |-> Stopping, resume |-> FALSE, keep |-> TRUE, retries |-> 0],
    [opts |-> Stopping, resume |-> TRUE, keep |-> TRUE, retries |-> 0] }
===============================================================================
