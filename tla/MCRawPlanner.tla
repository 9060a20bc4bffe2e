------------------------------ MODULE MCRawPlanner ------------------------------
(***************************************************************************)
(* Runs of the updater from engines of the planner tests: an occurrence to *)
(* isolate, split-ready targets with and without an edge that joins the    *)
(* pair, a target with three tied pairs, the queue a split leaves when two *)
(* other occurrences are kept, and a queue that starts with INTEGRATE.     *)
(***************************************************************************)
EXTENDS RawPlanner, Fixtures

Call(start, queue, target, keep, hooks, budget) ==
  [start |-> start, queue |-> queue, target |-> target, keep |-> keep,
   hooks |-> hooks, budget |-> budget]

\* run_raw_local_updater
Update(start, target, hooks, budget) ==
  Call(start, <<EnsureSole(target)>>, target, {}, hooks, budget)

\* The caller has split at 2 and 8 himself and enqueues what afterSplit asks for:
\* the piece with the target gets back what is left of the pair and the pieces of
\* the other occurrences to keep.
PostSplit(start, target, keep, budget) ==
  LET kids   == SplitChildren(start, 0, 2, 8)
      home   == CHOOSE k \in ToSet(kids) : target \in k.hosted
      bounds == Keep(kids, {k \in ToSet(kids) : k.boundaryOnly})
      joins  == Keep(kids, {k \in ToSet(kids) \ {home} : k.hosted \cap keep # {}})
  IN  Call(SplitPair(start, 0, 2, 8),
           [i \in DOMAIN bounds |-> IntegrateJob(home.sid, bounds[i].sid, 2, 8)]
           \o [i \in DOMAIN joins |-> JoinJob(home.sid, joins[i].sid, 2, 8)]
           \o <<EnsureSole(target)>>,
           target, keep, "basic", budget)

MCRuns ==
  UNION {
    {Update(f, o31, hooks, budget) :
       f \in {SplitFixture, SplitReadyFixture(<<>>), SplitReadyFixture(<<Core(1, 2)>>), TieFixture},
       hooks \in {"basic", "none"}, budget \in {0, 2}},
    {PostSplit(BranchFixture, t, keep, budget) :
       t \in {o17, o31, o44}, keep \in SUBSET {o17, o31, o44}, budget \in {0, 2}},
    {Call(IntegrateFixture, <<IntegrateJob(0, 1, 6, 8)>>, o31, {}, "basic", budget) :
       budget \in {0, 1}} }
=============================================================================
