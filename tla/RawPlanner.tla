------------------------------- MODULE RawPlanner -------------------------------
(***************************************************************************)
(* The local updater (run_raw_local_updater_queue of raw_planner.cpp): a   *)
(* queue of jobs that isolates the target occurrence, splits its skeleton  *)
(* at every separation pair that leaves the target's support in one piece, *)
(* and glues back what a split moved away from the occurrences to keep.    *)
(*                                                                         *)
(* Which of several valid pairs is split first is decided by canonical     *)
(* signatures of the outcomes; here any of them may be chosen.  A run is a *)
(* record of what the caller passes: engine, queue, RawPlannerCtx (target, *)
(* keep), hooks ("basic" or "none") and step budget (0 for no budget).     *)
(***************************************************************************)
EXTENDS RawViews

CONSTANT Runs   \* the calls of run_raw_local_updater_queue

VARIABLES
  run,      \* the arguments of the call
  re,       \* RawEngine and RawUpdateCtx
  q,        \* the queue of jobs
  steps,    \* jobs taken from the queue, counted when there is a budget
  status    \* "running", "done", or "exceeded" once the budget is

vars == <<run, re, q, steps, status>>

------------------------------------------------------------------------------
(* Jobs and hooks. *)

EnsureSole(o) == [kind |-> "ENSURE_SOLE", occ |-> o]
JoinJob(left, right, a, b) ==
  [kind |-> "JOIN_PAIR", left |-> left, right |-> right, a |-> a, b |-> b]
IntegrateJob(parent, child, a, b) ==
  [kind |-> "INTEGRATE_CHILD", parent |-> parent, child |-> child, a |-> a, b |-> b]

\* make_integrate_child_job maps both vertices of the pair to themselves.
SameNames(job) == [v \in {job.a, job.b} |-> v]

\* Mutant: nothing is enqueued after a join or an integration.
NeverEnsure(queue, o) == queue

EnsureOnceBack(queue, o) ==
  IF EnsureSole(o) \in ToSet(queue) THEN queue ELSE Append(queue, EnsureSole(o))

Intersects(child, ctx) ==
  child.hosted \cap (IF ctx.keep = {} THEN {ctx.target} ELSE ctx.keep) # {}

\* choose_anchor_child: the first child with the target, else the first to keep,
\* else the first with inner vertices, else the first.
Anchor(children, ctx) ==
  LET rank(c) == IF ctx.target \in c.hosted THEN 1
                 ELSE IF Intersects(c, ctx) THEN 2
                 ELSE IF ~c.boundaryOnly THEN 3 ELSE 4
  IN  children[CHOOSE i \in DOMAIN children : \A j \in DOMAIN children :
                 \/ rank(children[i]) < rank(children[j])
                 \/ rank(children[i]) = rank(children[j]) /\ i <= j]

\* Mutant: the anchor is not left out.
AfterSplitJoinsAnchor(children, a, b, ctx) ==
  LET anchor == Anchor(children, ctx)
      bounds == Keep(children, {c \in ToSet(children) : c.boundaryOnly})
      joins  == Keep(children, {c \in ToSet(children) : ~c.boundaryOnly /\ Intersects(c, ctx)})
  IN  IF children = <<>> THEN <<>>
      ELSE [i \in DOMAIN bounds |-> IntegrateJob(anchor.sid, bounds[i].sid, a, b)]
           \o [i \in DOMAIN joins |-> JoinJob(anchor.sid, joins[i].sid, a, b)]
           \o <<EnsureSole(ctx.target)>>

\* The afterSplit hook of make_basic_hooks_for_target: what is left of the pair
\* and the other children to keep go back to the anchor.
AfterSplit(children, a, b, ctx) ==
  LET anchor == Anchor(children, ctx)
      others == {c \in ToSet(children) : c.sid # anchor.sid}
      bounds == Keep(children, {c \in others : c.boundaryOnly})
      joins  == Keep(children, {c \in others : ~c.boundaryOnly /\ Intersects(c, ctx)})
  IN  IF children = <<>> THEN <<>>
      ELSE [i \in DOMAIN bounds |-> IntegrateJob(anchor.sid, bounds[i].sid, a, b)]
           \o [i \in DOMAIN joins |-> JoinJob(anchor.sid, joins[i].sid, a, b)]
           \o <<EnsureSole(ctx.target)>>

------------------------------------------------------------------------------
(* The queues of the callers. *)

Glues(job) == job.kind \in {"JOIN_PAIR", "INTEGRATE_CHILD"}
Into(job) == IF job.kind = "JOIN_PAIR" THEN job.left ELSE job.parent
From(job) == IF job.kind = "JOIN_PAIR" THEN job.right ELSE job.child

\* Two skeletons that share the names a and b and no other.
Meet(r, s, t, a, b) ==
  /\ {s, t} \subseteq Skels(r)
  /\ s # t
  /\ a # b
  /\ RealNames(r, VertsOf(r, s)) \cap RealNames(r, VertsOf(r, t)) = {a, b}

\* What a job needs of the engine, and what a job that glues needs of those before
\* it: they glue to the same skeleton, at the same pair, and none its own.
JobFits(r, job) ==
  /\ job.kind \in {"ENSURE_SOLE", "JOIN_PAIR", "INTEGRATE_CHILD"}
  /\ job.kind = "ENSURE_SOLE" => job = EnsureSole(job.occ) /\ job.occ \in HostedOccs(r)
  /\ Glues(job) => Meet(r, Into(job), From(job), job.a, job.b)

FitsBehind(r, job, first) ==
  Glues(job) =>
    /\ Glues(first)
    /\ Into(first) = Into(job) /\ first.a = job.a /\ first.b = job.b
    /\ Meet(r, From(first), From(job), job.a, job.b)

\* What a split leaves to do: jobs that glue pieces of one skeleton together
\* again, and then occurrences to be made sole.
QueueFits(r, queue) ==
  /\ queue \in Seq(ToSet(queue))
  /\ \A i \in DOMAIN queue : JobFits(r, queue[i])
  /\ \A i, j \in DOMAIN queue : j < i => FitsBehind(r, queue[i], queue[j])

\* The last job is to make o sole, or one that enqueues this.
LeadsTo(queue, o) == queue # <<>> /\ (Glues(queue[Len(queue)]) \/ queue[Len(queue)] = EnsureSole(o))

\* The tests and the planner call the updater on a sound engine, with one
\* ENSURE_SOLE job for the target or with the jobs that afterSplit returned for a
\* split they have made.
ASSUME RunsAssumption ==
  \A c \in Runs :
    /\ Sound(c.start)
    /\ \A sid \in Skels(c.start) : UniqueNames(c.start, sid)
    /\ c.target \in HostedOccs(c.start)
    /\ QueueFits(c.start, c.queue)
    /\ LeadsTo(c.queue, c.target)

------------------------------------------------------------------------------
(* Split candidates. *)

\* Mutant: the core patch is not part of the support.
SupportPortsOnly(r, o) ==
  LET c == r.occ[o].center IN {OtherEnd(r, e, c) : e \in r.V.val[c].adj}

\* collect_support_vertices: the center itself is not among them.
Support(r, o) ==
  LET c == r.occ[o].center IN
  {OtherEnd(r, e, c) : e \in r.V.val[c].adj} \cup UNION {Ends(r, e) : e \in r.occ[o].patch}

\* analyze_split_pair_for_support
ValidPair(r, o, a, b) ==
  LET sid == r.occ[o].host
      sep == {FindReal(r, sid, a), FindReal(r, sid, b)}
      cs  == ToSet(Components(r, sid, sep))
  IN  /\ Support(r, o) \ sep # {}
      /\ \E S \in cs : Support(r, o) \ sep \subseteq S
      /\ \A S \in cs : \A v \in sep : Touches(r, S, v)
      /\ Cardinality(cs) >= 2

IsSole(r, o) == HostedOf(r, r.occ[o].host) = {o}

\* enumerate_split_candidates; a pair is named in the order of its names.
Candidates(r, o) ==
  LET names == RealNames(r, VertsOf(r, r.occ[o].host)) IN
  IF IsSole(r, o) THEN {p \in names \X names : p[1] < p[2] /\ ValidPair(r, o, p[1], p[2])}
  ELSE {}

------------------------------------------------------------------------------
(* The loop. *)

Init ==
  /\ run \in Runs
  /\ re = run.start
  /\ q = run.queue
  /\ steps = 0
  /\ status = "running"

\* The assertions of the primitives the job calls.
Ready(job) ==
  CASE job.kind = "JOIN_PAIR" -> JoinReady(re, job.left, job.right, job.a, job.b)
    [] job.kind = "INTEGRATE_CHILD" -> IntegrateReady(re, job.parent, job.child, SameNames(job))
    [] job.kind = "ENSURE_SOLE" ->
         LET sid == re.occ[job.occ].host IN
         IF IsSole(re, job.occ)
         THEN \A p \in Candidates(re, job.occ) : SplitReady(re, sid, p[1], p[2])
         ELSE IsolateReady(re, sid, job.occ)

OverBudget == run.budget # 0 /\ steps >= run.budget

\* The next job, if the budget allows another step.
Take(kind) ==
  /\ status = "running"
  /\ q # <<>> /\ ~OverBudget
  /\ Head(q).kind = kind
  /\ Ready(Head(q))
  /\ steps' = IF run.budget = 0 THEN steps ELSE steps + 1
  /\ UNCHANGED <<run, status>>

\* The host holds other occurrences: isolate, and look again.
Isolate ==
  /\ Take("ENSURE_SOLE")
  /\ ~IsSole(re, Head(q).occ)
  /\ re' = IsolateVertex(re, re.occ[Head(q).occ].host, Head(q).occ)
  /\ q' = q

Split ==
  /\ Take("ENSURE_SOLE")
  /\ LET o   == Head(q).occ
         sid == re.occ[o].host
     IN \E p \in Candidates(re, o) :
          /\ re' = SplitPair(re, sid, p[1], p[2])
          /\ q' = IF run.hooks = "none" THEN q
                  ELSE AfterSplit(SplitChildren(re, sid, p[1], p[2]), p[1], p[2], run) \o Tail(q)

EnsureDone ==
  /\ Take("ENSURE_SOLE")
  /\ IsSole(re, Head(q).occ)
  /\ Candidates(re, Head(q).occ) = {}
  /\ q' = Tail(q)
  /\ re' = re

Join ==
  /\ Take("JOIN_PAIR")
  /\ LET j == Head(q) IN re' = JoinPair(re, j.left, j.right, j.a, j.b)
  /\ q' = EnsureOnceBack(Tail(q), run.target)

Integrate ==
  /\ Take("INTEGRATE_CHILD")
  /\ LET j == Head(q) IN re' = IntegrateSkeleton(re, j.parent, j.child, SameNames(j))
  /\ q' = EnsureOnceBack(Tail(q), run.target)

\* The exception leaves the queue and the engine as they are.
BudgetExceeded ==
  /\ status = "running"
  /\ q # <<>>
  /\ OverBudget
  /\ status' = "exceeded"
  /\ UNCHANGED <<run, re, q, steps>>

Return ==
  /\ status = "running"
  /\ q = <<>>
  /\ status' = "done"
  /\ UNCHANGED <<run, re, q, steps>>

Next == Isolate \/ Split \/ EnsureDone \/ Join \/ Integrate \/ BudgetExceeded \/ Return

\* When Next has a step to take.
CanStep == status = "running" /\ (q # <<>> /\ ~OverBudget => Ready(Head(q)))

\* The loop is sequential code: while it can take a step it takes one.  This is
\* weak fairness of Next, with its guard in place of ENABLED.
Fairness == []<>(~CanStep) \/ []<><<Next>>_vars

Spec == Init /\ [][Next]_vars /\ Fairness

------------------------------------------------------------------------------
(* Properties. *)

\* After every job, and so also when the budget exception leaves a half-done
\* update behind, each vertex and edge belongs to one skeleton and every
\* skeleton and record passes the validators.
Bookkeeping ==
  /\ IsEngine(re) /\ Owned(re)
  /\ \A sid \in Skels(re) : Validated(re, sid)

\* JOIN_PAIR and INTEGRATE_CHILD name skeletons by identifiers, which the pool
\* reuses: whatever the jobs before them do, the assertions of a queued job hold.
JobsReady ==
  \A i \in DOMAIN q : q[i].kind \in {"JOIN_PAIR", "INTEGRATE_CHILD"} => Ready(q[i])

\* The two together: what the updater relies on between any two jobs.
QueueSound == Bookkeeping /\ JobsReady

\* assert_planner_stop_condition of the tests: a run that returns leaves the
\* target alone in its skeleton with nothing to split.
AtStop ==
  status = "done" => IsSole(re, run.target) /\ Candidates(re, run.target) = {}

SameSignature(r, s, o) ==
  /\ DOMAIN PortsOf(r, o, Names(r)) = DOMAIN PortsOf(s, o, Names(s))
  /\ EdgeBag(r, r.occ[o].patch, Names(r)) = EdgeBag(s, s.occ[o].patch, Names(s))

\* assert_occ_signature_equivalent of the tests, for every occurrence and at
\* every moment, so also when the exception comes: no job changes the ports or
\* the core patch of an occurrence.  It does not hold from every start.
SignaturesKept ==
  \A o \in HostedOccs(run.start) : o \in HostedOccs(re) /\ SameSignature(re, run.start, o)

\* What run_targeted_planner_iteration and run_isolate_only_iteration assert of
\* a run that has returned.  A valid pair need not have the center on the side
\* of its support, and then the split moves the core patch away from it.
SignaturesAtStop == status = "done" => SignaturesKept

\* Without a budget the updater returns: isolating, splitting and gluing back
\* what a split moved do not feed each other for ever, and no job gets stuck in
\* an assertion.
Terminates == run.budget = 0 ~> status = "done"
=============================================================================
