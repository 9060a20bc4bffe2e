# A TLA+ model of the raw engine, its campaigns and the branch 3 solver

This directory specifies three systems of the repository:

* the **raw engine** of `branch_2-1/raw_engine_v1_package`, which keeps a graph
  cut up in *skeletons*, small graphs over REAL vertices (names of an original
  graph) and centers of *occurrences*; an update isolates one occurrence,
  splits its skeleton at separation pairs and glues pieces back;
* the **campaigns** of the engine's test driver, which run for hours over several
  sessions and checkpoint into a directory, and the **staged runner** that
  starts, times out and retries them;
* the **solver of branch 3**, which rebuilds a rooted tree from constraints on
  lowest common ancestors by deleting vertices from a graph, on top of a
  dynamic connectivity structure with one spanning forest per level.

They were chosen because they keep long-lived state under several operations,
interruptions or orders; the rest of the repository is offline solvers and
tooling. Paths of the raw engine are relative to its package, with `core` for
`src/raw_core.cpp`, `prim` for `src/raw_primitives.cpp`, `plan` for
`src/raw_planner.cpp`, `val` for `src/raw_validators.cpp`, `hpp` for
`include/raw_engine/raw_engine.hpp`, `cases` for `tests/raw_engine_cases.cpp` and
`staged` for `tests/tools/run_ctest_staged.py`; `b3` is
`branch_3/boj28350_branch_3_solver.cpp`.

## 1. Inventory

### The system's parts

| Part | State | Operations | Interacts with |
|---|---|---|---|
| `SlotPool<T>` (`hpp:30-77`) | vector of slots, free list through `nextFree`, `freeHead` | `alloc`, `retire`, `get`, `alive` | every identifier of the engine is an index of a pool |
| Core (`core:157-223`) | `RawEngine`: pools of vertices, edges, skeletons, occurrence records; `RawUpdateCtx`: dirty sets | `commit_skeleton`, `retire_skeleton_contents`, `make_occ_record` | called by the primitives; writes the dirty sets callers refresh from |
| Builders (`core:13-75`) | `RawSkeletonBuilder`, local indexes | `copy_old_vertex`, `copy_old_edge`, `remap_occ_meta` | read the engine before a commit changes it |
| Primitives (`prim`) | none of their own | `isolate_vertex`, `split_separation_pair`, `join_separation_pair`, `integrate_skeleton` | compute builders, then commit and retire |
| Validators (`val`) | none | `validate_builder_basic`, `validate_skeleton_wellformed`, `validate_occ_patch_consistent` | called around every commit in debug builds |
| Local updater (`plan:586-1424`) | queue of jobs, step counter, target, occurrences to keep | one job per turn of the loop, `afterSplit`/`afterJoin`/`afterIntegrate` hooks | jobs hold skeleton identifiers across other jobs |
| Canonical keys (`plan:98-584`, `757-932`) | none | colour refinement, signatures | order the valid split pairs |
| Campaign driver (`cases:9388-10400`) | checkpoint directory: snapshot of the configuration, manifest `latest.chk`, a summary and a `.chk` file per chunk, merged statistics, aggregate | start, resume, run a chunk, merge, stop | sessions meet only through the files |
| Staged runner (`staged`) | retries left, final status, the stage directory | spawn, wait with a timeout, classify, retry, remove the stage | starts campaign sessions, reads their output and exit code |
| Dynamic graph (`b3:291-815`) | level and tree flag per edge, adjacency lists per level, one Euler tour forest per level with edge counters | `add`, `remove` with its search for a replacement, `downgrade`, `is_connected` | tours are splay trees of entries that vertices and edges point into |
| Forest core (`b3:3670-3760`) | input edges, live vertices | `init`, `deleteVertexBatch`, `sameComponent`, `enumerateComponent` | drives the dynamic graph |
| Topology (`b3:4440-6112`) | component handles, the artifact of the last depth-first search | `init`, `deleteVertexAndSplit` by one of five routes | asks the forest core; the oracle and the solver read handles and artifact |
| Oracle (`b3:5846-16174`) | active branch queries, classes of endpoints, watches on supports | `init`, `eraseVertex` | tells the topology whether a deletion touches an owner |
| Outer solver (`b3:16608-16819`) | counters per vertex, the tree so far, the queue | relabel, place the root, place the next vertex | erases from the oracle every vertex it places |
| Test harness (`cases`, `tests/*.cpp`) | reference models | generate, replay, minimise | states the promises checked here |
| Other tooling (`tests/tools/*.py`) | runtime lifecycle manifests | publication, gates | reads and replaces files between processes |
| Other workspaces | offline solvers (`bruce`, `lca_tree_stress_v5`, `branch_1`, `branch_2_2`, `branch_4`) | read a graph, answer queries | independent of the above |

### What is hard here

In the engine, which is sequential, nothing interleaves; the hard part is identity.

* *Reuse.* `retire` puts an identifier on a list and `alloc` takes the last one
  put there, so `commit_skeleton` gives new vertices the identifiers it freed a
  moment before, and what still names an old one now names another object
  (`hpp:43`, `core:171`).
* *Read, then rewrite.* A primitive builds from the skeletons as it finds them,
  allocates (which can move a pool's vector) and commits up to two of them; in
  between nothing may be read again (`prim:200`, `prim:469`).
* *Partial copies.* `remap_occ_meta` drops without a word the patch edges that
  were not copied (`core:62`).
* *Jobs that outlive their skeletons.* A queued JOIN or INTEGRATE names two
  skeletons by identifier (`plan:1194`).
* *Termination and interruption.* Isolate, split and glue re-enqueue one
  another; the step budget can stop the loop between any two jobs (`plan:1157`).
* *Widths.* `port_key` packs a 32-bit name into what is left of 64 bits
  (`prim:33`).

In campaigns it is what a killed process leaves behind.

* *Files in place.* A chunk's summary, its `.chk`, the manifest and the snapshot
  are written where they stand, one after the other (`cases:10337-10357`).
* *Sessions that disagree.* The next session may come with another chunk size or
  budget, or resume with the recorded ones (`cases:10207`).
* *Retries over leftovers.* A retry is decided by words in the output, before the
  return code is looked at (`staged:365`), and starts in the same directory.

In the solver it is structures that are read while they change, and stale summaries.

* *A walk over lists that shrink.* `downgrade` deletes list elements and links
  tours under the iterators of the search that calls it (`b3:769`).
* *An artifact kept over deletions* it was not computed for (`b3:5068`).
* *Watches instead of questions.* Only the classes that watch the deleted vertex
  are looked at again (`b3:11896`).
* *Counting by subtraction*, and pushing a vertex at the one moment its last
  obstacle goes (`b3:16692-16705`).

PROJECT.json lists these and the smaller ones at their lines, each with the
properties that would catch it going wrong.

### What makes each part correct

* Pool: an identifier is handed out only while nobody holds it; the free list
  visits each retired slot exactly once.
* Core: every vertex and edge in use belongs to exactly one skeleton, at one
  place of one list; skeletons are graphs of their own; records are current.
* Primitives: the above after every call for *all* skeletons; nothing lost or
  doubled; joining undoes splitting; all that changed is reported dirty.
* Updater: no queued job meets a failing assertion; it returns; the target then
  is alone with nothing to split; no occurrence lost a port or its core patch;
  an interrupted run leaves a sound engine.
* Campaign: the files never say more than was run; "completed" means every
  iteration once and none failing; budgets hold over sessions.
* Staged runner: a pass is the pass of a completed campaign; every run ends.
* Dynamic graph: lists, levels and forests describe one edge set; trees halve
  from level to level; an edge only sinks; "same component?" is right.
* Topology and oracle: no component is under two handles; a query is active
  exactly while a path avoids its owner.
* Outer solver: counters and queue are exact, nobody is left out, and the tree
  satisfies every constraint.

## 2. Modules

```
IdAllocator <--refines-- SlotPool --- SlotPoolProofs
                            |
                       SlotPoolView  (SlotPool's steps are Pool's operations)
                            |
                           Pool
                            |
                        RawEngine ---- Fixtures
                         /      \
                   RawStore    RawPrimitives --- RawPrimitivesProofs
                      |              |               (cited by the three
               RawStoreProofs     RawViews            proof modules of this
                                  /      \            diagram's last rows)
                          RawSession    RawPlanner
                              |              |
                   RawSessionProofs   RawPlannerProofs

 CampaignCheckpoint <--- StagedRun --- StagedRunProofs

                 GraphTerms
          /          |            \
   DynamicGraph   EulerTour     DfsArtifact
         |           |              |
     ForestCore   |  refines    NBTopology
      |       \   |  TreeForest     |
  refines    ForestProofs        NBOracle
 Connectivity                       |
                              OuterSolver --- OuterSolverProofs
```

**SlotPool** is `SlotPool<T>` with its vector, links and free-list head:
`AllocReused` and `AllocPushed` are the two branches of `alloc`, `Retire` and
`RetireNil` those of `retire`, `Write` an assignment through `get`. **IdAllocator**
is what a caller may rely on, with no list in it; a run and a theorem show that
SlotPool implements it, under the mapping that keeps the values of the live slots.

**Pool** is the same pool as one value, `[val, free, size]`, with closed forms
for a batch: `AllocAll(p, xs)` allocates a whole list, `RetireAll(p, ids)`
retires one, `NewIds(p, n)` says which identifiers come out. The order matters
(last retired, first reused). `StepsArePoolSteps` of **SlotPoolView** ties one call
to SlotPool: it is the batch of length one. That a batch is the loop of such calls
is proved (`AllocIsLoop`, `RetireIsLoop` in RawPrimitivesProofs): a batch with one item
more is one more call.

**RawEngine** is the data of the engine and `commit_skeleton`,
`retire_skeleton_contents`, allocation and retirement of skeletons, each as a
function from engine to engine. **RawStore** is the state machine that calls
them in any order with arguments their callers guarantee (`ValidBuilder`, the
assertion made before every commit). **RawPrimitives** has, for each primitive,
its assertions (`IsolateReady`, ...), its builders and the engine after the call.
**RawViews** says what the validators check and reads an engine by names rather
than identifiers. **RawSession** calls the primitives in any legal order.
**RawPlanner** is the loop of `run_raw_local_updater_queue` with its jobs, both
hook variants and the budget. **Fixtures** are engines transcribed from `cases`.

**CampaignCheckpoint** is `run_campaign_case`. What is on disk (`diskVars`) is kept
apart from what a session knows (`memVars`); `pc` is the place between two
writes, and `Kill` may come at each of them and tear the file being written.
A campaign is a sequence of runs (seeds, iterations, own budget, cap for exact
keys) and the iterations that fail in it. **StagedRun** is `run_ctest_staged.py`
with such a session as its command: it composes the runner's steps with the
session's, and adds what happens around them (`SessionKilled`, `MachineDown`,
`Cleared`).

**DynamicGraph** has the search for a replacement edge as single steps:
`EnterLevel`, `Visit` a vertex of the smaller tree (`VisitEarly` when the iterator
begins at an entry without edges), examine one list element
(`ExamineTree`, `BreakList`, `FindReplacement`, `ExamineNonTree`), `NextLevel`,
`Reconnect`. A forest is the vertex sets of its trees and the flags of its edges.
**ForestCore** adds all edges of an input and then deletes vertices in any
order. **Connectivity** is what a caller may rely on (live edges, and a partition
they determine); ForestCore is checked against it by INSTANCE. **EulerTour** is
the forest under one level with what the vertex sets leave out: entries with
addresses, the pointers into them, the two crossings of each edge, counters that
live in the representing entry; it is checked against **TreeForest**.

**DfsArtifact** is the depth-first search and what is read off it; **NBTopology**
the handles and the five routes of a deletion; **NBOracle** queries, classes and
watches; **OuterSolver** the solver with its relabelling. The answers of the
dynamic graph are those of the live edges there, so the two halves of the solver
are modelled apart: run `lost_edge` says when the lower half does not keep that.

### Correspondence

| TLA+ | Code |
|---|---|
| `re.V`, `re.E`, `re.skel` | `RawEngine::V`, `E`, `skel` (`hpp:120-126`) |
| `re.occ[o]` | the `OccRecord` of `o`: `hostSkel` is `host`, `centerVertex` is `center`, `allocNbr` is `nbr`, `corePatchEdges` is `patch` |
| `re.dirtySkel`, `re.dirtyOcc` | `RawUpdateCtx` |
| builder `[V, E, nbr, patch]` | `RawSkeletonBuilder`, indexes from 1 |
| `CopyBuilder(r, verts, edges, glue, occs)` | the loops over `copy_old_vertex` and `copy_old_edge`, then `remap_occ_meta` |
| `Take(kind)` | the head of the loop, `plan:1157-1167` |
| `Isolate`, `Split`, `EnsureDone` | the three outcomes of an ENSURE_SOLE job |
| `Join`, `Integrate` | the two other jobs and their hooks |
| `BudgetExceeded`, `Return` | the exception; the end of the loop |
| `Begin`, `TakeSnapshot`, `LoadChunks`, `WriteManifest`, `Merge` | the head of `run_campaign_case`, `cases:10129-10264` |
| `RunChunk`, `ChunkFails`, `Commit`, `Account` | one turn of its loop, `cases:10281-10397` |
| `Judge` | classification, retry or end, `staged:353-367` |
| `edge[e]`, `list[l]`, `tree[l]` | `Edge` with `level`, `is_tree_edge`; `adjLists`; the tour of each vertex at level `l` |
| `TouchedSplit`, `UntouchedSplit`, `ConnectedDelete`, `LeafyDelete`, `PathOrderedDelete` | the five ways through `deleteVertexAndSplit`, `b3:6036-6112` |
| `watch[c]` | the support of a class |
| `Place(v)` | one turn of the main loop, `b3:16686-16706` |

### Abstractions

* `br` stands for the pair (`br`, `side`) of a bridge port.
* `adj`, `hostedOcc`, `allocNbr`, `corePatchEdges` are sets; the code keeps
  vectors whose order no check depends on. Lists of vertices and edges stay
  sequences, for their order decides which identifier is reused when.
* The inner vertices of a side of a split, and the core patch of an isolated
  occurrence, keep the skeleton's order instead of the search's; this decides
  only which identifier a copy gets.
* Occurrences are never retired by the code, so their pool is a function on
  those created so far. `occOfOrig` is kept by the tests alone and left out.
* Which valid pair is split first is chosen by canonical signatures; the model
  lets any be chosen, so what holds here holds for every tie-break.
* Names are small numbers where `port_key` is at stake and otherwise need only
  be comparable, for the planner orders a pair by name.
* Assertions are the enabling conditions of the calls in RawSession (a legal
  caller). In RawPlanner a job whose assertion fails would stop the loop, and
  QueueSound and Terminates exclude that.
* A torn file is empty or lacks a required key, and then every reader refuses
  it. Files are small enough to reach the disk in one write, so a cut inside the
  last line, which would load, is left out; so is what one iteration compares
  (one state) and which words a failing session prints (any).
* All adjacency lists of a level are one sequence: an edge enters and leaves both
  of its lists at the same moment. Within a tour, vertices are visited in any
  order. A tour is a sequence of entries; the splay tree below it is not modelled.
* Which support a class watches is any connected piece that holds its endpoints
  and not its owner: the many ways the oracle builds one are not told apart.
* An input is a set of constraints; repeating one only adds to a multiplicity,
  as writing a pair in both orders does.

## 3. Runs

| Run | Module | Question | Bounds | States |
|---|---|---|---|---|
| `slot_pool` | MCSlotPool | Is the free list exact, and is the pool the plain allocator? | 4 slots, 2 values | 2355 |
| `raw_store` | MCRawStore | Do commit, clear and retire keep ownership, graphs and records? | 2 skeletons, 4 vertex slots, 1 occurrence, 4 builders | 7820 |
| `raw_session` | MCRawSession | Is every sequence of legal calls of the primitives sound? | 4 calls from 3 fixtures, 4 boundary maps | 9142 |
| `raw_planner` | MCRawPlanner | Does the updater return, with what it promises? | 66 calls, any tie-break | 331 |
| `campaign` | MCStagedRun | Can kills, retries and resumptions make a result say what is not so? | 3 campaigns of 2 or 3 chunks, 3 settings, 5 commands | 266655 |
| `forest_core` | MCForestCore | Do levels, lists and forests agree, and does every search end? | 4 graphs of 7 vertices, 4 levels, every order of deletions | 18388 |
| `euler_tour` | MCEulerTour | Do tours, pointers and counters survive links and cuts? | forests on 4 vertices, and within a spider of 6; counters up to 1, at three of the four vertices or at the centre | 25724 |
| `outer_solver` | MCOuterSolver | Are handles, watches, counters and queue right, and the answer? | 1164 inputs of 5 and 6 vertices, degree cap 3 | 9116 |
| `relabel` | MCRelabel | Does renaming commute with isolating? | one occurrence, one renaming | violated |
| `planner_patch` | MCPlannerPatch | Does a run that returns keep every core patch? | one call | violated |
| `lost_edge` | MCLostEdge | Do the two connectivity answers agree? | one graph of 13 vertices, two deletions | violated |
| `misled` | MCOuterSolver, MCMisled.cfg | Does the tree satisfy every constraint? | one input of 6 vertices | violated |

*slot_pool.* `FreeListExact`: the list visits each retired slot once and stops.
`ImplementsAllocator`: refinement of IdAllocator. `StepsArePoolSteps` justifies
module Pool one call at a time. Four slots give free lists of every length
up to four in every order, and a bug of a singly linked list shows with three.

*raw_store.* `Ownership`, `LocalGraph`, `RecordsCurrent`. Builders of none, one,
two and three vertices make the contents of a skeleton grow and shrink, and
four vertex slots for two skeletons force a commit to reuse identifiers that
the other skeleton retired. Deadlock is checked: the store can always clear.

*raw_session.* After any four calls: `EngineSound`, the debug validators and
`assert_engine_bookkeeping_sane` (`cases:5173`) for all skeletons at once, those
no call rewrote included; `JoinUndoesSplit` for each pair a skeleton could be split at;
`DirtyComplete`: a skeleton not reported kept its lists and contents, an
occurrence not reported its record; `SignatureKept` and `EdgesKept`: no port,
core edge or edge is lost or doubled (by name, with multiplicity for edges).
Isolation is left out of `EdgesKept` because it copies core edges by design. Four
calls are enough to isolate, split, join back and split what came out, or to
split twice and glue two pieces; longer queues of jobs are the matter of
`raw_planner`. The fixtures host two occurrences on a shared pair and one bridge
port. A session stops at the bound, so deadlock is not checked.

*raw_planner.* `QueueSound`, at every moment and so also after the exception: each
vertex and edge belongs to one skeleton that passes the validators, and whatever
the jobs before a queued JOIN or INTEGRATE do to the pool of skeletons, its
assertions hold. `AtStop` is `assert_planner_stop_condition` (`cases`).
`SignaturesKept` is `assert_occ_signature_equivalent` for every occurrence at
every moment. `Terminates` is liveness. The calls cover both hook variants, no
budget and small ones, targets to isolate, targets to split with and without an
edge joining the pair, three tied pairs, and the queues left by a split, written out by hand
from `afterSplit` (`plan:1085-1131`), with every set of occurrences to keep. Each run is short (331 states in all), since the loop
is deterministic but for tie-breaks; the number of calls is what gives breadth.
A run ends, so deadlock is not checked. Steps are counted only under a budget, so
that `Terminates` is not true by a counter's bound.

*campaign.* `DirectoryHonest`: a chunk file that can be read has a whole summary
beside it and no failing iteration, a manifest that can be read its snapshot.
`CompletedExactly`: an aggregate that says "completed" counts every iteration of
every run once, and none of them fails. `BudgetKept`: the states compared in the
chunks of a run stay within its budget, over sessions; for runs with a cap see
below. `PassMeansDone`: "pass" of a run nobody asked to stop early means that the
aggregate says completed. `LaunchEnds`: every staged run ends. The campaigns have
a run with the session's budget before one with its own, two seeds of which one
fails, and a cap; the settings differ in chunk size, so that chunks of one
session do not fit the next. A session can be killed at every write, in any
number of sessions; nothing is bounded but the campaign. Deadlock is checked.

*forest_core.* `LevelsDescribed`: an edge is on the list of exactly its level,
once; at every level the trees are the components of the tree edges of that level
and below, and these edges close no cycle, also between the steps of a search.
`TreesHalve`: a tree of level l has at most n / 2^(Top - l) vertices, which keeps
level 0 free of edges; `downgrade` would index the forest of level -1 otherwise.
`BatchExact`: while `deleteVertexBatch` (`b3:3706-3733`) empties its victims, the
edges it has still to remove are the live edges of deleted vertices, each once; a
search that reconnected through one of them would leave it behind.
`LevelsOnlyFall` for every step; `SearchEnds`; `ConnectSpec` is the refinement of
Connectivity. The graphs (two triangles, joined twice; the same with labels
interleaved; a ladder; a wheel) make searches fail and succeed at each level.
Seven vertices give four levels. The core stops when all vertices are deleted, so
deadlock is not checked.

*euler_tour.* `ToursSound`: no pointer leads to a deleted entry, and each tour
crosses each of its edges once in each direction. `CountersOwned`: a counter is on
the entry that represents its vertex and nowhere else. `AnswersRight`:
connectivity (also by the `any_root` shortcut) and component size.
`IterationCovers`: the iterator (`b3:500-550`) meets each vertex of the component that
has a counter, at its own entry, and no other entry, with one exception that the code
makes: it begins at the leftmost entry as soon as that entry's aggregated `good` flag
is set, and may so yield a vertex without a counter, or one that it yields again.
Whether it does depends on the shape of the splay tree, which the model leaves open
(`reach` in `Stops` ranges over all that can be under the first entry). `remove` bears
the extra visit: `VisitEarly` of DynamicGraph makes it, and `forest_core` checks every
property of the search with it. `ForestSpec`: tours implement a forest of vertex sets.
States that
differ only in the addresses of entries are one state (VIEW `UpToAddresses`). This
is sound because no action and no property compares addresses except for equality:
a fresh entry takes any free address, so renaming the addresses of a behaviour
gives a behaviour. A state in which an entry cannot be named by its vertex and its
edges is only equal to itself. The full graph of six vertices is out of reach; the
run takes all forests on four vertices and all within the spider for which the
hardest case of `cut` exists (MCEulerTour says why).

*outer_solver.* `NeverTooFine`: connected vertices have one handle, and what a kept
artifact says is too coarse at worst. `OracleExact`: a query is active exactly
while its endpoints are joined without its owner, and every class watches a live
support. `SolverExact`: the counters equal a fresh count and the queue holds
exactly the vertices that may be placed. `NoneLeftOut` and `Answered`: for these
inputs, which some tree satisfies, every vertex is placed and every constraint
holds (`verify_solution`). The degree cap is 3 instead of 32, so that both sides
of it occur. Deadlock is checked: `Terminating` is a step only of a solver that
has placed every vertex, so one that gets stuck is reported.

### Fairness

All code here is sequential, so while a loop can take a step it takes one.

* RawPlanner: `Fairness == []<>(~CanStep) \/ []<><<Next>>_vars` is weak fairness of
  `Next` with the guard `CanStep` in place of ENABLED, because TLC re-evaluates the
  nested computation of a job under ENABLED. A job whose assertion fails is *not*
  assumed to go on: then `CanStep` is false, the loop is stuck and `Terminates`
  fails.
* StagedRun: `WF_vars(Works) /\ WF_vars(RunnerStep)`. The operating system lets the
  session and the runner, two processes, go on. Nothing is assumed of kills,
  timeouts, new launches or cleared directories.
* ForestCore: `FairCoreSpec` has weak fairness of `AddEdge`, `RemoveVictim` and
  `Search`, the loops of one thread. Nothing obliges the solver to delete a vertex.

The other modules state safety only and assume no fairness.

### What disagreed with the repository

1. `port_key` (`prim:31-37`) shifts the 32-bit `attach` by 32 and then twice by
   8 within a u64. Only its low 16 bits survive, so that two ports of one kind
   whose ends agree modulo 2^16 count as one and `isolate_vertex` drops the second.
   The package's README (line 171) and `tests/metamorphic_cases.cpp:58` name relabel
   invariance as a gate. Run `relabel` renames vertex 8 to 65538 = 2 + 2^16 and two
   ports become one.
2. `analyze_split_pair_for_support` (`plan:690-708`) wants the support outside
   the pair in one component, but `collect_support_vertices` (`core:118-142`)
   does not include the center. When all ports end at the pair the center is a
   component of its own, the split puts the core patch elsewhere, and
   `remap_occ_meta` drops it. `run_targeted_planner_iteration` asserts the signature
   of every live occurrence afterwards (`cases:6441`). Run `planner_patch` starts
   from the fixture of the isolate test: occurrence 17 ends with no core edge of
   three. Hence `SignaturesKept` in `raw_planner` speaks of the 66 calls listed
   there and is not claimed for every start.
3. `remove` leaves a list at the first edge outside the forests that it meets once
   it has found a replacement (`b3:775`). Tree edges further on stay on the level,
   and a later search takes their tree for one whose edges have all moved down.
   Run `lost_edge`: after two deletions `sameComponent` and `enumerateComponent`
   answer differently for the same pair. `QueriesAgree` and the refinement hold on
   the graphs of `forest_core`, which are too small for it, and are not claimed for
   every graph.
4. `retainCurrentArtifactAfterConnectedDelete` (`b3:5068`) keeps parents and low
   times that counted the deleted vertex. A later deletion that touches no owner
   splits by them, two components stay under one handle, and both hang below the
   same vertex. Run `misled` has an input of six vertices whose tree violates a
   constraint, which the self test demands of every tree (`b3:16847`). The inputs of
   `outer_solver` leave this one out; `Answered` and `NoneLeftOut` are not claimed
   for every input. What such an artifact does keep, `NeverTooFine`, is proved.

Met while modelling campaigns, and followed by the model without a run of its own:

* With a cap for exact keys, a budget that is used up switches comparing off
  (`cases:10311-10312`) but the exact audits go on and count as compared
  (`tests/split_choice_oracle.cpp:1031-1032`), against the budget of the package's
  README (line 130). A budget of 2 over 6 iterations compares 6 with
  `--checkpoint-every 1` and 2 with 6. `BudgetKept` leaves these runs out.
* A torn `latest.chk` or `.chk` makes every later start and resumption refuse until
  the directory is cleared by hand.
* A start that refuses because of other settings has already written the snapshot.
* `--resume` passes the recorded settings of the first run to the others too.
* The aggregate takes a run's statistics file when it counts more iterations than
  the session, also one that is older than a cleared directory.
* The result of a staged run that times out on a retry may show the return code of
  the attempt before.

## 4. Proofs

| Theorem | States | Module |
|---|---|---|
| `TypeCorrect` | `Spec => []TypeOK` | SlotPoolProofs |
| `FreeListCorrect` | `Spec => []FreeListExact` | SlotPoolProofs |
| `PoolRefinesAllocator` | `Spec => Allocator!Spec` | SlotPoolProofs |
| `StoreTypeCorrect` | `Spec => []TypeOK` | RawStoreProofs |
| `StoreOwnership` | `Spec => []Ownership` | RawStoreProofs |
| `StoreLocalGraph` | `Spec => []LocalGraph` | RawStoreProofs |
| `StoreRecordsCurrent` | `Spec => []RecordsCurrent` | RawStoreProofs |
| `SessionStaysSound` | `Spec => []EngineSound` | RawSessionProofs |
| `SessionDirtyComplete` | `Spec => DirtyComplete` (an action property) | RawSessionProofs |
| `PlannerQueueSound` | `Spec => []QueueSound` | RawPlannerProofs |
| `PlannerAtStop` | `Spec => []AtStop` | RawPlannerProofs |
| `DirectoryStaysHonest` | `Spec => []DirectoryHonest` | StagedRunProofs |
| `PassIsDone` | `Spec => []PassMeansDone` | StagedRunProofs |
| `PassIsSound` | a pass nobody asked to stop early: no iteration fails | StagedRunProofs |
| `CountedExactly` | `Spec => []CompletedExactly` | StagedRunProofs |
| `BudgetIsKept` | `Spec => []BudgetKept` | StagedRunProofs |
| `CoreTypeCorrect` | `CoreSpec => []TypeOK` | ForestProofs |
| `LevelsAreDescribed` | `CoreSpec => []LevelsDescribed` | ForestProofs |
| `LevelsFall` | `CoreSpec => LevelsOnlyFall` (an action property) | ForestProofs |
| `BatchStaysExact` | `CoreSpec => []BatchExact` | ForestProofs |
| `ConnectionsAreReal` | what the forests connect, live edges join | ForestProofs |
| `ToursStaySound` | `TourSpec => []ToursSound` | ForestProofs |
| `CountersStayOwned` | `TourSpec => []CountersOwned` | ForestProofs |
| `AnswersStayRight` | `TourSpec => []AnswersRight` | ForestProofs |
| `IterationStaysComplete` | `TourSpec => []IterationCovers` | ForestProofs |
| `ToursAreForest` | `TourSpec => ForestSpec` (implements TreeForest) | ForestProofs |
| `SolverStaysTyped` | `Spec => []TypeOK` | OuterSolverProofs |
| `SolverStaysExact` | `Spec => []SolverExact` | OuterSolverProofs |
| `NeverTooFineHolds` | `Spec => []NeverTooFine` | OuterSolverProofs |
| `OracleStaysExact` | `Spec => []OracleExact` | OuterSolverProofs |

They hold for every value of the constants that satisfies the named
assumptions: `SlotPoolAssumption` (indexes stay below NIL; the code has no check,
and 2^32 - 1 slots do not fit in memory), `BuildersAssumption` (builders are typed
and pass `validate_builder_basic`, which every primitive asserts),
`CampaignAssumption` and `StagedRunAssumption` (types of settings and commands),
`VerticesAssumption`, `SizeAssumption`, `InputsAssumption` (finitely many vertices,
a level at least, inputs over the vertices, satisfiable or not), `NBAssumption` (the
degree cap is a number), `EulerTourAssumption` (a heap of finitely
many addresses, none of them null, two for each vertex, which is what a forest can
need at most), and two on where a behaviour of the
engine starts:

* `StartsAssumption`: the primitives are first called on a `Sound` engine. The
  tests that build one assert as much before they use it
  (`assert_engine_bookkeeping_sane`, `cases:5173`; `debug_validate_skeleton_and_hosted`
  in `prim`).
* `RunsAssumption`: the updater is started on a sound engine whose skeletons name
  each vertex once, with one ENSURE_SOLE job for a hosted target (`plan:1411-1424`)
  or with the queue that `afterSplit` returned for a split its caller has made
  (`plan:1238-1243`; `cases:5601`, `5839`, `6027`; `tests/reference_planner.cpp:133`;
  `tests/split_choice_oracle.cpp:372`, `688`). `QueueFits` and `LeadsTo` say what such
  queues have in common. TLC evaluates both on the fixtures of the runs.

*SlotPool.* `FreeListExact` says that *some* sequence lists the free slots. It
is inductive together with `TypeOK`, and the proof carries the sequence as a
witness: `alloc` takes its head off, `retire` puts one in front. Types alone are
not inductive enough for the refinement: that `alloc` returns an identifier
nobody holds needs that the head of the list is a retired slot, and that growing
happens only when all identifiers are held needs that an empty list means no
retired slot. Both follow from the chain.

*Batches.* RawPrimitivesProofs first proves what the closed forms of Pool do:
`AllocAll` and `RetireAll` keep a pool exact, the new identifiers are pairwise
different and were not in use, the live ones are the old ones plus or minus the
batch. `AllocIsLoop` and `RetireIsLoop` show that they are the loops of the code, one
item at a time: the rest of the stack after n + 1 calls is the rest of the rest after n
(`RestOfStack`), and retiring one more puts it in front of the reversed batch.

*Core.* `PartitionDrop` and `PartitionAdd` say that emptying one list, and filling
an empty one with fresh identifiers, keep the live identifiers partitioned among the
lists; `RetireContentsSound`, `CommitSkeletonSound`, `AllocSkeletonSound` and
`FreeSkeletonSound` lift them to the functions of `core`, for an arbitrary engine.
The exactness of the pool and ownership need each other: retiring keeps the pool
exact only if a list names live identifiers, each once, and ownership after a commit
needs that new identifiers are fresh. With ownership proved, a commit leaves
every other skeleton alone (`SameContents`), for the identifiers it retires and hands
out are not those of another skeleton; what is left alone stays a graph with
current records (`GraphFrame`, `CurrentFrame`), and what a valid builder stores is
one (`StoredIsGraph`, `StoredIsCurrent`). RawStoreProofs draws the four theorems
about the store from these. `RecordsCurrent` is not inductive: a new record names
skeleton 0 (`core:13`), and would be wrong at once if skeleton 0 hosted that
occurrence. The invariant `WellKept` adds that hosted occurrences have records.

*Primitives.* Each primitive is a chain of three composite calls: rewrite a skeleton
(`Rewriting`), add one (`Adding`), drop one (`Dropping`). Between them the engine is
`Partial`: everything is consistent but the skeletons still to be rewritten, and the
builders still to be committed are good (`GoodBuilder`), which a commit of
*another* builder disturbs only if the two share an occurrence. So the heart of the
matter is that the builders of one primitive share none. For a split this is the
search for components: two are disjoint because each is closed under edges
(`ComponentFacts`), and closed because it has been through as many rounds as the
skeleton has vertices, each of which adds one or has nothing left to add. The loops
(the rounds, the children of a split) are recursive functions; that they are defined
at every index is a least counterexample (`Iterated`). `IsolateKeeps`, `SplitKeeps`,
`JoinKeeps` and `IntegrateKeeps` are the results, and RawSessionProofs is one case
per action on top of them; `DirtyComplete` follows from the same frames.

*Planner.* The invariant is `Between`: the engine is sound and names each vertex once
in a skeleton, the target is hosted, the queue fits the engine and leads to the target,
and an empty queue means that the target is alone with nothing to split. `QueueSound`
alone is not inductive: that a queued join can be carried out says nothing of the
skeletons after the job before it. What is inductive is that the skeletons to be glued
`Meet`: two of them share the two names of the pair and no other. The pieces of a split
meet in pairs (`SplitNames`), a join may be called on skeletons that meet
(`MeetJoins`, `MeetIntegrates`), and whatever met both of two glued skeletons meets the
result (`MeetGlued`). Jobs that glue come first and glue to one skeleton
(`FitsBehind`): when the loop isolates or splits, none is queued. `AtStop` follows
because every job that changes something enqueues the target again, unless a job for
it is the last one of the queue (`LeadsTo`).

*Staged campaigns.* `DirectoryHonest` speaks of the disk, but why a session may
write a chunk file is in its memory, so `HonestInv` adds what a session knows at
each place (`Known`): past the first check there is a whole snapshot, past the
second it knows exactly the chunks of the directory and none is torn, and before it
writes a chunk file the chunk's summary is whole and none of its iterations fails.
That the chunk is still the same by then needs that chunks have a first one in the
order of the loops (`NextIsPending`; a least element comes from well-foundedness of
the naturals). Then writing it can tear no file another chunk relies on. `PassInv`
adds that a session runs with the limits of its command or, resuming, of the
manifest (`Obeys`), so one that exits with 0 unasked has written "completed".
`SoundInv` joins the two: the chunks that cover an iteration have a readable file,
and such a chunk has no failing iteration.

*Sums of a campaign.* `CompletedExactly` and `BudgetKept` compare sums that no session
computes in one go. A sum is a fold, and a fold is a recursive function on subsets;
that there is one, and that the order of the elements makes no difference, is shown by
a least counterexample (`SumExists` and the lemmas after it). `CampaignInv` then says
that all chunks of the directory are of the size the manifest names, that what the
session has merged is what those chunks add up to, but for the chunk it has just
committed, and that no statistics file counts more iterations than its run has.
Chunks of one size share no iteration, so when none is left to run their lengths add up
to all iterations. The budget is kept because `commit` checks the sum before it is
written, against the budget of the manifest for a run without its own.

*Dynamic graph.* `LevelsDescribed` needs to know in the middle of a search that the
links of `downgrade` and of the reconnection join two trees, which the code takes
for granted. The invariant `ForestInv` adds what a search knows (`SearchOK`): the
two ends of the removed edge are in different trees at the top, the edges in hand
are edges of the searched level met at a vertex of the near tree, and the ends of
the replacement are in different trees at the top. A tree edge in hand is not
joined one level down, since it would close a cycle with the forest of its own
level. The graph theory is about one edge more or less: a component is the smallest
closed set, so `ComponentsLinked`, `AcyclicLinked` and `ComponentsCut` need no
induction over paths.

*Batches of deletions.* `BatchExact` is not inductive for want of the order in which
`deleteVertexBatch` lists its victims: edges outside the forests first. `BatchInv` adds
that none of these is left when a search begins, so that a search, which reconnects
only through edges outside the forests, cannot pick a doomed one, and that the edges
of the input come in one by one before anything is deleted. `ConnectionsAreReal` is the
half of `QueriesAgree` that holds for every graph: a wrong answer can only be a missing
connection (finding 3).

*Euler tours.* `ToursSound` is not inductive: that each edge is crossed once in each
direction does not say that `cut` leaves two tours. The invariant `TourInv` has four
parts. `Typed` is the types. `Well` says what a tour is (`IsTour`): its entries are
distinct, each crosses an edge to the vertex of the next (`Crossed`), and the vertices
visited between the two crossings of an edge are not visited outside of them
(`Separated`); with both crossings of an edge in one tour (`Complete`), every allocated
entry in one tour and a vertex in one tour only. `Owned` is the counters. `Room`
says that entries, tours and long tours together are twice the number of vertices, so
that `expand` and `link` always find free addresses. `Separated` is the heart: the
part between two crossings is a tour of its own, and so is the rest with its ends
joined (`InnerPlaces`, `OuterPlaces`), for no edge has one crossing in each; turning a
tour keeps it because a rotation swaps inside and outside (`TurnPlaces`). `WellLink`
and `WellCut` are the steps. That a tour of k edges has k + 1 vertices, which
`component_size` and the `any_root` shortcut rely on, is a count by bijections
(`EdgesHalve`, `VerticesExceed`), and that the vertices of a tour are a component of
the edges is `TourComponent`; `AnswersRight` follows. `IterationCovers` needs both
halves of the invariant: a vertex of the component has its own entry in the tour
(`Well`), and an entry with a counter is its vertex's own (`Owned`); lemma `WalkCovers`
joins them. For the refinement,
`ComponentsLinked` and `ComponentsCut` of the core serve again: the edges of tours have
no cycle (`ToursAcyclic`), so a link joins two trees and a cut parts one as TreeForest
has it.

*Outer solver.* `SolverInv` adds to the counters and the queue that a vertex in the
tree is never held back again: nothing above it is unplaced and it has no active
query (`PlacedForGood`); otherwise it could be pushed a second time. Masses add up
because a constraint has at most one branch query (`MassMinus`). The oracle and the
topology enter by two facts only (`Erased`), whatever route they take. That the
canonical labels are the vertices again (`LabelsAreVertices`) rests on the direct levels
being numbers (`DirectLevelsTyped`, a recursive function again) and on the relabelling
being a ranking by keys, no vertex before itself. `TypeOK` needs that a counter goes
on being a count after its vertex is placed (`Counted`): the root is placed with
direct constraints still on it, and they are subtracted later.

*Depth-first search.* The search is a recursive function over the steps of a walk,
`Walk` its invariant: a vertex entered between the entry and the exit of another is
left before that exit (`Nested`), and every vertex hangs from the nearest one whose
stretch its entry falls in (`Hangs`). With `SearchedFacts` a fresh artifact is what
textbooks say of one: subtrees are disjoint or nested and no edge joins two disjoint
ones.

*Topology.* `NeverTooFine` speaks of components and is not inductive: an artifact is
used again by the bucket test, whose answer depends on entry times and low values that
deletions leave as they are. The invariant `TopoInv` says of the handles that every
live vertex has one, each is a list of its members, and the ends of an edge have the
same (`Filing`), and of the artifact that it is `Coarse`: subtrees are still nested or
disjoint, with a vertex it has all its neighbours, no edge joins two disjoint subtrees,
and where the bucket test takes a child's subtree for cut off, no edge leaves the
subtree except to the parent. All three need only that edges go away. The lemmas follow
the routes: `PathOrderedFiles`, `LeafyFiles`, `ConnectedFiles`, `TouchedFiles`, and
`ReuseFiles` for the artifact used again, also when that gives up half way with
handles already given out and searches again; `DeletionFiles` joins them.

*Oracle.* Two things make `OracleExact`. An artifact that has just been built is exact
(`FreshExact`): two neighbours of an owner are in one bucket just if they are joined
without it, because a child's subtree that has a low time before the owner's entry is
joined to the rest (`RestJoined`) and the others are not. And a query whose class does not watch the deleted
vertex keeps its support (`SupportKept`), so it stays joined. For a class that does, the
support holds the deleted vertex, so all its queries lie in the handle that is searched
again (`WatchersLeft`, by `TopoInv`), and the fresh artifact decides them
(`TouchedExact`). The one case without a fresh artifact is `DiesWith`, where all queries
of the touched classes end with the vertex. `OracleInv` adds that live vertices
keep all edges of the input between them (`EdgesLeft`: the endpoints of a query are
neighbours of its owner, and the bucket test is exact only for such) and that the
classes of an owner are disjoint.

*Only model-checked:*

* liveness (`Terminates`, `LaunchEnds`, `SearchEnds`), out of the prover's reach;
* `StepsArePoolSteps`: one call on the linked list is the batch of length one;
* `JoinUndoesSplit`, `SignatureKept` and `EdgesKept` of `raw_session`: equality of bags
  of names. `JoinUndoesSplit` is claimed for the fixtures only;
* `SignaturesKept`, `TreesHalve`, `ConnectSpec`, `Answered` and `NoneLeftOut`, which
  are claimed for the inputs of their runs only: findings 2 to 4 refute what they say
  for others, or what they rest on. `TreesHalve` holds only as long as every search
  moves all edges of the smaller tree down, which finding 3 says it may not, and
  `NoneLeftOut` is about inputs some tree satisfies.

## 5. What is not modelled

* Raw engine: the canonical keys, which only order candidates; `occOfOrig`, error
  texts, dumps, counters of the planner trace.
* Campaigns: the policy gate and targets, replays and minimisation, which read
  a campaign's results and write none of its files; the truncated default of the
  corpus policy.
* Staged runner: `--mode verification`, and the content of the result file.
* Branch 3: the splay trees under the tours, the 8000 lines in which the oracle
  builds, reuses and repairs supports (one choice of a support here), and all
  debug, profiling and self-test code.
* The test harness, the lifecycle tooling and the offline solvers: `bruce` is a
  sequential algorithm that could be checked against a reference definition;
  `branch_4` (47250 lines), `lca_tree_stress_v5` and `branch_2_2` (with eight copies
  of one solver in its archives) are sequential data structures without a protocol,
  beyond what a small model can follow; `branch_1` needs a library that is not in
  the repository.

The map therefore covers a small share of the repository's lines: most of
them are the solvers of this last item.

## 6. Plan

Done, in this order: pool, allocator, closed forms, store, primitives, session,
updater and their proofs; campaigns and staged runs with theirs; the dynamic
graph, tours, topology, oracle and outer solver of branch 3, and the proofs of
the core, the tours, the topology, the oracle and the outer solver.

What could follow:

1. *Names through a call*: `EdgesKept` and `SignatureKept` as theorems, from the copies
   of RawPrimitivesProofs (a copy is one to one on edges that are not glued, so its bag
   of names is that of the original).
2. *Confluence*: whether two valid pairs lead to the same graphs, over the
   fixtures with ties.
3. *Support repair* of the oracle: the reuse of an old support after a deletion,
   as a refinement of the free choice in NBOracle.
4. *Runtime lifecycle*: publication and gates of `tests/tools/runtime_lifecycle.py`.
5. *BruceEvents*: the offline solver of `bruce` against a reference definition.

## 7. Running

```
tlc -workers 2 -config MCRawSession.cfg MCRawSession
tlc -workers 2 -config MCMisled.cfg MCOuterSolver
tlapm ForestProofs.tla
```

Run any configuration of section 3 on the module of its name. The longest run,
`euler_tour`, takes about two minutes. The longest proof, ForestProofs, takes about
thirteen, RawPrimitivesProofs about eight; RawStoreProofs, RawSessionProofs and
RawPlannerProofs cite its lemmas and take a minute or less each.
