------------------------------ MODULE OuterSolver ------------------------------
(****************************************************************************)
(* OuterSolver of branch 3: it rebuilds a rooted tree from constraints      *)
(* "the lowest common ancestor of u and v is w".  It places the vertices    *)
(* from the root down.  A vertex may be placed when all vertices that must  *)
(* be above it are placed (indeg) and none of its branch queries is failing *)
(* (bad); it becomes the child of the last vertex taken out of its          *)
(* component.                                                               *)
(*                                                                          *)
(* Constraints are triples <<u, v, w>>; the input is a set of them.         *)
(* (Repeating one would only add to a multiplicity, as writing its pair in  *)
(* both orders does.)                                                       *)
(****************************************************************************)
EXTENDS NBOracle

CONSTANT Inputs      \* the inputs, each a set of constraints

\* The n vertices are numbered from 1; vertex 1 is the root.
ASSUME InputsAssumption ==
  /\ 1 \in Vertices /\ Vertices = 1 .. Cardinality(Vertices)
  /\ \A s \in Inputs : s \subseteq Vertices \X Vertices \X Vertices

VARIABLES
  input,      \* the constraints as given
  labels,     \* original label -> canonical label
  queries,    \* the constraints in canonical labels
  rank,       \* vertex -> its key in the ready queue
  indeg, bad, \* per vertex: unplaced vertices above it, its failing queries
  parent,     \* the tree so far
  compParent, \* handle -> the vertex below which its members will hang
  ready       \* the queue

solverVars == <<input, labels, queries, rank, indeg, bad, parent, compParent, ready>>
allVars == <<oracleVars, solverVars>>

Unplaced == -1

-------------------------------------------------------------------------------
(****************************************************************************)
(* What is read off the constraints.                                        *)
(****************************************************************************)
DirectPairs(qs) ==
  {d \in {<<q[3], q[1]>> : q \in qs} \cup {<<q[3], q[2]>> : q \in qs} : d[1] # d[2]}

UndirectedEdges(qs) ==
  {IF d[1] < d[2] THEN d ELSE <<d[2], d[1]>> : d \in DirectPairs(qs)}

(****************************************************************************)
(* The branch query of a constraint, if its three vertices differ.          *)
(****************************************************************************)
BranchAt(q) ==
  IF q[3] \in {q[1], q[2]} THEN {}
  ELSE {IF q[1] < q[2] THEN <<q[3], q[1], q[2]>> ELSE <<q[3], q[2], q[1]>>}

BranchesOf(qs) == UNION {BranchAt(q) : q \in qs}
Mass(qs, bs) == Cardinality({q \in qs : BranchAt(q) \cap bs # {}})

OwnerMass(qs, v) == Mass(qs, {b \in BranchesOf(qs) : Owner(b) = v})
EndpointMass(qs, v) == Mass(qs, {b \in BranchesOf(qs) : v \in Ends(b)})
Below(qs, v) == {u \in Vertices : <<v, u>> \in DirectPairs(qs)}

(****************************************************************************)
(* The length of the longest chain of direct pairs that ends at a vertex.   *)
(****************************************************************************)
DirectLevels(qs) ==
  LET level[k \in 0 .. Cardinality(Vertices)] ==
        IF k = 0 THEN [v \in Vertices |-> 0]
        ELSE LET before == level[k - 1] IN
             [v \in Vertices |-> Max({0} \cup {before[p[1]] + 1 : p \in {d \in DirectPairs(qs) : d[2] = v}})]
  IN  level[Cardinality(Vertices)]

Less(k1, k2) ==
  \E i \in DOMAIN k1 : k1[i] < k2[i] /\ \A j \in 1 .. i - 1 : k1[j] = k2[j]

ReadyKeys(qs) ==
  LET level == DirectLevels(qs)
  IN  [v \in Vertices |-> <<level[v], -OwnerMass(qs, v), -Cardinality(Below(qs, v)), v>>]

\* Mutant: ties are not broken.
CanonicalLabelsTied(qs) ==
  LET level == DirectLevels(qs)
      key == [v \in Vertices |-> <<level[v], -OwnerMass(qs, v), -Cardinality(Below(qs, v)),
                                   -EndpointMass(qs, v)>>]
  IN  [v \in Vertices |->
         IF v = 1 THEN 1
         ELSE 2 + Cardinality({u \in Vertices \ {1} : Less(key[u], key[v])})]

(****************************************************************************)
(* build_canonical_relabeling: the root keeps its label, the others are     *)
(* numbered by level, then by how much hangs on them.                       *)
(****************************************************************************)
CanonicalLabels(qs) ==
  LET level == DirectLevels(qs)
      key == [v \in Vertices |-> <<level[v], -OwnerMass(qs, v), -Cardinality(Below(qs, v)),
                                   -EndpointMass(qs, v), v>>]
  IN  [v \in Vertices |->
         IF v = 1 THEN 1
         ELSE 2 + Cardinality({u \in Vertices \ {1} : Less(key[u], key[v])})]

Relabelled(qs, names) == {<<names[q[1]], names[q[2]], names[q[3]]>> : q \in qs}

-------------------------------------------------------------------------------
(****************************************************************************)
(* preprocess, the oracle's init and the first count of failing queries.    *)
(****************************************************************************)
Init ==
  /\ input \in Inputs
  /\ labels = CanonicalLabels(input)
  /\ queries = Relabelled(input, labels)
  /\ rank = ReadyKeys(queries)
  /\ live = UndirectedEdges(queries)
  /\ branches = BranchesOf(queries)
  /\ OracleInit
  /\ indeg = [v \in Vertices |-> Cardinality({d \in DirectPairs(queries) : d[2] = v})]
  /\ bad = [v \in Vertices |-> Mass(queries, {q \in active : Owner(q) = v})]
  /\ parent = [v \in Vertices |-> Unplaced]
  /\ compParent = <<>>
  /\ ready = {}

\* Mutants: a query counts once however often it was asked; bad is not updated.
CountersAfterOnce(v) ==
  /\ indeg' = [u \in Vertices |-> IF u \in Below(queries, v) THEN indeg[u] - 1 ELSE indeg[u]]
  /\ bad' = [u \in Vertices |-> bad[u] - Cardinality({q \in active \ active' : Owner(q) = u})]
CountersAfterKeepBad(v) ==
  /\ indeg' = [u \in Vertices |-> IF u \in Below(queries, v) THEN indeg[u] - 1 ELSE indeg[u]]
  /\ bad' = bad

(****************************************************************************)
(* What placing v and erasing it from the graph does to the counters and to *)
(* the places where the components will hang.                               *)
(****************************************************************************)
CountersAfter(v) ==
  /\ indeg' = [u \in Vertices |-> IF u \in Below(queries, v) THEN indeg[u] - 1 ELSE indeg[u]]
  /\ bad' = [u \in Vertices |-> bad[u] - Mass(queries, {q \in active \ active' : Owner(q) = u})]

\* Mutant: the part that keeps its handle is not hung anew.
HangBelowNew(v, handles) ==
  compParent' = [h \in DOMAIN comps' |->
                   IF h \in handles /\ h > Len(comps) THEN v
                   ELSE IF h \in DOMAIN compParent THEN compParent[h] ELSE v]

HangBelow(v, handles) ==
  compParent' = [h \in DOMAIN comps' |->
                   IF h \in handles THEN v
                   ELSE IF h \in DOMAIN compParent THEN compParent[h] ELSE Unplaced]

\* Mutant: failing queries alone hold a vertex back.
MayBePushedEarly(u) == parent'[u] = Unplaced /\ bad'[u] = 0

MayBePushed(u) == parent'[u] = Unplaced /\ indeg'[u] = 0 /\ bad'[u] = 0

PlaceRoot ==
  /\ parent[1] = Unplaced
  /\ parent' = [parent EXCEPT ![1] = 0]
  /\ EraseVertex(1)
  /\ CountersAfter(1)
  /\ HangBelow(1, {h \in DOMAIN comps' : comps'[h].open})
  /\ ready' = {u \in Vertices : MayBePushed(u)}
  /\ UNCHANGED <<input, labels, queries, rank>>

(****************************************************************************)
(* One turn of the main loop.  The queue never holds a vertex twice, nor    *)
(* one that may no longer be placed (ReadyExact), so nothing is popped in   *)
(* vain.  A vertex is pushed when its last direct constraint goes, and as   *)
(* the owner of a query that is resolved.                                   *)
(****************************************************************************)
Place(v) ==
  /\ parent[1] # Unplaced
  /\ v \in ready /\ \A u \in ready \ {v} : Less(rank[v], rank[u])
  /\ compOf[v] # 0
  /\ parent' = [parent EXCEPT ![v] = compParent[compOf[v]]]
  /\ EraseVertex(v)
  /\ CountersAfter(v)
  /\ HangBelow(v, Range(created'))
  /\ ready' = (ready \ {v})
       \cup {u \in Below(queries, v) : MayBePushed(u) /\ bad[u] = 0}
       \cup {u \in Vertices : MayBePushed(u) /\ \E q \in active \ active' : Owner(q) = u}
  /\ UNCHANGED <<input, labels, queries, rank>>

(****************************************************************************)
(* The loop ends with an empty queue; for an input some tree satisfies it   *)
(* must not end, or get stuck, with a vertex unplaced.                      *)
(****************************************************************************)
AllPlaced == \A v \in Vertices : parent[v] # Unplaced
Terminating == ready = {} /\ AllPlaced /\ UNCHANGED allVars

Next == PlaceRoot \/ (\E v \in Vertices : Place(v)) \/ Terminating

Spec == Init /\ [][Next]_allVars

-------------------------------------------------------------------------------
(****************************************************************************)
(* A vertex and the vertices above it, and the lowest common ancestor.      *)
(****************************************************************************)
UpFrom(v) ==
  LET up[k \in 0 .. Cardinality(Vertices)] ==
        IF k = 0 THEN {v}
        ELSE LET before == up[k - 1] IN before \cup ({parent[u] : u \in before} \ {0, Unplaced})
  IN  up[Cardinality(Vertices)]

Lca(u, v) ==
  LET both == UpFrom(u) \cap UpFrom(v)
  IN  IF both = {} THEN Unplaced ELSE CHOOSE c \in both : both \subseteq UpFrom(c)

Started == parent[1] # Unplaced
Finished == Started /\ ready = {}

(****************************************************************************)
(* The canonical labels are vertices again.                                 *)
(****************************************************************************)
QueriesTyped == queries \subseteq Vertices \X Vertices \X Vertices

(****************************************************************************)
(* Type invariant of the solver, the oracle and the topology.               *)
(****************************************************************************)
TypeOK ==
  /\ QueriesTyped
  /\ live \subseteq AllEdges /\ alive \subseteq Vertices
  /\ compOf \in [Vertices -> 0 .. Len(comps)]
  /\ \A h \in DOMAIN comps : comps[h].verts \in Seq(Vertices)
                             /\ comps[h].open \in BOOLEAN /\ comps[h].ordered \in BOOLEAN
  /\ Seen(dfs) \subseteq alive
  /\ Range(created) \subseteq DOMAIN comps
  /\ active \subseteq branches
  /\ indeg \in [Vertices -> Nat] /\ bad \in [Vertices -> Nat]
  /\ parent \in [Vertices -> Vertices \cup {0, Unplaced}]
  /\ DOMAIN compParent \subseteq DOMAIN comps
  /\ ready \subseteq Vertices

(****************************************************************************)
(* The counters the solver keeps by subtraction agree with the state they   *)
(* count: bad with the oracle's active queries, each as often as it was     *)
(* asked, and indeg with the direct constraints of unplaced vertices.       *)
(****************************************************************************)
CountersExact ==
  \A v \in alive :
    /\ bad[v] = Mass(queries, {q \in active : Owner(q) = v})
    /\ indeg[v] = Cardinality({d \in DirectPairs(queries) : d[2] = v /\ d[1] \in alive})

(****************************************************************************)
(* The queue holds exactly the vertices that may be placed: none is         *)
(* forgotten because its last obstacle went at a moment nobody pushed it,   *)
(* and none is popped in vain.                                              *)
(****************************************************************************)
ReadyExact ==
  Started => ready = {v \in alive : indeg[v] = 0 /\ bad[v] = 0}

(****************************************************************************)
(* The numbers and the queue kept by steps say what a fresh count would.    *)
(****************************************************************************)
SolverExact == CountersExact /\ ReadyExact

(****************************************************************************)
(* For an input some tree satisfies the loop does not end early: when the   *)
(* queue is empty every vertex is in the tree.                              *)
(****************************************************************************)
NoneLeftOut == Finished => AllPlaced

(****************************************************************************)
(* verify_solution: the tree, in the labels of the input, satisfies every   *)
(* constraint.                                                              *)
(****************************************************************************)
Answered ==
  Finished => \A q \in input : Lca(labels[q[1]], labels[q[2]]) = labels[q[3]]
===============================================================================
