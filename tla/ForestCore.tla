------------------------------ MODULE ForestCore ------------------------------
(****************************************************************************)
(* DynamicForestCoreHDT: the graph of the branch 3 topology.  All edges of  *)
(* the input are added first, in the order of the input; from then on       *)
(* vertices are deleted.  Deleting a vertex takes out its edges that lie    *)
(* outside the forests first, then those that are tree edges, each group in *)
(* the order the edges were added.  The class answers "same component?" in  *)
(* two ways, from the forests (sameComponent) and by walking the live edges *)
(* (enumerateComponent).                                                    *)
(****************************************************************************)
EXTENDS DynamicGraph

CONSTANTS
  Inputs,     \* edge sequences the graph may be built from
  Isolated    \* vertex 0: the graph has n + 1 vertices, ids start at 1

\* The solver sorts the edges and drops repetitions before it hands them over.
ASSUME InputsAssumption ==
  /\ \A s \in Inputs : s \in Seq(AllEdges)
  /\ \A s \in Inputs : \A i, j \in DOMAIN s : s[i] = s[j] => i = j
  /\ \A s \in Inputs : \A i \in DOMAIN s : ~Touches(s[i], Isolated)

VARIABLES
  input,      \* the edges init adds, in order
  added,      \* how many of them have been added
  aliveV,     \* vertices not deleted
  victims     \* edges of the vertex being deleted that are still to be removed

coreVars == <<input, added, aliveV, victims>>
allVars == <<vars, coreVars>>

CoreInit ==
  /\ Init
  /\ input \in Inputs
  /\ added = 0
  /\ aliveV = Vertices \ {Isolated}
  /\ victims = <<>>

AddEdge ==
  /\ added < Len(input)
  /\ Add(input[added + 1])
  /\ added' = added + 1
  /\ UNCHANGED <<input, aliveV, victims>>

(****************************************************************************)
(* The elements of s that are in T, in their order.                         *)
(****************************************************************************)
Picked(s, T) ==
  LET pick[i \in 0 .. Len(s)] ==
        IF i = 0 THEN <<>>
        ELSE IF s[i] \in T THEN Append(pick[i - 1], s[i]) ELSE pick[i - 1]
  IN  pick[Len(s)]

EdgesAt(x) == {e \in DOMAIN edge : Touches(e, x)}
TreeEdges == {e \in DOMAIN edge : edge[e].isTree}

\* Mutant: one pass, the edges as they come.
BatchOnePass(x) == Picked(input, EdgesAt(x))

(****************************************************************************)
(* The edges of x in the order deleteVertexBatch removes them.              *)
(****************************************************************************)
Batch(x) == Picked(input, EdgesAt(x) \ TreeEdges) \o Picked(input, EdgesAt(x) \cap TreeEdges)

DeleteVertex(x) ==
  /\ phase = "idle" /\ added = Len(input) /\ victims = <<>>
  /\ x \in aliveV
  /\ aliveV' = aliveV \ {x}
  /\ victims' = Batch(x)
  /\ UNCHANGED <<vars, input, added>>

RemoveVictim ==
  /\ victims # <<>>
  /\ RemoveEdge(Head(victims))
  /\ victims' = Tail(victims)
  /\ UNCHANGED <<input, added, aliveV>>

Search == SearchStep /\ UNCHANGED coreVars

CoreNext == AddEdge \/ (\E x \in Vertices : DeleteVertex(x)) \/ RemoveVictim \/ Search

CoreSpec == CoreInit /\ [][CoreNext]_allVars

(****************************************************************************)
(* One thread runs the whole solver: an operation that has begun goes on,   *)
(* and so do the loops of init and deleteVertexBatch.  Nothing obliges the  *)
(* solver to delete another vertex.                                         *)
(****************************************************************************)
FairCoreSpec == CoreSpec /\ WF_allVars(AddEdge) /\ WF_allVars(RemoveVictim) /\ WF_allVars(Search)

-------------------------------------------------------------------------------
SameComponent(u, v) == u \in aliveV /\ v \in aliveV /\ IsConnected(u, v)

(****************************************************************************)
(* The breadth-first walk over the live edges.                              *)
(****************************************************************************)
EnumerateComponent(v) ==
  LET Neighbours(S) == {u \in aliveV : \E w \in S : <<u, w>> \in DOMAIN edge \/ <<w, u>> \in DOMAIN edge}
      reach[k \in 0 .. Cardinality(Vertices)] ==
        IF k = 0 THEN {v} ELSE LET before == reach[k - 1] IN before \cup Neighbours(before)
  IN  reach[Cardinality(Vertices)]

-------------------------------------------------------------------------------
(****************************************************************************)
(* Type invariant of the graph, the search and the core.                    *)
(****************************************************************************)
TypeOK ==
  /\ DOMAIN edge \subseteq AllEdges
  /\ \A e \in DOMAIN edge : edge[e] \in EdgeRecord
  /\ list \in [Levels -> Seq(AllEdges)]
  /\ tree \in [Levels -> [Vertices -> SUBSET Vertices]]
  /\ phase \in {"idle", "search", "scan"} /\ level \in 0 .. Size
  /\ {near, far, at} \subseteq Vertices \cup {NoVertex}
  /\ pending \subseteq Vertices /\ todo \subseteq AllEdges
  /\ found \in AllEdges \cup {NoEdge}
  /\ input \in Inputs /\ added \in 0 .. Len(input)
  /\ aliveV \subseteq Vertices /\ victims \in Seq(AllEdges)

(****************************************************************************)
(* The adjacency lists and the level fields tell the same story: an edge is *)
(* on the list of exactly its own level, once.  downgrade rewrites the      *)
(* field, the two lists and four counters in the middle of a walk over one  *)
(* of those lists.                                                          *)
(****************************************************************************)
ListsAgree ==
  \A l \in Levels :
    /\ {list[l][i] : i \in DOMAIN list[l]} = {e \in DOMAIN edge : edge[e].lvl = l}
    /\ \A i, j \in DOMAIN list[l] : list[l][i] = list[l][j] => i = j

(****************************************************************************)
(* At every level the trees are the components of the tree edges of that    *)
(* level and below, and taking any of these edges out would split its tree, *)
(* also between the steps of a search: the links of downgrade and of the    *)
(* reconnection never join a tree to itself, which would corrupt its tour.  *)
(****************************************************************************)
Acyclic(E) == \A e \in E : e[2] \notin Component(E \ {e}, e[1])

ForestsSpan ==
  \A l \in Levels :
    /\ tree[l] = Components(TreeEdgesUpTo(l))
    /\ Acyclic(TreeEdgesUpTo(l))

(****************************************************************************)
(* The levels, the lists and the forests describe one set of edges.         *)
(****************************************************************************)
LevelsDescribed == ListsAgree /\ ForestsSpan

(****************************************************************************)
(* A tree of level l that is not a single vertex has at most                *)
(* n / 2^(Top - l) vertices, because only the smaller side moves down.  It  *)
(* is what keeps level 0 free of edges, so that downgrade never indexes the *)
(* forest of level -1 and the loop from the top down to the level of the    *)
(* replacement, whose counter is unsigned, ends.                            *)
(****************************************************************************)
TreesHalve ==
  \A l \in Levels : \A v \in Vertices :
    tree[l][v] # {v} => Cardinality(tree[l][v]) * 2^(Top - l) <= Cardinality(Vertices)

(****************************************************************************)
(* While a vertex is being deleted, the edges still to be removed are the   *)
(* live ones that touch a deleted vertex, each once, and no search has one  *)
(* of them in hand as its replacement: deleteVertexBatch notes its tree     *)
(* edges before it removes the others, and searches only after that.        *)
(****************************************************************************)
BatchExact ==
  LET doomed == {victims[i] : i \in DOMAIN victims} IN
  /\ doomed = {e \in DOMAIN edge : ~({e[1], e[2]} \subseteq aliveV)}
  /\ \A i, j \in DOMAIN victims : victims[i] = victims[j] => i = j
  /\ found \notin doomed

(****************************************************************************)
(* Between operations the two ways the class has of answering "same         *)
(* component?" agree: the search found a reconnecting edge whenever there   *)
(* was one.                                                                 *)
(****************************************************************************)
QueriesAgree ==
  phase = "idle" /\ victims = <<>> =>
    \A u \in aliveV : EnumerateComponent(u) = {v \in aliveV : SameComponent(u, v)}

(****************************************************************************)
(* Edges never rise, and an edge outside the forests never becomes a tree   *)
(* edge of a level other than its own: levels only go down while an edge    *)
(* lives.                                                                   *)
(****************************************************************************)
LevelsOnlyFall ==
  [][\A e \in DOMAIN edge \cap DOMAIN edge' :
       /\ edge'[e].lvl <= edge[e].lvl
       /\ edge[e].isTree => edge'[e].isTree]_allVars

(****************************************************************************)
(* Every search ends, and with it the operation that started it.            *)
(****************************************************************************)
SearchEnds == (phase # "idle") ~> (phase = "idle")

(****************************************************************************)
(* The core as the abstract dynamic graph: an edge being removed still      *)
(* counts, and so does the connection it gave, until its search has ended.  *)
(****************************************************************************)
Connect == INSTANCE Connectivity WITH
  live <- IF phase = "idle" THEN DOMAIN edge
          ELSE DOMAIN edge \cup {IF near < far THEN <<near, far>> ELSE <<far, near>>},
  part <- IF phase = "idle" THEN tree[Top] ELSE Linked(tree[Top], near, far)

ConnectSpec == Connect!Spec
===============================================================================
