---------------------------- MODULE DynamicGraph ------------------------------
(****************************************************************************)
(* dgraph::DynamicGraph of the branch 3 solver: dynamic connectivity with   *)
(* one spanning forest per level.  An edge lives at a level; it starts at   *)
(* the top one and only goes down.  The forest of level l holds the tree    *)
(* edges of levels 0..l.  Removing a tree edge searches, level by level     *)
(* from the edge's own up to the top, for an edge that reconnects the two   *)
(* sides.  The search is written step by step: one action per level entered,*)
(* vertex visited and list element examined, in the order of the loops.     *)
(*                                                                          *)
(* A forest is kept by its trees (tree[l][v] is the vertex set of v's tree  *)
(* at level l, what find_root compares and component_size counts) and by    *)
(* the tree flags of the edges; module EulerTour models the tours under it. *)
(* All adjacency lists of a level are one sequence: an edge enters and      *)
(* leaves both of its lists at the same moment, so their common order is    *)
(* the order in which the edges reached the level.                          *)
(****************************************************************************)
EXTENDS GraphTerms, Integers, Sequences

CONSTANT Size        \* number of levels, ceil(log2(n)) + 1 in the constructor

ASSUME SizeAssumption == Size \in Nat \ {0}

VARIABLES
  edge,      \* live edge -> its level and whether it is a tree edge
  list,      \* level -> the edges of the level, in the order of the lists
  tree,      \* level -> vertex -> the vertices of its tree
  phase,     \* "idle", "search" (between two levels) or "scan" (inside one)
  level,     \* the level being searched
  near, far, \* the ends of the removed edge; near is on the smaller side
  pending,   \* vertices of the smaller side the iterator has not reached
  at, todo,  \* the visited vertex and the edges of its list still ahead
  found      \* the replacement edge, or NoEdge

searchVars == <<phase, level, near, far, pending, at, todo, found>>
graphVars == <<edge, list, tree>>
vars == <<edge, list, tree, phase, level, near, far, pending, at, todo, found>>

Levels == 0 .. Size - 1
Top == Size - 1
NoEdge == <<>>
NoVertex == -1

EdgeRecord == [lvl : Levels, isTree : BOOLEAN]
TreeEdgesUpTo(l) == {e \in DOMAIN edge : edge[e].isTree /\ edge[e].lvl <= l}

IsConnected(u, v) == v \in tree[Top][u]

(****************************************************************************)
(* v's adjacency list at level l: its edges, and which comes first.         *)
(****************************************************************************)
AdjList(l, v) == {e \in DOMAIN edge : edge[e].lvl = l /\ Touches(e, v)}

Before(l, e, f) ==
  \E i, j \in DOMAIN list[l] : i <= j /\ list[l][i] = e /\ list[l][j] = f

Without(s, e) ==
  LET i == CHOOSE k \in DOMAIN s : s[k] = e
  IN  SubSeq(s, 1, i - 1) \o SubSeq(s, i + 1, Len(s))

Init ==
  /\ edge = [e \in {} |-> [lvl |-> Top, isTree |-> FALSE]]
  /\ list = [l \in Levels |-> <<>>]
  /\ tree = [l \in Levels |-> [v \in Vertices |-> {v}]]
  /\ phase = "idle"
  /\ level = 0
  /\ near = NoVertex /\ far = NoVertex /\ at = NoVertex
  /\ pending = {} /\ todo = {} /\ found = NoEdge

\* Mutant: the new edge is one level above the top.
AddAboveTop(e) ==
  /\ phase = "idle"
  /\ e \notin DOMAIN edge
  /\ LET joins == ~IsConnected(e[1], e[2]) IN
     /\ edge' = [x \in DOMAIN edge \cup {e} |->
                   IF x = e THEN [lvl |-> Size, isTree |-> joins] ELSE edge[x]]
     /\ tree' = IF joins THEN [tree EXCEPT ![Top] = Linked(@, e[1], e[2])] ELSE tree
  /\ list' = [list EXCEPT ![Top] = Append(@, e)]
  /\ UNCHANGED searchVars

(****************************************************************************)
(* add: the edge enters at the top, as a tree edge if it joins two trees.   *)
(****************************************************************************)
Add(e) ==
  /\ phase = "idle"
  /\ e \notin DOMAIN edge
  /\ LET joins == ~IsConnected(e[1], e[2]) IN
     /\ edge' = [x \in DOMAIN edge \cup {e} |->
                   IF x = e THEN [lvl |-> Top, isTree |-> joins] ELSE edge[x]]
     /\ tree' = IF joins THEN [tree EXCEPT ![Top] = Linked(@, e[1], e[2])] ELSE tree
  /\ list' = [list EXCEPT ![Top] = Append(@, e)]
  /\ UNCHANGED searchVars

Dropped(e) ==
  /\ edge' = [x \in DOMAIN edge \ {e} |-> edge[x]]
  /\ list' = [list EXCEPT ![edge[e].lvl] = Without(@, e)]

(****************************************************************************)
(* remove of an edge outside the forests: nothing to reconnect.             *)
(****************************************************************************)
RemoveNonTree(e) ==
  /\ phase = "idle"
  /\ e \in DOMAIN edge /\ ~edge[e].isTree
  /\ Dropped(e)
  /\ UNCHANGED <<tree, searchVars>>

\* Mutant: the edge is not cut out of the forest of its own level.
RemoveTreeAbove(e) ==
  /\ phase = "idle"
  /\ e \in DOMAIN edge /\ edge[e].isTree
  /\ Dropped(e)
  /\ tree' = [l \in Levels |-> IF l <= edge[e].lvl THEN tree[l]
                               ELSE CutTree(tree[l], TreeEdgesUpTo(l) \ {e}, e)]
  /\ phase' = "search"
  /\ level' = edge[e].lvl
  /\ near' = e[1] /\ far' = e[2]
  /\ found' = NoEdge
  /\ UNCHANGED <<pending, at, todo>>

(****************************************************************************)
(* remove of a tree edge: it is cut out of every forest from the top down   *)
(* to its level, deleted, and the search starts at its level.               *)
(****************************************************************************)
RemoveTree(e) ==
  /\ phase = "idle"
  /\ e \in DOMAIN edge /\ edge[e].isTree
  /\ Dropped(e)
  /\ tree' = [l \in Levels |-> IF l < edge[e].lvl THEN tree[l]
                               ELSE CutTree(tree[l], TreeEdgesUpTo(l) \ {e}, e)]
  /\ phase' = "search"
  /\ level' = edge[e].lvl
  /\ near' = e[1] /\ far' = e[2]
  /\ found' = NoEdge
  /\ UNCHANGED <<pending, at, todo>>

\* Mutant: the sides are searched as they come.
EnterLevelUnswapped ==
  /\ phase = "search" /\ level < Size
  /\ pending' = tree[level][near]
  /\ phase' = "scan"
  /\ at' = NoVertex
  /\ UNCHANGED <<graphVars, level, near, far, todo, found>>

(****************************************************************************)
(* The loop over the levels: the smaller tree becomes the near side.        *)
(****************************************************************************)
EnterLevel ==
  /\ phase = "search" /\ level < Size
  /\ LET swap == Cardinality(tree[level][near]) > Cardinality(tree[level][far]) IN
     /\ near' = IF swap THEN far ELSE near
     /\ far' = IF swap THEN near ELSE far
  /\ pending' = tree[level][near']
  /\ phase' = "scan"
  /\ at' = NoVertex
  /\ UNCHANGED <<graphVars, level, todo, found>>

SearchExhausted ==
  /\ phase = "search" /\ level = Size
  /\ phase' = "idle" /\ level' = 0
  /\ near' = NoVertex /\ far' = NoVertex /\ at' = NoVertex
  /\ UNCHANGED <<graphVars, pending, todo, found>>

\* Mutant: the iterator does not advance.
VisitAgain(w) ==
  /\ phase = "scan" /\ todo = {}
  /\ w \in pending /\ AdjList(level, w) # {}
  /\ at' = w
  /\ todo' = AdjList(level, w)
  /\ UNCHANGED <<graphVars, phase, level, near, far, pending, found>>

(****************************************************************************)
(* The iterator over the vertices that have edges of this level.  Their     *)
(* order is that of the tour, here any order.                               *)
(****************************************************************************)
Visit(w) ==
  /\ phase = "scan" /\ todo = {}
  /\ w \in pending /\ AdjList(level, w) # {}
  /\ at' = w
  /\ todo' = AdjList(level, w)
  /\ pending' = pending \ {w}
  /\ UNCHANGED <<graphVars, phase, level, near, far, found>>

(****************************************************************************)
(* The iterator begins at the first entry of the tour also when only later  *)
(* entries have edges (Stops in module EulerTour).  The vertex it meets so  *)
(* early has no edges of this level, or is met again at its own entry.      *)
(****************************************************************************)
VisitEarly(w) ==
  /\ phase = "scan" /\ todo = {} /\ at = NoVertex
  /\ w \in pending /\ pending # {w}
  /\ \E x \in pending : AdjList(level, x) # {}
  /\ at' = w
  /\ todo' = AdjList(level, w)
  /\ UNCHANGED <<graphVars, phase, level, near, far, pending, found>>

\* Mutant: the edge stays on the lists of the level it leaves.
DowngradeKeepsEntry(e) ==
  LET l == edge[e].lvl IN
  /\ l > 0
  /\ edge' = [edge EXCEPT ![e] = [@ EXCEPT !.lvl = l - 1]]
  /\ list' = [list EXCEPT ![l - 1] = Append(@, e)]
  /\ tree' = IF edge[e].isTree
             THEN [tree EXCEPT ![l - 1] = Linked(@, e[1], e[2])] ELSE tree

(****************************************************************************)
(* downgrade: the edge moves to the end of the lists one level down; a tree *)
(* edge is linked into the forest of that level as well.  Level 0 has no    *)
(* level below it.                                                          *)
(****************************************************************************)
Downgrade(e) ==
  LET l == edge[e].lvl IN
  /\ l > 0
  /\ edge' = [edge EXCEPT ![e] = [@ EXCEPT !.lvl = l - 1]]
  /\ list' = [list EXCEPT ![l] = Without(@, e),
                          ![l - 1] = Append(@, e)]
  /\ tree' = IF edge[e].isTree
             THEN [tree EXCEPT ![l - 1] = Linked(@, e[1], e[2])] ELSE tree

ScanningAt(e) ==
  phase = "scan" /\ e \in todo /\ \A f \in todo : Before(level, e, f)

ExamineTree(e) ==
  /\ ScanningAt(e) /\ edge[e].isTree
  /\ Downgrade(e)
  /\ todo' = todo \ {e}
  /\ UNCHANGED <<phase, level, near, far, pending, at, found>>

(****************************************************************************)
(* Once a replacement is known, the next edge outside the forests ends the  *)
(* walk over this list.                                                     *)
(****************************************************************************)
BreakList(e) ==
  /\ ScanningAt(e) /\ ~edge[e].isTree /\ found # NoEdge
  /\ todo' = {}
  /\ UNCHANGED <<graphVars, phase, level, near, far, pending, at, found>>

FindReplacement(e) ==
  /\ ScanningAt(e) /\ ~edge[e].isTree /\ found = NoEdge
  /\ IsConnected(OtherEnd(e, at), far)
  /\ found' = e
  /\ todo' = todo \ {e}
  /\ UNCHANGED <<graphVars, phase, level, near, far, pending, at>>

ExamineNonTree(e) ==
  /\ ScanningAt(e) /\ ~edge[e].isTree /\ found = NoEdge
  /\ ~IsConnected(OtherEnd(e, at), far)
  /\ Downgrade(e)
  /\ todo' = todo \ {e}
  /\ UNCHANGED <<phase, level, near, far, pending, at, found>>

ScanDone ==
  /\ phase = "scan" /\ todo = {}
  /\ \A w \in pending : AdjList(level, w) = {}

\* Mutant: the replacement is put back at the top.
ReconnectAtTop ==
  /\ ScanDone /\ found # NoEdge
  /\ edge' = [edge EXCEPT ![found] = [lvl |-> Top, isTree |-> TRUE]]
  /\ list' = [list EXCEPT ![level] = Without(@, found), ![Top] = Append(@, found)]
  /\ tree' = [tree EXCEPT ![Top] = Linked(@, found[1], found[2])]
  /\ phase' = "idle" /\ level' = 0
  /\ near' = NoVertex /\ far' = NoVertex /\ at' = NoVertex
  /\ pending' = {} /\ found' = NoEdge
  /\ UNCHANGED todo

\* Mutant: the replacement is linked at its own level only.
ReconnectOneLevel ==
  /\ ScanDone /\ found # NoEdge
  /\ edge' = [edge EXCEPT ![found] = [@ EXCEPT !.isTree = TRUE]]
  /\ tree' = [tree EXCEPT ![level] = Linked(@, found[1], found[2])]
  /\ phase' = "idle" /\ level' = 0
  /\ near' = NoVertex /\ far' = NoVertex /\ at' = NoVertex
  /\ pending' = {} /\ found' = NoEdge
  /\ UNCHANGED <<list, todo>>

(****************************************************************************)
(* The replacement is linked into every forest from the top down to its     *)
(* level, and the search is over.                                           *)
(****************************************************************************)
Reconnect ==
  /\ ScanDone /\ found # NoEdge
  /\ edge' = [edge EXCEPT ![found] = [@ EXCEPT !.isTree = TRUE]]
  /\ tree' = [l \in Levels |-> IF l < level THEN tree[l]
                               ELSE Linked(tree[l], found[1], found[2])]
  /\ phase' = "idle" /\ level' = 0
  /\ near' = NoVertex /\ far' = NoVertex /\ at' = NoVertex
  /\ pending' = {} /\ found' = NoEdge
  /\ UNCHANGED <<list, todo>>

\* Mutant: only the level of the removed edge is searched.
NextLevelGivesUp ==
  /\ ScanDone /\ found = NoEdge
  /\ phase' = "search" /\ level' = Size
  /\ pending' = {} /\ at' = NoVertex
  /\ UNCHANGED <<graphVars, near, far, todo, found>>

NextLevel ==
  /\ ScanDone /\ found = NoEdge
  /\ phase' = "search" /\ level' = level + 1
  /\ pending' = {} /\ at' = NoVertex
  /\ UNCHANGED <<graphVars, near, far, todo, found>>

SearchStep ==
  \/ EnterLevel \/ SearchExhausted \/ Reconnect \/ NextLevel
  \/ \E w \in Vertices : Visit(w) \/ VisitEarly(w)
  \/ \E e \in AllEdges : ExamineTree(e) \/ BreakList(e)
                         \/ FindReplacement(e) \/ ExamineNonTree(e)

RemoveEdge(e) == RemoveNonTree(e) \/ RemoveTree(e)

Next == SearchStep \/ \E e \in AllEdges : Add(e) \/ RemoveEdge(e)

Spec == Init /\ [][Next]_vars
===============================================================================
