----------------------------- MODULE DfsArtifact ------------------------------
(****************************************************************************)
(* The depth-first search artifact of DecrementalNBTopology: for every      *)
(* vertex the search has seen, its entry and exit times, its parent, the    *)
(* root of its tree and the earliest entry time its subtree reaches.  A     *)
(* vertex the search has not seen is outside the domains.  From the         *)
(* artifact the class reads off, without another search, which component    *)
(* of "the tree of owner without owner" an endpoint is in.                  *)
(****************************************************************************)
EXTENDS GraphTerms, Integers, Sequences, FiniteSetsExt, SequencesExt

Ascending(S) ==
  [i \in 1 .. Cardinality(S) |-> CHOOSE v \in S : Cardinality({u \in S : u < v}) = i - 1]

\* The elements of s that are in T, in their order.
Picked(s, T) ==
  LET pick[i \in 0 .. Len(s)] ==
        IF i = 0 THEN <<>>
        ELSE IF s[i] \in T THEN Append(pick[i - 1], s[i]) ELSE pick[i - 1]
  IN  pick[Len(s)]

\* f with the entry e for v, which it need not have had.
With(f, v, e) == [x \in DOMAIN f \cup {v} |-> IF x = v THEN e ELSE f[x]]

(****************************************************************************)
(* No artifact is ready, or an artifact that has seen nothing: no user of   *)
(* the artifact tells the two apart.                                        *)
(****************************************************************************)
NoArtifact == [tin |-> <<>>, tout |-> <<>>, par |-> <<>>, root |-> <<>>, low |-> <<>>]

Seen(a) == DOMAIN a.tin
Ready(a) == Seen(a) # {}
Subtree(a, u) == {w \in Seen(a) : a.tin[u] <= a.tin[w] /\ a.tin[w] <= a.tout[u]}

(****************************************************************************)
(* One step of the search: enter the first neighbour of the last vertex of  *)
(* the path that is not seen yet, or leave that vertex; with an empty path, *)
(* start at the next vertex of the order.  A search over the vertices of    *)
(* the order takes two steps per vertex.                                    *)
(****************************************************************************)
Enter(w, v, parent, root) ==
  [w EXCEPT !.path = Append(@, v),
            !.tin = With(@, v, Cardinality(DOMAIN @) + 1),
            !.par = With(@, v, parent),
            !.root = With(@, v, root)]

SearchStep(w, order, adj) ==
  IF w.path = <<>>
  THEN LET s == order[Min({i \in DOMAIN order : order[i] \notin DOMAIN w.tin})]
       IN  Enter(w, s, s, s)
  ELSE LET u == Last(w.path)
           fresh == adj[u] \ DOMAIN w.tin
       IN  IF fresh # {} THEN Enter(w, Min(fresh), u, w.root[u])
           ELSE [w EXCEPT !.path = Front(@), !.tout = With(@, u, Cardinality(DOMAIN w.tin))]

\* Mutant: the vertices below u do not count.
LowTimesOwn(a, adj) ==
  [u \in Seen(a) |-> Min({a.tin[u]} \cup {a.tin[y] : y \in adj[u] \ {a.par[u]}})]

(****************************************************************************)
(* The earliest entry time among a subtree and the neighbours of its        *)
(* vertices, the edge to a vertex's own parent not counted.                 *)
(****************************************************************************)
LowTimes(a, adj) ==
  [u \in Seen(a) |->
     Min(UNION {{a.tin[w]} \cup {a.tin[y] : y \in adj[w] \ {a.par[w]}} : w \in Subtree(a, u)})]

(****************************************************************************)
(* The artifact of a search of the graph with edges E over the vertices of  *)
(* order, as buildCurrentConnectivityArtifact and buildGlobalDeleteArtifact *)
(* compute it; incident edges are met in increasing order of the other end. *)
(****************************************************************************)
Artifact(order, E) ==
  LET adj == [v \in Range(order) |-> {u \in Range(order) : <<u, v>> \in E \/ <<v, u>> \in E}]
      walk[k \in 0 .. 2 * Len(order)] ==
        IF k = 0 THEN [path |-> <<>>, tin |-> <<>>, tout |-> <<>>, par |-> <<>>, root |-> <<>>]
        ELSE LET before == walk[k - 1] IN SearchStep(before, order, adj)
      done == walk[2 * Len(order)]
      tree == [tin |-> done.tin, tout |-> done.tout, par |-> done.par, root |-> done.root,
               low |-> <<>>]
  IN  [tree EXCEPT !.low = LowTimes(tree, adj)]

(****************************************************************************)
(* The live neighbours of u that are its children in the artifact's tree.   *)
(****************************************************************************)
ChildrenOf(a, E, u) ==
  {v \in Seen(a) : (<<u, v>> \in E \/ <<v, u>> \in E) /\ a.par[v] = u}

(****************************************************************************)
(* classifyEndpointBucket: the child of owner whose subtree holds e and     *)
(* reaches nothing above owner, 0 when no child cuts e off, NoBucket when   *)
(* the artifact knows nothing of e.  kids are the children of owner.        *)
(****************************************************************************)
NoBucket == -1

Bucket(a, kids, owner, e) ==
  IF e = owner \/ {owner, e} \ Seen(a) # {} THEN NoBucket
  ELSE IF a.root[owner] # a.root[e] THEN NoBucket
  ELSE LET cutOff == {c \in kids : /\ e \in Subtree(a, c)
                                   /\ a.par[owner] = owner \/ a.low[c] >= a.tin[owner]}
       IN  IF cutOff = {} THEN 0 ELSE CHOOSE c \in cutOff : TRUE
===============================================================================
