------------------------------ MODULE NBTopology ------------------------------
(****************************************************************************)
(* DecrementalNBTopology of the branch 3 solver: the components of a graph  *)
(* that loses vertices, each under a handle, and the depth-first search     *)
(* artifact kept from one deletion to the next.  The answers of the dynamic *)
(* graph below it (edgeAlive, sameComponent) are those of the live edges;   *)
(* modules DynamicGraph and ForestCore are about them.                      *)
(*                                                                          *)
(* A deletion takes one of five routes.  Four of them are for deletions no  *)
(* owner is touched by, and three of these avoid a search.                  *)
(*                                                                          *)
(* Handles count from 1, 0 is "no handle".  The slice [lo, hi) of a         *)
(* handle's member array is the sequence verts.                             *)
(****************************************************************************)
EXTENDS DfsArtifact

CONSTANT DegreeCap    \* kNoSplitFastpathDegreeCap

ASSUME NBAssumption == DegreeCap \in Nat

VARIABLES
  live,       \* live edges
  alive,      \* live vertices
  compOf,     \* vertex -> handle
  comps,      \* handle -> its members, whether it is alive and path-ordered
  dfs,        \* the artifact
  created     \* newComponents of the last deletion

nbVars == <<live, alive, compOf, comps, dfs, created>>

Neighbours(E, v) == {u \in Vertices : <<u, v>> \in E \/ <<v, u>> \in E}
EdgesWithout(x) == {e \in live : ~Touches(e, x)}

(****************************************************************************)
(* Component handles: the array, the vertices' handles and the list of      *)
(* handles reported, threaded through one deletion.                         *)
(****************************************************************************)
AssignMembers(h, verts, ordered) ==
  LET new == Len(h.comps) + 1 IN
  [of |-> [v \in Vertices |-> IF v \in Range(verts) THEN new ELSE h.of[v]],
   comps |-> Append(h.comps, [verts |-> verts, open |-> TRUE, ordered |-> ordered]),
   created |-> Append(h.created, new)]

AssignEach(h, groups, ordered) ==
  LET given[k \in 0 .. Len(groups)] ==
        IF k = 0 THEN h ELSE AssignMembers(given[k - 1], groups[k], ordered)
  IN  given[Len(groups)]

\* Mutant: the last member is dropped, not moved.
SwapOutLast(verts, x) == IF x \notin Range(verts) THEN verts ELSE Front(verts)

(****************************************************************************)
(* removeVertexFromComponentHandle: the last member takes the place of x.   *)
(* (A path-ordered handle does not get here: PathOrderedDelete comes first.)*)
(****************************************************************************)
SwapOut(verts, x) ==
  IF x \notin Range(verts) THEN verts
  ELSE LET moved == Last(verts)
       IN  Front([i \in DOMAIN verts |-> IF verts[i] = x THEN moved ELSE verts[i]])

SwapOutAll(verts, gone) ==
  LET left[k \in 0 .. Len(gone)] == IF k = 0 THEN verts ELSE SwapOut(left[k - 1], gone[k])
  IN  left[Len(gone)]

WithoutMembers(h, c, gone) ==
  [h EXCEPT !.of = [v \in Vertices |-> IF v \in Range(gone) THEN 0 ELSE @[v]],
            !.comps[c].verts = SwapOutAll(@, gone)]

(****************************************************************************)
(* rebuildAllComponents: a breadth-first walk from every vertex not reached *)
(* yet, in increasing order.                                                *)
(****************************************************************************)
BreadthFirst(E, s) ==
  LET n == Cardinality(Vertices)
      queue[k \in 0 .. n] ==
        IF k = 0 THEN <<s>>
        ELSE LET q == queue[k - 1] IN
             IF k > Len(q) THEN q ELSE q \o Ascending(Neighbours(E, q[k]) \ Range(q))
  IN  queue[n]

AllComponents(E) ==
  LET first == {v \in Vertices : \A u \in Component(E, v) : v <= u}
  IN  [i \in 1 .. Cardinality(first) |-> BreadthFirst(E, Ascending(first)[i])]

NoHandles == [of |-> [v \in Vertices |-> 0], comps |-> <<>>, created |-> <<>>]

TopoInit ==
  /\ alive = Vertices
  /\ LET h == AssignEach(NoHandles, AllComponents(live), FALSE) IN
     /\ compOf = h.of /\ comps = h.comps
  /\ dfs = Artifact(Ascending(Vertices), live)
  /\ created = <<>>

-------------------------------------------------------------------------------
(****************************************************************************)
(* What every route does first: the handle before, the neighbours, and the  *)
(* removal of x.                                                            *)
(****************************************************************************)
Handles == [of |-> compOf, comps |-> comps, created |-> <<>>]
Around(x) == Neighbours(live, x)
MaySkipSearch(x) == Cardinality(Around(x)) <= DegreeCap

TakeOut(x) ==
  /\ alive' = alive \ {x}
  /\ live' = EdgesWithout(x)

Keep(h) == compOf' = h.of /\ comps' = h.comps /\ created' = h.created

(****************************************************************************)
(* tryDeleteUntouchedPathOrderedComponent: the path splits at x; the longer *)
(* part keeps the handle.                                                   *)
(****************************************************************************)
OnOrderedPath(x) ==
  LET c == comps[compOf[x]] IN c.open /\ c.ordered /\ x \in Range(c.verts)

PathOrderedDelete(x) ==
  LET c == compOf[x]
      verts == comps[c].verts
      at == CHOOSE i \in DOMAIN verts : verts[i] = x
      left == SubSeq(verts, 1, at - 1)
      right == SubSeq(verts, at + 1, Len(verts))
      keepLeft == left # <<>> /\ Len(left) >= Len(right)
      kept == IF keepLeft THEN left ELSE right
      moved == IF keepLeft THEN right ELSE left
      h == [Handles EXCEPT !.of[x] = 0, !.comps[c].verts = kept,
                           !.comps[c].open = kept # <<>>,
                           !.created = IF kept = <<>> THEN <<>> ELSE <<c>>]
  IN  /\ OnOrderedPath(x)
      /\ TakeOut(x)
      /\ Keep(IF moved = <<>> THEN h ELSE AssignMembers(h, moved, TRUE))
      /\ dfs' = NoArtifact

(****************************************************************************)
(* tryDeleteUntouchedLeafySplit: all neighbours of x but at most one have   *)
(* no other edge.  Each of these becomes a component of its own; the old    *)
(* handle stays for the rest, and dies when every neighbour was such a leaf.*)
(****************************************************************************)
Leaves(x) == {v \in Around(x) : Neighbours(live, v) = {x}}

Leafy(x) ==
  /\ MaySkipSearch(x)
  /\ comps[compOf[x]].open
  /\ Cardinality(Around(x)) > 1
  /\ Leaves(x) # {} /\ Cardinality(Around(x) \ Leaves(x)) <= 1

LeafyDelete(x) ==
  LET c == compOf[x]
      leaves == Ascending(Leaves(x))
      rest == WithoutMembers(Handles, c, <<x>> \o leaves)
      stays == Around(x) # Leaves(x) /\ rest.comps[c].verts # <<>>
      h == [rest EXCEPT !.comps[c].open = stays,
                        !.created = IF stays THEN <<c>> ELSE <<>>]
  IN  /\ ~OnOrderedPath(x) /\ Leafy(x)
      /\ TakeOut(x)
      /\ Keep(AssignEach(h, [i \in DOMAIN leaves |-> <<leaves[i]>>], TRUE))
      /\ dfs' = NoArtifact

\* Mutant: the entry of x stays.
DroppingNothing(a, x) == a

(****************************************************************************)
(* The route for a deletion after which the neighbours of x are still       *)
(* connected.  The artifact survives it unless x has neighbours and is the  *)
(* root of its tree: only the entry of x is dropped, nothing of what the    *)
(* artifact says of the other vertices is recomputed.                       *)
(****************************************************************************)
StaysConnected(x) ==
  /\ MaySkipSearch(x)
  /\ \A u, v \in Around(x) : u \in Component(EdgesWithout(x), v)

Dropping(a, x) ==
  LET S == Seen(a) \ {x} IN
  [tin |-> Restrict(a.tin, S), tout |-> Restrict(a.tout, S), par |-> Restrict(a.par, S),
   root |-> Restrict(a.root, S), low |-> Restrict(a.low, S)]

Retained(x) ==
  IF x \in Seen(dfs) /\ ~(Around(x) # {} /\ dfs.par[x] = x) THEN Dropping(dfs, x)
  ELSE NoArtifact

ConnectedDelete(x) ==
  LET c == compOf[x]
      h == WithoutMembers(Handles, c, <<x>>)
      stays == h.comps[c].verts # <<>>
  IN  /\ ~OnOrderedPath(x) /\ ~Leafy(x) /\ StaysConnected(x)
      /\ TakeOut(x)
      /\ Keep([h EXCEPT !.comps[c].open = stays, !.created = IF stays THEN <<c>> ELSE <<>>])
      /\ dfs' = Retained(x)

-------------------------------------------------------------------------------
(****************************************************************************)
(* The routes that give the members of the old handle new handles.          *)
(****************************************************************************)
OldVerts(x) ==
  Picked(comps[compOf[x]].verts, {v \in alive \ {x} : compOf[v] = compOf[x]})

Dissolved(x) ==
  LET c == compOf[x] IN
  [Handles EXCEPT
     !.of = [v \in Vertices |-> IF v = x \/ v \in Range(OldVerts(x)) THEN 0 ELSE @[v]],
     !.comps[c] = [@ EXCEPT !.verts = <<>>, !.open = FALSE]]

(****************************************************************************)
(* buildGlobalDeleteArtifact: a new search over the old members.  A handle  *)
(* per tree, its members in the order the search met them.                  *)
(****************************************************************************)
Trees(a) ==
  LET met == [i \in 1 .. Cardinality(Seen(a)) |-> CHOOSE v \in Seen(a) : a.tin[v] = i]
      roots == Picked(met, {v \in Seen(a) : a.par[v] = v})
  IN  [i \in DOMAIN roots |-> Picked(met, {v \in Seen(a) : a.root[v] = roots[i]})]

SearchAgain(x, h) ==
  LET a == Artifact(OldVerts(x), EdgesWithout(x)) IN
  /\ dfs' = a
  /\ Keep(AssignEach(h, Trees(a), FALSE))

(****************************************************************************)
(* prepareDeleteSplitFromCurrentArtifact: the artifact is used again when   *)
(* it has x and all its neighbours in one tree.                             *)
(****************************************************************************)
Reusable(x) ==
  /\ x \in Seen(dfs)
  /\ \A v \in Around(x) : v \in Seen(dfs) /\ dfs.root[v] = dfs.root[x]

BucketOf(x, v) == Bucket(dfs, ChildrenOf(dfs, live, x), x, v)

(****************************************************************************)
(* buildGlobalDeleteArtifactFromCurrentArtifact: the old members by bucket, *)
(* the buckets in the order of their first member.  It gives up before any  *)
(* change when a member has no bucket, and in the middle, handles already   *)
(* given out, when a member other than its bucket's root hangs from x.      *)
(****************************************************************************)
Buckets(x) ==
  LET keys == [i \in DOMAIN OldVerts(x) |-> BucketOf(x, OldVerts(x)[i])]
      fresh == {i \in DOMAIN keys : \A j \in 1 .. i - 1 : keys[j] # keys[i]}
  IN  [k \in 1 .. Cardinality(fresh) |-> keys[Ascending(fresh)[k]]]

MembersIn(x, b) == Picked(OldVerts(x), {v \in Vertices : BucketOf(x, v) = b})
RootFor(x, b) == IF b = 0 THEN dfs.root[x] ELSE b
Adoptable(x, b) ==
  \A v \in Range(MembersIn(x, b)) : v # RootFor(x, b) => dfs.par[v] # x

Classified(x) == \A v \in Range(OldVerts(x)) : BucketOf(x, v) # NoBucket

Adopted(x) ==
  LET bad == {k \in DOMAIN Buckets(x) : ~Adoptable(x, Buckets(x)[k])}
  IN  IF bad = {} THEN Buckets(x) ELSE SubSeq(Buckets(x), 1, Min(bad) - 1)

Rerooted(x) ==
  LET a == Dropping(dfs, x)
      root(v) == RootFor(x, BucketOf(x, v))
  IN  [a EXCEPT !.root = [v \in Seen(a) |-> IF v \in Range(OldVerts(x)) THEN root(v) ELSE @[v]],
                !.par = [v \in Seen(a) |->
                           IF v \in Range(OldVerts(x)) /\ v = root(v) THEN v ELSE @[v]]]

ReuseArtifact(x) ==
  LET h == AssignEach(Dissolved(x),
                      [k \in DOMAIN Adopted(x) |-> MembersIn(x, Adopted(x)[k])], FALSE)
  IN  IF Adopted(x) = Buckets(x)
      THEN dfs' = Rerooted(x) /\ Keep(h)
      ELSE SearchAgain(x, h)

UntouchedSplit(x) ==
  /\ ~OnOrderedPath(x) /\ ~Leafy(x) /\ ~StaysConnected(x)
  /\ TakeOut(x)
  /\ IF Reusable(x) /\ Classified(x) THEN ReuseArtifact(x)
     ELSE SearchAgain(x, Dissolved(x))

TouchedSplit(x) ==
  /\ TakeOut(x)
  /\ SearchAgain(x, Dissolved(x))

(****************************************************************************)
(* deleteVertexAndSplit.                                                    *)
(****************************************************************************)
DeleteVertexAndSplit(x, touched) ==
  /\ x \in alive
  /\ \/ touched /\ TouchedSplit(x)
     \/ ~touched /\ ( \/ PathOrderedDelete(x) \/ LeafyDelete(x)
                      \/ ConnectedDelete(x) \/ UntouchedSplit(x) )

-------------------------------------------------------------------------------
(****************************************************************************)
(* Two live vertices that are connected have the same handle, whatever      *)
(* route the deletions took; the members of the handle of a vertex include  *)
(* the vertex, and no vertex is without a handle.  (The converse, one       *)
(* component per handle, is what the solver needs and does not have.)       *)
(****************************************************************************)
NeverSplits ==
  \A v \in alive :
    /\ compOf[v] # 0 /\ v \in Range(comps[compOf[v]].verts)
    /\ \A u \in Component(live, v) : compOf[u] = compOf[v]

(****************************************************************************)
(* What an artifact says after deletions it has not been rebuilt for may be *)
(* too coarse but never too fine: with a vertex it has seen the whole       *)
(* component, under one root, and a child it takes for cut off from its     *)
(* parent really is.                                                        *)
(****************************************************************************)
ArtifactCoarse ==
  \A v \in Seen(dfs) :
    /\ v \in alive
    /\ \A u \in Component(live, v) : u \in Seen(dfs) /\ dfs.root[u] = dfs.root[v]
    /\ \A u, w \in Component(live, v) \ {v} :
         u \in Component(EdgesWithout(v), w) =>
           BucketOf(v, u) = BucketOf(v, w)

(****************************************************************************)
(* Handles and artifact err on one side only.                               *)
(****************************************************************************)
NeverTooFine == NeverSplits /\ ArtifactCoarse
===============================================================================
