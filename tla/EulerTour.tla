------------------------------- MODULE EulerTour ------------------------------
(****************************************************************************)
(* dgraph::EulerTourForest of the branch 3 solver.  A tree is kept as a     *)
(* tour: a sequence of entries, each the visit of a vertex just before the  *)
(* tour crosses one edge in one direction; a tree edge holds the two        *)
(* entries that cross it (TreeEdge).  A vertex finds its tree through one   *)
(* of its entries, any[v], which also carries the vertex's counter.  The    *)
(* splay tree that stores a tour is abstracted to the sequence it stores:   *)
(* splay and rotate do not change it, split and merge cut and join it.      *)
(*                                                                          *)
(* Entries are allocated and deleted; an entry outside DOMAIN vert is       *)
(* freed memory.                                                            *)
(****************************************************************************)
EXTENDS GraphTerms, Integers, Sequences

CONSTANTS
  Entries,      \* addresses an entry can have
  MaxCount      \* bound on the counter of a vertex

ASSUME EulerTourAssumption ==
  /\ MaxCount \in Nat
  /\ Entries \subseteq Nat \ {0} /\ IsFiniteSet(Entries)
  /\ Cardinality(Entries) >= 2 * Cardinality(Vertices)

VARIABLES
  vert,         \* allocated entry -> its vertex
  edges,        \* allocated entry -> its counter
  tours,        \* the sequences the splay trees hold
  any,          \* vertex -> its entry
  anyRoot,      \* root entry of the tree linked last, or Nil after a cut
  handle        \* tree edge -> the entries that cross it

tourVars == <<vert, edges, tours, any, anyRoot, handle>>

Nil == 0

ToSeqSet(s) == {s[i] : i \in DOMAIN s}
TourOf(e) == CHOOSE s \in tours : e \in ToSeqSet(s)
PlaceIn(s, e) == CHOOSE i \in DOMAIN s : s[i] = e

\* Mutant: the tour is taken as it is.
TurnedNever(s, e) == s

(****************************************************************************)
(* make_root: the tour turned so that it starts at e.                       *)
(****************************************************************************)
Turned(s, e) ==
  LET i == PlaceIn(s, e) IN SubSeq(s, i, Len(s)) \o SubSeq(s, 1, i - 1)

(****************************************************************************)
(* expand: the tour starts at v, and unless v is alone a new entry of v     *)
(* ends it.                                                                 *)
(****************************************************************************)
Expanded(v, new) ==
  LET s == Turned(TourOf(any[v]), any[v]) IN
  IF Len(s) = 1 THEN s ELSE Append(s, new)

Alone(v) == Len(TourOf(any[v])) = 1

LastOf(s) == s[Len(s)]

(****************************************************************************)
(* new Entry: an address that is free.  Which one never matters, because    *)
(* addresses are only compared for equality.                                *)
(****************************************************************************)
FreshEntry(used) == CHOOSE e \in Entries : e \notin used

FirstEntries ==
  LET firsts == CHOOSE E \in SUBSET Entries : Cardinality(E) = Cardinality(Vertices) IN
  CHOOSE entryOf \in [Vertices -> firsts] : \A u, v \in Vertices : entryOf[u] = entryOf[v] => u = v

TourInit ==
  LET entryOf == FirstEntries IN
    /\ vert = [e \in {entryOf[v] : v \in Vertices} |-> CHOOSE v \in Vertices : entryOf[v] = e]
    /\ edges = [e \in DOMAIN vert |-> 0]
    /\ tours = {<<e>> : e \in DOMAIN vert}
    /\ any = entryOf
    /\ anyRoot = Nil
    /\ handle = [x \in {} |-> Nil]

(****************************************************************************)
(* link(v, u), called for two vertices of different trees: the tours end at *)
(* v and at u and are joined; the edge keeps the two last entries.          *)
(****************************************************************************)
Link(v, u) ==
  /\ TourOf(any[v]) # TourOf(any[u])
  /\ LET a == FreshEntry(DOMAIN vert)
         b == FreshEntry(DOMAIN vert \cup {a})
         left == Expanded(v, a)
         right == Expanded(u, b)
         new == (IF Alone(v) THEN {} ELSE {a}) \cup (IF Alone(u) THEN {} ELSE {b})
     IN  /\ vert' = [e \in DOMAIN vert \cup new |->
                       IF e \in DOMAIN vert THEN vert[e] ELSE IF e = a THEN v ELSE u]
         /\ edges' = [e \in DOMAIN vert \cup new |-> IF e \in DOMAIN vert THEN edges[e] ELSE 0]
         /\ tours' = (tours \ {TourOf(any[v]), TourOf(any[u])}) \cup {left \o right}
         /\ anyRoot' = LastOf(left)
         /\ handle' = [x \in DOMAIN handle \cup {IF v < u THEN <<v, u>> ELSE <<u, v>>} |->
                         IF x \in DOMAIN handle THEN handle[x] ELSE <<LastOf(left), LastOf(right)>>]
  /\ UNCHANGED any

\* Mutant: the vertex keeps the entry that is deleted.
RepointedNever(anyNow, e) == anyNow

(****************************************************************************)
(* change_any: the vertex of entry e is found through e, which takes over   *)
(* the counter.                                                             *)
(****************************************************************************)
Repointed(anyNow, e) == [anyNow EXCEPT ![vert[e]] = e]
\* Mutants: the old entry keeps its counter; the new one does not get it.
RecountedTwice(cnt, anyNow, e) == [cnt EXCEPT ![e] = cnt[anyNow[vert[e]]]]
RecountedLost(cnt, anyNow, e) == [cnt EXCEPT ![anyNow[vert[e]]] = 0]

Recounted(cnt, anyNow, e) ==
  [cnt EXCEPT ![anyNow[vert[e]]] = 0, ![e] = cnt[anyNow[vert[e]]]]

\* Mutant: the entry that goes away with the inner tree stands in.
OuterStandInOff(s, p, q) == s[q]

(****************************************************************************)
(* The entry an end of the cut gives up, and the entry that stands in for   *)
(* it when it was the vertex's own: none for an entry that stays because it *)
(* is the whole tour.                                                       *)
(****************************************************************************)
OuterStandIn(s, p, q) ==
  IF q < Len(s) THEN s[q + 1] ELSE s[1]

\* Mutant: the entry on the wrong side stands in.
InnerStandInBefore(s, p, q) == s[q - 1]

InnerStandIn(s, p, q) == s[p + 1]

(****************************************************************************)
(* Between its two crossings, at places p and q, the tour is the inner      *)
(* tree, around them the outer one; the earlier entry leaves the outer tour *)
(* and the later one the inner tour, unless it is all that is left of it.   *)
(****************************************************************************)
OuterTour(s, p, q) ==
  IF p = 1 /\ q = Len(s) THEN <<s[p]>> ELSE SubSeq(s, 1, p - 1) \o SubSeq(s, q + 1, Len(s))

InnerTour(s, p, q) ==
  IF q = p + 1 THEN <<s[q]>> ELSE SubSeq(s, p + 1, q - 1)

(****************************************************************************)
(* cut.  When the outer tour begins with the crossing, its vertex is        *)
(* repointed even if another entry represents it.                           *)
(****************************************************************************)
Cut(x) ==
  /\ x \in DOMAIN handle
  /\ LET s == TourOf(handle[x][1])
         i == PlaceIn(s, handle[x][1])
         j == PlaceIn(s, handle[x][2])
         p == IF i < j THEN i ELSE j
         q == IF i < j THEN j ELSE i
         outerStays == p = 1 /\ q = Len(s)
         innerStays == q = p + 1
         freed == (IF outerStays THEN {} ELSE {s[p]}) \cup (IF innerStays THEN {} ELSE {s[q]})
         movesOuter == ~outerStays /\ (p = 1 \/ any[vert[s[p]]] = s[p])
         any1 == IF movesOuter THEN Repointed(any, OuterStandIn(s, p, q)) ELSE any
         cnt1 == IF movesOuter THEN Recounted(edges, any, OuterStandIn(s, p, q)) ELSE edges
         movesInner == ~innerStays /\ any1[vert[s[q]]] = s[q]
         any2 == IF movesInner THEN Repointed(any1, InnerStandIn(s, p, q)) ELSE any1
         cnt2 == IF movesInner THEN Recounted(cnt1, any1, InnerStandIn(s, p, q)) ELSE cnt1
     IN  /\ vert' = [e \in DOMAIN vert \ freed |-> vert[e]]
         /\ edges' = [e \in DOMAIN vert \ freed |-> cnt2[e]]
         /\ tours' = (tours \ {s}) \cup {OuterTour(s, p, q), InnerTour(s, p, q)}
         /\ any' = any2
  /\ anyRoot' = Nil
  /\ handle' = [y \in DOMAIN handle \ {x} |-> handle[y]]

Increment(v) ==
  /\ edges[any[v]] < MaxCount
  /\ edges' = [edges EXCEPT ![any[v]] = @ + 1]
  /\ UNCHANGED <<vert, tours, any, anyRoot, handle>>

Decrement(v) ==
  /\ edges[any[v]] > 0
  /\ edges' = [edges EXCEPT ![any[v]] = @ - 1]
  /\ UNCHANGED <<vert, tours, any, anyRoot, handle>>

TourNext ==
  \/ \E u, v \in Vertices : Link(u, v)
  \/ \E x \in AllEdges : Cut(x)
  \/ \E v \in Vertices : Increment(v) \/ Decrement(v)

TourSpec == TourInit /\ [][TourNext]_tourVars

-------------------------------------------------------------------------------
\* Mutant: the length of a tour taken for its number of vertices.
SpansAllByLength == anyRoot # Nil /\ Len(TourOf(anyRoot)) = Cardinality(Vertices)

(****************************************************************************)
(* The queries.                                                             *)
(****************************************************************************)
SpansAll == anyRoot # Nil /\ Len(TourOf(anyRoot)) = 2 * (Cardinality(Vertices) - 1)
TourConnects(u, v) == SpansAll \/ TourOf(any[u]) = TourOf(any[v])
ComponentSize(v) == LET k == Len(TourOf(any[v])) IN IF k = 1 THEN 1 ELSE k \div 2 + 1
VerticesOf(s) == {vert[e] : e \in ToSeqSet(s)}
Counted(s) == {i \in DOMAIN s : edges[s[i]] > 0}

\* Mutant: the walk moves on from the first entry before it stops anywhere.
StopsAfterFirst(s, reach) == {i \in Counted(s) : i > 1}

(****************************************************************************)
(* iterator: the places in the tour, met in their order, at which the walk  *)
(* stops.  operator++ stops at the entries with a counter.  The walk begins *)
(* at the first entry if that one is good, which only says that it or an    *)
(* entry under it in the splay tree has a counter.  The shape of the splay  *)
(* tree is left open: what is under the first entry is any stretch of the   *)
(* tour after it, here up to place reach.                                   *)
(****************************************************************************)
Stops(s, reach) == Counted(s) \cup {i \in {1} : \E j \in Counted(s) : j <= reach}

(****************************************************************************)
(* Type invariant.                                                          *)
(****************************************************************************)
TourTypeOK ==
  /\ DOMAIN vert \subseteq Entries
  /\ \A e \in DOMAIN vert : vert[e] \in Vertices
  /\ DOMAIN edges = DOMAIN vert /\ \A e \in DOMAIN vert : edges[e] \in 0 .. MaxCount
  /\ \A s \in tours : s \in Seq(DOMAIN vert)
  /\ any \in [Vertices -> DOMAIN vert]
  /\ anyRoot \in DOMAIN vert \cup {Nil}
  /\ DOMAIN handle \subseteq AllEdges

(****************************************************************************)
(* No pointer is left to a deleted entry and none to a foreign one: any[v]  *)
(* is an entry of v, the entries of an edge are allocated, visit its ends   *)
(* and belong to no other edge, and every allocated entry is in one tour.   *)
(* Linking and cutting re-use, delete and repoint entries that other edges  *)
(* and vertices hold by address.                                            *)
(****************************************************************************)
PointersSound ==
  /\ \A v \in Vertices : any[v] \in DOMAIN vert /\ vert[any[v]] = v
  /\ \A x \in DOMAIN handle :
       /\ \A i \in 1 .. 2 : handle[x][i] \in DOMAIN vert
       /\ {vert[handle[x][1]], vert[handle[x][2]]} = {x[1], x[2]}
       /\ \A y \in DOMAIN handle : ToSeqSet(handle[x]) \cap ToSeqSet(handle[y]) # {} => x = y
  /\ \A e \in DOMAIN vert : Cardinality({s \in tours : e \in ToSeqSet(s)}) = 1

(****************************************************************************)
(* Each tour crosses each edge of its tree once in either direction: the    *)
(* entry that crosses it visits one end and the next entry, around the end  *)
(* of the sequence, visits the other.                                       *)
(****************************************************************************)
ToursCross ==
  \A s \in tours : Len(s) > 1 =>
    /\ \A i \in DOMAIN s :
         \E x \in DOMAIN handle :
           /\ s[i] \in ToSeqSet(handle[x])
           /\ {vert[s[i]], vert[s[IF i = Len(s) THEN 1 ELSE i + 1]]} = {x[1], x[2]}
    /\ Len(s) = 2 * Cardinality({x \in DOMAIN handle : handle[x][1] \in ToSeqSet(s)})

(****************************************************************************)
(* Together: a tour is what its edges and vertices take it for.             *)
(****************************************************************************)
ToursSound == TourTypeOK /\ PointersSound /\ ToursCross

(****************************************************************************)
(* The counter of a vertex is on its own entry and nowhere else: cut and    *)
(* change_any move it along when they give the vertex another entry.        *)
(****************************************************************************)
CountersOwned == \A e \in DOMAIN vert : edges[e] > 0 => any[vert[e]] = e

(****************************************************************************)
(* The answers a caller gets agree with the forest: whether two vertices    *)
(* are connected (also through the any_root shortcut) and the size of the   *)
(* component.                                                               *)
(****************************************************************************)
AnswersRight ==
  \A u \in Vertices :
    LET comp == Component(DOMAIN handle, u) IN
    /\ \A v \in Vertices : TourConnects(u, v) <=> v \in comp
    /\ ComponentSize(u) = Cardinality(comp)

(****************************************************************************)
(* Whatever the shape of the splay tree, the iterator meets each vertex of  *)
(* the component that has a counter, once at its own entry, and stops       *)
(* nowhere else, except that it may begin at the first entry of the tour    *)
(* without a counter there.  So a search misses no vertex with edges of the *)
(* level and meets none of another tree, although links and cuts turn the   *)
(* tour and give vertices other entries; it may meet one vertex too early,  *)
(* without edges or a second time (DynamicGraph, VisitEarly).               *)
(****************************************************************************)
IterationCovers ==
  \A u \in Vertices :
    LET s    == TourOf(any[u])
        comp == Component(DOMAIN handle, u)
        own  == {any[v] : v \in {w \in comp : edges[any[w]] > 0}}
    IN  \A reach \in DOMAIN s :
          LET met == {s[i] : i \in Stops(s, reach)} IN
          /\ own \subseteq met
          /\ met \ own \subseteq {s[1]}
          /\ \A e \in met : vert[e] \in comp

(****************************************************************************)
(* The tours implement the forest of vertex sets the dynamic graph is       *)
(* modelled with.                                                           *)
(****************************************************************************)
Forest == INSTANCE TreeForest WITH
  edges <- DOMAIN handle,
  trees <- [v \in Vertices |-> VerticesOf(TourOf(any[v]))],
  count <- [v \in Vertices |-> edges[any[v]]]

ForestSpec == Forest!Spec
===============================================================================
