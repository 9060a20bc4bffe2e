----------------------------- MODULE RawPrimitives -----------------------------
(***************************************************************************)
(* The four primitives of raw_primitives.cpp: isolate_vertex moves one     *)
(* occurrence to a skeleton of its own, split_separation_pair cuts a       *)
(* skeleton at two REAL vertices, join_separation_pair and                 *)
(* integrate_skeleton glue two skeletons together.  Each one computes      *)
(* builders from the engine as it finds it and only then commits them.     *)
(*                                                                         *)
(* XReady(...) are the assertions of primitive X: what its caller owes it. *)
(* Abstractions: the inner vertices of a side keep the order of the        *)
(* skeleton's list (the code lists them as its search meets them), and the *)
(* core patch of an isolated occurrence keeps the order of the skeleton's  *)
(* edges; both only decide which identifier a copy gets.                   *)
(***************************************************************************)
EXTENDS RawEngine

\* What the primitives read: both lists of a skeleton, and the ends of an edge.
Verts(r, sid) == r.skel.val[sid].verts
Edges(r, sid) == r.skel.val[sid].edges
Ends(r, e) == {r.E.val[e].a, r.E.val[e].b}
OtherEnd(r, e, v) == CHOOSE w \in Ends(r, e) : w # v

\* A list without the elements outside S, and a list without its repetitions.
Keep(s, S) ==
  LET kept[k \in 0 .. Len(s)] ==
        IF k = 0 THEN <<>>
        ELSE IF s[k] \in S THEN Append(kept[k - 1], s[k]) ELSE kept[k - 1]
  IN  kept[Len(s)]

Distinct(s) ==
  LET seen[k \in 0 .. Len(s)] ==
        IF k = 0 THEN <<>>
        ELSE LET d == seen[k - 1] IN IF s[k] \in ToSet(d) THEN d ELSE Append(d, s[k])
  IN  seen[Len(s)]

\* find_real_orig_in_skeleton asserts that exactly one REAL vertex has the name.
RealsNamed(r, sid, v) == {x \in VertsOf(r, sid) : r.V.val[x].kind = "REAL" /\ r.V.val[x].orig = v}
HasReal(r, sid, v) == Cardinality(RealsNamed(r, sid, v)) = 1
FindReal(r, sid, v) == CHOOSE x \in RealsNamed(r, sid, v) : TRUE

RealNames(r, S) == {r.V.val[x].orig : x \in {x \in S : r.V.val[x].kind = "REAL"}}

\* copy_old_vertex's assertion: a builder holds one REAL vertex of each name.
RealUnique(B) ==
  \A i, j \in DOMAIN B.V :
    IsReal(B, i) /\ IsReal(B, j) /\ B.V[i].orig = B.V[j].orig => i = j

------------------------------------------------------------------------------
(* Builders that copy old vertices and edges (BuildCtx). *)

\* Mutant: the core patch of an occurrence is not remapped.
CopyBuilderWithoutPatch(r, verts, edges, glue, occs) ==
  LET at(v) == CHOOSE i \in DOMAIN verts : verts[i] = IF v \in DOMAIN glue THEN glue[v] ELSE v
  IN  [V |-> [i \in DOMAIN verts |->
               [kind |-> r.V.val[verts[i]].kind, orig |-> r.V.val[verts[i]].orig,
                occ |-> r.V.val[verts[i]].occ]],
       E |-> [k \in DOMAIN edges |->
               LET e == r.E.val[edges[k]] IN
               [a |-> at(e.a), b |-> at(e.b), kind |-> e.kind, br |-> e.br]],
       nbr   |-> [o \in occs |-> r.occ[o].nbr],
       patch |-> [o \in occs |-> {}]]

\* The copies of verts and edges; glue maps an old vertex to the one that stands
\* for it in the copy.  remap_occ_meta keeps the patch edges that were copied.
CopyBuilder(r, verts, edges, glue, occs) ==
  LET at(v) == CHOOSE i \in DOMAIN verts : verts[i] = IF v \in DOMAIN glue THEN glue[v] ELSE v
  IN  [V |-> [i \in DOMAIN verts |->
               [kind |-> r.V.val[verts[i]].kind, orig |-> r.V.val[verts[i]].orig,
                occ |-> r.V.val[verts[i]].occ]],
       E |-> [k \in DOMAIN edges |->
               LET e == r.E.val[edges[k]] IN
               [a |-> at(e.a), b |-> at(e.b), kind |-> e.kind, br |-> e.br]],
       nbr   |-> [o \in occs |-> r.occ[o].nbr],
       patch |-> [o \in occs |-> {k \in DOMAIN edges : edges[k] \in r.occ[o].patch}]]

NoGlue == [v \in {} |-> v]

------------------------------------------------------------------------------
(* isolate_vertex *)

\* port_key: attach is shifted out of the 64-bit key down to its low 16 bits.
PortKey(p) == <<p.attach % 65536, p.br, p.kind>>

\* prepare_isolate_neighborhood: one port for each key, in the order of the edges.
Ports(r, sid, o) ==
  LET c == r.occ[o].center
      port(e) == [attach |-> r.V.val[OtherEnd(r, e, c)].orig,
                  kind   |-> r.E.val[e].kind,
                  br     |-> IF r.E.val[e].kind = "REAL_PORT" THEN NoBridge ELSE r.E.val[e].br]
      incident == Keep(Edges(r, sid), r.V.val[c].adj)
      found[k \in 0 .. Len(incident)] ==
        IF k = 0 THEN <<>>
        ELSE LET ps == found[k - 1]
                 p  == port(incident[k])
             IN  IF \E q \in ToSet(ps) : PortKey(q) = PortKey(p) THEN ps ELSE Append(ps, p)
  IN  found[Len(incident)]

\* build_isolated_occ_builder: the center, then one vertex for each name a port
\* or a core edge mentions; the center answers to its own name.
IsolatedBuilder(r, sid, o) ==
  LET R     == r.occ[o]
      ports == Ports(r, sid, o)
      orig(v) == r.V.val[v].orig
      core  == Keep(Edges(r, sid),
                    {e \in R.patch : orig(r.E.val[e].a) # orig(r.E.val[e].b)})
      ends  == [i \in 1 .. 2 * Len(core) |->
                  LET e == r.E.val[core[(i + 1) \div 2]] IN orig(IF i % 2 = 1 THEN e.a ELSE e.b)]
      names == Distinct(<<R.orig>> \o [i \in DOMAIN ports |-> ports[i].attach] \o ends)
      at(n) == CHOOSE i \in DOMAIN names : names[i] = n
      np    == Len(ports)
  IN  [V |-> [i \in DOMAIN names |->
               IF i = 1 THEN [kind |-> "OCC_CENTER", orig |-> R.orig, occ |-> o]
                        ELSE [kind |-> "REAL", orig |-> names[i], occ |-> NoOcc]],
       E |-> [k \in DOMAIN ports |->
               [a |-> 1, b |-> at(ports[k].attach), kind |-> ports[k].kind, br |-> ports[k].br]]
             \o [k \in DOMAIN core |->
               [a |-> at(orig(r.E.val[core[k]].a)), b |-> at(orig(r.E.val[core[k]].b)),
                kind |-> "CORE_REAL", br |-> NoBridge]],
       nbr   |-> [x \in {o} |-> R.nbr],
       patch |-> [x \in {o} |-> np + 1 .. np + Len(core)]]

\* Mutant: the occurrence that moves away counts as a survivor.
ResidualBuilderKeepsOcc(r, sid, o) ==
  CopyBuilder(r, Verts(r, sid), Edges(r, sid), NoGlue, HostedOf(r, sid))

\* build_residual_after_isolate: the other occurrences with their ports and core
\* patches; what belongs to none of them is dropped.
ResidualBuilder(r, sid, o) ==
  LET survivors == HostedOf(r, sid) \ {o}
      centers == {r.occ[x].center : x \in survivors}
      ke == {e \in EdgesOf(r, sid) :
               /\ r.occ[o].center \notin Ends(r, e)
               /\ Ends(r, e) \cap centers # {} \/ \E x \in survivors : e \in r.occ[x].patch}
      kv == centers \cup UNION {Ends(r, e) : e \in ke}
  IN  CopyBuilder(r, Keep(Verts(r, sid), kv), Keep(Edges(r, sid), ke), NoGlue, survivors)

IsolateReady(r, sid, o) ==
  /\ r.occ[o].host = sid
  /\ LET c == r.V.val[r.occ[o].center] IN
     /\ c.kind = "OCC_CENTER"
     /\ c.orig = r.occ[o].orig
     /\ \A e \in c.adj : r.E.val[e].kind # "CORE_REAL"
  /\ ValidBuilder(IsolatedBuilder(r, sid, o))
  /\ ValidBuilder(ResidualBuilder(r, sid, o))
  /\ RealUnique(ResidualBuilder(r, sid, o))

IsolateVertex(r, sid, o) ==
  CommitSkeleton(CommitSkeleton(AllocSkeleton(r), NextSkel(r), IsolatedBuilder(r, sid, o)),
                 sid, ResidualBuilder(r, sid, o))

------------------------------------------------------------------------------
(* split_separation_pair *)

\* One component of the skeleton without the blocked vertices.
Component(r, sid, blocked, start) ==
  LET reached[k \in 0 .. Len(Verts(r, sid))] ==
        IF k = 0 THEN {start}
        ELSE LET S == reached[k - 1] IN
             S \cup ((UNION {Ends(r, e) : e \in {d \in EdgesOf(r, sid) : Ends(r, d) \cap S # {}}})
                       \ blocked)
  IN  reached[Len(Verts(r, sid))]

\* All of them, in the order of their first vertices.
Components(r, sid, blocked) ==
  LET found[k \in 0 .. Len(Verts(r, sid))] ==
        IF k = 0 THEN <<>>
        ELSE LET cs == found[k - 1]
                 v  == Verts(r, sid)[k]
             IN  IF v \in blocked \/ \E C \in ToSet(cs) : v \in C THEN cs
                 ELSE Append(cs, Component(r, sid, blocked, v))
  IN  found[Len(Verts(r, sid))]

Touches(r, C, v) == \E e \in r.V.val[v].adj : OtherEnd(r, e, v) \in C

OccsIn(r, C) == {r.V.val[v].occ : v \in {v \in C : r.V.val[v].kind = "OCC_CENTER"}}

\* Mutant: the edges that join a and b are forgotten.
SidesWithoutDirect(r, sid, a, b) ==
  LET sep == {FindReal(r, sid, a), FindReal(r, sid, b)}
      cs  == Components(r, sid, sep)
  IN  [i \in DOMAIN cs |->
        [inner |-> cs[i],
         edges |-> {e \in EdgesOf(r, sid) : Ends(r, e) \cap cs[i] # {}}]]

\* prepare_split_separation_pair: a side for each component, and a last one for
\* the edges that join a and b, if there are any.
Sides(r, sid, a, b) ==
  LET sep == {FindReal(r, sid, a), FindReal(r, sid, b)}
      cs  == Components(r, sid, sep)
      direct == {e \in EdgesOf(r, sid) : Ends(r, e) = sep}
  IN  [i \in DOMAIN cs |->
        [inner |-> cs[i],
         edges |-> {e \in EdgesOf(r, sid) : Ends(r, e) \cap cs[i] # {}}]]
      \o IF direct = {} THEN <<>> ELSE <<[inner |-> {}, edges |-> direct]>>

\* build_child_after_sep_split: a, b, the inner vertices, the inner edges and the
\* edges to a and b.
ChildBuilder(r, sid, a, b, side) ==
  LET inner == {e \in side.edges : Ends(r, e) \subseteq side.inner} IN
  CopyBuilder(r, <<FindReal(r, sid, a), FindReal(r, sid, b)>> \o Keep(Verts(r, sid), side.inner),
              Keep(Edges(r, sid), inner) \o Keep(Edges(r, sid), side.edges \ inner), NoGlue,
              OccsIn(r, side.inner))

SplitReady(r, sid, a, b) ==
  /\ a # b
  /\ HasReal(r, sid, a) /\ HasReal(r, sid, b)
  /\ \A C \in ToSet(Components(r, sid, {FindReal(r, sid, a), FindReal(r, sid, b)})) :
       Touches(r, C, FindReal(r, sid, a)) /\ Touches(r, C, FindReal(r, sid, b))
  /\ \A side \in ToSet(Sides(r, sid, a, b)) :
       LET B == ChildBuilder(r, sid, a, b, side) IN ValidBuilder(B) /\ RealUnique(B)

\* SplitSeparationPairResult.child: the first child keeps the skeleton.
SplitChildren(r, sid, a, b) ==
  LET sides == Sides(r, sid, a, b) IN
  [i \in DOMAIN sides |->
    [sid          |-> IF i = 1 THEN sid ELSE NewIds(r.skel, Len(sides))[i - 1],
     hosted       |-> OccsIn(r, sides[i].inner),
     boundaryOnly |-> sides[i].inner = {}]]

SplitPair(r, sid, a, b) ==
  LET sides == Sides(r, sid, a, b)
      B(i) == ChildBuilder(r, sid, a, b, sides[i])
      stage[i \in DOMAIN sides] ==
        IF i = 1 THEN CommitSkeleton(r, sid, B(1))
        ELSE LET x == stage[i - 1] IN CommitSkeleton(AllocSkeleton(x), NextSkel(x), B(i))
  IN  IF sides = <<>>
      THEN [RetireContents(r, sid) EXCEPT !.dirtySkel = @ \cup {sid}]
      ELSE stage[Len(sides)]

------------------------------------------------------------------------------
(* join_separation_pair *)

\* build_merged_after_sep_join: the two copies of a become one, and of b.
JoinBuilder(r, left, right, a, b) ==
  LET lA == FindReal(r, left, a)
      lB == FindReal(r, left, b)
      rA == FindReal(r, right, a)
      rB == FindReal(r, right, b)
  IN  CopyBuilder(r, <<lA, lB>> \o Keep(Verts(r, left), VertsOf(r, left) \ {lA, lB})
                                \o Keep(Verts(r, right), VertsOf(r, right) \ {rA, rB}),
                  Edges(r, left) \o Edges(r, right),
                  [v \in {rA, rB} |-> IF v = rA THEN lA ELSE lB],
                  HostedOf(r, left) \cup HostedOf(r, right))

JoinReady(r, left, right, a, b) ==
  /\ {left, right} \subseteq Skels(r)
  /\ left # right
  /\ a # b
  /\ \A s \in {left, right}, v \in {a, b} : HasReal(r, s, v)
  /\ HostedOf(r, left) \cap HostedOf(r, right) = {}
  /\ LET B == JoinBuilder(r, left, right, a, b) IN ValidBuilder(B) /\ RealUnique(B)

\* Mutant: the right skeleton is retired with its contents still in use.
JoinPairKeepsRight(r, left, right, a, b) ==
  FreeSkeleton(CommitSkeleton(r, left, JoinBuilder(r, left, right, a, b)), right)

JoinPair(r, left, right, a, b) ==
  FreeSkeleton(RetireContents(CommitSkeleton(r, left, JoinBuilder(r, left, right, a, b)), right),
               right)

------------------------------------------------------------------------------
(* integrate_skeleton; bm maps names of the child's boundary to names of the  *)
(* parent's.                                                                  *)

\* Mutant: the boundary is glued by the child's names.
IntegrateBuilderSameNames(r, parent, child, bm) ==
  LET bound == {FindReal(r, child, x) : x \in DOMAIN bm} IN
  CopyBuilder(r, Verts(r, parent) \o Keep(Verts(r, child), VertsOf(r, child) \ bound),
              Edges(r, parent) \o Edges(r, child),
              [v \in bound |-> FindReal(r, parent, r.V.val[v].orig)],
              HostedOf(r, parent) \cup HostedOf(r, child))

IntegrateBuilder(r, parent, child, bm) ==
  LET bound == {FindReal(r, child, x) : x \in DOMAIN bm} IN
  CopyBuilder(r, Verts(r, parent) \o Keep(Verts(r, child), VertsOf(r, child) \ bound),
              Edges(r, parent) \o Edges(r, child),
              [v \in bound |-> FindReal(r, parent, bm[r.V.val[v].orig])],
              HostedOf(r, parent) \cup HostedOf(r, child))

IntegrateReady(r, parent, child, bm) ==
  /\ {parent, child} \subseteq Skels(r)
  /\ parent # child
  /\ \A x, y \in DOMAIN bm : bm[x] = bm[y] => x = y
  /\ \A x \in DOMAIN bm : HasReal(r, child, x) /\ HasReal(r, parent, bm[x])
  /\ HostedOf(r, parent) \cap HostedOf(r, child) = {}
  /\ LET B == IntegrateBuilder(r, parent, child, bm) IN ValidBuilder(B) /\ RealUnique(B)

IntegrateSkeleton(r, parent, child, bm) ==
  FreeSkeleton(
    RetireContents(CommitSkeleton(r, parent, IntegrateBuilder(r, parent, child, bm)), child),
    child)
=============================================================================
