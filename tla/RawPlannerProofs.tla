---------------------------- MODULE RawPlannerProofs ----------------------------
(***************************************************************************)
(* The local updater, from any engine and any queue its callers may pass:  *)
(* between any two jobs the engine is sound and no queued job can fail its *)
(* assertions, and a run that returns leaves the target alone in its       *)
(* skeleton with nothing to split.                                         *)
(*                                                                         *)
(* JOIN_PAIR and INTEGRATE_CHILD copy two skeletons into one and assert    *)
(* that no name occurs twice in the copy.  They may be called on two       *)
(* skeletons that meet in the names of the pair and in no other; the       *)
(* pieces of a split meet like that in pairs, and still do when some of    *)
(* them have been glued together.                                          *)
(***************************************************************************)
EXTENDS RawPlanner, RawPrimitivesProofs

------------------------------------------------------------------------------
(* Names. *)

\* A sound engine whose skeletons have each name once.
Named(r) == Sound(r) /\ \A sid \in Skels(r) : UniqueNames(r, sid)

\* In such a skeleton find_real_orig_in_skeleton finds the vertex of a name.
LEMMA NamedOnce ==
  ASSUME NEW r, NEW s, UniqueNames(r, s), NEW v \in RealNames(r, VertsOf(r, s))
  PROVE  /\ HasReal(r, s, v)
         /\ \A x \in VertsOf(r, s) :
              r.V.val[x].kind = "REAL" /\ r.V.val[x].orig = v => x = FindReal(r, s, v)
<1>1. PICK y \in VertsOf(r, s) : r.V.val[y].kind = "REAL" /\ r.V.val[y].orig = v
  BY DEF RealNames
<1>2. RealsNamed(r, s, v) = {y}
  BY <1>1 DEF RealsNamed, UniqueNames
<1>3. HasReal(r, s, v)
  BY <1>2, FS_Singleton DEF HasReal
<1>4. FindReal(r, s, v) = y
  BY <1>2 DEF FindReal
<1>. QED
  BY <1>1, <1>3, <1>4 DEF UniqueNames

\* A skeleton left alone keeps its names and its occurrences.
LEMMA NamesFrame ==
  ASSUME NEW r, NEW y, NEW t, SameContents(r, y, t)
  PROVE  /\ RealNames(y, VertsOf(y, t)) = RealNames(r, VertsOf(r, t))
         /\ HostedOf(y, t) = HostedOf(r, t)
         /\ UniqueNames(r, t) => UniqueNames(y, t)
<1>1. /\ VertsOf(y, t) = VertsOf(r, t) /\ HostedOf(y, t) = HostedOf(r, t)
      /\ \A v \in VertsOf(r, t) : y.V.val[v] = r.V.val[v]
  BY DEF SameContents, VertsOf, HostedOf
<1>2. RealNames(y, VertsOf(y, t)) = RealNames(r, VertsOf(r, t))
  BY <1>1 DEF RealNames
<1>3. UniqueNames(r, t) => UniqueNames(y, t)
  BY <1>1 DEF UniqueNames
<1>. QED
  BY <1>1, <1>2, <1>3

\* The vertices of a copy.
LEMMA CopiedVertices ==
  ASSUME NEW r, NEW verts, NEW edges, NEW glue, NEW occs,
         NEW B, B = CopyBuilder(r, verts, edges, glue, occs)
  PROVE  /\ DOMAIN B.V = DOMAIN verts
         /\ \A i \in DOMAIN verts : /\ B.V[i].kind = r.V.val[verts[i]].kind
                                    /\ B.V[i].orig = r.V.val[verts[i]].orig
                                    /\ B.V[i].occ = r.V.val[verts[i]].occ
<1>1. B.V = [i \in DOMAIN verts |->
               [kind |-> r.V.val[verts[i]].kind, orig |-> r.V.val[verts[i]].orig,
                occ |-> r.V.val[verts[i]].occ]]
  BY DEF CopyBuilder
<1>. QED
  BY <1>1

\* A copy names what its vertices name.
LEMMA CopiedNames ==
  ASSUME NEW r, NEW verts, NEW edges, NEW glue, NEW occs,
         NEW B, B = CopyBuilder(r, verts, edges, glue, occs)
  PROVE  BuilderNames(B) = RealNames(r, ToSet(verts))
<1>1. /\ DOMAIN B.V = DOMAIN verts
      /\ \A i \in DOMAIN verts : /\ B.V[i].kind = r.V.val[verts[i]].kind
                                 /\ B.V[i].orig = r.V.val[verts[i]].orig
  BY CopiedVertices
<1>2. ASSUME NEW n \in BuilderNames(B) PROVE n \in RealNames(r, ToSet(verts))
  <2>1. PICK i \in DOMAIN B.V : IsReal(B, i) /\ n = B.V[i].orig
    BY DEF BuilderNames
  <2>2. /\ verts[i] \in ToSet(verts) /\ r.V.val[verts[i]].kind = "REAL"
        /\ n = r.V.val[verts[i]].orig
    BY <1>1, <2>1 DEF IsReal, ToSet
  <2>. QED
    BY <2>2 DEF RealNames
<1>3. ASSUME NEW n \in RealNames(r, ToSet(verts)) PROVE n \in BuilderNames(B)
  <2>1. PICK x \in ToSet(verts) : r.V.val[x].kind = "REAL" /\ n = r.V.val[x].orig
    BY DEF RealNames
  <2>2. PICK i \in DOMAIN verts : x = verts[i]
    BY DEF ToSet
  <2>3. i \in DOMAIN B.V /\ IsReal(B, i) /\ n = B.V[i].orig
    BY <1>1, <2>1, <2>2 DEF IsReal
  <2>. QED
    BY <2>3 DEF BuilderNames
<1>. QED
  BY <1>2, <1>3

\* Nor twice, if no vertex is copied twice.
LEMMA CopiedOnce ==
  ASSUME NEW r, NEW verts, NEW edges, NEW glue, NEW occs,
         NEW B, B = CopyBuilder(r, verts, edges, glue, occs), IsInjective(verts),
         \A v, w \in ToSet(verts) : /\ r.V.val[v].kind = "REAL" /\ r.V.val[w].kind = "REAL"
                                    /\ r.V.val[v].orig = r.V.val[w].orig
                                    => v = w
  PROVE  RealUnique(B)
<1>1. /\ DOMAIN B.V = DOMAIN verts
      /\ \A i \in DOMAIN verts : /\ B.V[i].kind = r.V.val[verts[i]].kind
                                 /\ B.V[i].orig = r.V.val[verts[i]].orig
  BY CopiedVertices
<1>2. \A i \in DOMAIN verts : verts[i] \in ToSet(verts)
  BY DEF ToSet
<1>. QED
  BY <1>1, <1>2 DEF RealUnique, IsReal, IsInjective

\* A copy is valid if no vertex is copied twice, no edge becomes a loop, and it
\* has the centers of its occurrences.
LEMMA CopyValid ==
  ASSUME NEW r, Sound(r), NEW T, NEW verts, NEW edges, NEW glue, NEW occs,
         IsPart(r, T, verts, edges, glue, occs), IsInjective(verts),
         occs \subseteq OccsIn(r, ToSet(verts)),
         \A e \in ToSet(edges) : Glued(glue, r.E.val[e].a) # Glued(glue, r.E.val[e].b),
         NEW B, B = CopyBuilder(r, verts, edges, glue, occs)
  PROVE  ValidBuilder(B)
<1>. DEFINE P == UNION {VertsOf(r, s) : s \in T}
            Q == UNION {EdgesOf(r, s) : s \in T}
<1>0. /\ T \subseteq Skels(r) /\ ToSet(verts) \subseteq P /\ ToSet(edges) \subseteq Q
      /\ occs \subseteq UNION {HostedOf(r, s) : s \in T}
      /\ \A e \in ToSet(edges) : \A v \in Ends(r, e) : Glued(glue, v) \in ToSet(verts)
      /\ \A v \in DOMAIN glue : r.V.val[glue[v]].kind = "REAL"
  <2>1. verts \in Seq(P) /\ edges \in Seq(Q)
    BY DEF IsPart
  <2>. HIDE DEF P, Q
  <2>2. ToSet(verts) \subseteq P /\ ToSet(edges) \subseteq Q
    BY <2>1 DEF ToSet
  <2>. QED
    BY <2>2 DEF IsPart
<1>1. /\ DOMAIN B.V = DOMAIN verts
      /\ \A i \in DOMAIN verts : /\ B.V[i].kind = r.V.val[verts[i]].kind
                                 /\ B.V[i].occ = r.V.val[verts[i]].occ
  BY CopiedVertices
<1>2. /\ B.E = [k \in DOMAIN edges |->
                  [a    |-> PlaceOf(verts, glue, r.E.val[edges[k]].a),
                   b    |-> PlaceOf(verts, glue, r.E.val[edges[k]].b),
                   kind |-> r.E.val[edges[k]].kind, br |-> r.E.val[edges[k]].br]]
      /\ B.nbr = [o \in occs |-> r.occ[o].nbr]
      /\ B.patch = [o \in occs |-> {k \in DOMAIN edges : edges[k] \in r.occ[o].patch}]
  BY DEF CopyBuilder, PlaceOf, Glued
<1>3. /\ DOMAIN B.E = DOMAIN edges /\ DOMAIN B.nbr = occs /\ DOMAIN B.patch = occs
      /\ \A k \in DOMAIN edges : /\ B.E[k].a = PlaceOf(verts, glue, r.E.val[edges[k]].a)
                                 /\ B.E[k].b = PlaceOf(verts, glue, r.E.val[edges[k]].b)
                                 /\ B.E[k].kind = r.E.val[edges[k]].kind
      /\ \A o \in occs : B.patch[o] = {k \in DOMAIN edges : edges[k] \in r.occ[o].patch}
  <2>1. DOMAIN B.E = DOMAIN edges /\ DOMAIN B.nbr = occs /\ DOMAIN B.patch = occs
    BY <1>2
  <2>2. ASSUME NEW k \in DOMAIN edges
        PROVE  /\ B.E[k].a = PlaceOf(verts, glue, r.E.val[edges[k]].a)
               /\ B.E[k].b = PlaceOf(verts, glue, r.E.val[edges[k]].b)
               /\ B.E[k].kind = r.E.val[edges[k]].kind
    BY <1>2
  <2>3. \A o \in occs : B.patch[o] = {k \in DOMAIN edges : edges[k] \in r.occ[o].patch}
    BY <1>2
  <2>. QED
    BY <2>1, <2>2, <2>3
<1>4. \A k \in DOMAIN edges :
        /\ edges[k] \in ToSet(edges) /\ edges[k] \in Q
        /\ r.E.val[edges[k]].a \in Ends(r, edges[k]) /\ r.E.val[edges[k]].b \in Ends(r, edges[k])
  BY <1>0 DEF ToSet, Ends
<1>5. ASSUME NEW v, Glued(glue, v) \in ToSet(verts)
      PROVE  PlaceOf(verts, glue, v) \in DOMAIN verts /\ verts[PlaceOf(verts, glue, v)] = Glued(glue, v)
  <2>1. \E i \in DOMAIN verts : verts[i] = Glued(glue, v)
    BY <1>5 DEF ToSet
  <2>. QED
    BY <2>1 DEF PlaceOf
<1>6. ASSUME NEW k \in DOMAIN B.E
      PROVE  B.E[k].a \in DOMAIN B.V /\ B.E[k].b \in DOMAIN B.V /\ B.E[k].a # B.E[k].b
  BY <1>0, <1>1, <1>3, <1>4, <1>5
<1>7. ASSUME NEW i \in CentersOf(B), NEW j \in CentersOf(B), B.V[i].occ = B.V[j].occ PROVE i = j
  <2>1. ASSUME NEW m \in CentersOf(B)
        PROVE  /\ m \in DOMAIN verts /\ verts[m] \in P
               /\ r.occ[B.V[m].occ].center = verts[m]
    <3>1. m \in DOMAIN verts /\ verts[m] \in P /\ r.V.val[verts[m]].kind = "OCC_CENTER"
      BY <1>0, <1>1 DEF CentersOf, ToSet
    <3>2. PICK s \in T : verts[m] \in VertsOf(r, s)
      BY <3>1
    <3>3. Consistent(r, s)
      BY <1>0, Listed
    <3>. QED
      BY <1>1, <3>1, <3>2, <3>3, Centered
  <2>2. verts[i] = verts[j] /\ i \in DOMAIN verts /\ j \in DOMAIN verts
    BY <1>7, <2>1
  <2>. QED
    BY <2>2 DEF IsInjective
<1>8. occs \subseteq OccsOf(B)
  <2>1. ASSUME NEW o \in occs PROVE o \in OccsOf(B)
    <3>1. PICK v \in ToSet(verts) : r.V.val[v].kind = "OCC_CENTER" /\ o = r.V.val[v].occ
      BY DEF OccsIn
    <3>2. PICK i \in DOMAIN verts : verts[i] = v
      BY DEF ToSet
    <3>3. i \in CentersOf(B) /\ B.V[i].occ = o
      BY <1>1, <3>1, <3>2 DEF CentersOf
    <3>. QED
      BY <3>3 DEF OccsOf
  <2>. QED
    BY <2>1
<1>9. ASSUME NEW o \in occs, NEW k \in B.patch[o]
      PROVE  k \in DOMAIN B.E /\ B.E[k].kind = "CORE_REAL" /\ IsReal(B, B.E[k].a) /\ IsReal(B, B.E[k].b)
  <2>1. k \in DOMAIN edges /\ edges[k] \in r.occ[o].patch
    BY <1>3
  <2>2. PICK s \in T : o \in HostedOf(r, s)
    BY <1>0
  <2>3. s \in Skels(r) /\ Consistent(r, s) /\ IsCurrent(r, o) /\ r.occ[o].host = s
    <3>1. s \in Skels(r) /\ Consistent(r, s)
      BY <1>0, Listed
    <3>. QED
      BY <2>2, <3>1 DEF Consistent, Validated
  <2>4. edges[k] \in EdgesOf(r, s) /\ r.E.val[edges[k]].kind = "CORE_REAL"
    BY <2>1, <2>3 DEF IsCurrent
  <2>5. ASSUME NEW v \in Ends(r, edges[k]) PROVE IsReal(B, PlaceOf(verts, glue, v))
    <3>1. r.V.val[v].kind = "REAL"
      BY <2>3, <2>4, Ending
    <3>2. r.V.val[Glued(glue, v)].kind = "REAL"
      BY <1>0, <3>1 DEF Glued
    <3>3. Glued(glue, v) \in ToSet(verts)
      BY <1>0, <1>4, <2>1
    <3>. QED
      BY <1>1, <1>5, <3>2, <3>3 DEF IsReal
  <2>. QED
    BY <1>3, <1>4, <2>1, <2>4, <2>5
<1>. QED
  BY <1>3, <1>6, <1>7, <1>8, <1>9 DEF ValidBuilder

------------------------------------------------------------------------------
(* Two skeletons that meet. *)

\* The assertions on the copy of two skeletons hold if they share no name but
\* those of the vertices glued together.
LEMMA GluedReady ==
  ASSUME NEW r, Named(r), NEW s \in Skels(r), NEW t \in Skels(r), s # t,
         NEW bound, NEW glue, NEW verts, IsGluing(r, s, t, bound, glue, verts),
         \A v \in bound : r.V.val[v].kind = "REAL" /\ r.V.val[glue[v]].orig = r.V.val[v].orig,
         RealNames(r, VertsOf(r, s)) \cap RealNames(r, VertsOf(r, t))
           \subseteq {r.V.val[v].orig : v \in bound},
         NEW B, B = GluedBuilder(r, s, t, glue, verts)
  PROVE  /\ ValidBuilder(B) /\ RealUnique(B)
         /\ BuilderNames(B) = RealNames(r, VertsOf(r, s)) \cup RealNames(r, VertsOf(r, t))
<1>. DEFINE edges == Edges(r, s) \o Edges(r, t)
            occs == HostedOf(r, s) \cup HostedOf(r, t)
            orig(v) == r.V.val[v].orig
            real(v) == r.V.val[v].kind = "REAL"
<1>1. /\ bound \subseteq VertsOf(r, t) /\ DOMAIN glue = bound
      /\ \A v \in bound : glue[v] \in VertsOf(r, s) /\ r.V.val[glue[v]].kind = "REAL"
      /\ ToSet(verts) = VertsOf(r, s) \cup (VertsOf(r, t) \ bound)
      /\ IsInjective(verts)
  BY DEF IsGluing
<1>2. /\ Sound(r) /\ UniqueNames(r, s) /\ UniqueNames(r, t)
      /\ VertsOf(r, s) \cap VertsOf(r, t) = {}
  BY Disjoint DEF Named
<1>3. IsPart(r, {s, t}, verts, edges, glue, occs)
  BY <1>2, GluedPart
<1>4. occs \subseteq OccsIn(r, ToSet(verts))
  <2>1. ASSUME NEW u \in {s, t}, NEW o \in HostedOf(r, u)
        PROVE  /\ r.occ[o].center \in VertsOf(r, u)
               /\ r.V.val[r.occ[o].center].kind = "OCC_CENTER"
               /\ r.V.val[r.occ[o].center].occ = o
    BY <1>2, Listed, Recorded
  <2>2. \A v \in bound : r.V.val[v].kind # "OCC_CENTER"
    OBVIOUS
  <2>3. ASSUME NEW o \in occs
        PROVE  /\ r.occ[o].center \in ToSet(verts)
               /\ r.V.val[r.occ[o].center].kind = "OCC_CENTER"
               /\ r.V.val[r.occ[o].center].occ = o
    BY <1>1, <2>1, <2>2
  <2>. QED
    BY <2>3 DEF OccsIn
<1>5. ASSUME NEW e \in ToSet(edges)
      PROVE  Glued(glue, r.E.val[e].a) # Glued(glue, r.E.val[e].b)
  <2>. DEFINE x == r.E.val[e].a
              z == r.E.val[e].b
  <2>1. e \in EdgesOf(r, s) \cup EdgesOf(r, t)
    <3>. DEFINE Q == EdgesOf(r, s) \cup EdgesOf(r, t)
    <3>1. Edges(r, s) \in Seq(EdgesOf(r, s)) /\ Edges(r, t) \in Seq(EdgesOf(r, t))
      BY <1>2, Listed
    <3>2. Edges(r, s) \in Seq(Q) /\ Edges(r, t) \in Seq(Q)
      BY <3>1
    <3>. HIDE DEF Q
    <3>3. edges \in Seq(Q)
      BY <3>2, Joined
    <3>. HIDE DEF edges
    <3>. QED
      BY <3>3 DEF ToSet, Q
  <2>2. ASSUME NEW u \in {s, t}, e \in EdgesOf(r, u)
        PROVE  x \in VertsOf(r, u) /\ z \in VertsOf(r, u) /\ x # z
    BY <1>2, <2>2, Listed DEF IsGraph
  <2>. HIDE DEF x, z, edges
  <2>3. CASE e \in EdgesOf(r, s)
    BY <1>1, <1>2, <2>2, <2>3 DEF Glued, x, z
  <2>4. CASE e \in EdgesOf(r, t)
    <3>1. x \in VertsOf(r, t) /\ z \in VertsOf(r, t) /\ x # z
      BY <2>2, <2>4
    <3>2. CASE x \in bound /\ z \in bound
      <4>1. ASSUME glue[x] = glue[z] PROVE FALSE
        <5>1. r.V.val[x].orig = r.V.val[z].orig /\ r.V.val[x].kind = "REAL" /\ r.V.val[z].kind = "REAL"
          BY <3>2, <4>1
        <5>. QED
          BY <1>2, <3>1, <5>1 DEF UniqueNames
      <4>. QED
        BY <1>1, <3>2, <4>1 DEF Glued, x, z
    <3>3. CASE ~(x \in bound /\ z \in bound)
      BY <1>1, <1>2, <3>1, <3>3 DEF Glued, x, z
    <3>. QED
      BY <3>2, <3>3
  <2>. QED
    BY <2>1, <2>3, <2>4
<1>6. B = CopyBuilder(r, verts, edges, glue, occs)
  BY DEF GluedBuilder
<1>. HIDE DEF edges, occs
<1>7. ValidBuilder(B)
  <2>. DEFINE T == {s, t}
  <2>1. IsPart(r, T, verts, edges, glue, occs)
    BY <1>3
  <2>. HIDE DEF T
  <2>. QED
    BY ONLY <1>1, <1>2, <2>1, <1>4, <1>5, <1>6, CopyValid
<1>8. ASSUME NEW v \in ToSet(verts), NEW w \in ToSet(verts), real(v), real(w), orig(v) = orig(w)
      PROVE  v = w
  <2>1. ASSUME NEW x \in VertsOf(r, s), NEW z \in VertsOf(r, t) \ bound,
               real(x), real(z), orig(x) = orig(z)
        PROVE  FALSE
    <3>1. /\ orig(z) \in RealNames(r, VertsOf(r, s)) \cap RealNames(r, VertsOf(r, t))
      BY <2>1 DEF RealNames
    <3>2. PICK y \in bound : orig(y) = orig(z)
      BY <3>1
    <3>. QED
      BY <1>1, <1>2, <2>1, <3>2 DEF UniqueNames
  <2>. QED
    BY <1>1, <1>2, <1>8, <2>1 DEF UniqueNames
<1>9. RealUnique(B)
  BY <1>1, <1>6, <1>8, CopiedOnce
<1>10. RealNames(r, ToSet(verts)) = RealNames(r, VertsOf(r, s)) \cup RealNames(r, VertsOf(r, t))
  <2>1. ASSUME NEW n \in RealNames(r, ToSet(verts))
        PROVE  n \in RealNames(r, VertsOf(r, s)) \cup RealNames(r, VertsOf(r, t))
    BY <1>1 DEF RealNames
  <2>2. ASSUME NEW n \in RealNames(r, VertsOf(r, s)) PROVE n \in RealNames(r, ToSet(verts))
    BY <1>1 DEF RealNames
  <2>3. ASSUME NEW n \in RealNames(r, VertsOf(r, t)) PROVE n \in RealNames(r, ToSet(verts))
    <3>1. PICK v \in VertsOf(r, t) : real(v) /\ n = orig(v)
      BY DEF RealNames
    <3>2. CASE v \in bound
      <4>1. glue[v] \in ToSet(verts) /\ real(glue[v]) /\ n = orig(glue[v])
        BY <1>1, <3>1, <3>2
      <4>. QED
        BY <4>1 DEF RealNames
    <3>3. CASE v \notin bound
      BY <1>1, <3>1, <3>3 DEF RealNames
    <3>. QED
      BY <3>2, <3>3
  <2>. QED
    BY <2>1, <2>2, <2>3
<1>11. BuilderNames(B) = RealNames(r, ToSet(verts))
  BY <1>6, CopiedNames
<1>. QED
  BY <1>7, <1>9, <1>10, <1>11

\* So a join may be called on two skeletons that meet in the pair.
LEMMA MeetJoins ==
  ASSUME NEW r, Named(r), NEW s, NEW t, NEW a, NEW b, Meet(r, s, t, a, b)
  PROVE  /\ JoinReady(r, s, t, a, b)
         /\ BuilderNames(JoinBuilder(r, s, t, a, b))
              = RealNames(r, VertsOf(r, s)) \cup RealNames(r, VertsOf(r, t))
<1>. DEFINE B == JoinBuilder(r, s, t, a, b)
            names == RealNames(r, VertsOf(r, s)) \cup RealNames(r, VertsOf(r, t))
<1>1. /\ s \in Skels(r) /\ t \in Skels(r) /\ s # t /\ a # b
      /\ RealNames(r, VertsOf(r, s)) \cap RealNames(r, VertsOf(r, t)) = {a, b}
  BY DEF Meet
<1>2. Sound(r) /\ UniqueNames(r, s) /\ UniqueNames(r, t)
  BY <1>1 DEF Named
<1>3. \A u \in {s, t}, v \in {a, b} : HasReal(r, u, v)
  BY <1>1, <1>2, NamedOnce
<1>. HIDE DEF B
<1>4. PICK bound, glue, verts :
        /\ B = GluedBuilder(r, s, t, glue, verts)
        /\ IsGluing(r, s, t, bound, glue, verts)
        /\ bound = {FindReal(r, t, a), FindReal(r, t, b)}
        /\ \A v \in bound : r.V.val[glue[v]].orig = r.V.val[v].orig
  BY <1>1, <1>2, <1>3, JoinGlues DEF B
<1>5. /\ r.V.val[FindReal(r, t, a)].kind = "REAL" /\ r.V.val[FindReal(r, t, a)].orig = a
      /\ r.V.val[FindReal(r, t, b)].kind = "REAL" /\ r.V.val[FindReal(r, t, b)].orig = b
  BY <1>3, Found
<1>6. \A v \in bound : r.V.val[v].kind = "REAL" /\ r.V.val[glue[v]].orig = r.V.val[v].orig
  BY <1>4, <1>5
<1>7. {a, b} \subseteq {r.V.val[v].orig : v \in bound}
  BY <1>4, <1>5
<1>8. ValidBuilder(B) /\ RealUnique(B) /\ BuilderNames(B) = names
  <2>1. RealNames(r, VertsOf(r, s)) \cap RealNames(r, VertsOf(r, t))
          \subseteq {r.V.val[v].orig : v \in bound}
    BY <1>1, <1>7
  <2>2. B = GluedBuilder(r, s, t, glue, verts) /\ IsGluing(r, s, t, bound, glue, verts)
    BY <1>4
  <2>. QED
    BY <1>1, <1>6, <2>1, <2>2, GluedReady
<1>9. HostedOf(r, s) \cap HostedOf(r, t) = {}
  BY <1>1, <1>2, Disjoint
<1>. QED
  BY <1>1, <1>3, <1>8, <1>9 DEF JoinReady, B

\* And so may an integration that keeps the names.
NamesKept(bm, a, b) == DOMAIN bm = {a, b} /\ bm[a] = a /\ bm[b] = b

LEMMA MeetIntegrates ==
  ASSUME NEW r, Named(r), NEW s, NEW t, NEW a, NEW b, Meet(r, s, t, a, b),
         NEW bm, NamesKept(bm, a, b)
  PROVE  /\ IntegrateReady(r, s, t, bm)
         /\ BuilderNames(IntegrateBuilder(r, s, t, bm))
              = RealNames(r, VertsOf(r, s)) \cup RealNames(r, VertsOf(r, t))
<1>. DEFINE B == IntegrateBuilder(r, s, t, bm)
            names == RealNames(r, VertsOf(r, s)) \cup RealNames(r, VertsOf(r, t))
<1>0. DOMAIN bm = {a, b} /\ bm[a] = a /\ bm[b] = b
  BY DEF NamesKept
<1>1. /\ s \in Skels(r) /\ t \in Skels(r) /\ s # t /\ a # b
      /\ RealNames(r, VertsOf(r, s)) \cap RealNames(r, VertsOf(r, t)) = {a, b}
  BY DEF Meet
<1>2. Sound(r) /\ UniqueNames(r, s) /\ UniqueNames(r, t)
  BY <1>1 DEF Named
<1>3. \A x \in DOMAIN bm : HasReal(r, t, x) /\ HasReal(r, s, bm[x])
  BY <1>0, <1>1, <1>2, NamedOnce
<1>. HIDE DEF B
<1>4. PICK bound, glue, verts :
        /\ B = GluedBuilder(r, s, t, glue, verts)
        /\ IsGluing(r, s, t, bound, glue, verts)
        /\ bound = Boundary(r, t, bm)
        /\ \A v \in bound : r.V.val[glue[v]].orig = bm[r.V.val[v].orig]
  BY <1>1, <1>2, <1>3, IntegrateGlues DEF B
<1>5. /\ r.V.val[FindReal(r, t, a)].kind = "REAL" /\ r.V.val[FindReal(r, t, a)].orig = a
      /\ r.V.val[FindReal(r, t, b)].kind = "REAL" /\ r.V.val[FindReal(r, t, b)].orig = b
  BY <1>0, <1>3, Found
<1>5a. bound = {FindReal(r, t, a), FindReal(r, t, b)}
  BY <1>0, <1>4 DEF Boundary
<1>6. \A v \in bound : r.V.val[v].kind = "REAL" /\ r.V.val[glue[v]].orig = r.V.val[v].orig
  BY <1>0, <1>4, <1>5, <1>5a
<1>7. {a, b} \subseteq {r.V.val[v].orig : v \in bound}
  BY <1>5, <1>5a
<1>8. ValidBuilder(B) /\ RealUnique(B) /\ BuilderNames(B) = names
  <2>1. RealNames(r, VertsOf(r, s)) \cap RealNames(r, VertsOf(r, t))
          \subseteq {r.V.val[v].orig : v \in bound}
    BY <1>1, <1>7
  <2>2. B = GluedBuilder(r, s, t, glue, verts) /\ IsGluing(r, s, t, bound, glue, verts)
    BY <1>4
  <2>. QED
    BY <1>1, <1>6, <2>1, <2>2, GluedReady
<1>9. HostedOf(r, s) \cap HostedOf(r, t) = {}
  BY <1>1, <1>2, Disjoint
<1>10. \A x, y \in DOMAIN bm : bm[x] = bm[y] => x = y
  BY <1>0
<1>. QED
  BY <1>1, <1>3, <1>8, <1>9, <1>10 DEF IntegrateReady, B

\* What gluing t to s leaves: an engine with the same occurrences, where s meets
\* whatever both met.
LEMMA MeetGlued ==
  ASSUME NEW r, Named(r), NEW s \in Skels(r), NEW t \in Skels(r), s # t, NEW B,
         BuilderNames(B) = RealNames(r, VertsOf(r, s)) \cup RealNames(r, VertsOf(r, t)),
         OccsOf(B) = HostedOf(r, s) \cup HostedOf(r, t), RealUnique(B),
         NEW y, Sound(y), Merged(r, s, t, B, y)
  PROVE  /\ Named(y)
         /\ HostedOccs(y) = HostedOccs(r)
         /\ \A u, a, b : Meet(r, s, u, a, b) /\ Meet(r, t, u, a, b) => Meet(y, s, u, a, b)
         /\ \A u, w, a, b :
              u \notin {s, t} /\ w \notin {s, t} /\ Meet(r, u, w, a, b) => Meet(y, u, w, a, b)
<1>1. /\ Skels(y) = Skels(r) \ {t}
      /\ \A u \in Skels(y) : u # s => SameContents(r, y, u)
      /\ UniqueNames(y, s)
      /\ RealNames(y, VertsOf(y, s)) = RealNames(r, VertsOf(r, s)) \cup RealNames(r, VertsOf(r, t))
      /\ HostedOf(y, s) = HostedOf(r, s) \cup HostedOf(r, t)
  BY DEF Merged, Shows
<1>2. \A u \in Skels(r) : UniqueNames(r, u)
  BY DEF Named
<1>3. ASSUME NEW u \in Skels(r) \ {s, t}
      PROVE  /\ u \in Skels(y)
             /\ RealNames(y, VertsOf(y, u)) = RealNames(r, VertsOf(r, u))
             /\ HostedOf(y, u) = HostedOf(r, u)
             /\ UniqueNames(y, u)
  BY <1>1, <1>2, NamesFrame
<1>4. Named(y)
  BY <1>1, <1>3 DEF Named
<1>5. HostedOccs(y) = HostedOccs(r)
  BY <1>1, <1>3 DEF HostedOccs
<1>6. ASSUME NEW u, NEW a, NEW b, Meet(r, s, u, a, b), Meet(r, t, u, a, b) PROVE Meet(y, s, u, a, b)
  BY <1>1, <1>3, <1>6 DEF Meet
<1>7. ASSUME NEW u, NEW w, NEW a, NEW b, u \notin {s, t}, w \notin {s, t}, Meet(r, u, w, a, b)
      PROVE  Meet(y, u, w, a, b)
  BY <1>3, <1>7 DEF Meet
<1>. QED
  BY <1>4, <1>5, <1>6, <1>7

------------------------------------------------------------------------------
(* What an isolation and a split leave. *)

LEMMA IsolateNames ==
  ASSUME NEW r, Named(r), NEW sid \in Skels(r), NEW o \in HostedOf(r, sid), IsolateReady(r, sid, o),
         NEW y, y = IsolateVertex(r, sid, o)
  PROVE  Named(y) /\ HostedOccs(y) = HostedOccs(r)
<1>. DEFINE n == NextSkel(r)
<1>1. Sound(r) /\ \A u \in Skels(r) : UniqueNames(r, u)
  BY DEF Named
<1>2. Partial(r, y, Skels(y)) /\ LeavesIsolated(r, sid, o, n, y)
  BY <1>1, IsolateKeeps
<1>. HIDE DEF n
<1>3. Sound(y)
  BY <1>2, SoundIsKept DEF Partial
<1>4. /\ Skels(y) = Skels(r) \cup {n} /\ n \notin Skels(r)
      /\ \A t \in Skels(r) : t # sid => SameContents(r, y, t)
      /\ UniqueNames(y, n) /\ HostedOf(y, n) = {o}
      /\ UniqueNames(y, sid) /\ HostedOf(y, sid) = HostedOf(r, sid) \ {o}
  BY <1>2 DEF LeavesIsolated
<1>5. ASSUME NEW t \in Skels(r), t # sid
      PROVE  UniqueNames(y, t) /\ HostedOf(y, t) = HostedOf(r, t)
  BY <1>1, <1>4, <1>5, NamesFrame
<1>6. Named(y)
  BY <1>3, <1>4, <1>5 DEF Named
<1>7. ASSUME NEW x \in HostedOccs(y) PROVE x \in HostedOccs(r)
  <2>1. PICK t \in Skels(y) : x \in HostedOf(y, t)
    BY DEF HostedOccs
  <2>2. \E u \in Skels(r) : x \in HostedOf(r, u)
    BY <1>4, <1>5, <2>1
  <2>. QED
    BY <2>2 DEF HostedOccs
<1>8. ASSUME NEW x \in HostedOccs(r) PROVE x \in HostedOccs(y)
  <2>1. PICK t \in Skels(r) : x \in HostedOf(r, t)
    BY DEF HostedOccs
  <2>2. \E u \in Skels(y) : x \in HostedOf(y, u)
    BY <1>4, <1>5, <2>1
  <2>. QED
    BY <2>2 DEF HostedOccs
<1>. QED
  BY <1>6, <1>7, <1>8

\* A side of a split names the pair and what its inner vertices name, and has
\* their occurrences.
LEMMA ChildNames ==
  ASSUME NEW r, Sound(r), NEW sid \in Skels(r), NEW a, NEW b,
         HasReal(r, sid, a), HasReal(r, sid, b),
         NEW side, IsSide(r, sid, {FindReal(r, sid, a), FindReal(r, sid, b)}, side),
         NEW B, B = ChildBuilder(r, sid, a, b, side), ValidBuilder(B)
  PROVE  /\ BuilderNames(B) = {a, b} \cup RealNames(r, side.inner)
         /\ OccsIn(r, side.inner) \subseteq OccsOf(B)
<1>. DEFINE fa == FindReal(r, sid, a)
            fb == FindReal(r, sid, b)
            X == VertsOf(r, sid)
            inner == {e \in side.edges : Ends(r, e) \subseteq side.inner}
            v1 == <<fa, fb>>
            v2 == Keep(Verts(r, sid), side.inner)
            verts == v1 \o v2
            edges == Keep(Edges(r, sid), inner) \o Keep(Edges(r, sid), side.edges \ inner)
            occs == OccsIn(r, side.inner)
<1>1. /\ fa \in X /\ r.V.val[fa].kind = "REAL" /\ r.V.val[fa].orig = a
      /\ fb \in X /\ r.V.val[fb].kind = "REAL" /\ r.V.val[fb].orig = b
  BY Found
<1>2. B = CopyBuilder(r, verts, edges, NoGlue, occs)
  BY DEF ChildBuilder
<1>. HIDE DEF fa, fb, edges, inner
<1>3. side.inner \subseteq X
  BY DEF IsSide
<1>4. Verts(r, sid) \in Seq(X) /\ ToSet(Verts(r, sid)) = X
  BY Listed
<1>. HIDE DEF X
<1>5. v2 \in Seq(X) /\ ToSet(v2) = side.inner
  <2>1. v2 \in Seq(X) /\ ToSet(v2) = ToSet(Verts(r, sid)) \cap side.inner
    BY <1>4, KeepFacts
  <2>. QED
    BY <1>3, <1>4, <2>1
<1>6. v1 \in Seq(X) /\ ToSet(v1) = {fa, fb}
  BY <1>1 DEF ToSet
<1>. HIDE DEF v1, v2
<1>7. ToSet(verts) = {fa, fb} \cup side.inner
  <2>1. ToSet(verts) = ToSet(v1) \cup ToSet(v2)
    BY <1>5, <1>6, Joined
  <2>. QED
    BY <1>5, <1>6, <2>1
<1>. HIDE DEF verts, occs
<1>8. BuilderNames(B) = RealNames(r, ToSet(verts))
  BY <1>2, CopiedNames
<1>9. RealNames(r, ToSet(verts)) = {a, b} \cup RealNames(r, side.inner)
  BY <1>1, <1>7 DEF RealNames
<1>10. occs \subseteq OccsOf(B)
  <2>1. CopyBuilder(r, verts, edges, NoGlue, occs).nbr = [x \in occs |-> r.occ[x].nbr]
    BY DEF CopyBuilder
  <2>2. DOMAIN B.nbr = occs
    BY <1>2, <2>1
  <2>. QED
    BY <2>2 DEF ValidBuilder
<1>. QED
  BY <1>8, <1>9, <1>10 DEF occs

\* The skeletons of the pieces are different ones.
LEMMA KidsDiffer ==
  ASSUME NEW r, IsPool(r.skel), NEW sid \in Skels(r), NEW n \in Nat,
         NEW i \in 1 .. n, NEW j \in 1 .. n, Kid(r, sid, i) = Kid(r, sid, j)
  PROVE  i = j
<1>. DEFINE p == r.skel
            new == NewIds(p, n)
<1>1. /\ \A k, l \in 1 .. n : new[k] = new[l] => k = l
      /\ \A k \in 1 .. n : new[k] \notin Live(p)
  BY NewIdsFresh
<1>2. \A k \in 1 .. n : new[k] = Nth(p, k)
  BY NewIdsAreNth
<1>. HIDE DEF new
<1>3. sid \in Live(p)
  BY DEF Skels
<1>4. \A k \in 1 .. n : Kid(r, sid, k) = IF k = 1 THEN sid ELSE new[k - 1]
  BY <1>2 DEF Kid
<1>5. CASE i = 1
  BY <1>1, <1>3, <1>4, <1>5
<1>6. CASE j = 1
  BY <1>1, <1>3, <1>4, <1>6
<1>7. CASE i # 1 /\ j # 1
  <2>1. new[i - 1] = new[j - 1]
    BY <1>4, <1>7
  <2>2. i - 1 \in 1 .. n /\ j - 1 \in 1 .. n
    BY <1>7
  <2>3. i - 1 = j - 1
    BY <1>1, <2>1, <2>2
  <2>. QED
    BY <2>3
<1>. QED
  BY <1>5, <1>6, <1>7

\* The pieces of a split meet in the pair, and no occurrence is lost.
LEMMA SplitNames ==
  ASSUME NEW r, Named(r), NEW sid \in Skels(r), NEW a, NEW b, SplitReady(r, sid, a, b),
         Sides(r, sid, a, b) # <<>>, NEW y, y = SplitPair(r, sid, a, b)
  PROVE  LET n == Len(Sides(r, sid, a, b)) IN
         /\ n \in Nat \ {0}
         /\ Named(y)
         /\ HostedOccs(r) \subseteq HostedOccs(y)
         /\ \A i, j \in 1 .. n : i # j => Meet(y, Kid(r, sid, i), Kid(r, sid, j), a, b)
<1>. DEFINE sides == Sides(r, sid, a, b)
            n == Len(sides)
            sep == {FindReal(r, sid, a), FindReal(r, sid, b)}
            C(i) == ChildBuilder(r, sid, a, b, sides[i])
            K(i) == Kid(r, sid, i)
<1>1. Sound(r) /\ (\A u \in Skels(r) : UniqueNames(r, u)) /\ IsPool(r.skel)
  BY DEF Named, Sound, IsEngine
<1>2. /\ Partial(r, y, Skels(y)) /\ LeavesSides(r, sid, a, b, y)
  BY <1>1, SplitKeeps
<1>3. Sound(y)
  BY <1>2, SoundIsKept DEF Partial
<1>4. /\ DOMAIN sides = 1 .. n /\ n \in Nat
      /\ \A i \in 1 .. n : IsSide(r, sid, sep, sides[i])
      /\ \A i, j \in 1 .. n : i # j => sides[i].inner \cap sides[j].inner = {}
      /\ \A v \in VertsOf(r, sid) \ sep : \E i \in 1 .. n : v \in sides[i].inner
  <2>1. /\ DOMAIN sides = 1 .. n /\ n \in Nat
        /\ \A i \in DOMAIN sides : IsSide(r, sid, sep, sides[i])
        /\ \A i, j \in DOMAIN sides : i # j => sides[i].inner \cap sides[j].inner = {}
        /\ \A v \in VertsOf(r, sid) \ sep : \E i \in DOMAIN sides : v \in sides[i].inner
    BY <1>1, SidesFacts
  <2>. HIDE DEF sides, n, sep
  <2>. QED
    BY <2>1
<1>5. /\ HasReal(r, sid, a) /\ HasReal(r, sid, b) /\ a # b
      /\ \A i \in DOMAIN sides : ValidBuilder(C(i))
  BY DEF SplitReady, ToSet
<1>6. /\ Skels(y) = Skels(r) \cup {K(i) : i \in 1 .. n}
      /\ \A t \in Skels(r) : t # sid => SameContents(r, y, t)
      /\ \A i \in 1 .. n : Shows(y, K(i), C(i))
  BY <1>2 DEF LeavesSides
<1>7. n # 0
  <2>. HIDE DEF sides
  <2>1. ASSUME n = 0 PROVE sides = <<>>
    BY <1>4, <2>1
  <2>. QED
    BY <2>1 DEF sides
<1>8. K(1) = sid
  BY DEF Kid
<1>9. ASSUME NEW i \in 1 .. n
      PROVE  /\ BuilderNames(C(i)) = {a, b} \cup RealNames(r, sides[i].inner)
             /\ OccsIn(r, sides[i].inner) \subseteq OccsOf(C(i))
             /\ sides[i].inner \subseteq VertsOf(r, sid)
  <2>. DEFINE side == sides[i]
  <2>1. IsSide(r, sid, sep, side) /\ ValidBuilder(ChildBuilder(r, sid, a, b, side))
    BY <1>4, <1>5
  <2>. HIDE DEF side
  <2>2. side.inner \subseteq VertsOf(r, sid)
    BY <2>1 DEF IsSide
  <2>3. /\ BuilderNames(ChildBuilder(r, sid, a, b, side)) = {a, b} \cup RealNames(r, side.inner)
        /\ OccsIn(r, side.inner) \subseteq OccsOf(ChildBuilder(r, sid, a, b, side))
    BY <1>1, <1>5, <2>1, ChildNames
  <2>. QED
    BY <2>2, <2>3 DEF side
<1>. HIDE DEF C
<1>10. ASSUME NEW i \in 1 .. n
       PROVE  /\ K(i) \in Skels(y) /\ UniqueNames(y, K(i))
              /\ RealNames(y, VertsOf(y, K(i))) = {a, b} \cup RealNames(r, sides[i].inner)
              /\ OccsIn(r, sides[i].inner) \subseteq HostedOf(y, K(i))
  BY <1>6, <1>9 DEF Shows
<1>11. ASSUME NEW i \in 1 .. n, NEW j \in 1 .. n, K(i) = K(j) PROVE i = j
  BY <1>1, <1>4, <1>11, KidsDiffer
<1>. HIDE DEF K, n, sides, sep
<1>12. Named(y)
  <2>1. ASSUME NEW t \in Skels(y) PROVE UniqueNames(y, t)
    <3>1. CASE \E i \in 1 .. n : t = K(i)
      BY <1>10, <3>1
    <3>2. CASE ~\E i \in 1 .. n : t = K(i)
      <4>1. t \in Skels(r) /\ t # sid
        BY <1>4, <1>6, <1>7, <1>8, <3>2
      <4>. QED
        BY <1>1, <1>6, <4>1, NamesFrame
    <3>. QED
      BY <3>1, <3>2
  <2>. QED
    BY <1>3, <2>1 DEF Named
<1>13. ASSUME NEW o \in HostedOccs(r) PROVE o \in HostedOccs(y)
  <2>1. PICK t \in Skels(r) : o \in HostedOf(r, t)
    BY DEF HostedOccs
  <2>2. CASE t # sid
    <3>1. t \in Skels(y) /\ o \in HostedOf(y, t)
      BY <1>6, <2>1, <2>2, NamesFrame
    <3>. QED
      BY <3>1 DEF HostedOccs
  <2>3. CASE t = sid
    <3>. DEFINE v == r.occ[o].center
    <3>1. v \in VertsOf(r, sid) /\ r.V.val[v].kind = "OCC_CENTER" /\ r.V.val[v].occ = o
      <4>1. Consistent(r, sid) /\ o \in HostedOf(r, sid)
        BY <1>1, <2>1, <2>3, Listed
      <4>. QED
        BY <4>1, Recorded
    <3>2. v \notin sep
      BY <1>5, <3>1, Found DEF sep
    <3>. HIDE DEF v
    <3>3. PICK i \in 1 .. n : v \in sides[i].inner
      BY <1>4, <3>1, <3>2
    <3>4. o \in OccsIn(r, sides[i].inner)
      BY <3>1, <3>3 DEF OccsIn
    <3>5. K(i) \in Skels(y) /\ o \in HostedOf(y, K(i))
      BY <1>10, <3>4
    <3>. QED
      BY <3>5 DEF HostedOccs
  <2>. QED
    BY <2>2, <2>3
<1>14. ASSUME NEW i \in 1 .. n, NEW j \in 1 .. n, i # j PROVE Meet(y, K(i), K(j), a, b)
  <2>1. RealNames(r, sides[i].inner) \cap RealNames(r, sides[j].inner) = {}
    <3>1. ASSUME NEW x \in sides[i].inner, NEW z \in sides[j].inner,
                 r.V.val[x].kind = "REAL", r.V.val[z].kind = "REAL", r.V.val[x].orig = r.V.val[z].orig
          PROVE  FALSE
      <4>1. x \in VertsOf(r, sid) /\ z \in VertsOf(r, sid)
        BY <1>9
      <4>2. x = z
        BY <1>1, <3>1, <4>1 DEF UniqueNames
      <4>. QED
        BY <1>4, <1>14, <4>2
    <3>. QED
      BY <3>1 DEF RealNames
  <2>2. K(i) # K(j)
    BY <1>11, <1>14
  <2>. QED
    BY <1>5, <1>10, <2>1, <2>2 DEF Meet
<1>. QED
  BY <1>4, <1>7, <1>12, <1>13, <1>14 DEF K, n, sides

------------------------------------------------------------------------------
(* Queues. *)

\* A queue is its head and its tail.
LEMMA TailParts ==
  ASSUME NEW X, NEW s \in Seq(X), s # <<>>
  PROVE  /\ Tail(s) \in Seq(X) /\ ToSet(Tail(s)) \subseteq ToSet(s)
         /\ Len(s) \in Nat \ {0} /\ 1 \in DOMAIN s /\ Head(s) = s[1]
         /\ DOMAIN s = 1 .. Len(s) /\ DOMAIN Tail(s) = 1 .. Len(s) - 1
         /\ Len(Tail(s)) = Len(s) - 1
         /\ \A i \in DOMAIN Tail(s) : i + 1 \in DOMAIN s /\ Tail(s)[i] = s[i + 1]
<1>1. /\ Tail(s) \in Seq(X) /\ Len(s) \in Nat \ {0} /\ DOMAIN s = 1 .. Len(s)
      /\ Len(Tail(s)) = Len(s) - 1 /\ Head(s) = s[1]
      /\ \A i \in 1 .. Len(s) - 1 : Tail(s)[i] = s[i + 1]
  OBVIOUS
<1>2. DOMAIN Tail(s) = 1 .. Len(s) - 1
  BY <1>1
<1>3. \A i \in 1 .. Len(s) - 1 : i + 1 \in DOMAIN s
  BY <1>1
<1>. QED
  BY <1>1, <1>2, <1>3 DEF ToSet

LEMMA OwnSet ==
  ASSUME NEW X, NEW s \in Seq(X)
  PROVE  s \in Seq(ToSet(s)) /\ DOMAIN s = 1 .. Len(s) /\ Len(s) \in Nat
<1>1. DOMAIN s = 1 .. Len(s) /\ Len(s) \in Nat /\ s = [i \in 1 .. Len(s) |-> s[i]]
  OBVIOUS
<1>2. s \in [1 .. Len(s) -> ToSet(s)]
  BY <1>1 DEF ToSet
<1>. QED
  BY <1>1, <1>2, SeqDef

\* Two queues one after the other.
LEMMA After ==
  ASSUME NEW s, s \in Seq(ToSet(s)), NEW t, t \in Seq(ToSet(t))
  PROVE  /\ s \o t \in Seq(ToSet(s \o t))
         /\ DOMAIN s = 1 .. Len(s) /\ DOMAIN t = 1 .. Len(t) /\ Len(s) \in Nat /\ Len(t) \in Nat
         /\ DOMAIN (s \o t) = 1 .. Len(s) + Len(t) /\ Len(s \o t) = Len(s) + Len(t)
         /\ \A k \in DOMAIN (s \o t) :
              \/ k \in DOMAIN s /\ (s \o t)[k] = s[k]
              \/ k - Len(s) \in DOMAIN t /\ (s \o t)[k] = t[k - Len(s)]
         /\ \A k \in DOMAIN t : (s \o t)[Len(s) + k] = t[k]
<1>. DEFINE X == ToSet(s) \cup ToSet(t)
<1>1. s \in Seq(X) /\ t \in Seq(X)
  OBVIOUS
<1>. HIDE DEF X
<1>2. /\ s \o t \in Seq(X) /\ Len(s \o t) = Len(s) + Len(t)
      /\ \A i \in 1 .. Len(s) + Len(t) : (s \o t)[i] = IF i <= Len(s) THEN s[i] ELSE t[i - Len(s)]
      /\ Len(s) \in Nat /\ Len(t) \in Nat
      /\ DOMAIN s = 1 .. Len(s) /\ DOMAIN t = 1 .. Len(t) /\ DOMAIN (s \o t) = 1 .. Len(s) + Len(t)
  BY <1>1
<1>3. s \o t \in Seq(ToSet(s \o t))
  BY <1>2, OwnSet
<1>4. ASSUME NEW k \in DOMAIN (s \o t)
      PROVE  \/ k \in DOMAIN s /\ (s \o t)[k] = s[k]
             \/ k - Len(s) \in DOMAIN t /\ (s \o t)[k] = t[k - Len(s)]
  BY <1>2
<1>5. ASSUME NEW k \in DOMAIN t PROVE (s \o t)[Len(s) + k] = t[k]
  <2>1. Len(s) + k \in 1 .. Len(s) + Len(t) /\ ~(Len(s) + k <= Len(s)) /\ Len(s) + k - Len(s) = k
    BY <1>2
  <2>. QED
    BY <1>2, <2>1
<1>. QED
  BY <1>2, <1>3, <1>4, <1>5

\* Behind any queue that fits there may be one that has nothing to glue.
LEMMA FitsBoth ==
  ASSUME NEW r, NEW s, QueueFits(r, s), NEW t, QueueFits(r, t),
         \A i \in DOMAIN t : ~Glues(t[i])
  PROVE  QueueFits(r, s \o t)
<1>. DEFINE u == s \o t
<1>0. /\ s \in Seq(ToSet(s)) /\ \A i \in DOMAIN s : JobFits(r, s[i])
      /\ t \in Seq(ToSet(t)) /\ \A i \in DOMAIN t : JobFits(r, t[i])
      /\ \A i, j \in DOMAIN s : j < i => FitsBehind(r, s[i], s[j])
  BY DEF QueueFits
<1>1. /\ u \in Seq(ToSet(u)) /\ DOMAIN s = 1 .. Len(s) /\ Len(s) \in Nat /\ DOMAIN t = 1 .. Len(t)
      /\ DOMAIN u = 1 .. Len(s) + Len(t) /\ Len(t) \in Nat
      /\ \A k \in DOMAIN u : \/ k \in DOMAIN s /\ u[k] = s[k]
                             \/ k - Len(s) \in DOMAIN t /\ u[k] = t[k - Len(s)]
  BY <1>0, After
<1>. HIDE DEF u
<1>2. \A i \in DOMAIN u : JobFits(r, u[i])
  BY <1>0, <1>1
<1>3. ASSUME NEW i \in DOMAIN u, NEW j \in DOMAIN u, j < i PROVE FitsBehind(r, u[i], u[j])
  <2>1. CASE i \in DOMAIN s /\ u[i] = s[i]
    <3>1. j \in DOMAIN s /\ ~(j - Len(s) \in DOMAIN t)
      BY <1>1, <1>3, <2>1
    <3>. QED
      BY <1>0, <1>1, <1>3, <2>1, <3>1
  <2>2. CASE i - Len(s) \in DOMAIN t /\ u[i] = t[i - Len(s)]
    BY <2>2 DEF FitsBehind
  <2>. QED
    BY <1>1, <2>1, <2>2
<1>. QED
  BY <1>1, <1>2, <1>3 DEF QueueFits, u

\* Behind an occurrence to be made sole there is nothing to glue.
LEMMA NoneGlues ==
  ASSUME NEW r, NEW s, QueueFits(r, s), s # <<>>, Head(s).kind = "ENSURE_SOLE"
  PROVE  \A i \in DOMAIN s : ~Glues(s[i])
<1>1. s \in Seq(ToSet(s)) /\ \A i, j \in DOMAIN s : j < i => FitsBehind(r, s[i], s[j])
  BY DEF QueueFits
<1>2. 1 \in DOMAIN s /\ Head(s) = s[1] /\ DOMAIN s = 1 .. Len(s) /\ Len(s) \in Nat
  BY <1>1, TailParts
<1>3. ~Glues(s[1])
  BY <1>2 DEF Glues
<1>4. ASSUME NEW i \in DOMAIN s, i # 1 PROVE ~Glues(s[i])
  <2>1. 1 < i
    BY <1>2, <1>4
  <2>. QED
    BY <1>1, <1>2, <1>3, <2>1 DEF FitsBehind
<1>. QED
  BY <1>3, <1>4

\* Such a queue fits as long as its occurrences are hosted.
LEMMA StillFits ==
  ASSUME NEW r, NEW s, QueueFits(r, s), \A i \in DOMAIN s : ~Glues(s[i]),
         NEW y, HostedOccs(r) \subseteq HostedOccs(y)
  PROVE  QueueFits(y, s)
<1>1. s \in Seq(ToSet(s)) /\ \A i \in DOMAIN s : JobFits(r, s[i])
  BY DEF QueueFits
<1>2. \A i \in DOMAIN s : JobFits(y, s[i])
  BY <1>1 DEF JobFits
<1>. QED
  BY <1>1, <1>2 DEF QueueFits, FitsBehind

\* The tail of a queue that fits.
LEMMA TailFits ==
  ASSUME NEW r, NEW s, QueueFits(r, s), s # <<>>
  PROVE  /\ QueueFits(r, Tail(s))
         /\ (\A i \in DOMAIN s : ~Glues(s[i])) => \A i \in DOMAIN Tail(s) : ~Glues(Tail(s)[i])
<1>1. /\ s \in Seq(ToSet(s)) /\ \A i \in DOMAIN s : JobFits(r, s[i])
      /\ \A i, j \in DOMAIN s : j < i => FitsBehind(r, s[i], s[j])
  BY DEF QueueFits
<1>2. /\ Tail(s) \in Seq(ToSet(s)) /\ DOMAIN s = 1 .. Len(s) /\ DOMAIN Tail(s) = 1 .. Len(s) - 1
      /\ \A i \in DOMAIN Tail(s) : i + 1 \in DOMAIN s /\ Tail(s)[i] = s[i + 1]
      /\ Len(s) \in Nat
  BY <1>1, TailParts
<1>3. Tail(s) \in Seq(ToSet(Tail(s)))
  BY <1>2, OwnSet
<1>4. ASSUME NEW i \in DOMAIN Tail(s), NEW j \in DOMAIN Tail(s), j < i
      PROVE  FitsBehind(r, Tail(s)[i], Tail(s)[j])
  <2>1. j + 1 < i + 1
    BY <1>2, <1>4
  <2>. QED
    BY <1>1, <1>2, <2>1
<1>. QED
  BY <1>1, <1>2, <1>3, <1>4 DEF QueueFits

\* One job to make an occurrence sole.
LEMMA EnsureFits ==
  ASSUME NEW r, NEW o \in HostedOccs(r)
  PROVE  /\ QueueFits(r, <<EnsureSole(o)>>)
         /\ \A i \in DOMAIN <<EnsureSole(o)>> : ~Glues(<<EnsureSole(o)>>[i])
<1>. DEFINE job == EnsureSole(o)
<1>1. job.kind = "ENSURE_SOLE" /\ job.occ = o
  BY DEF EnsureSole
<1>2. JobFits(r, job) /\ ~Glues(job)
  BY <1>1 DEF JobFits, Glues
<1>. HIDE DEF job
<1>3. <<job>> \in Seq({job}) /\ DOMAIN <<job>> = {1} /\ <<job>>[1] = job
  OBVIOUS
<1>4. <<job>> \in Seq(ToSet(<<job>>))
  BY <1>3, OwnSet
<1>5. QueueFits(r, <<job>>) /\ \A i \in DOMAIN <<job>> : ~Glues(<<job>>[i])
  BY <1>2, <1>3, <1>4 DEF QueueFits, FitsBehind
<1>. QED
  BY <1>5 DEF job

\* Enqueueing the target once more.
LEMMA OnceBackFits ==
  ASSUME NEW r, NEW s, QueueFits(r, s), NEW o \in HostedOccs(r)
  PROVE  QueueFits(r, EnsureOnceBack(s, o))
<1>. DEFINE job == EnsureSole(o)
            X == ToSet(s) \cup {job}
<1>1. s \in Seq(X) /\ job \in X
  BY DEF QueueFits
<1>. HIDE DEF X
<1>2. Append(s, job) = s \o <<job>>
  BY <1>1
<1>3. QueueFits(r, s \o <<job>>)
  BY EnsureFits, FitsBoth
<1>. QED
  BY <1>2, <1>3 DEF EnsureOnceBack

LEMMA LeadsOn ==
  ASSUME NEW X, NEW s \in Seq(X), NEW o, LeadsTo(s, o)
  PROVE  LeadsTo(EnsureOnceBack(Tail(s), o), o)
<1>. DEFINE t == Tail(s)
            job == EnsureSole(o)
<1>1. /\ t \in Seq(X) /\ Len(t) = Len(s) - 1 /\ Len(s) \in Nat \ {0}
      /\ DOMAIN t = 1 .. Len(s) - 1
      /\ \A i \in DOMAIN t : i + 1 \in DOMAIN s /\ t[i] = s[i + 1]
  BY TailParts DEF LeadsTo
<1>. HIDE DEF t
<1>2. CASE job \in ToSet(t)
  <2>1. DOMAIN t # {}
    BY <1>2 DEF ToSet
  <2>2. Len(t) \in DOMAIN t /\ t # <<>> /\ Len(t) + 1 = Len(s)
    BY <1>1, <2>1
  <2>3. t[Len(t)] = s[Len(s)]
    BY <1>1, <2>2
  <2>. QED
    BY <1>2, <2>2, <2>3 DEF EnsureOnceBack, LeadsTo, t
<1>3. CASE job \notin ToSet(t)
  <2>. DEFINE u == Append(t, job)
              Y == X \cup {job}
  <2>1. t \in Seq(Y) /\ job \in Y
    BY <1>1
  <2>. HIDE DEF Y, job
  <2>2. u # <<>> /\ Len(u) = Len(t) + 1 /\ u[Len(t) + 1] = job
    BY <2>1
  <2>. HIDE DEF u
  <2>3. LeadsTo(u, o)
    BY <2>2 DEF LeadsTo, job
  <2>. QED
    BY <1>3, <2>3 DEF EnsureOnceBack, t, u, job
<1>. QED
  BY <1>2, <1>3

\* Whatever is put in front of a queue, it leads where it led.
LEMMA LeadsBehind ==
  ASSUME NEW s, s \in Seq(ToSet(s)), NEW t, t \in Seq(ToSet(t)), NEW o, LeadsTo(t, o)
  PROVE  LeadsTo(s \o t, o)
<1>1. /\ Len(s) \in Nat /\ Len(t) \in Nat /\ Len(s \o t) = Len(s) + Len(t)
      /\ DOMAIN t = 1 .. Len(t) /\ \A k \in DOMAIN t : (s \o t)[Len(s) + k] = t[k]
  BY After
<1>2. t # <<>>
  BY DEF LeadsTo
<1>3. Len(t) # 0
  BY <1>2
<1>4. Len(t) \in DOMAIN t
  BY <1>1, <1>3
<1>5. (s \o t)[Len(s \o t)] = t[Len(t)]
  BY <1>1, <1>4
<1>6. s \o t # <<>>
  BY <1>1, <1>3
<1>. QED
  BY <1>5, <1>6 DEF LeadsTo

------------------------------------------------------------------------------
(* The jobs that glue. *)

\* After the first job of a queue has glued t to s, the rest of the queue fits.
LEMMA GlueFits ==
  ASSUME NEW r, NEW queue, QueueFits(r, queue), queue # <<>>, Glues(Head(queue)),
         NEW s, s = Into(Head(queue)), NEW t, t = From(Head(queue)), NEW y,
         HostedOccs(y) = HostedOccs(r),
         \A u, a, b : Meet(r, s, u, a, b) /\ Meet(r, t, u, a, b) => Meet(y, s, u, a, b),
         \A u, w, a, b :
           u \notin {s, t} /\ w \notin {s, t} /\ Meet(r, u, w, a, b) => Meet(y, u, w, a, b)
  PROVE  QueueFits(y, Tail(queue))
<1>. DEFINE rest == Tail(queue)
            first == Head(queue)
<1>0. /\ queue \in Seq(ToSet(queue)) /\ \A i \in DOMAIN queue : JobFits(r, queue[i])
      /\ \A i, j \in DOMAIN queue : j < i => FitsBehind(r, queue[i], queue[j])
  BY DEF QueueFits
<1>1. /\ rest \in Seq(ToSet(queue)) /\ DOMAIN queue = 1 .. Len(queue) /\ Len(queue) \in Nat
      /\ DOMAIN rest = 1 .. Len(queue) - 1 /\ 1 \in DOMAIN queue /\ first = queue[1]
      /\ \A i \in DOMAIN rest : i + 1 \in DOMAIN queue /\ rest[i] = queue[i + 1]
  BY <1>0, TailParts
<1>2. rest \in Seq(ToSet(rest))
  BY <1>1, OwnSet
<1>. HIDE DEF rest, first
<1>3. ASSUME NEW i \in DOMAIN rest
      PROVE  JobFits(r, rest[i]) /\ FitsBehind(r, rest[i], first)
  <2>1. i + 1 \in DOMAIN queue /\ rest[i] = queue[i + 1] /\ 1 < i + 1
    BY <1>1
  <2>. QED
    BY <1>0, <1>1, <2>1
<1>4. Into(first) = s /\ From(first) = t
  BY DEF first
<1>5. ASSUME NEW i \in DOMAIN rest, Glues(rest[i])
      PROVE  /\ Into(rest[i]) = s
             /\ Meet(r, s, From(rest[i]), rest[i].a, rest[i].b)
             /\ Meet(r, t, From(rest[i]), rest[i].a, rest[i].b)
             /\ From(rest[i]) \notin {s, t}
  <2>1. /\ Into(rest[i]) = s
        /\ Meet(r, s, From(rest[i]), rest[i].a, rest[i].b)
        /\ Meet(r, t, From(rest[i]), rest[i].a, rest[i].b)
    BY <1>3, <1>4, <1>5 DEF JobFits, FitsBehind
  <2>. QED
    BY <2>1 DEF Meet
<1>6. ASSUME NEW i \in DOMAIN rest PROVE JobFits(y, rest[i])
  <2>1. CASE Glues(rest[i])
    <3>1. Meet(y, Into(rest[i]), From(rest[i]), rest[i].a, rest[i].b)
      BY <1>5, <2>1
    <3>. QED
      BY <1>3, <2>1, <3>1 DEF JobFits, Glues
  <2>2. CASE ~Glues(rest[i])
    BY <1>3, <2>2 DEF JobFits
  <2>. QED
    BY <2>1, <2>2
<1>7. ASSUME NEW i \in DOMAIN rest, NEW j \in DOMAIN rest, j < i PROVE FitsBehind(y, rest[i], rest[j])
  <2>1. FitsBehind(r, rest[i], rest[j])
    <3>1. /\ i + 1 \in DOMAIN queue /\ rest[i] = queue[i + 1]
          /\ j + 1 \in DOMAIN queue /\ rest[j] = queue[j + 1] /\ j + 1 < i + 1
      BY <1>1, <1>7
    <3>. QED
      BY <1>0, <3>1
  <2>2. ASSUME Glues(rest[i]) PROVE Meet(y, From(rest[j]), From(rest[i]), rest[i].a, rest[i].b)
    <3>1. /\ Glues(rest[j])
          /\ Meet(r, From(rest[j]), From(rest[i]), rest[i].a, rest[i].b)
      BY <2>1, <2>2 DEF FitsBehind
    <3>. QED
      BY <1>5, <2>2, <3>1
  <2>. QED
    BY <2>1, <2>2 DEF FitsBehind
<1>. QED
  BY <1>2, <1>6, <1>7 DEF QueueFits, rest

\* A job that glues leaves an engine with the same occurrences, and a queue that
\* fits.
LEMMA JoinFits ==
  ASSUME NEW r, Named(r), NEW queue, QueueFits(r, queue), queue # <<>>,
         NEW job, job = Head(queue), job.kind = "JOIN_PAIR",
         NEW y, y = JoinPair(r, job.left, job.right, job.a, job.b)
  PROVE  Named(y) /\ HostedOccs(y) = HostedOccs(r) /\ QueueFits(y, Tail(queue))
<1>. DEFINE s == job.left
            t == job.right
            B == JoinBuilder(r, s, t, job.a, job.b)
<1>1. Glues(job) /\ Into(job) = s /\ From(job) = t
  BY DEF Glues, Into, From
<1>2. JobFits(r, job)
  BY TailParts DEF QueueFits
<1>3. Meet(r, s, t, job.a, job.b)
  BY <1>1, <1>2 DEF JobFits
<1>4. /\ s \in Skels(r) /\ t \in Skels(r) /\ s # t
      /\ JoinReady(r, s, t, job.a, job.b)
      /\ BuilderNames(B) = RealNames(r, VertsOf(r, s)) \cup RealNames(r, VertsOf(r, t))
  BY <1>3, MeetJoins DEF Meet
<1>5. RealUnique(B)
  BY <1>4 DEF JoinReady
<1>6. Sound(r)
  BY DEF Named
<1>7. /\ Partial(r, y, Skels(y)) /\ Merged(r, s, t, B, y)
      /\ OccsOf(B) = HostedOf(r, s) \cup HostedOf(r, t)
  BY <1>4, <1>6, JoinKeeps
<1>8. Sound(y)
  BY <1>6, <1>7, SoundIsKept DEF Partial
<1>. HIDE DEF s, t, B
<1>9. /\ Named(y) /\ HostedOccs(y) = HostedOccs(r)
      /\ \A u, a, b : Meet(r, s, u, a, b) /\ Meet(r, t, u, a, b) => Meet(y, s, u, a, b)
      /\ \A u, w, a, b :
           u \notin {s, t} /\ w \notin {s, t} /\ Meet(r, u, w, a, b) => Meet(y, u, w, a, b)
  BY <1>4, <1>5, <1>7, <1>8, MeetGlued
<1>10. QueueFits(y, Tail(queue))
  BY <1>1, <1>9, GlueFits
<1>. QED
  BY <1>9, <1>10

LEMMA IntegrateFits ==
  ASSUME NEW r, Named(r), NEW queue, QueueFits(r, queue), queue # <<>>,
         NEW job, job = Head(queue), job.kind = "INTEGRATE_CHILD",
         NEW y, y = IntegrateSkeleton(r, job.parent, job.child, SameNames(job))
  PROVE  Named(y) /\ HostedOccs(y) = HostedOccs(r) /\ QueueFits(y, Tail(queue))
<1>. DEFINE s == job.parent
            t == job.child
            bm == SameNames(job)
            B == IntegrateBuilder(r, s, t, bm)
<1>1. Glues(job) /\ Into(job) = s /\ From(job) = t
  BY DEF Glues, Into, From
<1>2. JobFits(r, job)
  BY TailParts DEF QueueFits
<1>3. Meet(r, s, t, job.a, job.b)
  BY <1>1, <1>2 DEF JobFits
<1>4. /\ s \in Skels(r) /\ t \in Skels(r) /\ s # t
      /\ IntegrateReady(r, s, t, bm)
      /\ BuilderNames(B) = RealNames(r, VertsOf(r, s)) \cup RealNames(r, VertsOf(r, t))
  <2>. DEFINE a == job.a
              b == job.b
  <2>0. Meet(r, s, t, a, b)
    BY <1>3
  <2>1. NamesKept(bm, a, b)
    BY DEF SameNames, NamesKept
  <2>2. s \in Skels(r) /\ t \in Skels(r) /\ s # t
    BY <1>3 DEF Meet
  <2>. HIDE DEF bm, s, t, a, b
  <2>3. /\ IntegrateReady(r, s, t, bm)
        /\ BuilderNames(IntegrateBuilder(r, s, t, bm))
             = RealNames(r, VertsOf(r, s)) \cup RealNames(r, VertsOf(r, t))
    BY <2>0, <2>1, MeetIntegrates
  <2>. QED
    BY <2>2, <2>3
<1>5. RealUnique(B)
  BY <1>4 DEF IntegrateReady
<1>6. Sound(r)
  BY DEF Named
<1>7. /\ Partial(r, y, Skels(y)) /\ Merged(r, s, t, B, y)
      /\ OccsOf(B) = HostedOf(r, s) \cup HostedOf(r, t)
  BY <1>4, <1>6, IntegrateKeeps
<1>8. Sound(y)
  BY <1>6, <1>7, SoundIsKept DEF Partial
<1>. HIDE DEF s, t, bm, B
<1>9. /\ Named(y) /\ HostedOccs(y) = HostedOccs(r)
      /\ \A u, a, b : Meet(r, s, u, a, b) /\ Meet(r, t, u, a, b) => Meet(y, s, u, a, b)
      /\ \A u, w, a, b :
           u \notin {s, t} /\ w \notin {s, t} /\ Meet(r, u, w, a, b) => Meet(y, u, w, a, b)
  BY <1>4, <1>5, <1>7, <1>8, MeetGlued
<1>10. QueueFits(y, Tail(queue))
  BY <1>1, <1>9, GlueFits
<1>. QED
  BY <1>9, <1>10

------------------------------------------------------------------------------
(* The jobs that a split leaves. *)

\* The anchor is one of the pieces.
LEMMA AnchorIsOne ==
  ASSUME NEW children, NEW n \in Nat \ {0}, DOMAIN children = 1 .. n, NEW ctx
  PROVE  \E k \in 1 .. n : Anchor(children, ctx) = children[k]
<1>. DEFINE rank(c) == IF ctx.target \in c.hosted THEN 1
                       ELSE IF Intersects(c, ctx) THEN 2
                       ELSE IF ~c.boundaryOnly THEN 3 ELSE 4
            first(i) == \A j \in DOMAIN children :
                          \/ rank(children[i]) < rank(children[j])
                          \/ rank(children[i]) = rank(children[j]) /\ i <= j
            R(i) == rank(children[i])
            ranks == {R(i) : i \in 1 .. n}
<1>1. Anchor(children, ctx) = children[CHOOSE i \in DOMAIN children : first(i)]
  BY DEF Anchor
<1>2. \A i \in 1 .. n : R(i) \in Nat
  OBVIOUS
<1>3. \A i, j \in 1 .. n : R(i) < R(j) \/ (R(i) = R(j) /\ i <= j) =>
        rank(children[i]) < rank(children[j]) \/ (rank(children[i]) = rank(children[j]) /\ i <= j)
  OBVIOUS
<1>. HIDE DEF rank, R
<1>4. PICK m \in ranks : \A k \in ranks : m <= k
  <2>1. ranks \subseteq Nat /\ ranks # {}
    BY <1>2
  <2>. HIDE DEF ranks
  <2>. QED
    BY <2>1, Least
<1>. DEFINE places == {i \in 1 .. n : R(i) = m}
<1>5. PICK i \in places : \A j \in places : i <= j
  <2>1. places \subseteq Nat /\ places # {}
    OBVIOUS
  <2>. HIDE DEF places
  <2>. QED
    BY <2>1, Least
<1>6. ASSUME NEW j \in 1 .. n PROVE R(i) < R(j) \/ (R(i) = R(j) /\ i <= j)
  <2>1. m <= R(j) /\ R(i) = m /\ R(j) \in Nat /\ R(i) \in Nat
    BY <1>2, <1>4
  <2>2. R(j) = m => i <= j
    BY <1>5
  <2>. QED
    BY <2>1, <2>2
<1>7. i \in DOMAIN children /\ first(i)
  BY <1>3, <1>6
<1>. HIDE DEF first
<1>. QED
  BY <1>1, <1>7

\* The pieces of a split meet in pairs, so what afterSplit enqueues fits.
LEMMA AfterSplitFits ==
  ASSUME NEW y, NEW children, children \in Seq(ToSet(children)),
         NEW n \in Nat \ {0}, DOMAIN children = 1 .. n, NEW a, NEW b,
         \A i, j \in 1 .. n : i # j => Meet(y, children[i].sid, children[j].sid, a, b),
         NEW ctx, ctx.target \in HostedOccs(y)
  PROVE  /\ QueueFits(y, AfterSplit(children, a, b, ctx))
         /\ LeadsTo(AfterSplit(children, a, b, ctx), ctx.target)
<1>. DEFINE X == ToSet(children)
            anchor == Anchor(children, ctx)
            others == {c \in X : c.sid # anchor.sid}
            bounds == Keep(children, {c \in others : c.boundaryOnly})
            joins == Keep(children, {c \in others : ~c.boundaryOnly /\ Intersects(c, ctx)})
            Int1(c) == IntegrateJob(anchor.sid, c.sid, a, b)
            Join1(c) == JoinJob(anchor.sid, c.sid, a, b)
            s == [i \in DOMAIN bounds |-> Int1(bounds[i])]
            t == [i \in DOMAIN joins |-> Join1(joins[i])]
            last == <<EnsureSole(ctx.target)>>
<1>1. children # <<>>
  OBVIOUS
<1>2. AfterSplit(children, a, b, ctx) = (s \o t) \o last
  <2>1. AfterSplit(children, a, b, ctx) = IF children = <<>> THEN <<>> ELSE (s \o t) \o last
    BY DEF AfterSplit
  <2>. QED
    BY <1>1, <2>1
<1>3. \A c, d \in X : c # d => Meet(y, c.sid, d.sid, a, b)
  BY DEF ToSet
<1>4. IsInjective(children)
  BY DEF Meet, IsInjective
<1>5. anchor \in X
  BY AnchorIsOne DEF ToSet
<1>. HIDE DEF anchor
<1>6. /\ bounds \in Seq(X) /\ IsInjective(bounds)
      /\ \A c \in ToSet(bounds) : c \in X /\ c.sid # anchor.sid /\ c.boundaryOnly
  <2>. DEFINE S == {c \in others : c.boundaryOnly}
  <2>1. bounds \in Seq(X) /\ IsInjective(bounds) /\ ToSet(bounds) = X \cap S
    BY <1>4, KeepFacts
  <2>. HIDE DEF bounds
  <2>. QED
    BY <2>1
<1>7. /\ joins \in Seq(X) /\ IsInjective(joins)
      /\ \A c \in ToSet(joins) : c \in X /\ c.sid # anchor.sid /\ ~c.boundaryOnly
  <2>. DEFINE S == {c \in others : ~c.boundaryOnly /\ Intersects(c, ctx)}
  <2>1. joins \in Seq(X) /\ IsInjective(joins) /\ ToSet(joins) = X \cap S
    BY <1>4, KeepFacts
  <2>. HIDE DEF joins
  <2>. QED
    BY <2>1
<1>. HIDE DEF X, bounds, joins
<1>8. \A c : /\ Int1(c).kind = "INTEGRATE_CHILD" /\ Glues(Int1(c))
             /\ Into(Int1(c)) = anchor.sid /\ From(Int1(c)) = c.sid
             /\ Int1(c).a = a /\ Int1(c).b = b
             /\ Join1(c).kind = "JOIN_PAIR" /\ Glues(Join1(c))
             /\ Into(Join1(c)) = anchor.sid /\ From(Join1(c)) = c.sid
             /\ Join1(c).a = a /\ Join1(c).b = b
  BY DEF IntegrateJob, JoinJob, Glues, Into, From
<1>. DEFINE P == {Int1(c) : c \in ToSet(bounds)}
            Q == {Join1(c) : c \in ToSet(joins)}
            Z == P \cup Q
<1>. HIDE DEF Int1, Join1
<1>9. s \in Seq(Z) /\ ToSet(s) \subseteq P /\ IsInjective(s)
  <2>1. DOMAIN bounds = 1 .. Len(bounds) /\ Len(bounds) \in Nat
    BY <1>6, OwnSet
  <2>2. \A i \in DOMAIN bounds : bounds[i] \in ToSet(bounds) /\ bounds[i] \in X
    BY <1>6 DEF ToSet
  <2>3. DOMAIN s = DOMAIN bounds /\ \A i \in DOMAIN bounds : s[i] = Int1(bounds[i])
    OBVIOUS
  <2>4. s \in [1 .. Len(bounds) -> Z]
    BY <2>1, <2>2
  <2>5. s \in Seq(Z)
    BY <2>1, <2>4, SeqDef
  <2>6. ToSet(s) \subseteq P
    BY <2>2, <2>3 DEF ToSet
  <2>7. ASSUME NEW i \in DOMAIN bounds, NEW j \in DOMAIN bounds, s[i] = s[j] PROVE i = j
    <3>1. bounds[i].sid = bounds[j].sid
      BY <1>8, <2>3, <2>7
    <3>2. bounds[i] = bounds[j]
      BY <1>3, <2>2, <3>1 DEF Meet
    <3>. QED
      BY <1>6, <3>2 DEF IsInjective
  <2>. HIDE DEF s
  <2>. QED
    BY <2>3, <2>5, <2>6, <2>7 DEF IsInjective
<1>10. t \in Seq(Z) /\ ToSet(t) \subseteq Q /\ IsInjective(t)
  <2>1. DOMAIN joins = 1 .. Len(joins) /\ Len(joins) \in Nat
    BY <1>7, OwnSet
  <2>2. \A i \in DOMAIN joins : joins[i] \in ToSet(joins) /\ joins[i] \in X
    BY <1>7 DEF ToSet
  <2>3. DOMAIN t = DOMAIN joins /\ \A i \in DOMAIN joins : t[i] = Join1(joins[i])
    OBVIOUS
  <2>4. t \in [1 .. Len(joins) -> Z]
    BY <2>1, <2>2
  <2>5. t \in Seq(Z)
    BY <2>1, <2>4, SeqDef
  <2>6. ToSet(t) \subseteq Q
    BY <2>2, <2>3 DEF ToSet
  <2>7. ASSUME NEW i \in DOMAIN joins, NEW j \in DOMAIN joins, t[i] = t[j] PROVE i = j
    <3>1. joins[i].sid = joins[j].sid
      BY <1>8, <2>3, <2>7
    <3>2. joins[i] = joins[j]
      BY <1>3, <2>2, <3>1 DEF Meet
    <3>. QED
      BY <1>7, <3>2 DEF IsInjective
  <2>. HIDE DEF t
  <2>. QED
    BY <2>3, <2>5, <2>6, <2>7 DEF IsInjective
<1>11. P \cap Q = {}
  BY <1>8
<1>12. \A g \in Z :
         \E c \in X : /\ Glues(g) /\ Into(g) = anchor.sid /\ From(g) = c.sid /\ g.a = a /\ g.b = b
                      /\ c # anchor
                      /\ g = IF c.boundaryOnly THEN Int1(c) ELSE Join1(c)
  <2>1. ASSUME NEW c \in ToSet(bounds)
        PROVE  /\ c \in X /\ c # anchor /\ Glues(Int1(c)) /\ Into(Int1(c)) = anchor.sid
               /\ From(Int1(c)) = c.sid /\ Int1(c).a = a /\ Int1(c).b = b
               /\ Int1(c) = IF c.boundaryOnly THEN Int1(c) ELSE Join1(c)
    BY <1>6, <1>8
  <2>2. ASSUME NEW c \in ToSet(joins)
        PROVE  /\ c \in X /\ c # anchor /\ Glues(Join1(c)) /\ Into(Join1(c)) = anchor.sid
               /\ From(Join1(c)) = c.sid /\ Join1(c).a = a /\ Join1(c).b = b
               /\ Join1(c) = IF c.boundaryOnly THEN Int1(c) ELSE Join1(c)
    BY <1>7, <1>8
  <2>. QED
    BY <2>1, <2>2
<1>. HIDE DEF s, t, P, Q
<1>. DEFINE glue == s \o t
<1>13. glue \in Seq(Z) /\ IsInjective(glue) /\ ToSet(glue) \subseteq Z
  <2>1. ToSet(s) \cap ToSet(t) = {}
    BY <1>9, <1>10, <1>11
  <2>. HIDE DEF Z
  <2>2. glue \in Seq(Z) /\ ToSet(glue) = ToSet(s) \cup ToSet(t) /\ IsInjective(glue)
    BY <1>9, <1>10, <2>1, Joined
  <2>. QED
    BY <1>9, <1>10, <2>2 DEF Z
<1>. HIDE DEF Z, glue
<1>14. QueueFits(y, glue)
  <2>1. glue \in Seq(ToSet(glue))
    BY <1>13, OwnSet
  <2>2. ASSUME NEW i \in DOMAIN glue PROVE JobFits(y, glue[i])
    <3>1. glue[i] \in Z
      BY <1>13 DEF ToSet
    <3>2. PICK c \in X : /\ Glues(glue[i]) /\ Into(glue[i]) = anchor.sid /\ From(glue[i]) = c.sid
                         /\ glue[i].a = a /\ glue[i].b = b /\ c # anchor
      BY <1>12, <3>1
    <3>3. Meet(y, anchor.sid, c.sid, a, b)
      BY <1>3, <1>5, <3>2
    <3>. QED
      BY <3>2, <3>3 DEF JobFits, Glues
  <2>3. ASSUME NEW i \in DOMAIN glue, NEW j \in DOMAIN glue, j < i
        PROVE  FitsBehind(y, glue[i], glue[j])
    <3>1. glue[i] \in Z /\ glue[j] \in Z /\ glue[i] # glue[j]
      <4>1. i # j
        BY <1>13, <2>3, OwnSet
      <4>. QED
        BY <1>13, <4>1 DEF ToSet, IsInjective
    <3>2. PICK c \in X : /\ Glues(glue[i]) /\ Into(glue[i]) = anchor.sid /\ From(glue[i]) = c.sid
                         /\ glue[i].a = a /\ glue[i].b = b
                         /\ glue[i] = IF c.boundaryOnly THEN Int1(c) ELSE Join1(c)
      BY <1>12, <3>1
    <3>3. PICK d \in X : /\ Glues(glue[j]) /\ Into(glue[j]) = anchor.sid /\ From(glue[j]) = d.sid
                         /\ glue[j].a = a /\ glue[j].b = b
                         /\ glue[j] = IF d.boundaryOnly THEN Int1(d) ELSE Join1(d)
      BY <1>12, <3>1
    <3>4. c # d
      BY <3>1, <3>2, <3>3
    <3>5. Meet(y, d.sid, c.sid, a, b)
      BY <1>3, <3>4
    <3>. QED
      BY <3>2, <3>3, <3>5 DEF FitsBehind
  <2>. QED
    BY <2>1, <2>2, <2>3 DEF QueueFits
<1>15. QueueFits(y, last) /\ (\A i \in DOMAIN last : ~Glues(last[i])) /\ LeadsTo(last, ctx.target)
  <2>1. QueueFits(y, last) /\ \A i \in DOMAIN last : ~Glues(last[i])
    BY EnsureFits
  <2>2. LeadsTo(last, ctx.target)
    BY DEF LeadsTo
  <2>. QED
    BY <2>1, <2>2
<1>. HIDE DEF last
<1>16. QueueFits(y, glue \o last)
  BY <1>14, <1>15, FitsBoth
<1>17. LeadsTo(glue \o last, ctx.target)
  BY <1>14, <1>15, LeadsBehind DEF QueueFits
<1>. QED
  BY <1>2, <1>16, <1>17 DEF glue

\* An occurrence that some skeleton hosts is hosted where its record says.
LEMMA HostedWhere ==
  ASSUME NEW r, Sound(r), NEW o \in HostedOccs(r)
  PROVE  r.occ[o].host \in Skels(r) /\ o \in HostedOf(r, r.occ[o].host)
<1>1. PICK sid \in Skels(r) : o \in HostedOf(r, sid)
  BY DEF HostedOccs
<1>2. Consistent(r, sid)
  BY Listed
<1>3. r.occ[o].host = sid
  BY <1>1, <1>2, Recorded
<1>. QED
  BY <1>1, <1>3

\* A pair worth splitting at leaves pieces.
LEMMA CandidateSides ==
  ASSUME NEW r, Sound(r), NEW o, r.occ[o].host \in Skels(r), NEW p \in Candidates(r, o)
  PROVE  IsSole(r, o) /\ Sides(r, r.occ[o].host, p[1], p[2]) # <<>>
<1>. DEFINE sid == r.occ[o].host
            sep == {FindReal(r, sid, p[1]), FindReal(r, sid, p[2])}
            cs == Components(r, sid, sep)
<1>1. IsSole(r, o) /\ ValidPair(r, o, p[1], p[2])
  BY DEF Candidates
<1>2. Cardinality(ToSet(cs)) >= 2
  BY <1>1 DEF ValidPair
<1>. HIDE DEF cs
<1>3. ASSUME cs = <<>> PROVE FALSE
  <2>1. ToSet(cs) = {}
    BY <1>3 DEF ToSet
  <2>2. Cardinality(ToSet(cs)) = 0
    BY <2>1, FS_EmptySet
  <2>. QED
    BY <1>2, <2>2
<1>. HIDE DEF sid, sep
<1>4. sid \in Skels(r) /\ sep = {FindReal(r, sid, p[1]), FindReal(r, sid, p[2])}
  BY DEF sid, sep
<1>5. cs # <<>> => Sides(r, sid, p[1], p[2]) # <<>>
  BY <1>4, SidesFacts DEF cs
<1>. QED
  BY <1>1, <1>3, <1>5 DEF sid

\* A split leaves an engine with the occurrences it had, and jobs that fit it.
LEMMA SplitFits ==
  ASSUME NEW r, Named(r), NEW sid \in Skels(r), NEW a, NEW b, SplitReady(r, sid, a, b),
         Sides(r, sid, a, b) # <<>>, NEW y, y = SplitPair(r, sid, a, b),
         NEW ctx, ctx.target \in HostedOccs(r),
         NEW queue, queue = AfterSplit(SplitChildren(r, sid, a, b), a, b, ctx)
  PROVE  /\ Named(y) /\ HostedOccs(r) \subseteq HostedOccs(y)
         /\ QueueFits(y, queue) /\ LeadsTo(queue, ctx.target)
<1>. DEFINE n == Len(Sides(r, sid, a, b))
            children == SplitChildren(r, sid, a, b)
<1>1. /\ n \in Nat \ {0} /\ Named(y) /\ HostedOccs(r) \subseteq HostedOccs(y)
      /\ \A i, j \in 1 .. n : i # j => Meet(y, Kid(r, sid, i), Kid(r, sid, j), a, b)
  BY SplitNames
<1>2. DOMAIN Sides(r, sid, a, b) = 1 .. n
  <2>. DEFINE sep == {FindReal(r, sid, a), FindReal(r, sid, b)}
  <2>1. sep = {FindReal(r, sid, a), FindReal(r, sid, b)} /\ Sound(r)
    BY DEF Named
  <2>. HIDE DEF sep
  <2>. QED
    BY <2>1, SidesFacts
<1>. DEFINE child(i) ==
              [sid          |-> IF i = 1 THEN sid ELSE NewIds(r.skel, n)[i - 1],
               hosted       |-> OccsIn(r, Sides(r, sid, a, b)[i].inner),
               boundaryOnly |-> Sides(r, sid, a, b)[i].inner = {}]
<1>3. children = [i \in 1 .. n |-> child(i)]
  BY <1>2 DEF SplitChildren
<1>4. \A i : child(i).sid = IF i = 1 THEN sid ELSE NewIds(r.skel, n)[i - 1]
  OBVIOUS
<1>. HIDE DEF child, children, n
<1>5. DOMAIN children = 1 .. n /\ \A i \in 1 .. n : children[i] = child(i)
  BY <1>3
<1>6. children \in Seq(ToSet(children))
  <2>1. children \in [1 .. n -> ToSet(children)]
    BY <1>3, <1>5 DEF ToSet
  <2>. QED
    BY <1>1, <2>1, SeqDef
<1>7. ASSUME NEW i \in 1 .. n PROVE children[i].sid = Kid(r, sid, i)
  <2>1. CASE i = 1
    BY <1>4, <1>5, <2>1 DEF Kid
  <2>2. CASE i # 1
    <3>1. i - 1 \in 1 .. n /\ n \in Nat
      BY <1>1, <2>2
    <3>2. NewIds(r.skel, n)[i - 1] = Nth(r.skel, i - 1)
      BY <3>1, NewIdsAreNth
    <3>. QED
      BY <1>4, <1>5, <2>2, <3>2 DEF Kid
  <2>. QED
    BY <2>1, <2>2
<1>8. \A i, j \in 1 .. n : i # j => Meet(y, children[i].sid, children[j].sid, a, b)
  BY <1>1, <1>7
<1>9. ctx.target \in HostedOccs(y)
  BY <1>1
<1>10. QueueFits(y, AfterSplit(children, a, b, ctx)) /\ LeadsTo(AfterSplit(children, a, b, ctx), ctx.target)
  BY <1>1, <1>5, <1>6, <1>8, <1>9, AfterSplitFits
<1>. QED
  BY <1>1, <1>10 DEF children

\* What is behind the first job leads where the queue leads.
LEMMA TailLeads ==
  ASSUME NEW X, NEW s \in Seq(X), NEW o, LeadsTo(s, o)
  PROVE  /\ Tail(s) # <<>> => LeadsTo(Tail(s), o)
         /\ Tail(s) = <<>> => Glues(Head(s)) \/ Head(s) = EnsureSole(o)
<1>. DEFINE t == Tail(s)
<1>1. /\ t \in Seq(X) /\ Len(t) = Len(s) - 1 /\ Len(s) \in Nat \ {0}
      /\ DOMAIN t = 1 .. Len(s) - 1 /\ Head(s) = s[1]
      /\ \A i \in DOMAIN t : i + 1 \in DOMAIN s /\ t[i] = s[i + 1]
  BY TailParts DEF LeadsTo
<1>. HIDE DEF t
<1>2. ASSUME t # <<>> PROVE LeadsTo(t, o)
  <2>1. Len(t) # 0
    BY <1>1, <1>2
  <2>2. Len(t) \in DOMAIN t /\ Len(t) + 1 = Len(s)
    BY <1>1, <2>1
  <2>3. t[Len(t)] = s[Len(s)]
    BY <1>1, <2>2
  <2>. QED
    BY <1>2, <2>3 DEF LeadsTo
<1>3. ASSUME t = <<>> PROVE Glues(Head(s)) \/ Head(s) = EnsureSole(o)
  <2>1. Len(s) = 1
    BY <1>1, <1>3
  <2>. QED
    BY <1>1, <2>1 DEF LeadsTo
<1>. QED
  BY <1>2, <1>3 DEF t

------------------------------------------------------------------------------
(* The updater. *)

\* Between any two jobs: the engine is sound and names each vertex once, the queue
\* fits it and leads to the target, and when it is empty the target is done.
Between ==
  /\ Named(re)
  /\ run.target \in HostedOccs(re)
  /\ QueueFits(re, q)
  /\ q # <<>> => LeadsTo(q, run.target)
  /\ q = <<>> => IsSole(re, run.target) /\ Candidates(re, run.target) = {}
  /\ status = "done" => q = <<>>

LEMMA InitBetween == Init => Between
<1>. SUFFICES ASSUME Init PROVE Between
  OBVIOUS
<1>1. run \in Runs /\ re = run.start /\ q = run.queue /\ status = "running"
  BY DEF Init
<1>2. /\ Sound(run.start) /\ \A sid \in Skels(run.start) : UniqueNames(run.start, sid)
      /\ run.target \in HostedOccs(run.start)
      /\ QueueFits(run.start, run.queue) /\ LeadsTo(run.queue, run.target)
  BY <1>1, RunsAssumption
<1>3. q # <<>>
  BY <1>1, <1>2 DEF LeadsTo
<1>. QED
  BY <1>1, <1>2, <1>3 DEF Between, Named

\* A job to make an occurrence sole, at the front of the queue.
LEMMA EnsureJob ==
  ASSUME Between, Take("ENSURE_SOLE"), NEW o, o = Head(q).occ
  PROVE  /\ q # <<>> /\ o \in HostedOccs(re) /\ Head(q) = EnsureSole(o) /\ Sound(re)
         /\ \A i \in DOMAIN q : ~Glues(q[i])
         /\ re.occ[o].host \in Skels(re) /\ o \in HostedOf(re, re.occ[o].host)
         /\ IsSole(re, o) =>
              \A p \in Candidates(re, o) : SplitReady(re, re.occ[o].host, p[1], p[2])
         /\ ~IsSole(re, o) => IsolateReady(re, re.occ[o].host, o)
<1>1. q # <<>> /\ Head(q).kind = "ENSURE_SOLE" /\ Ready(Head(q))
  BY DEF Take
<1>2. JobFits(re, Head(q))
  BY <1>1, TailParts DEF Between, QueueFits
<1>3. Head(q) = EnsureSole(o) /\ o \in HostedOccs(re)
  BY <1>1, <1>2 DEF JobFits
<1>4. Sound(re)
  BY DEF Between, Named
<1>5. \A i \in DOMAIN q : ~Glues(q[i])
  BY <1>1, NoneGlues DEF Between
<1>6. re.occ[o].host \in Skels(re) /\ o \in HostedOf(re, re.occ[o].host)
  BY <1>3, <1>4, HostedWhere
<1>7. /\ IsSole(re, o) =>
           \A p \in Candidates(re, o) : SplitReady(re, re.occ[o].host, p[1], p[2])
      /\ ~IsSole(re, o) => IsolateReady(re, re.occ[o].host, o)
  BY <1>1 DEF Ready
<1>. QED
  BY <1>1, <1>3, <1>4, <1>5, <1>6, <1>7

LEMMA IsolateStep ==
  ASSUME Between, Isolate PROVE Between'
<1>. DEFINE o == Head(q).occ
            sid == re.occ[o].host
<1>1. /\ Take("ENSURE_SOLE") /\ ~IsSole(re, o) /\ re' = IsolateVertex(re, sid, o) /\ q' = q
      /\ run' = run /\ status' = status
  BY DEF Isolate, Take
<1>2. /\ q # <<>> /\ sid \in Skels(re) /\ o \in HostedOf(re, sid) /\ IsolateReady(re, sid, o)
      /\ \A i \in DOMAIN q : ~Glues(q[i])
  BY <1>1, EnsureJob
<1>. HIDE DEF o, sid
<1>3. Named(re') /\ HostedOccs(re') = HostedOccs(re)
  BY <1>1, <1>2, IsolateNames DEF Between
<1>4. QueueFits(re', q)
  BY <1>2, <1>3, StillFits DEF Between
<1>. QED
  BY <1>1, <1>2, <1>3, <1>4 DEF Between

LEMMA SplitStep ==
  ASSUME Between, Split PROVE Between'
<1>. DEFINE o == Head(q).occ
            sid == re.occ[o].host
<1>1. Take("ENSURE_SOLE") /\ run' = run /\ status' = status
  BY DEF Split, Take
<1>2. PICK p \in Candidates(re, o) :
        /\ re' = SplitPair(re, sid, p[1], p[2])
        /\ q' = IF run.hooks = "none" THEN q
                ELSE AfterSplit(SplitChildren(re, sid, p[1], p[2]), p[1], p[2], run) \o Tail(q)
  BY DEF Split
<1>. DEFINE a == p[1]
            b == p[2]
            jobs == AfterSplit(SplitChildren(re, sid, a, b), a, b, run)
<1>3. /\ q # <<>> /\ Sound(re) /\ sid \in Skels(re)
      /\ IsSole(re, o) => SplitReady(re, sid, a, b)
      /\ \A i \in DOMAIN q : ~Glues(q[i])
  BY <1>1, EnsureJob
<1>4. IsSole(re, o) /\ Sides(re, sid, a, b) # <<>>
  BY <1>3, CandidateSides
<1>5. SplitReady(re, sid, a, b)
  BY <1>3, <1>4
<1>6. re' = SplitPair(re, sid, a, b) /\ q' = IF run.hooks = "none" THEN q ELSE jobs \o Tail(q)
  BY <1>2
<1>7. jobs = AfterSplit(SplitChildren(re, sid, a, b), a, b, run)
  OBVIOUS
<1>. HIDE DEF o, sid, a, b, jobs
<1>8. Named(re) /\ run.target \in HostedOccs(re)
  BY DEF Between
<1>9. /\ Named(re') /\ HostedOccs(re) \subseteq HostedOccs(re')
      /\ QueueFits(re', jobs) /\ LeadsTo(jobs, run.target)
  BY <1>3, <1>4, <1>5, <1>6, <1>7, <1>8, SplitFits
<1>10. QueueFits(re', q') /\ q' # <<>> /\ LeadsTo(q', run.target)
  <2>1. QueueFits(re, q) /\ LeadsTo(q, run.target) /\ q \in Seq(ToSet(q))
    BY <1>3 DEF Between, QueueFits
  <2>2. CASE run.hooks = "none"
    <3>1. q' = q
      BY <1>6, <2>2
    <3>2. QueueFits(re', q)
      BY <1>3, <1>9, <2>1, StillFits
    <3>. QED
      BY <1>3, <2>1, <3>1, <3>2
  <2>3. CASE run.hooks # "none"
    <3>. DEFINE rest == Tail(q)
    <3>1. QueueFits(re, rest) /\ \A i \in DOMAIN rest : ~Glues(rest[i])
      BY <1>3, <2>1, TailFits
    <3>2. rest # <<>> => LeadsTo(rest, run.target)
      BY <2>1, TailLeads
    <3>3. q' = jobs \o rest
      BY <1>6, <2>3
    <3>. HIDE DEF rest
    <3>4. QueueFits(re', rest)
      BY <1>9, <3>1, StillFits
    <3>5. QueueFits(re', jobs \o rest)
      BY <1>9, <3>1, <3>4, FitsBoth
    <3>6. LeadsTo(jobs \o rest, run.target)
      <4>1. jobs \in Seq(ToSet(jobs)) /\ rest \in Seq(ToSet(rest))
        BY <1>9, <3>4 DEF QueueFits
      <4>2. CASE rest = <<>>
        <5>1. jobs \o rest = jobs
          BY <4>1, <4>2
        <5>. QED
          BY <1>9, <5>1
      <4>3. CASE rest # <<>>
        BY <3>2, <4>1, <4>3, LeadsBehind
      <4>. QED
        BY <4>2, <4>3
    <3>. QED
      BY <3>3, <3>5, <3>6 DEF LeadsTo
  <2>. QED
    BY <2>2, <2>3
<1>11. status # "done"
  BY <1>1 DEF Take
<1>. QED
  BY <1>1, <1>8, <1>9, <1>10, <1>11 DEF Between

LEMMA EnsureDoneStep ==
  ASSUME Between, EnsureDone PROVE Between'
<1>. DEFINE o == Head(q).occ
<1>1. /\ Take("ENSURE_SOLE") /\ IsSole(re, o) /\ Candidates(re, o) = {}
      /\ q' = Tail(q) /\ re' = re /\ run' = run /\ status' = status
  BY DEF EnsureDone, Take
<1>2. q # <<>> /\ Head(q) = EnsureSole(o) /\ \A i \in DOMAIN q : ~Glues(q[i])
  BY <1>1, EnsureJob
<1>. HIDE DEF o
<1>3. QueueFits(re, q) /\ LeadsTo(q, run.target) /\ q \in Seq(ToSet(q))
  BY <1>2 DEF Between, QueueFits
<1>4. QueueFits(re, Tail(q))
  BY <1>2, <1>3, TailFits
<1>5. Tail(q) # <<>> => LeadsTo(Tail(q), run.target)
  BY <1>3, TailLeads
<1>6. ASSUME Tail(q) = <<>> PROVE IsSole(re, run.target) /\ Candidates(re, run.target) = {}
  <2>1. ~Glues(Head(q))
    BY <1>2 DEF EnsureSole, Glues
  <2>2. Head(q) = EnsureSole(run.target)
    BY <1>3, <1>6, <2>1, TailLeads
  <2>3. o = run.target
    BY <1>2, <2>2 DEF EnsureSole
  <2>. QED
    BY <1>1, <2>3
<1>7. status # "done"
  BY <1>1 DEF Take
<1>. QED
  BY <1>1, <1>4, <1>5, <1>6, <1>7 DEF Between

\* After a job that glues, the target is enqueued unless it still is.
LEMMA GluedStep ==
  ASSUME Between, q # <<>>, status # "done", run' = run, status' = status,
         Named(re'), HostedOccs(re') = HostedOccs(re), QueueFits(re', Tail(q)),
         q' = EnsureOnceBack(Tail(q), run.target)
  PROVE  Between'
<1>1. run.target \in HostedOccs(re') /\ LeadsTo(q, run.target) /\ q \in Seq(ToSet(q))
  BY DEF Between, QueueFits
<1>2. QueueFits(re', q')
  BY <1>1, OnceBackFits
<1>3. LeadsTo(q', run.target)
  BY <1>1, LeadsOn
<1>4. q' # <<>>
  BY <1>3 DEF LeadsTo
<1>. QED
  BY <1>1, <1>2, <1>3, <1>4 DEF Between

LEMMA JoinStep ==
  ASSUME Between, Join PROVE Between'
<1>. DEFINE job == Head(q)
<1>1. /\ q # <<>> /\ status # "done" /\ run' = run /\ status' = status
      /\ job.kind = "JOIN_PAIR" /\ re' = JoinPair(re, job.left, job.right, job.a, job.b)
      /\ q' = EnsureOnceBack(Tail(q), run.target)
  BY DEF Join, Take
<1>2. Named(re) /\ QueueFits(re, q)
  BY DEF Between
<1>3. job = Head(q)
  OBVIOUS
<1>. HIDE DEF job
<1>4. Named(re') /\ HostedOccs(re') = HostedOccs(re) /\ QueueFits(re', Tail(q))
  BY <1>1, <1>2, <1>3, JoinFits
<1>. QED
  BY <1>1, <1>4, GluedStep

LEMMA IntegrateStep ==
  ASSUME Between, Integrate PROVE Between'
<1>. DEFINE job == Head(q)
<1>1. /\ q # <<>> /\ status # "done" /\ run' = run /\ status' = status
      /\ job.kind = "INTEGRATE_CHILD"
      /\ re' = IntegrateSkeleton(re, job.parent, job.child, SameNames(job))
      /\ q' = EnsureOnceBack(Tail(q), run.target)
  BY DEF Integrate, Take
<1>2. Named(re) /\ QueueFits(re, q)
  BY DEF Between
<1>3. job = Head(q)
  OBVIOUS
<1>. HIDE DEF job
<1>4. Named(re') /\ HostedOccs(re') = HostedOccs(re) /\ QueueFits(re', Tail(q))
  BY <1>1, <1>2, <1>3, IntegrateFits
<1>. QED
  BY <1>1, <1>4, GluedStep

\* Running out of the budget, returning and doing nothing leave the engine and
\* the queue as they are.
LEMMA StopStep ==
  ASSUME Between, BudgetExceeded \/ Return \/ UNCHANGED vars PROVE Between'
<1>1. CASE BudgetExceeded
  BY <1>1 DEF Between, BudgetExceeded
<1>2. CASE Return
  BY <1>2 DEF Between, Return
<1>3. CASE UNCHANGED vars
  BY <1>3 DEF Between, vars
<1>. QED
  BY <1>1, <1>2, <1>3

LEMMA StaysBetween == Spec => []Between
<1>1. Init => Between
  BY InitBetween
<1>2. Between /\ [Next]_vars => Between'
  BY IsolateStep, SplitStep, EnsureDoneStep, JoinStep, IntegrateStep, StopStep DEF Next
<1>. QED
  BY <1>1, <1>2, PTL DEF Spec

\* Whatever run of the updater: after every job each vertex and edge belongs to one
\* skeleton, every skeleton and record passes the validators, and the assertions of
\* each queued join and integration hold, so that process_raw_planner_job cannot
\* fail on the skeletons that the jobs before it have left.
THEOREM PlannerQueueSound == Spec => []QueueSound
<1>1. Between => QueueSound
  <2>. SUFFICES ASSUME Between PROVE QueueSound
    OBVIOUS
  <2>1. Named(re) /\ Sound(re) /\ QueueFits(re, q)
    BY DEF Between, Named
  <2>2. Bookkeeping
    BY <2>1 DEF Bookkeeping, Sound, Consistent
  <2>3. ASSUME NEW i \in DOMAIN q, q[i].kind = "JOIN_PAIR" PROVE Ready(q[i])
    <3>1. Meet(re, q[i].left, q[i].right, q[i].a, q[i].b)
      BY <2>1, <2>3 DEF QueueFits, JobFits, Glues, Into, From
    <3>2. JoinReady(re, q[i].left, q[i].right, q[i].a, q[i].b)
      BY <2>1, <3>1, MeetJoins
    <3>. QED
      BY <2>3, <3>2 DEF Ready
  <2>4. ASSUME NEW i \in DOMAIN q, q[i].kind = "INTEGRATE_CHILD" PROVE Ready(q[i])
    <3>1. Meet(re, q[i].parent, q[i].child, q[i].a, q[i].b)
      BY <2>1, <2>4 DEF QueueFits, JobFits, Glues, Into, From
    <3>2. NamesKept(SameNames(q[i]), q[i].a, q[i].b)
      BY DEF NamesKept, SameNames
    <3>3. IntegrateReady(re, q[i].parent, q[i].child, SameNames(q[i]))
      BY <2>1, <3>1, <3>2, MeetIntegrates
    <3>. QED
      BY <2>4, <3>3 DEF Ready
  <2>. QED
    BY <2>2, <2>3, <2>4 DEF QueueSound, JobsReady
<1>. QED
  BY <1>1, StaysBetween, PTL

\* assert_planner_stop_condition, for every run of the updater: when it returns the
\* target is alone in its skeleton, and no pair is left to split it at.  The last
\* job of the queue is to make the target sole, or glues and enqueues that one.
THEOREM PlannerAtStop == Spec => []AtStop
<1>1. Between => AtStop
  BY DEF Between, AtStop
<1>. QED
  BY <1>1, StaysBetween, PTL

==============================================================================
