------------------------------- MODULE RawEngine -------------------------------
(***************************************************************************)
(* The data of the raw engine (raw_engine.hpp, raw_core.cpp): pools of     *)
(* vertices, edges and skeletons, the records of the occurrences, and the  *)
(* functions that change them.  commit_skeleton replaces the contents of a *)
(* skeleton by what a builder lists; every primitive of raw_primitives.cpp *)
(* is a sequence of calls of the functions below.                          *)
(*                                                                         *)
(* Abstractions: br stands for the pair (br, side) of a bridge port; adj,  *)
(* hostedOcc, allocNbr and corePatchEdges are sets (the code keeps vectors *)
(* whose order no check depends on); occurrences are never retired, so     *)
(* their pool is a function over the ones created so far.                  *)
(***************************************************************************)
EXTENDS Pool, FiniteSets

CONSTANTS
  Occ,        \* occurrence identifiers
  Vertex,     \* names of the vertices of the original graph
  NoOcc,      \* the occ field of a REAL vertex (0 in the code, read by nobody)
  NoBridge    \* the br field of an edge that is not a bridge port

------------------------------------------------------------------------------
(* Builders (RawSkeletonBuilder): vertices and edges by local index, and   *)
(* for the occurrences whose centers are among the vertices their          *)
(* neighbours and the local indexes of their core patch.                   *)

CentersOf(B) == {i \in DOMAIN B.V : B.V[i].kind = "OCC_CENTER"}
OccsOf(B) == {B.V[i].occ : i \in CentersOf(B)}
IsReal(B, i) == B.V[i].kind = "REAL"

\* validate_builder_basic, which the primitives assert before they commit.
ValidBuilder(B) ==
  /\ \A k \in DOMAIN B.E : /\ B.E[k].a \in DOMAIN B.V
                           /\ B.E[k].b \in DOMAIN B.V
                           /\ B.E[k].a # B.E[k].b
  /\ \A i, j \in CentersOf(B) : B.V[i].occ = B.V[j].occ => i = j
  /\ DOMAIN B.nbr \subseteq OccsOf(B)
  /\ DOMAIN B.patch \subseteq OccsOf(B)
  /\ \A o \in DOMAIN B.patch : \A k \in B.patch[o] :
       /\ k \in DOMAIN B.E
       /\ B.E[k].kind = "CORE_REAL"
       /\ IsReal(B, B.E[k].a) /\ IsReal(B, B.E[k].b)

BuilderVertex == [kind : {"REAL", "OCC_CENTER"}, orig : Vertex, occ : Occ \cup {NoOcc}]

\* What the types of the code say of a builder.
TypedBuilder(B) ==
  /\ B.V \in Seq(BuilderVertex)
  /\ DOMAIN B.E = 1 .. Len(B.E) /\ Len(B.E) \in Nat
  /\ OccsOf(B) \subseteq Occ

------------------------------------------------------------------------------
(* The engine. *)

EmptySkeleton == [verts |-> <<>>, edges |-> <<>>, hosted |-> {}]

EmptyEngine ==
  [V |-> EmptyPool, E |-> EmptyPool, skel |-> EmptyPool,
   occ |-> [o \in {} |-> 0], dirtySkel |-> {}, dirtyOcc |-> {}]

Skels(r) == Live(r.skel)
VertsOf(r, sid) == ToSet(r.skel.val[sid].verts)
EdgesOf(r, sid) == ToSet(r.skel.val[sid].edges)
HostedOf(r, sid) == r.skel.val[sid].hosted

\* The identifier skel.alloc returns next, and the engine after it.
NextSkel(r) == NewIds(r.skel, 1)[1]
Stores(r, V, E, skel) ==
  [V |-> V, E |-> E, skel |-> skel,
   occ |-> r.occ, dirtySkel |-> r.dirtySkel, dirtyOcc |-> r.dirtyOcc]
AllocSkeleton(r) == Stores(r, r.V, r.E, AllocAll(r.skel, <<EmptySkeleton>>))

\* Mutant: the list of vertices is not cleared.
RetireContentsKeepingVerts(r, sid) ==
  LET S == r.skel.val[sid] IN
  Stores(r, RetireAll(r.V, S.verts), RetireAll(r.E, S.edges),
         Put(r.skel, sid, [EmptySkeleton EXCEPT !.verts = S.verts]))

\* retire_skeleton_contents: every vertex and edge, then the three lists.
RetireContents(r, sid) ==
  LET S == r.skel.val[sid] IN
  Stores(r, RetireAll(r.V, S.verts), RetireAll(r.E, S.edges), Put(r.skel, sid, EmptySkeleton))

\* The vertices of a builder as commit_skeleton stores them: adjacency lists
\* the stored edges that end there.
StoredVertices(B, eids) ==
  [i \in 1 .. Len(B.V) |->
     [kind |-> B.V[i].kind, orig |-> B.V[i].orig, occ |-> B.V[i].occ,
      adj |-> {eids[k] : k \in {k \in 1 .. Len(B.E) : i \in {B.E[k].a, B.E[k].b}}}]]

\* Mutant: the ends of an edge are left local to the builder.
StoredEdgesLocal(B, vids) ==
  [k \in 1 .. Len(B.E) |->
     [a |-> B.E[k].a, b |-> B.E[k].b, kind |-> B.E[k].kind, br |-> B.E[k].br]]

StoredEdges(B, vids) ==
  [k \in 1 .. Len(B.E) |->
     [a |-> vids[B.E[k].a], b |-> vids[B.E[k].b], kind |-> B.E[k].kind, br |-> B.E[k].br]]

\* Mutant: the core patch is left local to the builder.
StoredRecordLocal(B, o, sid, vids, eids) ==
  LET i == CHOOSE i \in CentersOf(B) : B.V[i].occ = o IN
  [orig   |-> B.V[i].orig,
   host   |-> sid,
   center |-> vids[i],
   nbr    |-> IF o \in DOMAIN B.nbr THEN B.nbr[o] ELSE {},
   patch  |-> IF o \in DOMAIN B.patch THEN B.patch[o] ELSE {}]

\* The record of an occurrence whose center the builder holds.
StoredRecord(B, o, sid, vids, eids) ==
  LET i == CHOOSE i \in CentersOf(B) : B.V[i].occ = o IN
  [orig   |-> B.V[i].orig,
   host   |-> sid,
   center |-> vids[i],
   nbr    |-> IF o \in DOMAIN B.nbr THEN B.nbr[o] ELSE {},
   patch  |-> IF o \in DOMAIN B.patch THEN {eids[k] : k \in B.patch[o]} ELSE {}]

\* Mutant: the new contents are added without retiring the old ones.
CommitWithoutRetire(r, sid, B) ==
  LET vids == NewIds(r.V, Len(B.V))
      eids == NewIds(r.E, Len(B.E))
  IN  [V |-> AllocAll(r.V, StoredVertices(B, eids)),
       E |-> AllocAll(r.E, StoredEdges(B, vids)),
       skel |-> Put(r.skel, sid, [verts |-> vids, edges |-> eids, hosted |-> OccsOf(B)]),
       occ |-> [o \in DOMAIN r.occ |->
                  IF o \in OccsOf(B) THEN StoredRecord(B, o, sid, vids, eids) ELSE r.occ[o]],
       dirtySkel |-> r.dirtySkel \cup {sid},
       dirtyOcc |-> r.dirtyOcc \cup OccsOf(B)]

\* Mutant: the occurrences of the skeleton are not reported.
CommitSilent(r, sid, B) ==
  LET r0   == RetireContents(r, sid)
      vids == NewIds(r0.V, Len(B.V))
      eids == NewIds(r0.E, Len(B.E))
  IN  [V |-> AllocAll(r0.V, StoredVertices(B, eids)),
       E |-> AllocAll(r0.E, StoredEdges(B, vids)),
       skel |-> Put(r0.skel, sid, [verts |-> vids, edges |-> eids, hosted |-> OccsOf(B)]),
       occ |-> [o \in DOMAIN r.occ |->
                  IF o \in OccsOf(B) THEN StoredRecord(B, o, sid, vids, eids) ELSE r.occ[o]],
       dirtySkel |-> r.dirtySkel \cup {sid},
       dirtyOcc |-> r.dirtyOcc]

\* commit_skeleton: retire the old contents, store the builder, and point the
\* record of every occurrence it hosts at the new center and core edges.
CommitSkeleton(r, sid, B) ==
  LET r0   == RetireContents(r, sid)
      vids == NewIds(r0.V, Len(B.V))
      eids == NewIds(r0.E, Len(B.E))
  IN  [V |-> AllocAll(r0.V, StoredVertices(B, eids)),
       E |-> AllocAll(r0.E, StoredEdges(B, vids)),
       skel |-> Put(r0.skel, sid, [verts |-> vids, edges |-> eids, hosted |-> OccsOf(B)]),
       occ |-> [o \in DOMAIN r.occ |->
                  IF o \in OccsOf(B) THEN StoredRecord(B, o, sid, vids, eids) ELSE r.occ[o]],
       dirtySkel |-> r.dirtySkel \cup {sid},
       dirtyOcc |-> r.dirtyOcc \cup OccsOf(B)]

\* skel.retire, which join_separation_pair and integrate_skeleton call on a
\* skeleton they have just emptied.
FreeSkeleton(r, sid) == Stores(r, r.V, r.E, RetireAll(r.skel, <<sid>>))

------------------------------------------------------------------------------
(* What a sound engine looks like, for any engine r. *)

RawVertex == [kind : {"REAL", "OCC_CENTER"}, orig : Vertex, occ : Occ \cup {NoOcc},
              adj : SUBSET Nat]
RawSkeleton == [verts : Seq(Nat), edges : Seq(Nat), hosted : SUBSET Occ]

IsEngine(r) ==
  /\ IsPool(r.V) /\ IsPool(r.E) /\ IsPool(r.skel)
  /\ \A v \in Live(r.V) : r.V.val[v] \in RawVertex
  /\ \A sid \in Skels(r) : r.skel.val[sid] \in RawSkeleton
  /\ DOMAIN r.occ \subseteq Occ

\* The lists name every identifier in use, at one place of one list.
Partitioned(p, lists) ==
  /\ Live(p) = UNION {ToSet(lists[s]) : s \in DOMAIN lists}
  /\ \A s, t \in DOMAIN lists : \A i \in DOMAIN lists[s], j \in DOMAIN lists[t] :
       lists[s][i] = lists[t][j] => s = t /\ i = j

Owned(r) ==
  /\ Partitioned(r.V, [sid \in Skels(r) |-> r.skel.val[sid].verts])
  /\ Partitioned(r.E, [sid \in Skels(r) |-> r.skel.val[sid].edges])

\* The skeleton's part of validate_skeleton_wellformed, and its converse: adj
\* misses no edge, hosted misses no center.
IsGraph(r, sid) ==
  /\ \A e \in EdgesOf(r, sid) :
       /\ r.E.val[e].a \in VertsOf(r, sid)
       /\ r.E.val[e].b \in VertsOf(r, sid)
       /\ r.E.val[e].a # r.E.val[e].b
  /\ \A v \in VertsOf(r, sid) :
       r.V.val[v].adj = {e \in EdgesOf(r, sid) : v \in {r.E.val[e].a, r.E.val[e].b}}
  /\ HostedOf(r, sid) =
       {r.V.val[v].occ : v \in {v \in VertsOf(r, sid) : r.V.val[v].kind = "OCC_CENTER"}}

\* The record of o names a center of o and core edges of its host.
IsCurrent(r, o) ==
  LET R == r.occ[o] IN
  /\ R.center \in VertsOf(r, R.host)
  /\ r.V.val[R.center].kind = "OCC_CENTER"
  /\ r.V.val[R.center].occ = o
  /\ \A e \in R.patch : e \in EdgesOf(r, R.host) /\ r.E.val[e].kind = "CORE_REAL"
=============================================================================
