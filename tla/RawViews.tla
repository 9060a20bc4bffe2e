-------------------------------- MODULE RawViews --------------------------------
(***************************************************************************)
(* The raw engine as the tests look at it: what the validators check, and  *)
(* the graph of a skeleton and the neighbourhood of an occurrence by names *)
(* instead of identifiers.                                                 *)
(***************************************************************************)
EXTENDS RawPrimitives

\* validate_skeleton_wellformed and validate_occ_patch_consistent, as
\* debug_validate_skeleton_and_hosted calls them.
Validated(r, sid) ==
  /\ IsGraph(r, sid)
  /\ \A o \in HostedOf(r, sid) :
       /\ r.occ[o].host = sid
       /\ IsCurrent(r, o)
       /\ \A e \in r.V.val[r.occ[o].center].adj : r.E.val[e].kind # "CORE_REAL"
       /\ \A n \in r.occ[o].nbr : n # o /\ r.occ[n].orig = r.occ[o].orig

\* What the tests and the builders of their fixtures see to besides: the skeleton
\* is validated, and each of its centers is the one its occurrence's record names,
\* under the record's name.
Consistent(r, sid) ==
  /\ Validated(r, sid)
  /\ HostedOf(r, sid) \subseteq DOMAIN r.occ
  /\ \A v \in VertsOf(r, sid) : r.V.val[v].kind = "OCC_CENTER" =>
       /\ r.occ[r.V.val[v].occ].center = v
       /\ r.occ[r.V.val[v].occ].orig = r.V.val[v].orig

\* An engine the primitives may be called on: its pools are exact, every vertex
\* and edge in use belongs to one skeleton, and every skeleton is consistent.
Sound(r) ==
  /\ r = [V |-> r.V, E |-> r.E, skel |-> r.skel,
          occ |-> r.occ, dirtySkel |-> r.dirtySkel, dirtyOcc |-> r.dirtyOcc]
  /\ IsEngine(r) /\ Owned(r)
  /\ \A o \in DOMAIN r.occ : r.occ[o].orig \in Vertex /\ r.occ[o].nbr \subseteq DOMAIN r.occ
  /\ \A sid \in Skels(r) : Consistent(r, sid)

\* No two REAL vertices of the skeleton have the same name.
UniqueNames(r, sid) ==
  \A v, w \in VertsOf(r, sid) :
    r.V.val[v].kind = "REAL" /\ r.V.val[w].kind = "REAL" /\ r.V.val[v].orig = r.V.val[w].orig
      => v = w

Names(r) ==
  [v \in Live(r.V) |-> IF r.V.val[v].kind = "REAL" THEN r.V.val[v].orig ELSE r.V.val[v].occ]

\* The names the call gives to the vertices of r: integrate_skeleton renames the
\* boundary of the child.
NamesAfter(r, call) ==
  [v \in Live(r.V) |->
     IF /\ call.op = "integrate"
        /\ v \in VertsOf(r, call.child)
        /\ r.V.val[v].kind = "REAL"
        /\ r.V.val[v].orig \in DOMAIN call.bm
     THEN call.bm[r.V.val[v].orig]
     ELSE Names(r)[v]]

EdgeName(r, e, N) ==
  [ends |-> {N[v] : v \in Ends(r, e)}, kind |-> r.E.val[e].kind, br |-> r.E.val[e].br]

\* How many edges of S have which name, when N names the vertices.
EdgeBag(r, S, N) ==
  [n \in {EdgeName(r, e, N) : e \in S} |-> Cardinality({e \in S : EdgeName(r, e, N) = n})]

PortsOf(r, o, N) == EdgeBag(r, r.V.val[r.occ[o].center].adj, N)
HostedOccs(r) == UNION {HostedOf(r, sid) : sid \in Skels(r)}

GraphOf(r, sid) ==
  [names |-> [n \in {Names(r)[v] : v \in VertsOf(r, sid)} |->
                Cardinality({v \in VertsOf(r, sid) : Names(r)[v] = n})],
   edges |-> EdgeBag(r, EdgesOf(r, sid), Names(r))]

Relabel(r, f) ==
  [r EXCEPT !.V.val = [v \in Live(r.V) |-> [r.V.val[v] EXCEPT !.orig = f[@]]],
            !.occ = [o \in DOMAIN r.occ |-> [r.occ[o] EXCEPT !.orig = f[@]]]]
=============================================================================
