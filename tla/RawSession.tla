------------------------------ MODULE RawSession ------------------------------
(***************************************************************************)
(* The primitives of the raw engine called in any order that respects      *)
(* their assertions, starting from the fixtures of the tests.  Every call  *)
(* is given a RawUpdateCtx of its own, so the dirty sets say what the last *)
(* call changed.                                                           *)
(***************************************************************************)
EXTENDS RawViews

CONSTANTS
  Starts,         \* the engines a session may start from
  BoundaryMaps,   \* the boundary maps integrate_skeleton is called with
  Relabelings,    \* injective renamings of the vertices of the original graph
  MaxCalls        \* bound of the model: calls in a session

\* The fixtures are validated before a test calls a primitive on them.
ASSUME StartsAssumption == \A r \in Starts : Sound(r)

VARIABLES
  re,     \* RawEngine and RawUpdateCtx
  last,   \* the last call
  calls   \* how many calls so far

vars == <<re, last, calls>>

Fresh(r) ==
  [V |-> r.V, E |-> r.E, skel |-> r.skel, occ |-> r.occ, dirtySkel |-> {}, dirtyOcc |-> {}]

Init ==
  /\ re \in Starts
  /\ last = [op |-> "none"]
  /\ calls = 0

Called(call) ==
  /\ calls < MaxCalls
  /\ calls' = calls + 1
  /\ last' = call

Isolate(sid, o) ==
  /\ IsolateReady(Fresh(re), sid, o)
  /\ Called([op |-> "isolate", sid |-> sid, occ |-> o])
  /\ re' = IsolateVertex(Fresh(re), sid, o)

Split(sid, a, b) ==
  /\ SplitReady(Fresh(re), sid, a, b)
  /\ Called([op |-> "split", sid |-> sid, a |-> a, b |-> b])
  /\ re' = SplitPair(Fresh(re), sid, a, b)

Join(left, right, a, b) ==
  /\ JoinReady(Fresh(re), left, right, a, b)
  /\ Called([op |-> "join", a |-> a, b |-> b])
  /\ re' = JoinPair(Fresh(re), left, right, a, b)

Integrate(parent, child, bm) ==
  /\ IntegrateReady(Fresh(re), parent, child, bm)
  /\ Called([op |-> "integrate", child |-> child, bm |-> bm])
  /\ re' = IntegrateSkeleton(Fresh(re), parent, child, bm)

Next ==
  \E s \in Skels(re) :
    \/ \E o \in HostedOf(re, s) : Isolate(s, o)
    \/ \E a, b \in RealNames(re, VertsOf(re, s)) : Split(s, a, b)
    \/ \E t \in Skels(re) :
         \/ \E a, b \in RealNames(re, VertsOf(re, s)) : Join(s, t, a, b)
         \/ \E bm \in BoundaryMaps : Integrate(s, t, bm)

Spec == Init /\ [][Next]_vars

------------------------------------------------------------------------------
(* Properties. *)

\* assert_engine_bookkeeping_sane and the validators of the tests: after every
\* call each vertex and each edge in use belongs to exactly one skeleton and the
\* pools are exact, although a call retires up to two skeletons and reuses their
\* identifiers; and all skeletons and records are consistent, not only those the
\* call rewrote: none is left pointing at an identifier that was reused.
EngineSound == Sound(re)

\* The dirty sets are complete and the rest is untouched: a skeleton a call does
\* not report keeps its lists and the contents of its vertices and edges, and so
\* does the record of an occurrence it does not report.
DirtyComplete ==
  [][/\ \A sid \in Skels(re') \ re'.dirtySkel :
          /\ sid \in Skels(re)
          /\ re'.skel.val[sid] = re.skel.val[sid]
          /\ \A v \in VertsOf(re, sid) : re'.V.val[v] = re.V.val[v]
          /\ \A e \in EdgesOf(re, sid) : re'.E.val[e] = re.E.val[e]
     /\ \A o \in DOMAIN re.occ \ re'.dirtyOcc : re'.occ[o] = re.occ[o]]_vars

\* The edges of a core patch that survive the call: a split keeps those on the
\* side of the center.
Surviving(r, o, call) ==
  IF call.op = "split" /\ o \in HostedOf(r, call.sid)
  THEN LET cut  == {FindReal(r, call.sid, call.a), FindReal(r, call.sid, call.b)}
           side == Component(r, call.sid, cut, r.occ[o].center)
       IN  {e \in r.occ[o].patch : Ends(r, e) \cap side # {}}
  ELSE r.occ[o].patch

\* No call loses an occurrence or changes its neighbourhood: the names of its
\* ports stay, and so do those of its core patch, but for one case: a split
\* drops the part of the patch that is not on the side of the center, such as
\* the edges that join the two vertices it cuts at.
SignatureKept ==
  [][LET old == NamesAfter(re, last')
         new == Names(re')
     IN  /\ HostedOccs(re') = HostedOccs(re)
         /\ \A o \in HostedOccs(re) :
              /\ DOMAIN PortsOf(re', o, new) = DOMAIN PortsOf(re, o, old)
              /\ EdgeBag(re', re'.occ[o].patch, new) =
                   EdgeBag(re, Surviving(re, o, last'), old)]_vars

\* A split, a join and an integration move edges between skeletons, and neither
\* drops nor doubles one.
EdgesKept ==
  [][\/ last'.op = "isolate"
     \/ EdgeBag(re', Live(re'.E), Names(re')) =
          EdgeBag(re, Live(re.E), NamesAfter(re, last'))]_vars

\* The first child joined with the others, one after the other.
Rejoined(r, sid, a, b) ==
  FoldLeft(LAMBDA x, c : JoinPair(x, sid, c.sid, a, b),
           SplitPair(r, sid, a, b), Tail(SplitChildren(r, sid, a, b)))

\* Joining is the inverse of splitting: whatever pair a skeleton is split at,
\* joining the children restores its graph and leaves no skeleton behind.
JoinUndoesSplit ==
  \A sid \in Skels(re) : \A a, b \in RealNames(re, VertsOf(re, sid)) :
    SplitReady(re, sid, a, b) /\ Sides(re, sid, a, b) # <<>> =>
      LET x == Rejoined(re, sid, a, b) IN
      /\ Skels(x) = Skels(re)
      /\ GraphOf(x, sid) = GraphOf(re, sid)

\* The relabel invariance of the metamorphic tests, for isolate_vertex: renaming
\* the vertices of the original graph commutes with isolating an occurrence.
\* It fails once two names agree in their low 16 bits (port_key).
RelabelInvariant ==
  \A sid \in Skels(re) : \A o \in HostedOf(re, sid) : \A f \in Relabelings :
    IsolateVertex(Relabel(re, f), sid, o) = Relabel(IsolateVertex(re, sid, o), f)
=============================================================================
