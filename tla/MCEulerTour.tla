------------------------------ MODULE MCEulerTour -----------------------------
EXTENDS EulerTour

Addresses == 1 .. 12
Six == 0 .. 5

(****************************************************************************)
(* States that differ only in the addresses of their entries are one state: *)
(* an entry is named by its vertex and by the place the edges hold it in.   *)
(* A state in which these names are not unique, or in which a pointer leads *)
(* to no entry, is only equal to itself.                                    *)
(****************************************************************************)
NameOf(e) ==
  <<vert[e], {h \in (DOMAIN handle) \X {1, 2} : handle[h[1]][h[2]] = e}>>

Pointers ==
  {any[v] : v \in Vertices} \cup ({anyRoot} \ {Nil})
  \cup UNION {ToSeqSet(handle[x]) : x \in DOMAIN handle} \cup UNION {ToSeqSet(s) : s \in tours}

UpToAddresses ==
  LET name == [e \in DOMAIN vert |-> NameOf(e)] IN
  IF /\ Pointers \subseteq DOMAIN vert
     /\ \A e, f \in DOMAIN vert : name[e] = name[f] => e = f
  THEN << {<<name[e], edges[e]>> : e \in DOMAIN vert},
          {[i \in DOMAIN s |-> name[s[i]]] : s \in tours},
          [v \in Vertices |-> name[any[v]]],
          IF anyRoot = Nil THEN <<>> ELSE name[anyRoot],
          <<>> >>
  ELSE << tourVars, <<>>, <<>>, <<>>, vert >>

(****************************************************************************)
(* All forests on the first four of six vertices with counters at three of  *)
(* them, and all forests within a spider: four legs at vertex 0, one of     *)
(* them of length two, and a counter at vertex 0 only.  The spider is the   *)
(* smallest forest in which a tour can begin with an entry of vertex 0      *)
(* while another one represents it, and stays in the middle when the first  *)
(* crossing is cut.                                                         *)
(****************************************************************************)
AmongFour == {x \in AllEdges : x[2] <= 3}
Legs == {<<0, 1>>, <<0, 2>>, <<0, 3>>, <<0, 4>>, <<4, 5>>}

InFour == DOMAIN handle \subseteq AmongFour
InSpider == DOMAIN handle \subseteq Legs /\ \A v \in Vertices \ {0} : edges[any[v]] = 0

MCNext ==
  \/ \E u, v \in Vertices : Link(u, v) /\ (InFour' \/ InSpider')
  \/ \E x \in AllEdges : Cut(x)
  \/ \E v \in 0 .. 2 : (InFour \/ v = 0) /\ (Increment(v) \/ Decrement(v))

MCSpec == TourInit /\ [][MCNext]_tourVars
===============================================================================
