---------------------------- MODULE MCForestCore ------------------------------
EXTENDS ForestCore

(****************************************************************************)
(* Seven vertices and the isolated vertex 0, so four levels.  The graphs:   *)
(* two triangles joined by vertex 4 and by the edge <<3, 5>>; the same with *)
(* the labels of the triangles interleaved; a ladder with a tail; a wheel.  *)
(* Edges come in increasing order, as the solver sorts them.                *)
(****************************************************************************)
Seven == 0 .. 7

Bowtie == << <<1,2>>, <<1,3>>, <<1,4>>, <<2,3>>, <<3,5>>, <<4,5>>, <<5,6>>, <<5,7>>, <<6,7>> >>
Mixed == << <<1,3>>, <<1,4>>, <<1,5>>, <<2,4>>, <<2,6>>, <<2,7>>, <<3,5>>, <<5,7>>, <<6,7>> >>
Ladder == << <<1,2>>, <<1,3>>, <<2,4>>, <<3,4>>, <<3,5>>, <<4,6>>, <<5,6>>, <<6,7>> >>
Wheel == << <<1,2>>, <<1,3>>, <<1,4>>, <<1,5>>, <<1,6>>, <<1,7>>, <<2,3>>, <<2,7>>, <<3,4>>, <<4,5>>, <<5,6>>, <<6,7>> >>

Graphs == {Bowtie, Mixed, Ladder, Wheel}
===============================================================================
