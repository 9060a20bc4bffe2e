-------------------------------- MODULE RawStore --------------------------------
(***************************************************************************)
(* The raw engine as a store: the functions of raw_core.cpp called in any  *)
(* order, with the arguments their callers guarantee.                      *)
(***************************************************************************)
EXTENDS RawEngine

CONSTANTS
  Builders,   \* the builders the callers commit
  MaxSkel,    \* bound of the model: skeleton slots
  MaxVerts    \* bound of the model: vertex slots

\* Every primitive asserts that its builders are valid before it commits them.
ASSUME BuildersAssumption ==
  \A B \in Builders : TypedBuilder(B) /\ ValidBuilder(B)

VARIABLE re   \* RawEngine and RawUpdateCtx

Init == re = EmptyEngine

WithRecord(r, o, record) ==
  [V |-> r.V, E |-> r.E, skel |-> r.skel,
   occ |-> [x \in DOMAIN r.occ \cup {o} |-> IF x = o THEN record ELSE r.occ[x]],
   dirtySkel |-> r.dirtySkel, dirtyOcc |-> r.dirtyOcc]

\* occ.alloc(make_occ_record(orig)): host and center start at 0, which is also
\* the first skeleton and the first vertex.
NewOccurrence(o, v) ==
  /\ o \notin DOMAIN re.occ
  /\ re' = WithRecord(re, o, [orig |-> v, host |-> 0, center |-> 0, nbr |-> {}, patch |-> {}])

NewSkeleton ==
  /\ NextSkel(re) < MaxSkel
  /\ re' = AllocSkeleton(re)

Commit(sid, B) ==
  /\ OccsOf(B) \subseteq DOMAIN re.occ
  /\ re' = CommitSkeleton(re, sid, B)
  /\ re'.V.size <= MaxVerts

Clear(sid) == re' = RetireContents(re, sid)

RetireSkeleton(sid) ==
  /\ VertsOf(re, sid) = {}
  /\ EdgesOf(re, sid) = {}
  /\ re' = FreeSkeleton(re, sid)

Next ==
  \/ \E o \in Occ, v \in Vertex : NewOccurrence(o, v)
  \/ NewSkeleton
  \/ \E sid \in Skels(re) :
       \/ \E B \in Builders : Commit(sid, B)
       \/ Clear(sid)
       \/ RetireSkeleton(sid)

Spec == Init /\ [][Next]_re

------------------------------------------------------------------------------
(* Properties. *)

\* The shape of the engine; above all its three pools keep their free lists
\* exact, so no identifier is retired twice.
TypeOK == IsEngine(re)

\* Every vertex in use and every edge in use is listed by exactly one skeleton,
\* at one place: commit_skeleton and retire_skeleton_contents neither leak an
\* identifier nor leave one in two skeletons when the pools reuse it.
Ownership == Owned(re)

\* Each skeleton is a graph of its own: its edges join two different vertices of
\* the same skeleton, its vertices list exactly the edges that end there, and
\* it hosts exactly the occurrences of its centers.
LocalGraph == \A sid \in Skels(re) : IsGraph(re, sid)

\* A record whose host still hosts the occurrence is current: its center is the
\* center of this occurrence and its core patch consists of core edges of the
\* host, although both are identifiers that are reused at every commit.
RecordsCurrent ==
  \A o \in DOMAIN re.occ :
    /\ re.occ[o].host \in Skels(re)
    /\ o \in HostedOf(re, re.occ[o].host)
    => IsCurrent(re, o)
=============================================================================
