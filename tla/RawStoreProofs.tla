----------------------------- MODULE RawStoreProofs -----------------------------
(***************************************************************************)
(* The store keeps its types, the ownership of every identifier, and       *)
(* skeletons and records that are well formed, for any occurrences,        *)
(* vertices, builders and bounds.  TypeOK and Ownership are inductive      *)
(* together; that a commit disturbs no skeleton but its own, and so keeps  *)
(* the others well formed, is what Ownership is for.                       *)
(***************************************************************************)
EXTENDS RawStore, RawPrimitivesProofs

------------------------------------------------------------------------------
(* The invariant. *)

Inv == TypeOK /\ Ownership

\* The empty engine is sound.
LEMMA InitInv == Init => Inv
<1>. SUFFICES ASSUME Init PROVE Inv
  OBVIOUS
<1>1. /\ re.V = EmptyPool /\ re.E = EmptyPool /\ re.skel = EmptyPool
      /\ DOMAIN re.occ = {}
  BY DEF Init, EmptyEngine
<1>2. Live(EmptyPool) = {} /\ EmptyPool.free = <<>> /\ EmptyPool.size = 0
  BY DEF Live, EmptyPool
<1>3. IsPool(EmptyPool)
  BY <1>2 DEF IsPool, ToSet
<1>4. TypeOK
  BY <1>1, <1>2, <1>3 DEF TypeOK, IsEngine, Skels
<1>5. Ownership
  BY <1>1, <1>2 DEF Ownership, Owned, Partitioned, Skels
<1>. QED
  BY <1>4, <1>5 DEF Inv

\* Every operation keeps the engine sound.
LEMMA NextInv == Inv /\ [Next]_re => Inv'
<1>. SUFFICES ASSUME Inv, [Next]_re PROVE Inv'
  OBVIOUS
<1>1. IsEngine(re) /\ Owned(re)
  BY DEF Inv, TypeOK, Ownership
<1>2. SUFFICES IsEngine(re') /\ Owned(re')
  BY DEF Inv, TypeOK, Ownership
<1>3. ASSUME NEW o \in Occ, NEW v \in Vertex, NewOccurrence(o, v)
      PROVE  IsEngine(re') /\ Owned(re')
  <2>1. /\ re'.V = re.V /\ re'.E = re.E /\ re'.skel = re.skel
        /\ DOMAIN re'.occ = DOMAIN re.occ \cup {o}
    BY <1>3 DEF NewOccurrence, WithRecord
  <2>. QED
    BY <2>1, <1>1 DEF IsEngine, Owned, Skels
<1>4. ASSUME NewSkeleton PROVE IsEngine(re') /\ Owned(re')
  BY <1>1, <1>4, AllocSkeletonSound DEF NewSkeleton
<1>5. ASSUME NEW sid \in Skels(re), NEW B \in Builders, Commit(sid, B)
      PROVE  IsEngine(re') /\ Owned(re')
  <2>1. TypedBuilder(B)
    BY BuildersAssumption
  <2>2. re' = CommitSkeleton(re, sid, B)
    BY <1>5 DEF Commit
  <2>. QED
    BY <2>1, <2>2, <1>1, CommitSkeletonSound
<1>6. ASSUME NEW sid \in Skels(re), Clear(sid) PROVE IsEngine(re') /\ Owned(re')
  BY <1>1, <1>6, RetireContentsSound DEF Clear
<1>7. ASSUME NEW sid \in Skels(re), RetireSkeleton(sid) PROVE IsEngine(re') /\ Owned(re')
  <2>1. re.skel.val[sid].verts \in Seq(Nat) /\ re.skel.val[sid].edges \in Seq(Nat)
    BY <1>1 DEF IsEngine, RawSkeleton
  <2>2. ASSUME NEW s \in Seq(Nat), ToSet(s) = {} PROVE s = <<>>
    <3>1. DOMAIN s = 1 .. Len(s) /\ Len(s) \in Nat
      OBVIOUS
    <3>2. DOMAIN s = {}
      BY <2>2 DEF ToSet
    <3>. QED
      BY <3>2
  <2>3. re.skel.val[sid].verts = <<>> /\ re.skel.val[sid].edges = <<>>
    BY <2>1, <2>2, <1>7 DEF RetireSkeleton, VertsOf, EdgesOf
  <2>. QED
    BY <2>3, <1>1, <1>7, FreeSkeletonSound DEF RetireSkeleton
<1>8. ASSUME UNCHANGED re PROVE IsEngine(re') /\ Owned(re')
  BY <1>1, <1>8
<1>. QED
  BY <1>3, <1>4, <1>5, <1>6, <1>7, <1>8 DEF Next

\* TypeOK and Ownership hold in every reachable engine.
LEMMA StoreInvariant == Spec => []Inv
  BY InitInv, NextInv, PTL DEF Spec

\* The engine keeps its shape and its three free lists stay exact, whatever is
\* committed, cleared and retired in whatever order.
THEOREM StoreTypeCorrect == Spec => []TypeOK
<1>1. Inv => TypeOK
  BY DEF Inv
<1>. QED
  BY <1>1, StoreInvariant, PTL

\* commit_skeleton and retire_skeleton_contents neither leak a vertex or an edge
\* nor leave one in the lists of two skeletons.
THEOREM StoreOwnership == Spec => []Ownership
<1>1. Inv => Ownership
  BY DEF Inv
<1>. QED
  BY <1>1, StoreInvariant, PTL

------------------------------------------------------------------------------
(* Skeletons and records. *)

\* The empty engine is well kept, and every operation keeps it so.
LEMMA InitWellKept == Init => WellKept(re)
  BY DEF Init, EmptyEngine, EmptyPool, WellKept, Skels, Live

LEMMA NextWellKept == Inv /\ WellKept(re) /\ [Next]_re => WellKept(re)'
<1>. SUFFICES ASSUME Inv, WellKept(re), [Next]_re PROVE WellKept(re')
  OBVIOUS
<1>1. IsEngine(re) /\ Owned(re)
  BY DEF Inv, TypeOK, Ownership
<1>2. ASSUME NEW o \in Occ, NEW v \in Vertex, NewOccurrence(o, v) PROVE WellKept(re')
  <2>1. /\ re'.V = re.V /\ re'.E = re.E /\ re'.skel = re.skel
        /\ DOMAIN re'.occ = DOMAIN re.occ \cup {o}
        /\ \A p \in DOMAIN re.occ : re'.occ[p] = re.occ[p]
        /\ o \notin DOMAIN re.occ
    BY <1>2 DEF NewOccurrence, WithRecord
  <2>2. /\ Skels(re') = Skels(re)
        /\ \A t : HostedOf(re', t) = HostedOf(re, t) /\ SameContents(re, re', t)
    BY <2>1 DEF Skels, HostedOf, SameContents
  <2>3. \A t \in Skels(re') : IsGraph(re', t) /\ HostedOf(re', t) \subseteq DOMAIN re'.occ
    BY <2>1, <2>2, GraphFrame DEF WellKept
  <2>4. ASSUME NEW p \in DOMAIN re'.occ, re'.occ[p].host \in Skels(re'),
               p \in HostedOf(re', re'.occ[p].host)
        PROVE  IsCurrent(re', p)
    <3>1. p \in DOMAIN re.occ
      BY <2>2, <2>4 DEF WellKept
    <3>2. re'.occ[p] = re.occ[p]
      BY <2>1, <3>1
    <3>3. IsCurrent(re, p)
      BY <2>2, <2>4, <3>1, <3>2 DEF WellKept
    <3>. QED
      BY <2>2, <3>2, <3>3, CurrentFrame
  <2>. QED
    BY <2>3, <2>4 DEF WellKept
<1>3. ASSUME NewSkeleton PROVE WellKept(re')
  BY <1>1, <1>3, AllocSkeletonKeeps DEF NewSkeleton
<1>4. ASSUME NEW sid \in Skels(re), NEW B \in Builders, Commit(sid, B) PROVE WellKept(re')
  <2>1. TypedBuilder(B) /\ ValidBuilder(B)
    BY BuildersAssumption
  <2>2. re' = CommitSkeleton(re, sid, B) /\ OccsOf(B) \subseteq DOMAIN re.occ
    BY <1>4 DEF Commit
  <2>. QED
    BY <2>1, <2>2, <1>1, CommitSkeletonKeeps
<1>5. ASSUME NEW sid \in Skels(re), Clear(sid) PROVE WellKept(re')
  BY <1>1, <1>5, RetireContentsKeeps DEF Clear
<1>6. ASSUME NEW sid \in Skels(re), RetireSkeleton(sid) PROVE WellKept(re')
  BY <1>6, FreeSkeletonKeeps DEF RetireSkeleton
<1>7. ASSUME UNCHANGED re PROVE WellKept(re')
  BY <1>7
<1>. QED
  BY <1>2, <1>3, <1>4, <1>5, <1>6, <1>7 DEF Next

LEMMA StoreWellKept == Spec => []WellKept(re)
  BY InitWellKept, NextWellKept, StoreInvariant, PTL DEF Spec

\* Whatever is committed, cleared and retired, every skeleton is a graph of its
\* own: no edge leads to a vertex of another skeleton or to a retired one.
THEOREM StoreLocalGraph == Spec => []LocalGraph
<1>1. WellKept(re) => LocalGraph
  BY DEF WellKept, LocalGraph
<1>. QED
  BY <1>1, StoreWellKept, PTL

\* The record of an occurrence that its host still hosts names its own center
\* and core edges of its host.
THEOREM StoreRecordsCurrent == Spec => []RecordsCurrent
<1>1. WellKept(re) => RecordsCurrent
  BY DEF WellKept, RecordsCurrent
<1>. QED
  BY <1>1, StoreWellKept, PTL
=============================================================================
