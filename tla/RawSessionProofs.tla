--------------------------- MODULE RawSessionProofs ---------------------------
(***************************************************************************)
(* Every sequence of legal calls of the primitives, on any engine that is  *)
(* sound to begin with, keeps it sound: no identifier is leaked or owned   *)
(* twice, every skeleton passes the validators, and what a call does not   *)
(* report it does not touch.                                               *)
(***************************************************************************)
EXTENDS RawSession, RawPrimitivesProofs

------------------------------------------------------------------------------
(* The session. *)

\* A call starts from the engine with empty dirty sets.
LEMMA FreshIsSound ==
  ASSUME NEW r, Sound(r)
  PROVE  LET x == Fresh(r) IN
         /\ Sound(x)
         /\ x.V = r.V /\ x.E = r.E /\ x.skel = r.skel /\ x.occ = r.occ
         /\ x.dirtySkel = {} /\ x.dirtyOcc = {}
<1>. DEFINE x == Fresh(r)
<1>2. /\ x.V = r.V /\ x.E = r.E /\ x.skel = r.skel /\ x.occ = r.occ
      /\ x.dirtySkel = {} /\ x.dirtyOcc = {}
      /\ IsRecordOfEngine(x)
  BY DEF Fresh, IsRecordOfEngine
<1>. HIDE DEF x
<1>3. Kept(r) /\ \A t \in Skels(r) : Consistent(r, t)
  BY SoundIsKept
<1>4. IsEngine(x) /\ Owned(x) /\ Skels(x) = Skels(r)
  BY <1>2, <1>3 DEF Kept, IsEngine, Owned, Skels
<1>5. Kept(x) /\ SameOccs(r, x)
  BY <1>2, <1>3, <1>4 DEF Kept, SameOccs
<1>6. ASSUME NEW t \in Skels(r) PROVE Consistent(x, t)
  <2>1. SameContents(r, x, t)
    BY <1>2 DEF SameContents
  <2>. QED
    BY <1>2, <1>3, <1>5, <2>1, ConsistentFrame
<1>7. Sound(x)
  BY <1>4, <1>5, <1>6, SoundIsKept
<1>. QED
  BY <1>2, <1>7 DEF x

LEMMA CallKeeps ==
  ASSUME Sound(re), Next
  PROVE  Partial(Fresh(re), re', Skels(re'))
<1>. DEFINE r == Fresh(re)
<1>1. Sound(r) /\ r.skel = re.skel
  BY FreshIsSound
<1>2. Skels(r) = Skels(re) /\ \A s \in Skels(re) : HostedOf(r, s) = HostedOf(re, s)
  BY <1>1 DEF Skels, HostedOf
<1>. HIDE DEF r
<1>3. ASSUME NEW s \in Skels(re), NEW o \in HostedOf(re, s), Isolate(s, o)
      PROVE  Partial(r, re', Skels(re'))
  <2>1. IsolateReady(r, s, o) /\ re' = IsolateVertex(r, s, o)
    BY <1>3 DEF Isolate, r
  <2>. QED
    BY <1>1, <1>2, <2>1, IsolateKeeps
<1>4. ASSUME NEW s \in Skels(re), NEW a, NEW b, Split(s, a, b)
      PROVE  Partial(r, re', Skels(re'))
  <2>1. SplitReady(r, s, a, b) /\ re' = SplitPair(r, s, a, b)
    BY <1>4 DEF Split, r
  <2>. QED
    BY <1>1, <1>2, <2>1, SplitKeeps
<1>5. ASSUME NEW s, NEW t, NEW a, NEW b, Join(s, t, a, b)
      PROVE  Partial(r, re', Skels(re'))
  <2>1. JoinReady(r, s, t, a, b) /\ re' = JoinPair(r, s, t, a, b)
    BY <1>5 DEF Join, r
  <2>. QED
    BY <1>1, <2>1, JoinKeeps
<1>6. ASSUME NEW s, NEW t, NEW bm, Integrate(s, t, bm)
      PROVE  Partial(r, re', Skels(re'))
  <2>1. IntegrateReady(r, s, t, bm) /\ re' = IntegrateSkeleton(r, s, t, bm)
    BY <1>6 DEF Integrate, r
  <2>. QED
    BY <1>1, <2>1, IntegrateKeeps
<1>7. Partial(r, re', Skels(re'))
  BY <1>3, <1>4, <1>5, <1>6 DEF Next
<1>. QED
  BY <1>7 DEF r

\* After every call each vertex and edge in use belongs to exactly one skeleton,
\* the pools are exact, and every skeleton is consistent with the records of its
\* occurrences, whatever skeletons the call retired and reused (EngineSound).
THEOREM SessionStaysSound == Spec => []EngineSound
<1>1. Init => EngineSound
  BY StartsAssumption DEF Init, EngineSound
<1>2. EngineSound /\ [Next]_vars => EngineSound'
  <2>1. ASSUME Sound(re), Next PROVE Sound(re')
    BY <2>1, CallKeeps, SoundIsKept DEF Partial
  <2>2. ASSUME Sound(re), UNCHANGED vars PROVE Sound(re')
    BY <2>2 DEF vars
  <2>. QED
    BY <2>1, <2>2 DEF EngineSound
<1>. QED
  BY <1>1, <1>2, PTL DEF Spec

\* The dirty sets of a call are complete: a skeleton or a record it does not report
\* is as it was before the call.
THEOREM SessionDirtyComplete == Spec => DirtyComplete
<1>. DEFINE Rest == /\ \A sid \in Skels(re') \ re'.dirtySkel :
                         /\ sid \in Skels(re)
                         /\ re'.skel.val[sid] = re.skel.val[sid]
                         /\ \A v \in VertsOf(re, sid) : re'.V.val[v] = re.V.val[v]
                         /\ \A e \in EdgesOf(re, sid) : re'.E.val[e] = re.E.val[e]
                    /\ \A o \in DOMAIN re.occ \ re'.dirtyOcc : re'.occ[o] = re.occ[o]
<1>1. ASSUME Sound(re), Next PROVE Rest
  <2>. DEFINE r == Fresh(re)
  <2>1. r.V = re.V /\ r.E = re.E /\ r.skel = re.skel /\ r.occ = re.occ
    BY <1>1, FreshIsSound
  <2>2. Partial(r, re', Skels(re'))
    BY <1>1, CallKeeps
  <2>. HIDE DEF r
  <2>3. /\ Skels(r) = Skels(re)
        /\ \A s \in Skels(re) : VertsOf(r, s) = VertsOf(re, s) /\ EdgesOf(r, s) = EdgesOf(re, s)
    BY <2>1 DEF Skels, VertsOf, EdgesOf
  <2>. QED
    BY <2>1, <2>2, <2>3 DEF Partial, SameContents
<1>2. Sound(re) /\ [Next]_vars => [Rest]_vars
  BY <1>1
<1>3. Spec => [][Rest]_vars
  <2>1. EngineSound /\ [Next]_vars => [Rest]_vars
    BY <1>2 DEF EngineSound
  <2>. QED
    BY <2>1, SessionStaysSound, PTL DEF Spec
<1>. QED
  BY <1>3 DEF DirtyComplete
==============================================================================
