------------------------------- MODULE NBOracle -------------------------------
(****************************************************************************)
(* LiteraturePotentialOracle of the branch 3 solver.  A branch query        *)
(* <<owner, a, b>> is active ("failing") while a path joins a and b that    *)
(* avoids owner: until then owner cannot be the lowest common ancestor of a *)
(* and b.  Deleting a vertex can only resolve queries.                      *)
(*                                                                          *)
(* The oracle does not ask the graph after every deletion.  The endpoints   *)
(* of an owner's active queries are kept in classes, endpoints joined       *)
(* without the owner together, and every class watches the vertices of one  *)
(* support, a connected piece of the graph that holds its endpoints and not *)
(* its owner.  Only the classes that watch the deleted vertex are looked at *)
(* again.  Which support a class gets is a choice here: the many ways the   *)
(* code builds one (from the artifact, by breadth-first search, by reusing  *)
(* parts of the old one) are not told apart.                                *)
(*                                                                          *)
(* A class is the pair <<owner, endpoints>>; its number in the code is only *)
(* a name.                                                                  *)
(****************************************************************************)
EXTENDS NBTopology

VARIABLES
  branches,   \* the branch queries
  active,     \* those still failing
  watch       \* class -> the vertices it watches

oracleVars == <<nbVars, branches, active, watch>>

Owner(q) == q[1]
Ends(q) == {q[2], q[3]}

QueriesOf(qs, class) == {q \in qs : Owner(q) = class[1] /\ Ends(q) \subseteq class[2]}

BucketIn(a, E, o, e) == Bucket(a, ChildrenOf(a, E, o), o, e)

(****************************************************************************)
(* The classes of the queries qs of one owner, by the buckets of the        *)
(* artifact.                                                                *)
(****************************************************************************)
ClassesBy(a, E, o, qs) ==
  LET ends == UNION {Ends(q) : q \in qs}
      buckets == {BucketIn(a, E, o, e) : e \in ends}
  IN  {<<o, {e \in ends : BucketIn(a, E, o, e) = b}>> : b \in buckets}

Together(a, E, q) ==
  LET b == BucketIn(a, E, Owner(q), q[2]) IN
  b # NoBucket /\ b = BucketIn(a, E, Owner(q), q[3])

(****************************************************************************)
(* The supports a class may be given, and the ways to give every class one. *)
(****************************************************************************)
Connected(E, W) ==
  \A A \in SUBSET W : A # {} /\ A # W =>
    \E e \in E : {e[1], e[2]} \subseteq W /\ (e[1] \in A) # (e[2] \in A)

IsSupport(E, class, W) == class[2] \subseteq W /\ class[1] \notin W /\ Connected(E, W)
Supports(E, class) == {W \in SUBSET Vertices : IsSupport(E, class, W)}

SupportChoices(E, classes) ==
  LET class == SetToSeq(classes)
      given[k \in 0 .. Len(class)] ==
        IF k = 0 THEN {<<>>}
        ELSE {With(w, class[k], W) : w \in given[k - 1], W \in Supports(E, class[k])}
  IN  given[Len(class)]

(****************************************************************************)
(* init: the topology is built; a query is active when its endpoints start  *)
(* in one bucket of their owner; every class gets a support.                *)
(****************************************************************************)
OracleInit ==
  /\ TopoInit
  /\ active = {q \in branches : Together(dfs, live, q)}
  /\ watch \in SupportChoices(live,
       UNION {ClassesBy(dfs, live, o, {q \in active : Owner(q) = o}) : o \in Vertices})

\* Mutant: only classes that lose an endpoint are looked at again.
TouchedByEndpoint(x) == {c \in DOMAIN watch : x \in c[2]}

(****************************************************************************)
(* gatherTouchedClassInfos.                                                 *)
(****************************************************************************)
TouchedClasses(x) == {c \in DOMAIN watch : x \in watch[c]}
OwnedClasses(x) == {c \in DOMAIN watch : c[1] = x}

(****************************************************************************)
(* collectImmediateFailureTouchedQueries: all active queries of the touched *)
(* classes end with x, so the topology need not hear of the owners.         *)
(****************************************************************************)
DiesWith(x) ==
  /\ TouchedClasses(x) # {}
  /\ \A c \in TouchedClasses(x) : \A q \in QueriesOf(active, c) : x \in Ends(q)

TopologyTouched(x) ==
  ~DiesWith(x) /\ (TouchedClasses(x) # {} \/ \E q \in active : Owner(q) = x)

\* Mutant: a query is resolved only with one of its own vertices.
ResolvedWith(x) == {q \in active : x \in {Owner(q)} \cup Ends(q)}

(****************************************************************************)
(* The queries a deletion resolves: those of x, and of the touched classes  *)
(* those that lost an endpoint or whose endpoints are in different buckets  *)
(* of the new artifact (refineTouchedClass...).                             *)
(****************************************************************************)
Resolved(x) ==
  {q \in active : Owner(q) = x}
  \cup {q \in UNION {QueriesOf(active, c) : c \in TouchedClasses(x)} :
          x \in Ends(q) \/ ~Together(dfs', live', q)}

NewClasses(x) ==
  UNION {ClassesBy(dfs', live', c[1], QueriesOf(active \ Resolved(x), c)) :
           c \in TouchedClasses(x)}

EraseVertex(x) ==
  /\ DeleteVertexAndSplit(x, TopologyTouched(x))
  /\ active' = active \ Resolved(x)
  /\ \E chosen \in SupportChoices(live', NewClasses(x)) :
       watch' = [c \in (DOMAIN watch \ (TouchedClasses(x) \cup OwnedClasses(x))) \cup NewClasses(x)
                   |-> IF c \in NewClasses(x) THEN chosen[c] ELSE watch[c]]
  /\ UNCHANGED branches

(****************************************************************************)
(* A query is active exactly as long as its endpoints are joined without    *)
(* its owner: no deletion that separates them goes unnoticed by the class   *)
(* that watches another support, and no query is resolved early.            *)
(* verifyTouchedOwnersExact compares the two for the touched owners.        *)
(****************************************************************************)
ActiveExact ==
  \A q \in branches :
    q \in active <=> /\ {q[1], q[2], q[3]} \subseteq alive
                     /\ q[3] \in Component({e \in live : ~Touches(e, q[1])}, q[2])

(****************************************************************************)
(* Between deletions a class watches live vertices only, and they join its  *)
(* endpoints without its owner; every active query is in one class and      *)
(* every class has one.  eraseVertex aborts on a live watch left on a       *)
(* deleted vertex.                                                          *)
(****************************************************************************)
WatchesHold ==
  /\ \A c \in DOMAIN watch :
       /\ {c[1]} \cup watch[c] \subseteq alive
       /\ IsSupport(live, c, watch[c])
       /\ QueriesOf(active, c) # {}
  /\ \A q \in active : Cardinality({c \in DOMAIN watch : q \in QueriesOf({q}, c)}) = 1

(****************************************************************************)
(* The watches notice every separation, and only separations.               *)
(****************************************************************************)
OracleExact == ActiveExact /\ WatchesHold
===============================================================================
