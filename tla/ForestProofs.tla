----------------------------- MODULE ForestProofs -----------------------------
(****************************************************************************)
(* Proofs about the dynamic forests of the branch 3 solver, for any number  *)
(* of vertices and levels and any input.  First the graph theory: a forest  *)
(* with one edge more or less, by components as the smallest closed sets.   *)
(* Then ForestCore: the forests, the lists and the level fields agree at    *)
(* every step of every search, and levels only fall.  Then EulerTour: what  *)
(* linking and cutting make of the tours, and that the tours implement the  *)
(* forest of vertex sets.  Neither needs induction over paths: the tours    *)
(* carry where an edge parts them, and sizes are counted by bijections.     *)
(****************************************************************************)
EXTENDS ForestCore, EulerTour, SequenceTheorems, FiniteSetTheorems, WellFoundedInduction, TLAPS

--------------------------------------------------------------------------------
(* Components. *)

LEMMA ComponentClosed ==
  ASSUME NEW E \in SUBSET AllEdges, NEW v \in Vertices
  PROVE  /\ Component(E, v) \subseteq Vertices
         /\ v \in Component(E, v)
         /\ Closed(Component(E, v), E)
<1>1. Component(E, v) \subseteq Vertices /\ v \in Component(E, v)
  BY DEF Component
<1>2. ASSUME NEW e \in E PROVE e[1] \in Component(E, v) <=> e[2] \in Component(E, v)
  BY DEF Component, Closed, AllEdges
<1>. QED
  BY <1>1, <1>2 DEF Closed

LEMMA ComponentSmallest ==
  ASSUME NEW E, NEW v, NEW S \in SUBSET Vertices, v \in S, Closed(S, E)
  PROVE  Component(E, v) \subseteq S
BY DEF Component

LEMMA ComponentSame ==
  ASSUME NEW E \in SUBSET AllEdges, NEW v \in Vertices, NEW u \in Component(E, v)
  PROVE  Component(E, u) = Component(E, v)
<1>1. u \in Vertices
  BY ComponentClosed
<1>2. Component(E, u) \subseteq Component(E, v)
  BY ComponentClosed, ComponentSmallest
<1>3. v \in Component(E, u)
  <2>1. SUFFICES ASSUME v \notin Component(E, u) PROVE FALSE
    OBVIOUS
  <2>. DEFINE S == Vertices \ Component(E, u)
  <2>2. Closed(S, E)
    BY <1>1, ComponentClosed DEF Closed, AllEdges
  <2>3. v \in S /\ u \notin S
    BY <1>1, <2>1, ComponentClosed
  <2>. HIDE DEF S
  <2>4. S \in SUBSET Vertices
    BY DEF S
  <2>. QED
    BY <2>2, <2>3, <2>4, ComponentSmallest
<1>4. Component(E, v) \subseteq Component(E, u)
  BY <1>1, <1>3, ComponentClosed, ComponentSmallest
<1>. QED
  BY <1>2, <1>4

LEMMA ComponentGrows ==
  ASSUME NEW F \in SUBSET AllEdges, NEW E \in SUBSET F, NEW v \in Vertices
  PROVE  Component(E, v) \subseteq Component(F, v)
<1>1. Closed(Component(F, v), E)
  BY ComponentClosed DEF Closed
<1>. QED
  BY <1>1, ComponentClosed, ComponentSmallest

--------------------------------------------------------------------------------
(* One edge more. *)

\* The component of x when e is added.
LEMMA ComponentLinked ==
  ASSUME NEW E \in SUBSET AllEdges, NEW e \in AllEdges, NEW x \in Vertices
  PROVE  Component(E \cup {e}, x) =
           IF x \in Component(E, e[1]) \cup Component(E, e[2])
           THEN Component(E, e[1]) \cup Component(E, e[2]) ELSE Component(E, x)
<1>. DEFINE F == E \cup {e}
            B == Component(E, e[1]) \cup Component(E, e[2])
<1>1. /\ F \in SUBSET AllEdges /\ E \in SUBSET F /\ e \in F
      /\ e[1] \in Vertices /\ e[2] \in Vertices
  BY DEF AllEdges
<1>. HIDE DEF F
<1>2. CASE x \in B
  <2>1. e[1] \in Component(F, x)
    <3>1. CASE x \in Component(E, e[1])
      <4>1. x \in Component(F, e[1])
        BY <1>1, <3>1, ComponentGrows
      <4>2. Component(F, x) = Component(F, e[1])
        BY <1>1, <4>1, ComponentSame
      <4>. QED
        BY <1>1, <4>2, ComponentClosed
    <3>2. CASE x \in Component(E, e[2])
      <4>1. x \in Component(F, e[2])
        BY <1>1, <3>2, ComponentGrows
      <4>2. Component(F, x) = Component(F, e[2])
        BY <1>1, <4>1, ComponentSame
      <4>3. e[2] \in Component(F, x) /\ Closed(Component(F, x), F)
        BY <1>1, <4>2, ComponentClosed
      <4>. QED
        BY <1>1, <4>3 DEF Closed
    <3>. QED
      BY <1>2, <3>1, <3>2
  <2>2. e[2] \in Component(F, x)
    BY <1>1, <2>1, ComponentClosed DEF Closed
  <2>3. Component(F, e[1]) = Component(F, x) /\ Component(F, e[2]) = Component(F, x)
    BY <1>1, <2>1, <2>2, ComponentSame
  <2>4. B \subseteq Component(F, x)
    BY <1>1, <2>3, ComponentGrows
  <2>5. Closed(B, F)
    <3>1. Closed(Component(E, e[1]), E) /\ Closed(Component(E, e[2]), E)
      BY <1>1, ComponentClosed
    <3>2. e[1] \in B /\ e[2] \in B
      BY <1>1, ComponentClosed
    <3>. QED
      BY <3>1, <3>2 DEF Closed, F
  <2>6. Component(F, x) \subseteq B
    <3>1. B \in SUBSET Vertices
      BY <1>1, ComponentClosed
    <3>. HIDE DEF B
    <3>. QED
      BY <1>2, <2>5, <3>1, ComponentSmallest
  <2>. QED
    BY <1>2, <2>4, <2>6 DEF F
<1>3. CASE x \notin B
  <2>1. e[1] \notin Component(E, x) /\ e[2] \notin Component(E, x)
    <3>1. ASSUME NEW y \in {e[1], e[2]}, y \in Component(E, x) PROVE FALSE
      <4>1. Component(E, y) = Component(E, x)
        BY <3>1, ComponentSame
      <4>2. x \in Component(E, y)
        BY <4>1, ComponentClosed
      <4>. QED
        BY <1>3, <4>2
    <3>. QED
      BY <3>1
  <2>2. Closed(Component(E, x), F)
    BY <2>1, ComponentClosed DEF Closed, F
  <2>3. Component(F, x) \subseteq Component(E, x)
    BY <2>2, ComponentClosed, ComponentSmallest
  <2>4. Component(E, x) \subseteq Component(F, x)
    BY <1>1, ComponentGrows
  <2>. QED
    BY <1>3, <2>3, <2>4 DEF F
<1>. QED
  BY <1>2, <1>3

LEMMA ComponentsLinked ==
  ASSUME NEW E \in SUBSET AllEdges, NEW e \in AllEdges
  PROVE  Components(E \cup {e}) = Linked(Components(E), e[1], e[2])
<1>1. e[1] \in Vertices /\ e[2] \in Vertices
  BY DEF AllEdges
<1>2. ASSUME NEW x \in Vertices
      PROVE  Component(E \cup {e}, x) = Linked(Components(E), e[1], e[2])[x]
  <2>1. /\ Components(E)[e[1]] = Component(E, e[1])
        /\ Components(E)[e[2]] = Component(E, e[2])
        /\ Components(E)[x] = Component(E, x)
    BY <1>1 DEF Components
  <2>2. Linked(Components(E), e[1], e[2])[x]
          = IF x \in Component(E, e[1]) \cup Component(E, e[2])
            THEN Component(E, e[1]) \cup Component(E, e[2]) ELSE Component(E, x)
    BY <2>1 DEF Linked
  <2>3. Component(E \cup {e}, x)
          = IF x \in Component(E, e[1]) \cup Component(E, e[2])
            THEN Component(E, e[1]) \cup Component(E, e[2]) ELSE Component(E, x)
    BY ComponentLinked
  <2>. QED
    BY ONLY <2>2, <2>3
<1>. QED
  BY <1>2 DEF Linked, Components

\* An edge between two components closes no cycle.
LEMMA AcyclicLinked ==
  ASSUME NEW E \in SUBSET AllEdges, Acyclic(E), NEW e \in AllEdges,
         e[2] \notin Component(E, e[1])
  PROVE  Acyclic(E \cup {e})
<1>. SUFFICES ASSUME NEW x \in E \cup {e}, x[2] \in Component((E \cup {e}) \ {x}, x[1])
              PROVE  FALSE
  BY DEF Acyclic
<1>1. x \in AllEdges /\ x[1] \in Vertices /\ x[2] \in Vertices /\ e[1] \in Vertices /\ e[2] \in Vertices
  BY DEF AllEdges
<1>2. CASE x = e
  <2>1. (E \cup {e}) \ {x} \in SUBSET E
    BY <1>2
  <2>2. Component((E \cup {e}) \ {x}, x[1]) \subseteq Component(E, x[1])
    BY <1>1, <2>1, ComponentGrows
  <2>. QED
    BY <1>2, <2>2
<1>3. CASE x # e
  <2>. DEFINE D == E \ {x}
              C1 == Component(D, e[1])
              C2 == Component(D, e[2])
  <2>1. x \in E /\ (E \cup {e}) \ {x} = D \cup {e} /\ D \in SUBSET AllEdges /\ D \in SUBSET E
    BY <1>3
  <2>2. x[2] \notin Component(D, x[1])
    BY <2>1 DEF Acyclic
  <2>. HIDE DEF D
  <2>. HIDE DEF C1, C2
  <2>3. Component(D \cup {e}, x[1]) = IF x[1] \in C1 \cup C2 THEN C1 \cup C2 ELSE Component(D, x[1])
    <3>1. D \in SUBSET AllEdges
      BY <2>1
    <3>2. \A y \in Vertices : Component(D \cup {e}, y) =
            IF y \in C1 \cup C2 THEN C1 \cup C2 ELSE Component(D, y)
      BY ONLY <3>1, e \in AllEdges, ComponentLinked DEF C1, C2
    <3>. QED
      BY <1>1, <3>2
  <2>4. x[1] \in C1 \cup C2 /\ x[2] \in C1 \cup C2
    BY <2>1, <2>2, <2>3
  <2>5. (x[1] \in C1 => x[2] \notin C1) /\ (x[1] \in C2 => x[2] \notin C2)
    BY <1>1, <2>1, <2>2, ComponentSame DEF C1, C2
  <2>6. C1 \subseteq Component(E, e[1]) /\ C2 \subseteq Component(E, e[2])
    BY <1>1, <2>1, ComponentGrows DEF C1, C2
  <2>7. \E y \in {x[1], x[2]} : y \in Component(E, e[1])
    BY <2>4, <2>5, <2>6
  <2>8. \E y \in {x[1], x[2]} : y \in Component(E, e[2])
    BY <2>4, <2>5, <2>6
  <2>9. x[1] \in Component(E, e[1]) /\ x[1] \in Component(E, e[2])
    <3>1. Closed(Component(E, e[1]), E) /\ Closed(Component(E, e[2]), E)
      BY <1>1, ComponentClosed
    <3>. QED
      BY <2>1, <2>7, <2>8, <3>1 DEF Closed
  <2>10. Component(E, e[1]) = Component(E, e[2])
    BY <1>1, <2>9, ComponentSame
  <2>. QED
    BY <1>1, <2>10, ComponentClosed
<1>. QED
  BY <1>2, <1>3

--------------------------------------------------------------------------------
(* Fewer edges. *)

LEMMA AcyclicSubset ==
  ASSUME NEW E \in SUBSET AllEdges, Acyclic(E), NEW F \in SUBSET E
  PROVE  Acyclic(F)
<1>. SUFFICES ASSUME NEW x \in F PROVE x[2] \notin Component(F \ {x}, x[1])
  BY DEF Acyclic
<1>1. x[1] \in Vertices /\ F \ {x} \in SUBSET (E \ {x}) /\ E \ {x} \in SUBSET AllEdges
  BY DEF AllEdges
<1>2. Component(F \ {x}, x[1]) \subseteq Component(E \ {x}, x[1])
  BY <1>1, ComponentGrows
<1>. QED
  BY <1>2 DEF Acyclic

\* Cutting an edge out of its tree.
LEMMA ComponentsCut ==
  ASSUME NEW E \in SUBSET AllEdges, Acyclic(E), NEW e \in E
  PROVE  CutTree(Components(E), E \ {e}, e) = Components(E \ {e})
<1>. DEFINE D == E \ {e}
            C1 == Component(D, e[1])
            C2 == Component(D, e[2])
            W == Component(E, e[1])
<1>1. /\ e \in AllEdges /\ e[1] \in Vertices /\ e[2] \in Vertices
      /\ D \in SUBSET AllEdges /\ E = D \cup {e}
  BY DEF AllEdges
<1>2. e[2] \notin C1
  BY DEF Acyclic
<1>. HIDE DEF D
<1>3. e[1] \in C1 /\ e[2] \in C2 /\ C1 \subseteq Vertices /\ C2 \subseteq Vertices
      /\ Closed(C1, D) /\ Closed(C2, D)
  BY <1>1, ComponentClosed
<1>4. \A x \in Vertices : Component(E, x) = IF x \in C1 \cup C2 THEN C1 \cup C2 ELSE Component(D, x)
  <2>. HIDE DEF C1, C2
  <2>1. \A x \in Vertices : Component(D \cup {e}, x) =
          IF x \in C1 \cup C2 THEN C1 \cup C2 ELSE Component(D, x)
    BY <1>1, ComponentLinked DEF C1, C2
  <2>. QED
    BY <1>1, <2>1
<1>5. W = C1 \cup C2
  BY <1>1, <1>3, <1>4
<1>6. \A x \in C1 : Component(D, x) = C1
  BY <1>1, ComponentSame
<1>7. \A x \in C2 : Component(D, x) = C2
  BY <1>1, ComponentSame
<1>8. C1 \cap C2 = {}
  BY <1>2, <1>3, <1>6, <1>7
<1>9. Half(W, D, e) = C1
  <2>1. C1 \in SUBSET W /\ e[1] \in C1 /\ e[2] \notin C1 /\ Closed(C1, D)
    BY <1>2, <1>3, <1>5
  <2>2. ASSUME NEW A \in SUBSET W, e[1] \in A, e[2] \notin A, Closed(A, D)
        PROVE  A = C1
    <3>1. A \in SUBSET Vertices
      BY <1>3, <1>5
    <3>2. C1 \subseteq A
      BY <2>2, <3>1, ComponentSmallest
    <3>. DEFINE B == Vertices \ A
    <3>3. B \in SUBSET Vertices /\ e[2] \in B /\ Closed(B, D)
      BY <1>1, <2>2 DEF Closed, AllEdges
    <3>. HIDE DEF B
    <3>4. C2 \subseteq B
      BY <3>3, ComponentSmallest
    <3>5. A \cap C2 = {}
      BY <3>4 DEF B
    <3>. QED
      BY <1>5, <3>2, <3>5
  <2>. HIDE DEF W, C1
  <2>. QED
    BY <2>1, <2>2 DEF Half
<1>10. \A x \in Vertices : CutTree(Components(E), D, e)[x] = Component(D, x)
  <2>. HIDE DEF C1, C2
  <2>1. Components(E)[e[1]] = W
    BY <1>1 DEF Components
  <2>2. \A x \in Vertices : Components(E)[x] = Component(E, x)
    BY DEF Components
  <2>. HIDE DEF W
  <2>3. \A x \in Vertices : CutTree(Components(E), D, e)[x] =
          IF x \in C1 THEN C1 ELSE IF x \in W THEN W \ C1 ELSE Component(E, x)
    BY <1>9, <2>1, <2>2 DEF CutTree
  <2>. QED
    BY <1>4, <1>5, <1>6, <1>7, <1>8, <2>3
<1>11. CutTree(Components(E), D, e) = [x \in Vertices |-> CutTree(Components(E), D, e)[x]]
  BY DEF CutTree
<1>12. Components(D) = [x \in Vertices |-> CutTree(Components(E), D, e)[x]]
  BY <1>10 DEF Components
<1>. QED
  BY <1>11, <1>12 DEF D

--------------------------------------------------------------------------------
(* Lists without repetition. *)

Items(s) == {s[i] : i \in DOMAIN s}
NoRepeat(s) == \A i, j \in DOMAIN s : s[i] = s[j] => i = j

LEMMA ListAppend ==
  ASSUME NEW S, NEW s \in Seq(S), NEW x \in S, NoRepeat(s), x \notin Items(s)
  PROVE  /\ Append(s, x) \in Seq(S) /\ NoRepeat(Append(s, x))
         /\ Items(Append(s, x)) = Items(s) \cup {x}
<1>1. /\ Append(s, x) \in Seq(S) /\ Len(s) \in Nat /\ DOMAIN s = 1 .. Len(s)
      /\ DOMAIN Append(s, x) = 1 .. Len(s) + 1
      /\ \A i \in 1 .. Len(s) : Append(s, x)[i] = s[i]
      /\ Append(s, x)[Len(s) + 1] = x
  OBVIOUS
<1>2. NoRepeat(Append(s, x))
  BY <1>1 DEF NoRepeat, Items
<1>3. Items(Append(s, x)) = Items(s) \cup {x}
  BY <1>1 DEF Items
<1>. QED
  BY <1>1, <1>2, <1>3

LEMMA ListWithout ==
  ASSUME NEW S, NEW s \in Seq(S), NEW x \in Items(s), NoRepeat(s)
  PROVE  /\ Without(s, x) \in Seq(S) /\ NoRepeat(Without(s, x))
         /\ Items(Without(s, x)) = Items(s) \ {x}
<1>. DEFINE i == CHOOSE k \in DOMAIN s : s[k] = x
            n == Len(s)
            t == SubSeq(s, 1, i - 1)
            u == SubSeq(s, i + 1, Len(s))
            w == t \o u
<1>1. n \in Nat /\ DOMAIN s = 1 .. n
  OBVIOUS
<1>2. i \in 1 .. n /\ s[i] = x
  <2>1. \E k \in DOMAIN s : s[k] = x
    BY DEF Items
  <2>. QED
    BY <1>1, <2>1
<1>. HIDE DEF i
<1>3. t \in Seq(S) /\ Len(t) = i - 1 /\ \A k \in 1 .. i - 1 : t[k] = s[k]
  <2>1. \A k \in 1 .. i - 1 : s[k] \in S
    BY <1>1, <1>2, ElementOfSeq
  <2>2. /\ SubSeq(s, 1, i - 1) \in Seq(S)
        /\ Len(SubSeq(s, 1, i - 1)) = IF 1 <= i - 1 THEN i - 1 - 1 + 1 ELSE 0
        /\ \A k \in 1 .. i - 1 - 1 + 1 : SubSeq(s, 1, i - 1)[k] = s[1 + k - 1]
    BY <1>1, <1>2, <2>1, SubSeqProperties
  <2>. QED
    BY <1>1, <1>2, <2>2
<1>4. u \in Seq(S) /\ Len(u) = n - i /\ \A k \in 1 .. n - i : u[k] = s[i + k]
  <2>1. \A k \in i + 1 .. Len(s) : s[k] \in S
    BY <1>1, <1>2, ElementOfSeq
  <2>2. /\ SubSeq(s, i + 1, Len(s)) \in Seq(S)
        /\ Len(SubSeq(s, i + 1, Len(s))) = IF i + 1 <= Len(s) THEN Len(s) - (i + 1) + 1 ELSE 0
        /\ \A k \in 1 .. Len(s) - (i + 1) + 1 : SubSeq(s, i + 1, Len(s))[k] = s[i + 1 + k - 1]
    BY <1>1, <1>2, <2>1, SubSeqProperties
  <2>. HIDE DEF u
  <2>3. u = SubSeq(s, i + 1, Len(s))
    BY DEF u
  <2>4. Len(s) - (i + 1) + 1 = n - i /\ \A k \in 1 .. n - i : i + 1 + k - 1 = i + k
    BY <1>1, <1>2
  <2>5. u \in Seq(S) /\ Len(u) = IF i + 1 <= n THEN n - i ELSE 0
    BY <2>2, <2>3, <2>4
  <2>6. Len(u) = n - i
    <3>. HIDE DEF n
    <3>1. n \in Int /\ i \in Int /\ i <= n
      BY <1>1, <1>2
    <3>. QED
      BY ONLY <2>5, <3>1
  <2>. QED
    BY <2>2, <2>3, <2>4, <2>5, <2>6
<1>. HIDE DEF t, u
<1>5. /\ w \in Seq(S) /\ Len(w) = n - 1
      /\ \A k \in 1 .. n - 1 : w[k] = IF k <= i - 1 THEN t[k] ELSE u[k - (i - 1)]
  <2>1. /\ t \o u \in Seq(S) /\ Len(t \o u) = Len(t) + Len(u)
        /\ \A k \in 1 .. Len(t) + Len(u) :
             (t \o u)[k] = IF k <= Len(t) THEN t[k] ELSE u[k - Len(t)]
    BY <1>3, <1>4, ConcatProperties
  <2>. QED
    BY <1>1, <1>2, <1>3, <1>4, <2>1
<1>6. \A k \in 1 .. n - 1 : w[k] = IF k < i THEN s[k] ELSE s[k + 1]
  <2>1. ASSUME NEW k \in 1 .. n - 1, k < i PROVE w[k] = s[k]
    BY <1>1, <1>2, <1>3, <1>5, <2>1
  <2>2. ASSUME NEW k \in 1 .. n - 1, ~(k < i) PROVE w[k] = s[k + 1]
    <3>1. k - (i - 1) \in 1 .. n - i /\ i + (k - (i - 1)) = k + 1 /\ ~(k <= i - 1)
      BY <1>1, <1>2, <2>2
    <3>. QED
      BY <1>4, <1>5, <3>1
  <2>. QED
    BY <2>1, <2>2
<1>7. Without(s, x) = w
  BY DEF Without, i, t, u
<1>. HIDE DEF w
<1>8. DOMAIN w = 1 .. n - 1
  BY <1>5
<1>9. NoRepeat(w)
  <2>. SUFFICES ASSUME NEW j \in 1 .. n - 1, NEW k \in 1 .. n - 1, w[j] = w[k] PROVE j = k
    BY <1>8 DEF NoRepeat
  <2>. QED
    BY <1>1, <1>2, <1>6 DEF NoRepeat
<1>10. ASSUME NEW y \in Items(w) PROVE y \in Items(s) \ {x}
  <2>1. PICK k \in 1 .. n - 1 : y = w[k]
    BY <1>8 DEF Items
  <2>. QED
    BY <1>1, <1>2, <1>6, <2>1 DEF Items, NoRepeat
<1>11. ASSUME NEW y \in Items(s) \ {x} PROVE y \in Items(w)
  <2>1. PICK j \in 1 .. n : y = s[j] /\ j # i
    BY <1>1, <1>2 DEF Items
  <2>2. CASE j < i
    <3>1. j \in 1 .. n - 1 /\ w[j] = y
      BY <1>1, <1>2, <1>6, <2>1, <2>2
    <3>. QED
      BY <1>8, <3>1 DEF Items
  <2>3. CASE j > i
    <3>1. j - 1 \in 1 .. n - 1 /\ w[j - 1] = y
      BY <1>1, <1>2, <1>6, <2>1, <2>3
    <3>. QED
      BY <1>8, <3>1 DEF Items
  <2>. QED
    BY <1>2, <2>1, <2>2, <2>3
<1>. QED
  BY <1>5, <1>7, <1>9, <1>10, <1>11

--------------------------------------------------------------------------------
(****************************************************************************)
(* The inductive invariant: LevelsDescribed, types, and what a search knows *)
(* of the edges it holds.  The two ends of the removed edge are in          *)
(* different trees at the top for as long as the search lasts.              *)
(****************************************************************************)
GraphTyped ==
  /\ DOMAIN edge \subseteq AllEdges
  /\ \A e \in DOMAIN edge : edge[e] \in EdgeRecord
  /\ list \in [Levels -> Seq(AllEdges)]
  /\ tree \in [Levels -> [Vertices -> SUBSET Vertices]]

GraphOK == GraphTyped /\ ListsAgree /\ ForestsSpan

SearchOK ==
  /\ phase \in {"idle", "search", "scan"}
  /\ level \in 0 .. Size
  /\ phase # "idle" => near \in Vertices /\ far \in Vertices /\ far \notin tree[Top][near]
  /\ phase = "scan" => level \in Levels /\ pending \subseteq tree[level][near]
  /\ phase # "scan" => todo = {}
  /\ \A x \in todo : x \in DOMAIN edge /\ edge[x].lvl = level /\ Touches(x, at)
  /\ todo # {} => at \in tree[level][near]
  /\ found # NoEdge =>
       /\ phase = "scan" /\ found \in DOMAIN edge
       /\ edge[found].lvl = level /\ ~edge[found].isTree
       /\ found[2] \notin tree[Top][found[1]]

ForestInv == GraphOK /\ SearchOK

LEMMA LevelFacts ==
  /\ Top \in Levels /\ Size \in Nat /\ Levels \subseteq Nat
  /\ \A l \in Levels : l \in Nat /\ l <= Top /\ l < Size
BY SizeAssumption DEF Levels, Top

LEMMA EdgeLevel ==
  ASSUME GraphOK, NEW e \in DOMAIN edge
  PROVE  /\ e \in AllEdges /\ edge[e].lvl \in Levels
         /\ edge[e].lvl \in Nat /\ edge[e].lvl <= Top /\ Top \in Nat
<1>1. e \in AllEdges /\ edge[e].lvl \in Levels
  BY DEF GraphOK, GraphTyped, EdgeRecord
<1>. QED
  BY <1>1, SizeAssumption DEF Levels, Top

LEMMA TreeEdgesFacts ==
  ASSUME GraphOK, NEW l \in Levels
  PROVE  /\ TreeEdgesUpTo(l) \in SUBSET AllEdges
         /\ TreeEdgesUpTo(l) \in SUBSET TreeEdgesUpTo(Top)
         /\ Acyclic(TreeEdgesUpTo(l))
         /\ \A v \in Vertices : tree[l][v] = Component(TreeEdgesUpTo(l), v)
<1>1. TreeEdgesUpTo(l) \in SUBSET AllEdges
  BY DEF TreeEdgesUpTo, GraphOK, GraphTyped
<1>2. TreeEdgesUpTo(l) \in SUBSET TreeEdgesUpTo(Top)
  BY LevelFacts DEF TreeEdgesUpTo, GraphOK, GraphTyped, EdgeRecord
<1>3. Acyclic(TreeEdgesUpTo(l)) /\ tree[l] = Components(TreeEdgesUpTo(l))
  BY DEF GraphOK, ForestsSpan
<1>. QED
  BY <1>1, <1>2, <1>3 DEF Components

\* A tree lies inside the top one.
LEMMA TreesNest ==
  ASSUME GraphOK, NEW l \in Levels, NEW v \in Vertices
  PROVE  tree[l][v] \subseteq tree[Top][v]
<1>1. TreeEdgesUpTo(Top) \in SUBSET AllEdges
  BY LevelFacts, TreeEdgesFacts
<1>. QED
  BY <1>1, LevelFacts, TreeEdgesFacts, ComponentGrows

LEMMA TreesPart ==
  ASSUME GraphOK, NEW l \in Levels, NEW v \in Vertices, NEW u \in tree[l][v]
  PROVE  u \in Vertices /\ tree[l][u] = tree[l][v] /\ v \in tree[l][u]
<1>1. u \in Vertices
  BY DEF GraphOK, GraphTyped
<1>. QED
  BY <1>1, TreeEdgesFacts, ComponentSame, ComponentClosed

LEMMA ComponentsType ==
  ASSUME NEW E \in SUBSET AllEdges
  PROVE  Components(E) \in [Vertices -> SUBSET Vertices]
BY ComponentClosed DEF Components

--------------------------------------------------------------------------------
LEMMA ForestInit == CoreInit => ForestInv
<1>. SUFFICES ASSUME CoreInit PROVE ForestInv
  OBVIOUS
<1>1. DOMAIN edge = {}
  BY DEF CoreInit, Init
<1>2. list = [l \in Levels |-> <<>>]
  BY DEF CoreInit, Init
<1>3. tree = [l \in Levels |-> [v \in Vertices |-> {v}]]
  BY DEF CoreInit, Init
<1>4. GraphTyped
  BY <1>1, <1>2, <1>3 DEF GraphTyped
<1>5. ListsAgree
  BY <1>1, <1>2 DEF ListsAgree
<1>6. ASSUME NEW l \in Levels
      PROVE  tree[l] = Components(TreeEdgesUpTo(l)) /\ Acyclic(TreeEdgesUpTo(l))
  <2>1. TreeEdgesUpTo(l) = {}
    BY <1>1 DEF TreeEdgesUpTo
  <2>2. ASSUME NEW v \in Vertices PROVE Component({}, v) = {v}
    <3>1. Closed({v}, {}) /\ {v} \in SUBSET Vertices
      BY DEF Closed
    <3>2. Component({}, v) \subseteq {v}
      BY <3>1, ComponentSmallest
    <3>. QED
      BY <3>2, ComponentClosed
  <2>3. Components({}) = [v \in Vertices |-> {v}]
    BY <2>2 DEF Components
  <2>. QED
    BY <1>3, <2>1, <2>3 DEF Acyclic
<1>7. ForestsSpan
  BY <1>6 DEF ForestsSpan
<1>8. SearchOK
  BY SizeAssumption DEF CoreInit, Init, SearchOK
<1>. QED
  BY <1>4, <1>5, <1>7, <1>8 DEF ForestInv, GraphOK

LEMMA GraphStays ==
  ASSUME GraphOK, UNCHANGED graphVars
  PROVE  GraphOK' /\ \A l : TreeEdgesUpTo(l)' = TreeEdgesUpTo(l)
<1>1. edge' = edge /\ list' = list /\ tree' = tree
  BY DEF graphVars
<1>2. \A l : TreeEdgesUpTo(l)' = TreeEdgesUpTo(l)
  BY <1>1 DEF TreeEdgesUpTo
<1>3. GraphTyped'
  BY <1>1 DEF GraphOK, GraphTyped
<1>4. ListsAgree'
  BY <1>1 DEF GraphOK, ListsAgree
<1>5. ForestsSpan'
  BY <1>1, <1>2 DEF GraphOK, ForestsSpan
<1>. QED
  BY <1>2, <1>3, <1>4, <1>5 DEF GraphOK

LEMMA ListFacts ==
  ASSUME GraphOK, NEW l \in Levels
  PROVE  /\ list[l] \in Seq(AllEdges) /\ NoRepeat(list[l])
         /\ Items(list[l]) = {e \in DOMAIN edge : edge[e].lvl = l}
BY DEF GraphOK, GraphTyped, ListsAgree, Items, NoRepeat

\* What the next state has to have, level by level.
ListNext(l) ==
  /\ list'[l] \in Seq(AllEdges) /\ NoRepeat(list'[l])
  /\ Items(list'[l]) = {e \in DOMAIN edge' : edge'[e].lvl = l}

TreeNext(l) ==
  /\ tree'[l] = Components(TreeEdgesUpTo(l)')
  /\ Acyclic(TreeEdgesUpTo(l)')
  /\ tree'[l] \in [Vertices -> SUBSET Vertices]

LEMMA GraphNext ==
  ASSUME DOMAIN edge' \subseteq AllEdges, \A x \in DOMAIN edge' : edge'[x] \in EdgeRecord,
         list' = [l \in Levels |-> list'[l]], tree' = [l \in Levels |-> tree'[l]],
         \A l \in Levels : ListNext(l) /\ TreeNext(l)
  PROVE  GraphOK'
<1>1. GraphTyped'
  <2>1. list' \in [Levels -> Seq(AllEdges)]
    BY DEF ListNext
  <2>2. tree' \in [Levels -> [Vertices -> SUBSET Vertices]]
    BY DEF TreeNext
  <2>. QED
    BY <2>1, <2>2 DEF GraphTyped
<1>2. ListsAgree'
  BY DEF ListsAgree, ListNext, Items, NoRepeat
<1>3. ForestsSpan'
  BY DEF ForestsSpan, TreeNext
<1>. QED
  BY <1>1, <1>2, <1>3 DEF GraphOK

\* A level whose list, or whose forest, is not touched.
LEMMA SameList ==
  ASSUME GraphOK, NEW l \in Levels, list'[l] = list[l],
         {e \in DOMAIN edge' : edge'[e].lvl = l} = {e \in DOMAIN edge : edge[e].lvl = l}
  PROVE  ListNext(l)
BY ListFacts DEF ListNext

LEMMA SameTree ==
  ASSUME GraphOK, NEW l \in Levels, tree'[l] = tree[l], TreeEdgesUpTo(l)' = TreeEdgesUpTo(l)
  PROVE  TreeNext(l)
BY DEF TreeNext, GraphOK, GraphTyped, ForestsSpan

LEMMA LinkedTree ==
  ASSUME GraphOK, NEW l \in Levels, NEW e \in AllEdges,
         tree'[l] = Linked(tree[l], e[1], e[2]), e[2] \notin tree[l][e[1]],
         TreeEdgesUpTo(l)' = TreeEdgesUpTo(l) \cup {e}
  PROVE  TreeNext(l)
<1>1. e[2] \notin Component(TreeEdgesUpTo(l), e[1])
  BY TreeEdgesFacts DEF AllEdges
<1>2. TreeEdgesUpTo(l) \in SUBSET AllEdges /\ Acyclic(TreeEdgesUpTo(l))
  BY TreeEdgesFacts
<1>3. tree[l] = Components(TreeEdgesUpTo(l))
  BY DEF GraphOK, ForestsSpan
<1>4. TreeEdgesUpTo(l) \cup {e} \in SUBSET AllEdges
  BY <1>2
<1>5. tree'[l] = Components(TreeEdgesUpTo(l) \cup {e}) /\ Acyclic(TreeEdgesUpTo(l) \cup {e})
  BY <1>1, <1>2, <1>3, ComponentsLinked, AcyclicLinked
<1>. QED
  BY <1>4, <1>5, ComponentsType DEF TreeNext

--------------------------------------------------------------------------------
(* add. *)

LEMMA AddGraph ==
  ASSUME GraphOK, NEW e \in AllEdges, Add(e)
  PROVE  GraphOK'
<1>. DEFINE joins == ~IsConnected(e[1], e[2])
<1>1. /\ e \notin DOMAIN edge
      /\ edge' = [x \in DOMAIN edge \cup {e} |->
                    IF x = e THEN [lvl |-> Top, isTree |-> joins] ELSE edge[x]]
      /\ tree' = IF joins THEN [tree EXCEPT ![Top] = Linked(@, e[1], e[2])] ELSE tree
      /\ list' = [list EXCEPT ![Top] = Append(@, e)]
  BY DEF Add
<1>2. joins \in BOOLEAN
  BY DEF IsConnected
<1>3. joins <=> e[2] \notin tree[Top][e[1]]
  BY DEF IsConnected
<1>. HIDE DEF joins
<1>4. /\ DOMAIN edge' = DOMAIN edge \cup {e}
      /\ edge'[e].lvl = Top /\ edge'[e].isTree = joins
      /\ edge'[e] \in EdgeRecord
      /\ \A x \in DOMAIN edge : edge'[x] = edge[x]
  BY <1>1, <1>2, LevelFacts DEF EdgeRecord
<1>5. ASSUME NEW l \in Levels
      PROVE  ListNext(l)
  <2>1. CASE l = Top
    <3>1. list'[l] = Append(list[l], e) /\ e \notin Items(list[l])
      BY <1>1, <2>1, LevelFacts, ListFacts DEF GraphOK, GraphTyped
    <3>2. /\ list'[l] \in Seq(AllEdges) /\ NoRepeat(list'[l])
          /\ Items(list'[l]) = Items(list[l]) \cup {e}
      BY <3>1, ListFacts, ListAppend
    <3>. QED
      BY <1>4, <2>1, <3>2, ListFacts DEF ListNext
  <2>2. CASE l # Top
    <3>1. list'[l] = list[l]
      BY <1>1, <2>2 DEF GraphOK, GraphTyped
    <3>. QED
      BY <1>4, <2>2, <3>1, SameList
  <2>. QED
    BY <2>1, <2>2
<1>6. ASSUME NEW l \in Levels
      PROVE  TreeNext(l)
  <2>1. CASE l = Top /\ joins
    <3>1. TreeEdgesUpTo(l)' = TreeEdgesUpTo(l) \cup {e}
      BY <1>4, <2>1, LevelFacts DEF TreeEdgesUpTo
    <3>2. tree'[l] = Linked(tree[l], e[1], e[2])
      BY <1>1, <2>1, LevelFacts DEF GraphOK, GraphTyped
    <3>. QED
      BY <1>3, <2>1, <3>1, <3>2, LinkedTree
  <2>2. CASE ~(l = Top /\ joins)
    <3>1. ~edge'[e].isTree \/ ~(edge'[e].lvl <= l)
      BY <1>4, <2>2, LevelFacts
    <3>2. TreeEdgesUpTo(l)' = TreeEdgesUpTo(l)
      BY <1>1, <1>4, <3>1 DEF TreeEdgesUpTo
    <3>3. tree'[l] = tree[l]
      BY <1>1, <2>2 DEF GraphOK, GraphTyped
    <3>. QED
      BY <3>2, <3>3, SameTree
  <2>. QED
    BY <2>1, <2>2
<1>7. DOMAIN edge' \subseteq AllEdges /\ \A x \in DOMAIN edge' : edge'[x] \in EdgeRecord
  BY <1>4 DEF GraphOK, GraphTyped
<1>8. list' = [l \in Levels |-> list'[l]] /\ tree' = [l \in Levels |-> tree'[l]]
  BY <1>1 DEF GraphOK, GraphTyped
<1>. QED
  BY <1>5, <1>6, <1>7, <1>8, GraphNext

--------------------------------------------------------------------------------
(* remove. *)

LEMMA DroppedLists ==
  ASSUME GraphOK, NEW e \in DOMAIN edge, Dropped(e)
  PROVE  /\ DOMAIN edge' = DOMAIN edge \ {e}
         /\ \A x \in DOMAIN edge' : edge'[x] = edge[x] /\ edge'[x] \in EdgeRecord
         /\ list' = [l \in Levels |-> list'[l]]
         /\ \A l \in Levels : ListNext(l)
         /\ \A l : TreeEdgesUpTo(l)' = TreeEdgesUpTo(l) \ {e}
<1>1. /\ edge' = [x \in DOMAIN edge \ {e} |-> edge[x]]
      /\ list' = [list EXCEPT ![edge[e].lvl] = Without(@, e)]
  BY DEF Dropped
<1>2. edge[e].lvl \in Levels
  BY DEF GraphOK, GraphTyped, EdgeRecord
<1>3. /\ DOMAIN edge' = DOMAIN edge \ {e}
      /\ \A x \in DOMAIN edge' : edge'[x] = edge[x] /\ edge'[x] \in EdgeRecord
  BY <1>1 DEF GraphOK, GraphTyped
<1>4. list' = [l \in Levels |-> list'[l]]
  BY <1>1 DEF GraphOK, GraphTyped
<1>5. ASSUME NEW l \in Levels
      PROVE  ListNext(l)
  <2>1. CASE l = edge[e].lvl
    <3>1. list'[l] = Without(list[l], e) /\ e \in Items(list[l])
      BY <1>1, <1>2, <2>1, ListFacts DEF GraphOK, GraphTyped
    <3>2. /\ list'[l] \in Seq(AllEdges) /\ NoRepeat(list'[l])
          /\ Items(list'[l]) = Items(list[l]) \ {e}
      BY <3>1, ListFacts, ListWithout
    <3>. QED
      BY <1>3, <3>2, ListFacts DEF ListNext
  <2>2. CASE l # edge[e].lvl
    <3>1. list'[l] = list[l]
      BY <1>1, <2>2 DEF GraphOK, GraphTyped
    <3>2. {x \in DOMAIN edge' : edge'[x].lvl = l} = {x \in DOMAIN edge : edge[x].lvl = l}
      BY <1>3, <2>2
    <3>. QED
      BY <3>1, <3>2, SameList
  <2>. QED
    BY <2>1, <2>2
<1>6. \A l : TreeEdgesUpTo(l)' = TreeEdgesUpTo(l) \ {e}
  BY <1>3 DEF TreeEdgesUpTo
<1>. QED
  BY <1>3, <1>4, <1>5, <1>6

LEMMA RemoveNonTreeGraph ==
  ASSUME GraphOK, NEW e, RemoveNonTree(e)
  PROVE  GraphOK'
<1>1. e \in DOMAIN edge /\ ~edge[e].isTree /\ Dropped(e) /\ tree' = tree
  BY DEF RemoveNonTree
<1>2. ASSUME NEW l \in Levels PROVE TreeNext(l)
  <2>1. TreeEdgesUpTo(l)' = TreeEdgesUpTo(l)
    BY <1>1, DroppedLists DEF TreeEdgesUpTo
  <2>. QED
    BY <1>1, <2>1, SameTree
<1>3. tree' = [l \in Levels |-> tree'[l]]
  BY <1>1 DEF GraphOK, GraphTyped
<1>4. DOMAIN edge' \subseteq AllEdges
  BY <1>1, DroppedLists DEF GraphOK, GraphTyped
<1>. QED
  BY <1>1, <1>2, <1>3, <1>4, DroppedLists, GraphNext

LEMMA RemoveTreeGraph ==
  ASSUME GraphOK, NEW e, RemoveTree(e)
  PROVE  /\ GraphOK'
         /\ e[1] \in Vertices /\ e[2] \in Vertices /\ e[2] \notin tree'[Top][e[1]]
         /\ edge[e].lvl \in 0 .. Size
<1>1. /\ e \in DOMAIN edge /\ edge[e].isTree /\ Dropped(e)
      /\ tree' = [l \in Levels |-> IF l < edge[e].lvl THEN tree[l]
                                   ELSE CutTree(tree[l], TreeEdgesUpTo(l) \ {e}, e)]
  BY DEF RemoveTree
<1>2. /\ e \in AllEdges /\ edge[e].lvl \in Levels
      /\ edge[e].lvl \in Nat /\ edge[e].lvl <= Top /\ Top \in Nat
  BY <1>1, EdgeLevel
<1>3. ASSUME NEW l \in Levels, l < edge[e].lvl PROVE TreeNext(l)
  <2>1. TreeEdgesUpTo(l)' = TreeEdgesUpTo(l)
    <3>1. e \notin TreeEdgesUpTo(l)
      BY <1>2, <1>3, LevelFacts DEF TreeEdgesUpTo
    <3>2. TreeEdgesUpTo(l)' = TreeEdgesUpTo(l) \ {e}
      BY <1>1, DroppedLists
    <3>. QED
      BY <3>1, <3>2
  <2>. QED
    BY <1>1, <1>3, <2>1, SameTree
<1>4. ASSUME NEW l \in Levels, ~(l < edge[e].lvl)
      PROVE  TreeNext(l) /\ e[2] \notin tree'[l][e[1]]
  <2>1. e \in TreeEdgesUpTo(l)
    BY <1>1, <1>2, <1>4, LevelFacts DEF TreeEdgesUpTo
  <2>2. TreeEdgesUpTo(l) \in SUBSET AllEdges /\ Acyclic(TreeEdgesUpTo(l))
    BY TreeEdgesFacts
  <2>3. tree[l] = Components(TreeEdgesUpTo(l))
    BY DEF GraphOK, ForestsSpan
  <2>4. tree'[l] = CutTree(tree[l], TreeEdgesUpTo(l) \ {e}, e)
    BY <1>1, <1>4
  <2>5. tree'[l] = Components(TreeEdgesUpTo(l) \ {e})
    BY <2>1, <2>2, <2>3, <2>4, ComponentsCut
  <2>6. TreeEdgesUpTo(l)' = TreeEdgesUpTo(l) \ {e}
    BY <1>1, DroppedLists
  <2>7. Acyclic(TreeEdgesUpTo(l) \ {e})
    BY <2>2, AcyclicSubset
  <2>8. TreeEdgesUpTo(l) \ {e} \in SUBSET AllEdges
    BY <2>2
  <2>9. e[2] \notin Component(TreeEdgesUpTo(l) \ {e}, e[1])
    BY <2>1, <2>2 DEF Acyclic
  <2>10. tree'[l][e[1]] = Component(TreeEdgesUpTo(l) \ {e}, e[1])
    BY <1>2, <2>5 DEF Components, AllEdges
  <2>. QED
    BY <2>5, <2>6, <2>7, <2>8, <2>9, <2>10, ComponentsType DEF TreeNext
<1>5. \A l \in Levels : TreeNext(l)
  BY <1>3, <1>4
<1>6. ~(Top < edge[e].lvl)
  BY <1>2
<1>7. tree' = [l \in Levels |-> tree'[l]]
  BY <1>1
<1>8. DOMAIN edge' \subseteq AllEdges
  BY <1>1, DroppedLists DEF GraphOK, GraphTyped
<1>9. GraphOK'
  BY <1>1, <1>5, <1>7, <1>8, DroppedLists, GraphNext
<1>10. e[2] \notin tree'[Top][e[1]]
  BY <1>4, <1>6, LevelFacts
<1>11. edge[e].lvl \in 0 .. Size /\ e[1] \in Vertices /\ e[2] \in Vertices
  BY <1>2, SizeAssumption DEF AllEdges, Levels
<1>. QED
  BY <1>9, <1>10, <1>11

--------------------------------------------------------------------------------
(* downgrade and the reconnection. *)

LEMMA DowngradeGraph ==
  ASSUME GraphOK, NEW e \in DOMAIN edge, Downgrade(e)
  PROVE  /\ GraphOK'
         /\ DOMAIN edge' = DOMAIN edge
         /\ \A x \in DOMAIN edge : x # e => edge'[x] = edge[x]
         /\ edge'[e].lvl <= edge[e].lvl /\ edge'[e].isTree = edge[e].isTree
         /\ \A m \in Levels : m >= edge[e].lvl => tree'[m] = tree[m]
<1>. DEFINE l == edge[e].lvl
<1>1. /\ l > 0
      /\ edge' = [edge EXCEPT ![e] = [@ EXCEPT !.lvl = l - 1]]
      /\ list' = [list EXCEPT ![l] = Without(@, e), ![l - 1] = Append(@, e)]
      /\ tree' = IF edge[e].isTree THEN [tree EXCEPT ![l - 1] = Linked(@, e[1], e[2])] ELSE tree
  BY DEF Downgrade
<1>2. e \in AllEdges /\ l \in Levels /\ l \in Nat /\ l <= Top /\ Top \in Nat
  BY EdgeLevel
<1>3. edge[e] \in EdgeRecord
  BY DEF GraphOK, GraphTyped
<1>. HIDE DEF l
<1>4. l - 1 \in Levels /\ l - 1 # l
  BY <1>1, <1>2 DEF Levels, Top
<1>5. [edge[e] EXCEPT !.lvl = l - 1] \in EdgeRecord
  BY <1>3, <1>4 DEF EdgeRecord
<1>6. /\ DOMAIN edge' = DOMAIN edge
      /\ \A x \in DOMAIN edge : x # e => edge'[x] = edge[x]
      /\ edge'[e] = [edge[e] EXCEPT !.lvl = l - 1]
  BY <1>1
<1>7. edge'[e].lvl = l - 1 /\ edge'[e].isTree = edge[e].isTree
  BY <1>3, <1>6 DEF EdgeRecord
<1>8. DOMAIN edge' \subseteq AllEdges /\ \A x \in DOMAIN edge' : edge'[x] \in EdgeRecord
  BY <1>5, <1>6 DEF GraphOK, GraphTyped
<1>9. list' = [k \in Levels |-> list'[k]] /\ tree' = [k \in Levels |-> tree'[k]]
  BY <1>1 DEF GraphOK, GraphTyped
<1>10. ASSUME NEW k \in Levels PROVE ListNext(k)
  <2>1. CASE k = l
    <3>1. list'[k] = Without(list[k], e) /\ e \in Items(list[k])
      BY <1>1, <1>2, <1>4, <2>1, ListFacts DEF GraphOK, GraphTyped, l
    <3>2. /\ list'[k] \in Seq(AllEdges) /\ NoRepeat(list'[k])
          /\ Items(list'[k]) = Items(list[k]) \ {e}
      BY <3>1, ListFacts, ListWithout
    <3>3. {x \in DOMAIN edge' : edge'[x].lvl = k} = {x \in DOMAIN edge : edge[x].lvl = k} \ {e}
      BY <1>4, <1>6, <1>7, <2>1
    <3>. QED
      BY <3>2, <3>3, ListFacts DEF ListNext
  <2>2. CASE k = l - 1
    <3>1. list'[k] = Append(list[k], e)
      BY <1>1, <1>4, <2>2 DEF GraphOK, GraphTyped
    <3>2. e \notin Items(list[k])
      BY <1>4, <2>2, ListFacts DEF l
    <3>3. /\ list'[k] \in Seq(AllEdges) /\ NoRepeat(list'[k])
          /\ Items(list'[k]) = Items(list[k]) \cup {e}
      BY <1>2, <3>1, <3>2, ListFacts, ListAppend
    <3>4. {x \in DOMAIN edge' : edge'[x].lvl = k} = {x \in DOMAIN edge : edge[x].lvl = k} \cup {e}
      BY <1>6, <1>7, <2>2
    <3>. QED
      BY <3>3, <3>4, ListFacts DEF ListNext
  <2>3. CASE k # l /\ k # l - 1
    <3>1. list'[k] = list[k]
      BY <1>1, <2>3 DEF GraphOK, GraphTyped
    <3>2. {x \in DOMAIN edge' : edge'[x].lvl = k} = {x \in DOMAIN edge : edge[x].lvl = k}
      BY <1>6, <1>7, <2>3 DEF l
    <3>. QED
      BY <3>1, <3>2, SameList
  <2>. QED
    BY <2>1, <2>2, <2>3
<1>11. ASSUME NEW k \in Levels PROVE TreeNext(k)
  <2>0. k \in Nat
    BY LevelFacts
  <2>1. CASE edge[e].isTree /\ k = l - 1
    <3>1. tree'[k] = Linked(tree[k], e[1], e[2])
      BY <1>1, <1>4, <2>1 DEF GraphOK, GraphTyped
    <3>2. TreeEdgesUpTo(k)' = TreeEdgesUpTo(k) \cup {e}
      <4>1. edge'[e].lvl <= k /\ edge'[e].isTree
        BY <1>7, <2>0, <2>1
      <4>2. e \in TreeEdgesUpTo(k)'
        BY <1>6, <4>1 DEF TreeEdgesUpTo
      <4>3. \A x : x # e => (x \in TreeEdgesUpTo(k)' <=> x \in TreeEdgesUpTo(k))
        BY <1>6 DEF TreeEdgesUpTo
      <4>. QED
        BY <4>2, <4>3
    <3>3. e[2] \notin tree[k][e[1]]
      <4>1. e \in TreeEdgesUpTo(l)
        BY <1>2, <2>1 DEF TreeEdgesUpTo, l
      <4>2. TreeEdgesUpTo(k) \in SUBSET (TreeEdgesUpTo(l) \ {e})
        <5>1. ASSUME NEW x \in TreeEdgesUpTo(k) PROVE x \in TreeEdgesUpTo(l) \ {e}
          <6>1. x \in DOMAIN edge /\ edge[x].isTree /\ edge[x].lvl <= l - 1
            BY <2>1 DEF TreeEdgesUpTo
          <6>2. edge[x].lvl \in Nat
            BY <6>1, EdgeLevel
          <6>3. edge[x].lvl <= l /\ x # e
            BY <1>2, <6>1, <6>2 DEF l
          <6>. QED
            BY <6>1, <6>3 DEF TreeEdgesUpTo
        <5>. QED
          BY <5>1
      <4>3. e[2] \notin Component(TreeEdgesUpTo(l) \ {e}, e[1])
        BY <1>2, <4>1, TreeEdgesFacts DEF Acyclic
      <4>4. TreeEdgesUpTo(l) \ {e} \in SUBSET AllEdges /\ e[1] \in Vertices
        BY <1>2, TreeEdgesFacts DEF AllEdges
      <4>5. e[2] \notin Component(TreeEdgesUpTo(k), e[1])
        BY <4>2, <4>3, <4>4, ComponentGrows
      <4>. QED
        BY <4>4, <4>5, TreeEdgesFacts
    <3>. QED
      BY <1>2, <3>1, <3>2, <3>3, LinkedTree
  <2>2. CASE ~(edge[e].isTree /\ k = l - 1)
    <3>1. tree'[k] = tree[k]
      BY <1>1, <2>2 DEF GraphOK, GraphTyped
    <3>2. e \in TreeEdgesUpTo(k)' <=> e \in TreeEdgesUpTo(k)
      <4>1. e \in TreeEdgesUpTo(k)' <=> edge[e].isTree /\ l - 1 <= k
        BY <1>6, <1>7 DEF TreeEdgesUpTo
      <4>2. e \in TreeEdgesUpTo(k) <=> edge[e].isTree /\ l <= k
        BY DEF TreeEdgesUpTo, l
      <4>. QED
        BY <1>2, <2>0, <2>2, <4>1, <4>2
    <3>3. \A x : x # e => (x \in TreeEdgesUpTo(k)' <=> x \in TreeEdgesUpTo(k))
      BY <1>6 DEF TreeEdgesUpTo
    <3>4. TreeEdgesUpTo(k)' = TreeEdgesUpTo(k)
      BY <3>2, <3>3
    <3>. QED
      BY <3>1, <3>4, SameTree
  <2>. QED
    BY <2>1, <2>2
<1>12. GraphOK'
  BY <1>8, <1>9, <1>10, <1>11, GraphNext
<1>13. \A m \in Levels : m >= l => tree'[m] = tree[m]
  <2>1. \A m \in Levels : m >= l => m # l - 1
    BY <1>2, LevelFacts
  <2>. QED
    BY <1>1, <2>1 DEF GraphOK, GraphTyped
<1>14. edge'[e].lvl <= edge[e].lvl
  BY <1>2, <1>7 DEF l
<1>. QED
  BY <1>6, <1>7, <1>12, <1>13, <1>14 DEF l

LEMMA ReconnectGraph ==
  ASSUME ForestInv, Reconnect
  PROVE  /\ GraphOK'
         /\ DOMAIN edge' = DOMAIN edge
         /\ \A x \in DOMAIN edge : edge'[x].lvl = edge[x].lvl /\ (edge[x].isTree => edge'[x].isTree)
<1>1. /\ found # NoEdge
      /\ edge' = [edge EXCEPT ![found] = [@ EXCEPT !.isTree = TRUE]]
      /\ tree' = [l \in Levels |-> IF l < level THEN tree[l]
                                   ELSE Linked(tree[l], found[1], found[2])]
      /\ list' = list
  BY DEF Reconnect
<1>2. /\ GraphOK /\ level \in Levels /\ found \in DOMAIN edge
      /\ edge[found].lvl = level /\ ~edge[found].isTree
      /\ found[2] \notin tree[Top][found[1]]
  BY <1>1 DEF ForestInv, SearchOK
<1>3. edge[found] \in EdgeRecord /\ found \in AllEdges
  BY <1>2 DEF GraphOK, GraphTyped
<1>4. [edge[found] EXCEPT !.isTree = TRUE] \in EdgeRecord
  BY <1>3 DEF EdgeRecord
<1>5. /\ DOMAIN edge' = DOMAIN edge
      /\ \A x \in DOMAIN edge : x # found => edge'[x] = edge[x]
      /\ edge'[found] = [edge[found] EXCEPT !.isTree = TRUE]
  BY <1>1, <1>2
<1>6. edge'[found].lvl = level /\ edge'[found].isTree
  BY <1>2, <1>3, <1>5 DEF EdgeRecord
<1>7. DOMAIN edge' \subseteq AllEdges /\ \A x \in DOMAIN edge' : edge'[x] \in EdgeRecord
  BY <1>2, <1>4, <1>5 DEF GraphOK, GraphTyped
<1>8. list' = [k \in Levels |-> list'[k]] /\ tree' = [k \in Levels |-> tree'[k]]
  BY <1>1, <1>2 DEF GraphOK, GraphTyped
<1>9. ASSUME NEW k \in Levels PROVE ListNext(k)
  <2>1. {x \in DOMAIN edge' : edge'[x].lvl = k} = {x \in DOMAIN edge : edge[x].lvl = k}
    <3>1. \A x \in DOMAIN edge : edge'[x].lvl = edge[x].lvl
      BY <1>2, <1>5, <1>6
    <3>. QED
      BY <1>5, <3>1, Zenon
  <2>. QED
    BY <1>1, <1>2, <2>1, SameList
<1>10. ASSUME NEW k \in Levels PROVE TreeNext(k)
  <2>0. k \in Nat /\ level \in Nat
    BY <1>2, LevelFacts
  <2>1. CASE k < level
    <3>1. found \notin TreeEdgesUpTo(k)' /\ found \notin TreeEdgesUpTo(k)
      BY <1>2, <1>6, <2>0, <2>1 DEF TreeEdgesUpTo
    <3>2. TreeEdgesUpTo(k)' = TreeEdgesUpTo(k)
      BY <1>5, <3>1 DEF TreeEdgesUpTo
    <3>. QED
      BY <1>1, <1>2, <2>1, <3>2, SameTree
  <2>2. CASE ~(k < level)
    <3>1. tree'[k] = Linked(tree[k], found[1], found[2])
      BY <1>1, <2>2
    <3>2. found \in TreeEdgesUpTo(k)'
      <4>1. edge'[found].lvl <= k
        BY <1>6, <2>0, <2>2
      <4>. QED
        BY <1>2, <1>5, <1>6, <4>1 DEF TreeEdgesUpTo
    <3>3. TreeEdgesUpTo(k)' = TreeEdgesUpTo(k) \cup {found}
      BY <1>5, <3>2 DEF TreeEdgesUpTo
    <3>4. found[1] \in Vertices
      BY <1>3 DEF AllEdges
    <3>5. found[2] \notin tree[k][found[1]]
      BY <1>2, <3>4, TreesNest
    <3>. QED
      BY <1>2, <1>3, <3>1, <3>3, <3>5, LinkedTree
  <2>. QED
    BY <2>1, <2>2
<1>11. GraphOK'
  BY <1>7, <1>8, <1>9, <1>10, GraphNext
<1>12. \A x \in DOMAIN edge : edge'[x].lvl = edge[x].lvl /\ (edge[x].isTree => edge'[x].isTree)
  BY <1>2, <1>5, <1>6
<1>. QED
  BY <1>5, <1>11, <1>12

--------------------------------------------------------------------------------
(* The steps of a search. *)

LEMMA EnterKeeps ==
  ASSUME ForestInv, EnterLevel
  PROVE  ForestInv'
<1>1. /\ phase = "search" /\ level < Size /\ phase' = "scan" /\ at' = NoVertex
      /\ pending' = tree[level][near']
      /\ UNCHANGED <<graphVars, level, todo, found>>
      /\ (near' = near /\ far' = far) \/ (near' = far /\ far' = near)
  BY DEF EnterLevel
<1>2. GraphOK' /\ tree' = tree /\ edge' = edge
  BY <1>1, GraphStays DEF ForestInv, graphVars
<1>3. near \in Vertices /\ far \in Vertices /\ far \notin tree[Top][near] /\ near \notin tree[Top][far]
  <2>1. near \in Vertices /\ far \in Vertices /\ far \notin tree[Top][near]
    BY <1>1 DEF ForestInv, SearchOK
  <2>. QED
    BY <2>1, LevelFacts, TreesPart DEF ForestInv
<1>4. level \in Levels
  <2>1. level \in 0 .. Size /\ Size \in Nat
    BY LevelFacts DEF ForestInv, SearchOK
  <2>. QED
    BY <1>1, <2>1 DEF Levels
<1>5. todo = {} /\ found = NoEdge
  BY <1>1 DEF ForestInv, SearchOK
<1>6. SearchOK'
  BY <1>1, <1>2, <1>3, <1>4, <1>5 DEF ForestInv, SearchOK
<1>. QED
  BY <1>2, <1>6 DEF ForestInv

LEMMA VisitKeeps ==
  ASSUME ForestInv, NEW w, Visit(w)
  PROVE  ForestInv'
<1>1. /\ phase = "scan" /\ todo = {} /\ w \in pending
      /\ at' = w /\ todo' = AdjList(level, w) /\ pending' = pending \ {w}
      /\ UNCHANGED <<graphVars, phase, level, near, far, found>>
  BY DEF Visit
<1>2. GraphOK' /\ tree' = tree /\ edge' = edge
  BY <1>1, GraphStays DEF ForestInv, graphVars
<1>3. todo' \in SUBSET {x \in DOMAIN edge : edge[x].lvl = level /\ Touches(x, w)}
  BY <1>1 DEF AdjList
<1>4. level \in Levels /\ w \in tree[level][near]
  BY <1>1 DEF ForestInv, SearchOK
<1>5. SearchOK'
  BY <1>1, <1>2, <1>3, <1>4 DEF ForestInv, SearchOK
<1>. QED
  BY <1>2, <1>5 DEF ForestInv

LEMMA VisitEarlyKeeps ==
  ASSUME ForestInv, NEW w, VisitEarly(w)
  PROVE  ForestInv'
<1>1. /\ phase = "scan" /\ todo = {} /\ w \in pending
      /\ at' = w /\ todo' = AdjList(level, w)
      /\ UNCHANGED <<graphVars, phase, level, near, far, pending, found>>
  BY DEF VisitEarly
<1>2. GraphOK' /\ tree' = tree /\ edge' = edge
  BY <1>1, GraphStays DEF ForestInv, graphVars
<1>3. todo' \in SUBSET {x \in DOMAIN edge : edge[x].lvl = level /\ Touches(x, w)}
  BY <1>1 DEF AdjList
<1>4. level \in Levels /\ w \in tree[level][near]
  BY <1>1 DEF ForestInv, SearchOK
<1>5. SearchOK'
  BY <1>1, <1>2, <1>3, <1>4 DEF ForestInv, SearchOK
<1>. QED
  BY <1>2, <1>5 DEF ForestInv

\* An edge in hand is one of the level being searched, met at a vertex of the
\* near tree.
LEMMA InHand ==
  ASSUME ForestInv, NEW e, ScanningAt(e)
  PROVE  /\ phase = "scan" /\ e \in todo /\ e \in DOMAIN edge /\ edge[e].lvl = level
         /\ e \in AllEdges /\ level \in Levels /\ Touches(e, at) /\ at \in tree[level][near]
<1>1. phase = "scan" /\ e \in todo
  BY DEF ScanningAt
<1>2. e \in DOMAIN edge /\ edge[e].lvl = level /\ Touches(e, at)
  BY <1>1 DEF ForestInv, SearchOK
<1>3. level \in Levels /\ at \in tree[level][near]
  BY <1>1 DEF ForestInv, SearchOK
<1>4. e \in AllEdges
  BY <1>2, EdgeLevel DEF ForestInv
<1>. QED
  BY <1>1, <1>2, <1>3, <1>4

LEMMA FindKeeps ==
  ASSUME ForestInv, NEW e, FindReplacement(e)
  PROVE  ForestInv'
<1>1. /\ ScanningAt(e) /\ ~edge[e].isTree /\ IsConnected(OtherEnd(e, at), far)
      /\ found' = e /\ todo' = todo \ {e}
      /\ UNCHANGED <<graphVars, phase, level, near, far, pending, at>>
  BY DEF FindReplacement
<1>2. GraphOK' /\ tree' = tree /\ edge' = edge
  BY <1>1, GraphStays DEF ForestInv, graphVars
<1>3. e \in DOMAIN edge /\ edge[e].lvl = level /\ e \in AllEdges /\ level \in Levels /\ phase = "scan"
  BY <1>1, InHand
<1>4. near \in Vertices /\ far \in Vertices /\ far \notin tree[Top][near]
  BY <1>3 DEF ForestInv, SearchOK
<1>5. at \in tree[Top][near]
  BY <1>1, <1>4, InHand, TreesNest DEF ForestInv
<1>6. e[1] \in Vertices /\ e[2] \in Vertices /\ at \in {e[1], e[2]}
  BY <1>1, <1>3, InHand DEF AllEdges, Touches
<1>7. tree[Top][at] = tree[Top][near]
  BY <1>4, <1>5, LevelFacts, TreesPart DEF ForestInv
<1>8. far \in tree[Top][OtherEnd(e, at)]
  BY <1>1 DEF IsConnected
<1>9. ASSUME e[2] \in tree[Top][e[1]] PROVE FALSE
  <2>1. tree[Top][e[2]] = tree[Top][e[1]]
    BY <1>6, <1>9, LevelFacts, TreesPart DEF ForestInv
  <2>2. tree[Top][OtherEnd(e, at)] = tree[Top][at]
    BY <1>6, <2>1 DEF OtherEnd
  <2>. QED
    BY <1>4, <1>7, <1>8, <2>2
<1>10. SearchOK'
  BY <1>1, <1>2, <1>3, <1>9 DEF ForestInv, SearchOK
<1>. QED
  BY <1>2, <1>10 DEF ForestInv

LEMMA BreakKeeps ==
  ASSUME ForestInv, NEW e, BreakList(e)
  PROVE  ForestInv'
<1>1. todo' = {} /\ UNCHANGED <<graphVars, phase, level, near, far, pending, at, found>>
  BY DEF BreakList
<1>2. GraphOK' /\ tree' = tree /\ edge' = edge
  BY <1>1, GraphStays DEF ForestInv, graphVars
<1>3. SearchOK'
  BY <1>1, <1>2 DEF ForestInv, SearchOK
<1>. QED
  BY <1>2, <1>3 DEF ForestInv

\* An examined edge moves down a level; the trees of the level being searched
\* and above stay, and so do the edges still in hand.
LEMMA ExamineKeeps ==
  ASSUME ForestInv, NEW e, ExamineTree(e) \/ ExamineNonTree(e)
  PROVE  /\ ForestInv'
         /\ \A x \in DOMAIN edge : x \in DOMAIN edge' =>
              edge'[x].lvl <= edge[x].lvl /\ (edge[x].isTree => edge'[x].isTree)
<1>1. /\ ScanningAt(e) /\ Downgrade(e) /\ todo' = todo \ {e}
      /\ UNCHANGED <<phase, level, near, far, pending, at, found>>
      /\ edge[e].isTree \/ found = NoEdge
  BY DEF ExamineTree, ExamineNonTree
<1>2. e \in DOMAIN edge /\ edge[e].lvl = level /\ level \in Levels /\ phase = "scan"
  BY <1>1, InHand
<1>3. /\ GraphOK' /\ DOMAIN edge' = DOMAIN edge
      /\ \A x \in DOMAIN edge : x # e => edge'[x] = edge[x]
      /\ edge'[e].lvl <= edge[e].lvl /\ edge'[e].isTree = edge[e].isTree
      /\ \A m \in Levels : m >= level => tree'[m] = tree[m]
  BY <1>1, <1>2, DowngradeGraph DEF ForestInv
<1>4. tree'[level] = tree[level] /\ tree'[Top] = tree[Top]
  BY <1>2, <1>3, LevelFacts
<1>5. found # NoEdge => found # e /\ found \in DOMAIN edge
  BY <1>1 DEF ForestInv, SearchOK
<1>6. SearchOK'
  BY <1>1, <1>2, <1>3, <1>4, <1>5 DEF ForestInv, SearchOK
<1>7. ASSUME NEW x \in DOMAIN edge
      PROVE  edge'[x].lvl <= edge[x].lvl /\ (edge[x].isTree => edge'[x].isTree)
  <2>1. edge[x].lvl \in Nat
    BY EdgeLevel DEF ForestInv
  <2>. QED
    BY <1>3, <2>1
<1>. QED
  BY <1>3, <1>6, <1>7 DEF ForestInv

LEMMA ReconnectKeeps ==
  ASSUME ForestInv, Reconnect
  PROVE  ForestInv'
<1>1. phase' = "idle" /\ level' = 0 /\ found' = NoEdge /\ todo' = todo /\ todo = {}
  BY DEF Reconnect, ScanDone
<1>2. SearchOK'
  BY <1>1, LevelFacts DEF SearchOK
<1>. QED
  BY <1>2, ReconnectGraph DEF ForestInv

LEMMA NextLevelKeeps ==
  ASSUME ForestInv, NextLevel
  PROVE  ForestInv'
<1>1. /\ phase = "scan" /\ todo = {} /\ found = NoEdge
      /\ phase' = "search" /\ level' = level + 1
      /\ UNCHANGED <<graphVars, near, far, todo, found>>
  BY DEF NextLevel, ScanDone
<1>2. GraphOK' /\ tree' = tree /\ edge' = edge
  BY <1>1, GraphStays DEF ForestInv, graphVars
<1>3. level' \in 0 .. Size
  <2>1. level \in Levels
    BY <1>1 DEF ForestInv, SearchOK
  <2>2. level \in Nat /\ level < Size /\ Size \in Nat
    BY <2>1, LevelFacts
  <2>. QED
    BY <1>1, <2>2
<1>4. SearchOK'
  BY <1>1, <1>2, <1>3 DEF ForestInv, SearchOK
<1>. QED
  BY <1>2, <1>4 DEF ForestInv

LEMMA ExhaustedKeeps ==
  ASSUME ForestInv, SearchExhausted
  PROVE  ForestInv'
<1>1. /\ phase = "search" /\ phase' = "idle" /\ level' = 0
      /\ UNCHANGED <<graphVars, todo, found>>
  BY DEF SearchExhausted
<1>2. GraphOK'
  BY <1>1, GraphStays DEF ForestInv
<1>3. todo = {} /\ found = NoEdge
  BY <1>1 DEF ForestInv, SearchOK
<1>4. SearchOK'
  BY <1>1, <1>3, LevelFacts DEF SearchOK
<1>. QED
  BY <1>2, <1>4 DEF ForestInv

LEMMA RemoveTreeKeeps ==
  ASSUME ForestInv, NEW e, RemoveTree(e)
  PROVE  ForestInv'
<1>1. /\ phase = "idle" /\ phase' = "search" /\ level' = edge[e].lvl
      /\ near' = e[1] /\ far' = e[2] /\ found' = NoEdge /\ todo' = todo
  BY DEF RemoveTree
<1>2. todo = {}
  BY <1>1 DEF ForestInv, SearchOK
<1>3. /\ GraphOK' /\ e[1] \in Vertices /\ e[2] \in Vertices
      /\ e[2] \notin tree'[Top][e[1]] /\ edge[e].lvl \in 0 .. Size
  BY RemoveTreeGraph DEF ForestInv
<1>4. SearchOK'
  BY <1>1, <1>2, <1>3 DEF SearchOK
<1>. QED
  BY <1>3, <1>4 DEF ForestInv

\* Nothing is in hand between operations.
LEMMA IdleKeeps ==
  ASSUME ForestInv, phase = "idle", GraphOK', UNCHANGED searchVars
  PROVE  ForestInv'
<1>1. todo = {} /\ found = NoEdge
  BY DEF ForestInv, SearchOK
<1>2. level \in 0 .. Size
  BY DEF ForestInv, SearchOK
<1>3. SearchOK'
  BY <1>1, <1>2 DEF SearchOK, searchVars
<1>. QED
  BY <1>3 DEF ForestInv

--------------------------------------------------------------------------------
(****************************************************************************)
(* The edges init adds are those of the input.                              *)
(****************************************************************************)
CoreInv == ForestInv /\ input \in Inputs /\ added \in Nat

\* Levels only fall, as a step of the core.
Falls ==
  \A e \in DOMAIN edge \cap DOMAIN edge' :
    /\ edge'[e].lvl <= edge[e].lvl
    /\ edge[e].isTree => edge'[e].isTree

LEMMA SameEdges ==
  ASSUME GraphOK, \A e \in DOMAIN edge \cap DOMAIN edge' : edge'[e] = edge[e]
  PROVE  Falls
<1>1. \A e \in DOMAIN edge : edge[e].lvl \in Nat
  BY EdgeLevel
<1>. QED
  BY <1>1 DEF Falls

LEMMA SearchKeeps ==
  ASSUME ForestInv, SearchStep
  PROVE  ForestInv' /\ Falls
<1>1. CASE EnterLevel
  <2>1. edge' = edge
    BY <1>1 DEF EnterLevel, graphVars
  <2>. QED
    BY <1>1, <2>1, EnterKeeps, SameEdges DEF ForestInv
<1>2. CASE SearchExhausted
  <2>1. edge' = edge
    BY <1>2 DEF SearchExhausted, graphVars
  <2>. QED
    BY <1>2, <2>1, ExhaustedKeeps, SameEdges DEF ForestInv
<1>3. CASE Reconnect
  <2>1. \A x \in DOMAIN edge : edge[x].lvl \in Nat
    BY EdgeLevel DEF ForestInv
  <2>2. Falls
    BY <1>3, <2>1, ReconnectGraph DEF Falls
  <2>. QED
    BY <1>3, <2>2, ReconnectKeeps
<1>4. CASE NextLevel
  <2>1. edge' = edge
    BY <1>4 DEF NextLevel, graphVars
  <2>. QED
    BY <1>4, <2>1, NextLevelKeeps, SameEdges DEF ForestInv
<1>5. ASSUME NEW w \in Vertices, Visit(w) PROVE ForestInv' /\ Falls
  <2>1. edge' = edge
    BY <1>5 DEF Visit, graphVars
  <2>. QED
    BY <1>5, <2>1, VisitKeeps, SameEdges DEF ForestInv
<1>5a. ASSUME NEW w \in Vertices, VisitEarly(w) PROVE ForestInv' /\ Falls
  <2>1. edge' = edge
    BY <1>5a DEF VisitEarly, graphVars
  <2>. QED
    BY <1>5a, <2>1, VisitEarlyKeeps, SameEdges DEF ForestInv
<1>6. ASSUME NEW e \in AllEdges, ExamineTree(e) \/ ExamineNonTree(e) PROVE ForestInv' /\ Falls
  BY <1>6, ExamineKeeps DEF Falls
<1>7. ASSUME NEW e \in AllEdges, BreakList(e) PROVE ForestInv' /\ Falls
  <2>1. edge' = edge
    BY <1>7 DEF BreakList, graphVars
  <2>. QED
    BY <1>7, <2>1, BreakKeeps, SameEdges DEF ForestInv
<1>8. ASSUME NEW e \in AllEdges, FindReplacement(e) PROVE ForestInv' /\ Falls
  <2>1. edge' = edge
    BY <1>8 DEF FindReplacement, graphVars
  <2>. QED
    BY <1>8, <2>1, FindKeeps, SameEdges DEF ForestInv
<1>. QED
  BY <1>1, <1>2, <1>3, <1>4, <1>5, <1>5a, <1>6, <1>7, <1>8 DEF SearchStep

LEMMA AddKeeps ==
  ASSUME CoreInv, AddEdge
  PROVE  CoreInv' /\ Falls
<1>. DEFINE e == input[added + 1]
<1>1. added < Len(input) /\ Add(e) /\ added' = added + 1 /\ input' = input
  BY DEF AddEdge
<1>2. input \in Seq(AllEdges) /\ added \in Nat
  BY InputsAssumption DEF CoreInv
<1>3. e \in AllEdges
  <2>1. added + 1 \in 1 .. Len(input)
    BY <1>1, <1>2
  <2>. QED
    BY <1>2, <2>1, ElementOfSeq
<1>. HIDE DEF e
<1>4. GraphOK'
  BY <1>1, <1>3, AddGraph DEF CoreInv, ForestInv
<1>5. phase = "idle" /\ UNCHANGED searchVars /\ e \notin DOMAIN edge
  BY <1>1 DEF Add
<1>6. \A x \in DOMAIN edge \cap DOMAIN edge' : edge'[x] = edge[x]
  BY <1>1, <1>5 DEF Add
<1>7. ForestInv'
  BY <1>4, <1>5, IdleKeeps DEF CoreInv
<1>8. added' \in Nat
  BY <1>1, <1>2
<1>. QED
  BY <1>1, <1>6, <1>7, <1>8, SameEdges DEF CoreInv, ForestInv

LEMMA VictimKeeps ==
  ASSUME CoreInv, RemoveVictim
  PROVE  CoreInv' /\ Falls
<1>. DEFINE e == Head(victims)
<1>1. (RemoveNonTree(e) \/ RemoveTree(e)) /\ UNCHANGED <<input, added>>
  BY DEF RemoveVictim, RemoveEdge
<1>. HIDE DEF e
<1>2. \A x \in DOMAIN edge \cap DOMAIN edge' : edge'[x] = edge[x]
  BY <1>1 DEF RemoveNonTree, RemoveTree, Dropped
<1>3. CASE RemoveNonTree(e)
  <2>1. phase = "idle" /\ UNCHANGED searchVars
    BY <1>3 DEF RemoveNonTree
  <2>2. ForestInv'
    BY <1>3, <2>1, RemoveNonTreeGraph, IdleKeeps DEF CoreInv, ForestInv
  <2>. QED
    BY <1>1, <1>2, <2>2, SameEdges DEF CoreInv, ForestInv
<1>4. CASE RemoveTree(e)
  BY <1>1, <1>2, <1>4, RemoveTreeKeeps, SameEdges DEF CoreInv, ForestInv
<1>. QED
  BY <1>1, <1>3, <1>4

LEMMA CoreKeeps ==
  ASSUME CoreInv, [CoreNext]_allVars
  PROVE  CoreInv' /\ Falls
<1>1. CASE AddEdge
  BY <1>1, AddKeeps
<1>2. CASE RemoveVictim
  BY <1>2, VictimKeeps
<1>3. CASE Search
  BY <1>3, SearchKeeps DEF Search, CoreInv, coreVars
<1>4. CASE (\E x \in Vertices : DeleteVertex(x)) \/ UNCHANGED allVars
  <2>1. UNCHANGED vars /\ UNCHANGED <<input, added>>
    BY <1>4 DEF DeleteVertex, allVars, coreVars
  <2>2. GraphOK' /\ edge' = edge
    BY <2>1, GraphStays DEF vars, graphVars, CoreInv, ForestInv
  <2>3. UNCHANGED searchVars
    BY <2>1 DEF vars, searchVars
  <2>4. SearchOK'
    <3>1. SearchOK /\ tree' = tree
      BY <2>1 DEF CoreInv, ForestInv, vars, graphVars
    <3>. QED
      BY <2>2, <2>3, <3>1 DEF SearchOK, searchVars
  <2>. QED
    BY <2>1, <2>2, <2>4, SameEdges DEF CoreInv, ForestInv
<1>. QED
  BY <1>1, <1>2, <1>3, <1>4 DEF CoreNext

LEMMA CoreInvariant == CoreSpec => []CoreInv
<1>1. CoreInit => CoreInv
  BY ForestInit DEF CoreInit, CoreInv
<1>2. CoreInv /\ [CoreNext]_allVars => CoreInv'
  BY CoreKeeps
<1>. QED
  BY <1>1, <1>2, PTL DEF CoreSpec

(****************************************************************************)
(* For every graph and every order of deletions, at every step of every     *)
(* search: the lists, the level fields and the forests describe the same    *)
(* edges, every forest is a forest, and its trees are the components of its *)
(* edges.  No link of downgrade or of the reconnection joins a tree to      *)
(* itself.                                                                  *)
(****************************************************************************)
THEOREM LevelsAreDescribed == CoreSpec => []LevelsDescribed
<1>1. CoreInv => LevelsDescribed
  BY DEF CoreInv, ForestInv, GraphOK, LevelsDescribed
<1>. QED
  BY <1>1, CoreInvariant, PTL

(****************************************************************************)
(* The level of an edge never rises, and a tree edge stays one: a search    *)
(* pays for every move with a level.                                        *)
(****************************************************************************)
THEOREM LevelsFall == CoreSpec => LevelsOnlyFall
<1>1. CoreInv /\ [CoreNext]_allVars => [Falls]_allVars
  BY CoreKeeps
<1>. QED
  BY <1>1, CoreInvariant, PTL DEF CoreSpec, LevelsOnlyFall, Falls

--------------------------------------------------------------------------------
(* Picking elements out of a list.  Picked is a recursive function; that    *)
(* there is such a function, and what it returns, is shown by a smallest    *)
(* counterexample.                                                          *)

LEMMA LeastNatural ==
  ASSUME NEW S, S \subseteq Nat, S # {}
  PROVE  \E n \in S : \A m \in S : n <= m
<1>1. PICK n \in S : \A m \in S : ~(<<m, n>> \in OpToRel(<, Nat))
  BY ONLY WFMin, NatLessThanWellFounded, S \subseteq Nat, S # {}
<1>2. \A m \in S : ~(m < n)
  BY <1>1 DEF OpToRel
<1>. QED
  BY <1>2

Picks(f, s, T, n) ==
  \A i \in 0 .. n :
    f[i] = IF i = 0 THEN <<>>
           ELSE IF s[i] \in T THEN Append(f[i - 1], s[i]) ELSE f[i - 1]

LEMMA PicksExist ==
  ASSUME NEW s, NEW T, NEW n \in Nat
  PROVE  \E f : f = [i \in 0 .. n |-> f[i]] /\ Picks(f, s, T, n)
<1>. DEFINE Good(k) == \E f : f = [i \in 0 .. k |-> f[i]] /\ Picks(f, s, T, k)
            Bad == {k \in Nat : ~Good(k)}
<1>1. Good(0)
  <2>. DEFINE f == [i \in 0 .. 0 |-> <<>>]
  <2>1. f = [i \in 0 .. 0 |-> f[i]] /\ Picks(f, s, T, 0)
    BY DEF Picks
  <2>. QED
    BY <2>1
<1>2. ASSUME NEW k \in Nat, Good(k) PROVE Good(k + 1)
  <2>1. PICK f : f = [i \in 0 .. k |-> f[i]] /\ Picks(f, s, T, k)
    BY <1>2
  <2>. DEFINE g == [i \in 0 .. k + 1 |->
                      IF i <= k THEN f[i]
                      ELSE IF s[i] \in T THEN Append(f[i - 1], s[i]) ELSE f[i - 1]]
  <2>2. ASSUME NEW i \in 0 .. k + 1
        PROVE  g[i] = IF i = 0 THEN <<>>
                      ELSE IF s[i] \in T THEN Append(g[i - 1], s[i]) ELSE g[i - 1]
    <3>1. CASE i <= k
      <4>1. i \in 0 .. k /\ g[i] = f[i] /\ (i # 0 => g[i - 1] = f[i - 1])
        BY <3>1
      <4>2. f[i] = IF i = 0 THEN <<>>
                   ELSE IF s[i] \in T THEN Append(f[i - 1], s[i]) ELSE f[i - 1]
        BY <2>1, <4>1 DEF Picks
      <4>. QED
        BY <4>1, <4>2
    <3>2. CASE ~(i <= k)
      <4>1. i = k + 1 /\ i # 0 /\ i - 1 \in 0 .. k
        BY <3>2
      <4>2. g[i - 1] = f[i - 1]
        BY <4>1
      <4>3. g[i] = IF s[i] \in T THEN Append(f[i - 1], s[i]) ELSE f[i - 1]
        BY <3>2
      <4>. QED
        BY <4>1, <4>2, <4>3
    <3>. QED
      BY <3>1, <3>2
  <2>3. g = [i \in 0 .. k + 1 |-> g[i]]
    OBVIOUS
  <2>. HIDE DEF g
  <2>4. Picks(g, s, T, k + 1)
    BY <2>2 DEF Picks
  <2>. QED
    BY <2>3, <2>4
<1>. HIDE DEF Good
<1>3. ASSUME Bad # {} PROVE FALSE
  <2>1. PICK k \in Bad : \A m \in Bad : k <= m
    BY <1>3, LeastNatural
  <2>2. k # 0
    BY <1>1
  <2>3. k - 1 \in Nat /\ Good(k - 1)
    BY <2>1, <2>2
  <2>. QED
    BY <1>2, <2>1, <2>3
<1>4. Good(n)
  BY <1>3
<1>. QED
  BY <1>4 DEF Good

LEMMA PickedIsPicks ==
  ASSUME NEW s, Len(s) \in Nat, NEW T
  PROVE  \E f : Picks(f, s, T, Len(s)) /\ Picked(s, T) = f[Len(s)]
<1>. DEFINE pick[i \in 0 .. Len(s)] ==
              IF i = 0 THEN <<>>
              ELSE IF s[i] \in T THEN Append(pick[i - 1], s[i]) ELSE pick[i - 1]
            Is(f) == f = [i \in 0 .. Len(s) |->
                            IF i = 0 THEN <<>>
                            ELSE IF s[i] \in T THEN Append(f[i - 1], s[i]) ELSE f[i - 1]]
<1>1. \E f : Is(f)
  <2>1. PICK f : f = [i \in 0 .. Len(s) |-> f[i]] /\ Picks(f, s, T, Len(s))
    BY PicksExist
  <2>2. \A i \in 0 .. Len(s) :
          f[i] = IF i = 0 THEN <<>>
                 ELSE IF s[i] \in T THEN Append(f[i - 1], s[i]) ELSE f[i - 1]
    BY <2>1 DEF Picks
  <2>3. [i \in 0 .. Len(s) |-> f[i]]
          = [i \in 0 .. Len(s) |->
               IF i = 0 THEN <<>>
               ELSE IF s[i] \in T THEN Append(f[i - 1], s[i]) ELSE f[i - 1]]
    BY <2>2
  <2>. QED
    BY <2>1, <2>3
<1>2. pick = CHOOSE f : Is(f)
  OBVIOUS
<1>. HIDE DEF pick, Is
<1>3. Is(pick)
  BY <1>1, <1>2
<1>. USE DEF Is
<1>4. Picks(pick, s, T, Len(s))
  BY <1>3 DEF Picks
<1>5. Picked(s, T) = pick[Len(s)]
  BY DEF Picked, pick
<1>. QED
  BY <1>4, <1>5

\* Picked takes the elements of T and no other, each as often as s has it.
LEMMA PickedFacts ==
  ASSUME NEW S, NEW s \in Seq(S), NoRepeat(s), NEW T
  PROVE  /\ Picked(s, T) \in Seq(S) /\ NoRepeat(Picked(s, T))
         /\ Items(Picked(s, T)) = Items(s) \cap T
<1>0. Len(s) \in Nat /\ DOMAIN s = 1 .. Len(s)
  OBVIOUS
<1>1. PICK f : Picks(f, s, T, Len(s)) /\ Picked(s, T) = f[Len(s)]
  BY <1>0, PickedIsPicks
<1>. DEFINE Upto(n) == {s[i] : i \in 1 .. n}
            Good(n) == f[n] \in Seq(S) /\ NoRepeat(f[n]) /\ Items(f[n]) = Upto(n) \cap T
            Bad == {n \in 0 .. Len(s) : ~Good(n)}
<1>2. Good(0)
  <2>1. f[0] = <<>>
    BY <1>0, <1>1 DEF Picks
  <2>2. <<>> \in Seq(S) /\ NoRepeat(<<>>) /\ Items(<<>>) = {}
    BY DEF NoRepeat, Items
  <2>3. Upto(0) = {}
    OBVIOUS
  <2>. QED
    BY <2>1, <2>2, <2>3
<1>3. ASSUME NEW n \in 1 .. Len(s), Good(n - 1) PROVE Good(n)
  <2>1. f[n] = IF s[n] \in T THEN Append(f[n - 1], s[n]) ELSE f[n - 1]
    BY <1>1, <1>3 DEF Picks
  <2>2. s[n] \in S
    BY <1>0, <1>3, ElementOfSeq
  <2>3. Upto(n) = Upto(n - 1) \cup {s[n]}
    <3>1. 1 .. n = (1 .. n - 1) \cup {n}
      BY <1>3
    <3>. QED
      BY <3>1
  <2>4. s[n] \notin Upto(n - 1)
    BY <1>0, <1>3 DEF NoRepeat
  <2>. HIDE DEF Upto
  <2>5. CASE s[n] \in T
    <3>1. s[n] \notin Items(f[n - 1])
      BY <1>3, <2>4
    <3>2. /\ Append(f[n - 1], s[n]) \in Seq(S) /\ NoRepeat(Append(f[n - 1], s[n]))
          /\ Items(Append(f[n - 1], s[n])) = Items(f[n - 1]) \cup {s[n]}
      BY <1>3, <2>2, <3>1, ListAppend
    <3>. QED
      BY <1>3, <2>1, <2>3, <2>5, <3>2
  <2>6. CASE s[n] \notin T
    BY <1>3, <2>1, <2>3, <2>6
  <2>. QED
    BY <2>5, <2>6
<1>. HIDE DEF Good
<1>4. ASSUME Bad # {} PROVE FALSE
  <2>1. Bad \subseteq Nat
    BY <1>0
  <2>2. PICK n \in Bad : \A m \in Bad : n <= m
    BY <1>4, <2>1, LeastNatural
  <2>3. n # 0
    BY <1>2
  <2>4. n \in 1 .. Len(s) /\ n - 1 \in 0 .. Len(s) /\ n - 1 \notin Bad
    BY <1>0, <2>2, <2>3
  <2>5. Good(n - 1)
    BY <2>4
  <2>. QED
    BY <1>3, <2>4, <2>5
<1>5. Good(Len(s))
  BY <1>0, <1>4
<1>6. Upto(Len(s)) = Items(s)
  BY <1>0 DEF Items
<1>. HIDE DEF Upto
<1>. QED
  BY <1>1, <1>5, <1>6 DEF Good

\* One list after another.
LEMMA ListsJoin ==
  ASSUME NEW S, NEW s \in Seq(S), NEW t \in Seq(S), NoRepeat(s), NoRepeat(t),
         Items(s) \cap Items(t) = {}
  PROVE  /\ s \o t \in Seq(S) /\ NoRepeat(s \o t) /\ Items(s \o t) = Items(s) \cup Items(t)
         /\ \A i \in DOMAIN (s \o t) :
              (s \o t)[i] = IF i <= Len(s) THEN s[i] ELSE t[i - Len(s)]
<1>. DEFINE m == Len(s)
            n == Len(t)
            w == s \o t
<1>1. /\ m \in Nat /\ n \in Nat /\ DOMAIN s = 1 .. m /\ DOMAIN t = 1 .. n
      /\ w \in Seq(S) /\ DOMAIN w = 1 .. m + n
      /\ \A i \in 1 .. m + n : w[i] = IF i <= m THEN s[i] ELSE t[i - m]
  BY ConcatProperties
<1>. HIDE DEF m, n, w
<1>2. \A i \in 1 .. m + n : IF i <= m THEN i \in 1 .. m ELSE i - m \in 1 .. n
  BY <1>1
<1>3. NoRepeat(w)
  <2>. SUFFICES ASSUME NEW i \in 1 .. m + n, NEW j \in 1 .. m + n, w[i] = w[j] PROVE i = j
    BY <1>1 DEF NoRepeat
  <2>1. CASE i <= m /\ j <= m
    BY <1>1, <1>2, <2>1 DEF NoRepeat
  <2>2. CASE ~(i <= m) /\ ~(j <= m)
    <3>1. i - m \in 1 .. n /\ j - m \in 1 .. n /\ t[i - m] = t[j - m]
      BY <1>1, <1>2, <2>2
    <3>. DEFINE k == i - m
                l == j - m
    <3>2. k \in DOMAIN t /\ l \in DOMAIN t /\ t[k] = t[l]
      BY <1>1, <3>1
    <3>. HIDE DEF k, l
    <3>3. k = l
      BY <3>2 DEF NoRepeat
    <3>. QED
      BY <1>1, <3>3 DEF k, l
  <2>3. ASSUME NEW k \in 1 .. m + n, NEW l \in 1 .. m + n, k <= m, ~(l <= m), w[k] = w[l]
        PROVE  FALSE
    <3>1. s[k] \in Items(s) /\ t[l - m] \in Items(t)
      BY <1>1, <1>2, <2>3 DEF Items
    <3>. QED
      BY <1>1, <2>3, <3>1
  <2>. QED
    BY <2>1, <2>2, <2>3
<1>4. ASSUME NEW x \in Items(w) PROVE x \in Items(s) \cup Items(t)
  <2>1. PICK i \in 1 .. m + n : x = w[i]
    BY <1>1 DEF Items
  <2>. QED
    BY <1>1, <1>2, <2>1 DEF Items
<1>5. ASSUME NEW x \in Items(s) \cup Items(t) PROVE x \in Items(w)
  <2>1. CASE x \in Items(s)
    <3>1. PICK i \in 1 .. m : x = s[i]
      BY <1>1, <2>1 DEF Items
    <3>2. i \in 1 .. m + n /\ w[i] = x
      BY <1>1, <3>1
    <3>. QED
      BY <1>1, <3>2 DEF Items
  <2>2. CASE x \in Items(t)
    <3>1. PICK i \in 1 .. n : x = t[i]
      BY <1>1, <2>2 DEF Items
    <3>2. i + m \in 1 .. m + n /\ ~(i + m <= m) /\ i + m - m = i
      BY <1>1
    <3>3. w[i + m] = x
      BY <1>1, <3>1, <3>2
    <3>. QED
      BY <1>1, <3>2, <3>3 DEF Items
  <2>. QED
    BY <2>1, <2>2
<1>6. Items(w) = Items(s) \cup Items(t)
  BY <1>4, <1>5
<1>. QED
  BY <1>1, <1>3, <1>6 DEF w, m

\* What the head of a list leaves behind.
LEMMA ListTail ==
  ASSUME NEW S, NEW s \in Seq(S), s # <<>>, NoRepeat(s)
  PROVE  /\ Head(s) \in S /\ Tail(s) \in Seq(S) /\ NoRepeat(Tail(s))
         /\ Items(Tail(s)) = Items(s) \ {Head(s)}
         /\ DOMAIN Tail(s) = 1 .. Len(s) - 1
         /\ \A i \in 1 .. Len(s) - 1 : Tail(s)[i] = s[i + 1]
<1>1. /\ Len(s) \in Nat /\ Len(s) >= 1 /\ DOMAIN s = 1 .. Len(s)
      /\ Head(s) = s[1] /\ Head(s) \in S /\ Tail(s) \in Seq(S)
      /\ DOMAIN Tail(s) = 1 .. Len(s) - 1
      /\ \A i \in 1 .. Len(s) - 1 : Tail(s)[i] = s[i + 1]
  BY HeadTailProperties, EmptySeq
<1>. DEFINE n == Len(s)
            t == Tail(s)
<1>. HIDE DEF n, t
<1>2. /\ n \in Nat /\ n >= 1 /\ DOMAIN s = 1 .. n /\ DOMAIN t = 1 .. n - 1
      /\ \A i \in 1 .. n - 1 : t[i] = s[i + 1] /\ i + 1 \in 1 .. n
  BY <1>1 DEF n, t
<1>3. NoRepeat(t)
  <2>. SUFFICES ASSUME NEW i \in 1 .. n - 1, NEW j \in 1 .. n - 1, t[i] = t[j] PROVE i = j
    BY <1>2 DEF NoRepeat
  <2>. DEFINE k == i + 1
              l == j + 1
  <2>1. k \in DOMAIN s /\ l \in DOMAIN s /\ s[k] = s[l]
    BY <1>2
  <2>. HIDE DEF k, l
  <2>2. k = l
    BY <2>1 DEF NoRepeat
  <2>. QED
    BY <1>2, <2>2 DEF k, l
<1>4. ASSUME NEW x \in Items(t) PROVE x \in Items(s) \ {s[1]}
  <2>1. PICK i \in 1 .. n - 1 : x = t[i]
    BY <1>2 DEF Items
  <2>2. i + 1 \in 1 .. n /\ 1 \in 1 .. n /\ i + 1 # 1
    BY <1>2
  <2>. QED
    BY <1>2, <2>1, <2>2 DEF Items, NoRepeat
<1>5. ASSUME NEW x \in Items(s) \ {s[1]} PROVE x \in Items(t)
  <2>1. PICK i \in 1 .. n : x = s[i]
    BY <1>2 DEF Items
  <2>2. i - 1 \in 1 .. n - 1 /\ i - 1 + 1 = i
    BY <1>2, <1>5, <2>1
  <2>3. t[i - 1] = x
    BY <1>2, <2>1, <2>2
  <2>. QED
    BY <1>2, <2>2, <2>3 DEF Items
<1>. QED
  BY <1>1, <1>3, <1>4, <1>5 DEF t

--------------------------------------------------------------------------------
(****************************************************************************)
(* The inductive invariant of a deletion.  Every live edge is one the input *)
(* has, added by now; nothing is deleted before all are added.  The edges   *)
(* outside the forests come first, and once a search runs they are gone:    *)
(* its replacement is an edge outside the forests, so it is not on the list.*)
(****************************************************************************)
Doomed == Items(victims)

AddedSoFar ==
  /\ added \in 0 .. Len(input)
  /\ \A e \in DOMAIN edge : \E i \in 1 .. added : input[i] = e
  /\ added < Len(input) => victims = <<>> /\ aliveV = Vertices \ {Isolated}

ListExact ==
  /\ aliveV \subseteq Vertices
  /\ victims \in Seq(AllEdges) /\ NoRepeat(victims)
  /\ Doomed = {e \in DOMAIN edge : ~({e[1], e[2]} \subseteq aliveV)}

TreeEdgesLast ==
  /\ \A i, j \in DOMAIN victims :
       i <= j /\ edge[victims[i]].isTree => edge[victims[j]].isTree
  /\ phase # "idle" => \A i \in DOMAIN victims : edge[victims[i]].isTree

BatchInv == AddedSoFar /\ ListExact /\ TreeEdgesLast

LEMMA BatchInit ==
  ASSUME CoreInit
  PROVE  BatchInv
<1>1. /\ DOMAIN edge = {} /\ added = 0 /\ victims = <<>> /\ input \in Inputs
      /\ aliveV = Vertices \ {Isolated} /\ phase = "idle"
  BY DEF CoreInit, Init
<1>2. Len(input) \in Nat
  BY <1>1, InputsAssumption
<1>3. <<>> \in Seq(AllEdges) /\ DOMAIN <<>> = {}
  OBVIOUS
<1>4. AddedSoFar
  BY <1>1, <1>2 DEF AddedSoFar
<1>5. ListExact
  BY <1>1, <1>3 DEF ListExact, Doomed, Items, NoRepeat
<1>6. TreeEdgesLast
  BY <1>1, <1>3 DEF TreeEdgesLast
<1>. QED
  BY <1>4, <1>5, <1>6 DEF BatchInv

LEMMA InputFacts ==
  ASSUME CoreInv
  PROVE  /\ input \in Seq(AllEdges) /\ Len(input) \in Nat /\ NoRepeat(input)
         /\ DOMAIN input = 1 .. Len(input)
         /\ \A i \in 1 .. Len(input) :
              input[i] \in AllEdges /\ ~Touches(input[i], Isolated)
<1>1. input \in Seq(AllEdges)
  BY InputsAssumption DEF CoreInv
<1>2. Len(input) \in Nat /\ DOMAIN input = 1 .. Len(input)
  BY <1>1
<1>3. NoRepeat(input) /\ \A i \in DOMAIN input : ~Touches(input[i], Isolated)
  BY InputsAssumption DEF CoreInv, NoRepeat
<1>. QED
  BY <1>1, <1>2, <1>3, ElementOfSeq

LEMMA AddBatch ==
  ASSUME CoreInv, BatchInv, AddEdge
  PROVE  BatchInv'
<1>. DEFINE e == input[added + 1]
            n == Len(input)
<1>1. /\ added < n /\ Add(e) /\ added' = added + 1
      /\ UNCHANGED <<input, aliveV, victims>>
  BY DEF AddEdge
<1>2. added \in Nat /\ n \in Nat /\ added + 1 \in 1 .. n
  BY <1>1, InputFacts DEF BatchInv, AddedSoFar
<1>3. e \in AllEdges /\ ~Touches(e, Isolated)
  BY <1>2, InputFacts
<1>4. victims = <<>> /\ aliveV = Vertices \ {Isolated}
  BY <1>1 DEF BatchInv, AddedSoFar
<1>5. {e[1], e[2]} \subseteq aliveV
  BY <1>3, <1>4 DEF AllEdges, Touches
<1>6. DOMAIN edge' = DOMAIN edge \cup {e} /\ phase = "idle" /\ phase' = phase
  BY <1>1 DEF Add, searchVars
<1>7. AddedSoFar'
  <2>1. ASSUME NEW x \in DOMAIN edge' PROVE \E i \in 1 .. added' : input'[i] = x
    <3>1. CASE x = e
      <4>1. added + 1 \in 1 .. added' /\ input'[added + 1] = e
        BY <1>1, <1>2
      <4>. QED
        BY <3>1, <4>1
    <3>2. CASE x \in DOMAIN edge
      <4>1. PICK i \in 1 .. added : input[i] = x
        BY <3>2 DEF BatchInv, AddedSoFar
      <4>2. i \in 1 .. added'
        BY <1>1, <1>2
      <4>. QED
        BY <1>1, <4>1, <4>2
    <3>. QED
      BY <1>6, <3>1, <3>2
  <2>. HIDE DEF e
  <2>2. added' \in 0 .. Len(input')
    BY <1>1, <1>2
  <2>. QED
    BY <1>1, <1>4, <2>1, <2>2 DEF AddedSoFar
<1>. HIDE DEF e
<1>8. ListExact'
  BY <1>1, <1>5, <1>6 DEF BatchInv, ListExact, Doomed, Items
<1>9. TreeEdgesLast'
  BY <1>1, <1>4, <1>6 DEF TreeEdgesLast
<1>. QED
  BY <1>7, <1>8, <1>9 DEF BatchInv

LEMMA DeleteBatch ==
  ASSUME CoreInv, BatchInv, NEW x \in Vertices, DeleteVertex(x)
  PROVE  BatchInv'
<1>. DEFINE A == EdgesAt(x) \ TreeEdges
            B == EdgesAt(x) \cap TreeEdges
            s == Picked(input, A)
            t == Picked(input, B)
<1>1. /\ phase = "idle" /\ added = Len(input) /\ victims = <<>> /\ x \in aliveV
      /\ aliveV' = aliveV \ {x} /\ victims' = s \o t
      /\ UNCHANGED <<edge, phase, input, added>>
  BY DEF DeleteVertex, Batch, vars
<1>2. Items(input) = {input[i] : i \in 1 .. Len(input)}
  BY InputFacts DEF Items
<1>3. DOMAIN edge \subseteq Items(input)
  BY <1>1, <1>2 DEF BatchInv, AddedSoFar
<1>4. A \subseteq DOMAIN edge /\ B \subseteq DOMAIN edge /\ A \cup B = EdgesAt(x) /\ A \cap B = {}
      /\ (\A e \in A : ~edge[e].isTree) /\ (\A e \in B : edge[e].isTree)
  BY DEF EdgesAt, TreeEdges, GraphTyped
<1>. HIDE DEF A, B
<1>5. /\ s \in Seq(AllEdges) /\ NoRepeat(s) /\ Items(s) = Items(input) \cap A
      /\ t \in Seq(AllEdges) /\ NoRepeat(t) /\ Items(t) = Items(input) \cap B
  BY InputFacts, PickedFacts
<1>6. Items(s) = A /\ Items(t) = B
  BY <1>3, <1>4, <1>5
<1>. HIDE DEF s, t
<1>7. /\ s \o t \in Seq(AllEdges) /\ NoRepeat(s \o t) /\ Items(s \o t) = EdgesAt(x)
      /\ \A i \in DOMAIN (s \o t) :
           (s \o t)[i] = IF i <= Len(s) THEN s[i] ELSE t[i - Len(s)]
  <2>1. Items(s) \cap Items(t) = {} /\ Items(s) \cup Items(t) = EdgesAt(x)
    BY <1>4, <1>6
  <2>2. /\ s \o t \in Seq(AllEdges) /\ NoRepeat(s \o t)
        /\ Items(s \o t) = Items(s) \cup Items(t)
        /\ \A i \in DOMAIN (s \o t) :
             (s \o t)[i] = IF i <= Len(s) THEN s[i] ELSE t[i - Len(s)]
    BY <1>5, <2>1, ListsJoin
  <2>. QED
    BY <2>1, <2>2
<1>8. \A e \in DOMAIN edge : {e[1], e[2]} \subseteq aliveV
  BY <1>1 DEF BatchInv, ListExact, Doomed, Items
<1>9. EdgesAt(x) = {e \in DOMAIN edge : ~({e[1], e[2]} \subseteq aliveV \ {x})}
  BY <1>8 DEF EdgesAt, Touches
<1>10. ListExact'
  BY <1>1, <1>7, <1>9 DEF BatchInv, ListExact, Doomed
<1>11. TreeEdgesLast'
  <2>1. /\ Len(s) \in Nat /\ Len(t) \in Nat /\ DOMAIN s = 1 .. Len(s) /\ DOMAIN t = 1 .. Len(t)
        /\ DOMAIN (s \o t) = 1 .. Len(s) + Len(t)
    BY <1>5
  <2>2. ASSUME NEW i \in DOMAIN (s \o t), NEW j \in DOMAIN (s \o t), i <= j,
               edge[(s \o t)[i]].isTree
        PROVE  edge[(s \o t)[j]].isTree
    <3>1. ~(i <= Len(s))
      <4>1. ASSUME i <= Len(s) PROVE FALSE
        <5>1. i \in DOMAIN s /\ (s \o t)[i] = s[i]
          BY <1>7, <2>1, <4>1
        <5>2. s[i] \in A
          BY <1>6, <5>1 DEF Items
        <5>. QED
          BY <1>4, <2>2, <5>1, <5>2
      <4>. QED
        BY <4>1
    <3>2. ~(j <= Len(s)) /\ j - Len(s) \in DOMAIN t
      BY <2>1, <2>2, <3>1
    <3>3. (s \o t)[j] \in B
      BY <1>6, <1>7, <3>2 DEF Items
    <3>. QED
      BY <1>4, <3>3
  <2>. QED
    BY <1>1, <2>2 DEF TreeEdgesLast
<1>12. AddedSoFar'
  <2>1. ~(added < Len(input))
    BY <1>1, InputFacts
  <2>. QED
    BY <1>1, <2>1 DEF BatchInv, AddedSoFar
<1>. QED
  BY <1>10, <1>11, <1>12 DEF BatchInv

LEMMA VictimBatch ==
  ASSUME CoreInv, BatchInv, RemoveVictim
  PROVE  BatchInv'
<1>. DEFINE e == Head(victims)
<1>1. /\ victims # <<>> /\ (RemoveNonTree(e) \/ RemoveTree(e)) /\ victims' = Tail(victims)
      /\ UNCHANGED <<input, added, aliveV>>
  BY DEF RemoveVictim, RemoveEdge
<1>2. /\ victims \in Seq(AllEdges) /\ NoRepeat(victims)
      /\ Items(victims) = {x \in DOMAIN edge : ~({x[1], x[2]} \subseteq aliveV)}
  BY DEF BatchInv, ListExact, Doomed
<1>3. /\ Tail(victims) \in Seq(AllEdges) /\ NoRepeat(Tail(victims))
      /\ Items(Tail(victims)) = Items(victims) \ {e}
      /\ DOMAIN Tail(victims) = 1 .. Len(victims) - 1
      /\ \A i \in 1 .. Len(victims) - 1 : Tail(victims)[i] = victims[i + 1]
  BY <1>1, <1>2, ListTail
<1>4. e = victims[1] /\ Len(victims) \in Nat /\ Len(victims) >= 1 /\ DOMAIN victims = 1 .. Len(victims)
  BY <1>1, <1>2, HeadTailProperties, EmptySeq
<1>. HIDE DEF e
<1>5. /\ DOMAIN edge' = DOMAIN edge \ {e}
      /\ \A x \in DOMAIN edge' : edge'[x] = edge[x]
  BY <1>1 DEF RemoveNonTree, RemoveTree, Dropped
<1>6. ListExact'
  BY <1>1, <1>2, <1>3, <1>5 DEF BatchInv, ListExact, Doomed
<1>7. ASSUME NEW i \in DOMAIN victims'
      PROVE  /\ victims'[i] = victims[i + 1] /\ i + 1 \in DOMAIN victims /\ i \in Int
             /\ edge'[victims'[i]] = edge[victims[i + 1]]
  <2>1. victims'[i] = victims[i + 1] /\ i + 1 \in DOMAIN victims /\ i \in Int
    BY <1>1, <1>3, <1>4
  <2>2. victims'[i] \in DOMAIN edge'
    BY <1>6 DEF ListExact, Doomed, Items
  <2>. QED
    BY <1>5, <2>1, <2>2
<1>8. TreeEdgesLast'
  <2>1. ASSUME NEW i \in DOMAIN victims', NEW j \in DOMAIN victims', i <= j,
               edge'[victims'[i]].isTree
        PROVE  edge'[victims'[j]].isTree
    <3>1. i + 1 \in DOMAIN victims /\ j + 1 \in DOMAIN victims /\ i + 1 <= j + 1
      BY <1>7, <2>1
    <3>2. edge[victims[i + 1]].isTree
      BY <1>7, <2>1
    <3>3. edge[victims[j + 1]].isTree
      BY <3>1, <3>2 DEF BatchInv, TreeEdgesLast
    <3>. QED
      BY <1>7, <3>3
  <2>2. ASSUME phase' # "idle", NEW j \in DOMAIN victims' PROVE edge'[victims'[j]].isTree
    <3>1. RemoveTree(e)
      BY <1>1, <2>2 DEF RemoveNonTree, searchVars
    <3>2. edge[victims[1]].isTree /\ 1 \in DOMAIN victims
      BY <1>4, <3>1 DEF RemoveTree
    <3>3. j + 1 \in DOMAIN victims /\ 1 <= j + 1
      BY <1>4, <1>7
    <3>4. edge[victims[j + 1]].isTree
      BY <3>2, <3>3 DEF BatchInv, TreeEdgesLast
    <3>. QED
      BY <1>7, <3>4
  <2>. QED
    BY <2>1, <2>2 DEF TreeEdgesLast
<1>9. AddedSoFar'
  <2>1. ~(added < Len(input))
    BY <1>1 DEF BatchInv, AddedSoFar
  <2>. QED
    BY <1>1, <1>5, <2>1 DEF BatchInv, AddedSoFar
<1>. QED
  BY <1>6, <1>8, <1>9 DEF BatchInv

\* A search takes no edge out and starts only when the list holds tree edges.
LEMMA SearchBatch ==
  ASSUME CoreInv, BatchInv, Search
  PROVE  BatchInv'
<1>1. SearchStep /\ UNCHANGED <<input, added, aliveV, victims>>
  BY DEF Search, coreVars
<1>2. phase # "idle" /\ DOMAIN edge' = DOMAIN edge
  BY <1>1 DEF SearchStep, EnterLevel, SearchExhausted, Reconnect, NextLevel, Visit, VisitEarly, ExamineTree,
       BreakList, FindReplacement, ExamineNonTree, Downgrade, ScanDone, ScanningAt, graphVars
<1>3. Falls
  BY <1>1, SearchKeeps DEF CoreInv
<1>4. \A i \in DOMAIN victims : victims[i] \in DOMAIN edge
  BY DEF BatchInv, ListExact, Doomed, Items
<1>5. \A i \in DOMAIN victims' : edge'[victims'[i]].isTree
  BY <1>1, <1>2, <1>3, <1>4 DEF BatchInv, TreeEdgesLast, Falls
<1>6. TreeEdgesLast'
  BY <1>5 DEF TreeEdgesLast
<1>7. AddedSoFar' /\ ListExact'
  BY <1>1, <1>2 DEF BatchInv, AddedSoFar, ListExact, Doomed
<1>. QED
  BY <1>6, <1>7 DEF BatchInv

LEMMA BatchKeeps ==
  ASSUME CoreInv, BatchInv, [CoreNext]_allVars
  PROVE  BatchInv'
<1>1. CASE UNCHANGED allVars
  BY <1>1 DEF allVars, vars, coreVars, BatchInv, AddedSoFar, ListExact, TreeEdgesLast, Doomed
<1>. QED
  BY <1>1, AddBatch, DeleteBatch, VictimBatch, SearchBatch DEF CoreNext

LEMMA BatchInvariant == CoreSpec => [](CoreInv /\ BatchInv)
<1>1. CoreInit => CoreInv /\ BatchInv
  BY ForestInit, BatchInit DEF CoreInit, CoreInv
<1>2. CoreInv /\ BatchInv /\ [CoreNext]_allVars => CoreInv' /\ BatchInv'
  BY CoreKeeps, BatchKeeps
<1>. QED
  BY <1>1, <1>2, PTL DEF CoreSpec

(****************************************************************************)
(* For every graph: the list deleteVertexBatch works through holds exactly  *)
(* the live edges of deleted vertices, each once, however the searches      *)
(* between two removals change levels and forests, and no search reconnects *)
(* a component through an edge the list is about to remove.                 *)
(****************************************************************************)
THEOREM BatchStaysExact == CoreSpec => []BatchExact
<1>1. CoreInv /\ BatchInv => BatchExact
  <2>. SUFFICES ASSUME CoreInv, BatchInv PROVE BatchExact
    OBVIOUS
  <2>1. ASSUME found \in Doomed PROVE FALSE
    <3>1. found \in DOMAIN edge
      BY <2>1 DEF BatchInv, ListExact
    <3>2. found \in AllEdges
      BY <3>1 DEF CoreInv, ForestInv, GraphOK, GraphTyped
    <3>3. found # NoEdge
      BY <3>2 DEF AllEdges, NoEdge
    <3>4. phase = "scan" /\ ~edge[found].isTree
      BY <3>3 DEF CoreInv, ForestInv, SearchOK
    <3>5. PICK i \in DOMAIN victims : victims[i] = found
      BY <2>1 DEF Doomed, Items
    <3>. QED
      BY <3>4, <3>5 DEF BatchInv, TreeEdgesLast
  <2>. QED
    BY <2>1 DEF BatchInv, ListExact, Doomed, Items, NoRepeat, BatchExact
<1>. QED
  BY <1>1, BatchInvariant, PTL

--------------------------------------------------------------------------------
(****************************************************************************)
(* Types.  What ForestInv leaves open are the fields of a search that are   *)
(* only written while it runs.                                              *)
(****************************************************************************)
SearchTyped ==
  /\ {near, far, at} \subseteq Vertices \cup {NoVertex}
  /\ pending \subseteq Vertices

LEMMA SearchTypedKeeps ==
  ASSUME CoreInv, SearchTyped, [CoreNext]_allVars
  PROVE  SearchTyped'
<1>1. CASE Search
  <2>1. SearchStep
    BY <1>1 DEF Search
  <2>2. CASE EnterLevel
    <3>1. /\ near' \in {near, far} /\ far' \in {near, far} /\ at' = NoVertex /\ phase' = "scan"
      BY <2>2 DEF EnterLevel
    <3>2. ForestInv'
      BY <2>1, SearchKeeps DEF CoreInv
    <3>3. level' \in Levels /\ near' \in Vertices /\ pending' \subseteq tree'[level'][near']
      BY <3>1, <3>2 DEF ForestInv, SearchOK
    <3>4. tree'[level'][near'] \subseteq Vertices
      BY <3>2, <3>3 DEF ForestInv, GraphOK, GraphTyped
    <3>. QED
      BY <3>1, <3>3, <3>4 DEF SearchTyped
  <2>3. CASE SearchExhausted \/ Reconnect \/ NextLevel
    BY <2>3 DEF SearchExhausted, Reconnect, NextLevel, SearchTyped
  <2>4. CASE \E w \in Vertices : Visit(w) \/ VisitEarly(w)
    BY <2>4 DEF Visit, VisitEarly, SearchTyped
  <2>5. CASE \E e \in AllEdges : ExamineTree(e) \/ BreakList(e)
                                 \/ FindReplacement(e) \/ ExamineNonTree(e)
    BY <2>5 DEF ExamineTree, BreakList, FindReplacement, ExamineNonTree, SearchTyped
  <2>. QED
    BY <2>1, <2>2, <2>3, <2>4, <2>5 DEF SearchStep
<1>2. CASE RemoveVictim
  <2>. DEFINE e == Head(victims)
  <2>1. RemoveNonTree(e) \/ RemoveTree(e)
    BY <1>2 DEF RemoveVictim, RemoveEdge
  <2>. HIDE DEF e
  <2>2. CASE RemoveNonTree(e)
    BY <2>2 DEF RemoveNonTree, searchVars, SearchTyped
  <2>3. CASE RemoveTree(e)
    <3>1. near' = e[1] /\ far' = e[2] /\ UNCHANGED <<pending, at>> /\ e \in DOMAIN edge
      BY <2>3 DEF RemoveTree
    <3>2. e[1] \in Vertices /\ e[2] \in Vertices
      BY <3>1 DEF CoreInv, ForestInv, GraphOK, GraphTyped, AllEdges
    <3>. QED
      BY <3>1, <3>2 DEF SearchTyped
  <2>. QED
    BY <2>1, <2>2, <2>3
<1>3. CASE AddEdge
  BY <1>3 DEF AddEdge, Add, searchVars, SearchTyped
<1>4. CASE (\E x \in Vertices : DeleteVertex(x)) \/ UNCHANGED allVars
  BY <1>4 DEF DeleteVertex, allVars, vars, SearchTyped
<1>. QED
  BY <1>1, <1>2, <1>3, <1>4 DEF CoreNext

(****************************************************************************)
(* For every graph and at every step, the fields of the graph, of the       *)
(* search and of the deletion are what their types say: in particular every *)
(* edge in hand is an edge, and the search index stays a level or one past  *)
(* the top.                                                                 *)
(****************************************************************************)
THEOREM CoreTypeCorrect == CoreSpec => []TypeOK
<1>1. CoreInit => SearchTyped
  BY DEF CoreInit, Init, SearchTyped
<1>2. CoreInv /\ SearchTyped /\ [CoreNext]_allVars => SearchTyped'
  BY SearchTypedKeeps
<1>3. CoreInv /\ BatchInv /\ SearchTyped => TypeOK
  <2>. SUFFICES ASSUME CoreInv, BatchInv, SearchTyped PROVE TypeOK
    OBVIOUS
  <2>1. DOMAIN edge \subseteq AllEdges
    BY DEF CoreInv, ForestInv, GraphOK, GraphTyped
  <2>2. todo \subseteq AllEdges /\ found \in AllEdges \cup {NoEdge}
    BY <2>1 DEF CoreInv, ForestInv, SearchOK
  <2>3. /\ phase \in {"idle", "search", "scan"} /\ level \in 0 .. Size
        /\ \A e \in DOMAIN edge : edge[e] \in EdgeRecord
        /\ list \in [Levels -> Seq(AllEdges)]
        /\ tree \in [Levels -> [Vertices -> SUBSET Vertices]]
    BY DEF CoreInv, ForestInv, GraphOK, GraphTyped, SearchOK
  <2>4. /\ input \in Inputs /\ added \in 0 .. Len(input)
        /\ aliveV \subseteq Vertices /\ victims \in Seq(AllEdges)
    BY DEF CoreInv, BatchInv, AddedSoFar, ListExact
  <2>. QED
    BY <2>1, <2>2, <2>3, <2>4 DEF TypeOK, SearchTyped
<1>. QED
  BY <1>1, <1>2, <1>3, BatchInvariant, PTL DEF CoreSpec

(****************************************************************************)
(* Two vertices the class says are connected really are joined by live      *)
(* edges, at every step of a search too.  (The other direction does not     *)
(* hold for every graph.)                                                   *)
(****************************************************************************)
THEOREM ConnectionsAreReal ==
  CoreSpec => [](\A u, v \in Vertices : IsConnected(u, v) => v \in Component(DOMAIN edge, u))
<1>. DEFINE Real == \A u, v \in Vertices : IsConnected(u, v) => v \in Component(DOMAIN edge, u)
<1>1. CoreInv => Real
  <2>. SUFFICES ASSUME CoreInv, NEW u \in Vertices, NEW v \in Vertices, IsConnected(u, v)
                PROVE  v \in Component(DOMAIN edge, u)
    OBVIOUS
  <2>1. Top \in Levels /\ GraphOK
    BY LevelFacts DEF CoreInv, ForestInv
  <2>2. v \in Component(TreeEdgesUpTo(Top), u)
    BY <2>1, TreeEdgesFacts DEF IsConnected
  <2>3. TreeEdgesUpTo(Top) \in SUBSET DOMAIN edge /\ DOMAIN edge \in SUBSET AllEdges
    BY <2>1 DEF TreeEdgesUpTo, GraphOK, GraphTyped
  <2>. QED
    BY <2>2, <2>3, ComponentGrows
<1>. HIDE DEF Real
<1>2. CoreSpec => []Real
  BY <1>1, CoreInvariant, PTL
<1>. QED
  BY <1>2 DEF Real

--------------------------------------------------------------------------------
(* Tours, whatever entries and edges there are. *)

\* The place after place i of a tour of length n.
After(n, i) == IF i = n THEN 1 ELSE i + 1

Crossing(H, x) == {H[x][1], H[x][2]}
Uncrossed(H, x) == [y \in DOMAIN H \ {x} |-> H[y]]

\* Every entry crosses an edge to the vertex that is visited next.
Crossed(s, V, H) ==
  Len(s) > 1 =>
    \A i \in 1 .. Len(s) :
      \E x \in DOMAIN H : /\ s[i] \in Crossing(H, x)
                          /\ {V[s[i]], V[s[After(Len(s), i)]]} = {x[1], x[2]}

\* Between the two crossings of an edge a tour visits other vertices than around
\* them: the edge is the only one between the two parts of the tree.
Inside(i, p, q) == p < i /\ i <= q
Apart(s, V, p, q) ==
  \A i, j \in 1 .. Len(s) : Inside(i, p, q) /\ ~Inside(j, p, q) => V[s[i]] # V[s[j]]
Separated(s, V, H) ==
  \A x \in DOMAIN H : \A p, q \in 1 .. Len(s) :
    p < q /\ Crossing(H, x) = {s[p], s[q]} => Apart(s, V, p, q)

\* s is a tour over the entries D, which visit the vertices V, along the edges H.
IsTour(s, D, V, H) ==
  /\ s \in Seq(D) /\ Len(s) >= 1
  /\ \A i, j \in 1 .. Len(s) : s[i] = s[j] => i = j
  /\ Crossed(s, V, H)
  /\ Separated(s, V, H)

Agree(E, W, V) == \A e \in E : W[e] = V[e]

\* t is s without some of its places: place k of t is place g[k] of s.
Selects(t, s, g) ==
  /\ Len(t) >= 1
  /\ g \in [1 .. Len(t) -> 1 .. Len(s)]
  /\ \A k \in 1 .. Len(t) : t[k] = s[g[k]]
  /\ \A j, k \in 1 .. Len(t) : j < k => g[j] < g[k]

\* None of these places crosses x, and what follows them in t visits what follows in s.
Follows(t, s, g, V, X) ==
  Len(t) > 1 => \A k \in 1 .. Len(t) :
                  /\ s[g[k]] \notin X
                  /\ V[t[After(Len(t), k)]] = V[s[After(Len(s), g[k])]]

\* Such a tour is one without edge x.
LEMMA PartTour ==
  ASSUME NEW D, NEW V, NEW H, NEW s, IsTour(s, D, V, H), NEW x,
         NEW E, NEW W, Agree(E, W, V), NEW t, t \in Seq(E),
         NEW g, Selects(t, s, g), Follows(t, s, g, V, Crossing(H, x))
  PROVE  IsTour(t, E, W, Uncrossed(H, x))
<1>. DEFINE m == Len(t)
            G == Uncrossed(H, x)
            n == Len(s)
<1>0. /\ g \in [1 .. m -> 1 .. n]
      /\ \A k \in 1 .. m : t[k] = s[g[k]]
      /\ \A j, k \in 1 .. m : j < k => g[j] < g[k]
  BY DEF Selects
<1>1. m \in Nat /\ m >= 1 /\ n \in Nat
  BY DEF IsTour, Selects
<1>2. \A k \in 1 .. m : t[k] \in E /\ W[t[k]] = V[t[k]] /\ g[k] \in 1 .. n /\ g[k] \in Int
  BY <1>0 DEF Agree
<1>3. \A j, k \in 1 .. m : t[j] = t[k] => j = k
  <2>. SUFFICES ASSUME NEW j \in 1 .. m, NEW k \in 1 .. m, t[j] = t[k] PROVE j = k
    OBVIOUS
  <2>1. g[j] = g[k]
    <3>1. s[g[j]] = s[g[k]] /\ g[j] \in 1 .. n /\ g[k] \in 1 .. n
      BY <1>0, <1>2
    <3>2. \A a, b \in 1 .. n : s[a] = s[b] => a = b
      BY DEF IsTour
    <3>. QED
      BY <3>1, <3>2
  <2>. QED
    BY <1>0, <1>1, <1>2, <2>1
<1>4. \A k \in 1 .. m : After(m, k) \in 1 .. m
  BY <1>1 DEF After
<1>5. Crossed(t, W, G)
  <2>. SUFFICES ASSUME m > 1, NEW i \in 1 .. m
                PROVE  \E y \in DOMAIN G : /\ t[i] \in Crossing(G, y)
                                           /\ {W[t[i]], W[t[After(m, i)]]} = {y[1], y[2]}
    BY DEF Crossed
  <2>1. n > 1
    <3>1. 1 \in 1 .. m /\ 2 \in 1 .. m
      BY <1>1
    <3>2. g[1] < g[2]
      BY <1>0, <3>1
    <3>. QED
      BY <1>2, <3>1, <3>2
  <2>2. PICK y \in DOMAIN H : /\ s[g[i]] \in Crossing(H, y)
                              /\ {V[s[g[i]]], V[s[After(n, g[i])]]} = {y[1], y[2]}
    BY <1>2, <2>1 DEF IsTour, Crossed
  <2>3. y # x
    BY <2>2 DEF Follows
  <2>4. y \in DOMAIN G /\ Crossing(G, y) = Crossing(H, y)
    BY <2>3 DEF Crossing, Uncrossed
  <2>5. V[t[After(m, i)]] = V[s[After(n, g[i])]]
    BY DEF Follows
  <2>6. t[i] = s[g[i]]
    BY <1>0
  <2>. QED
    BY <1>2, <1>4, <2>2, <2>4, <2>5, <2>6
<1>6. Separated(t, W, G)
  <2>. SUFFICES ASSUME NEW y \in DOMAIN G, NEW p \in 1 .. m, NEW q \in 1 .. m,
                       p < q, Crossing(G, y) = {t[p], t[q]}
                PROVE  Apart(t, W, p, q)
    BY Zenon DEF Separated
  <2>. SUFFICES ASSUME NEW i \in 1 .. m, NEW j \in 1 .. m, Inside(i, p, q), ~Inside(j, p, q)
                PROVE  W[t[i]] # W[t[j]]
    BY Zenon DEF Apart
  <2>1. y \in DOMAIN H /\ Crossing(H, y) = {s[g[p]], s[g[q]]}
    BY <1>0 DEF Crossing, Uncrossed
  <2>2. g[p] < g[q]
    BY <1>0
  <2>3. Apart(s, V, g[p], g[q])
    BY <1>2, <2>1, <2>2 DEF IsTour, Separated
  <2>4. Inside(g[i], g[p], g[q])
    <3>1. p < i /\ (i < q \/ i = q)
      BY DEF Inside
    <3>2. g[p] < g[i] /\ (g[i] < g[q] \/ g[i] = g[q])
      BY <1>0, <3>1
    <3>. QED
      BY <1>2, <3>2 DEF Inside
  <2>5. ~Inside(g[j], g[p], g[q])
    <3>1. j < p \/ j = p \/ q < j
      BY DEF Inside
    <3>2. g[j] < g[p] \/ g[j] = g[p] \/ g[q] < g[j]
      BY <1>0, <3>1
    <3>. QED
      BY <1>2, <3>2 DEF Inside
  <2>6. V[s[g[i]]] # V[s[g[j]]]
    BY <1>2, <2>3, <2>4, <2>5 DEF Apart
  <2>. QED
    BY <1>0, <1>2, <2>6
<1>. QED
  BY <1>1, <1>3, <1>5, <1>6 DEF IsTour

------------------------------------------------------------------------------
(* Cutting a tour at the two crossings of an edge. *)

\* The crossings of the edges: each edge has its own two, which visit its ends.
Handles(D, V, H) ==
  \A x \in DOMAIN H :
    /\ x[1] # x[2]
    /\ Crossing(H, x) \subseteq D
    /\ {V[H[x][1]], V[H[x][2]]} = {x[1], x[2]}
    /\ \A y \in DOMAIN H : Crossing(H, x) \cap Crossing(H, y) # {} => x = y

\* Either both crossings of an edge are on the tour, or neither is.
Complete(s, H) ==
  \A x \in DOMAIN H : Crossing(H, x) \cap ToSeqSet(s) # {} => Crossing(H, x) \subseteq ToSeqSet(s)

Outside(s, p, q) == {s[i] : i \in {k \in 1 .. Len(s) : ~Inside(k, p, q)}}
Within(s, p, q) == {s[i] : i \in {k \in 1 .. Len(s) : Inside(k, p, q)}}

Joins(t, a, b) ==
  /\ Len(t) = Len(a) + Len(b)
  /\ \A k \in 1 .. Len(a) : t[k] = a[k]
  /\ \A k \in 1 .. Len(b) : t[Len(a) + k] = b[k]

LEMMA Joining ==
  ASSUME NEW D, NEW a \in Seq(D), NEW b \in Seq(D), NEW t, t = a \o b
  PROVE  t \in Seq(D) /\ Joins(t, a, b)
<1>1. Len(a) \in Nat /\ Len(b) \in Nat /\ Len(t) = Len(a) + Len(b) /\ t \in Seq(D)
  OBVIOUS
<1>2. \A k \in 1 .. Len(a) + Len(b) : t[k] = IF k <= Len(a) THEN a[k] ELSE b[k - Len(a)]
  OBVIOUS
<1>. QED
  BY <1>1, <1>2 DEF Joins

\* Around the gap of length d that starts at place p: places, and what follows them.
Skip(k, p, d) == IF k < p THEN k ELSE k + d

SkipOK(n, p, q, d, m) ==
  /\ m \in Nat /\ m >= 1
  /\ \A k \in 1 .. m : /\ Skip(k, p, d) \in 1 .. n
                       /\ Skip(k, p, d) # p /\ Skip(k, p, d) # q /\ ~Inside(Skip(k, p, d), p, q)
  /\ \A j, k \in 1 .. m : j < k => Skip(j, p, d) < Skip(k, p, d)
  /\ \A i \in 1 .. n : ~Inside(i, p, q) /\ i # p => \E k \in 1 .. m : Skip(k, p, d) = i
  /\ \A k \in 1 .. m :
       /\ After(m, k) \in 1 .. m
       /\ \/ Skip(After(m, k), p, d) = After(n, Skip(k, p, d))
          \/ /\ After(n, Skip(k, p, d)) = p
             /\ Skip(After(m, k), p, d) = After(n, q)

LEMMA SkipFacts ==
  ASSUME NEW n \in Nat, NEW p \in 1 .. n, NEW q \in 1 .. n, p < q, ~(p = 1 /\ q = n),
         NEW d, d = q - p + 1, NEW m, m = n - d
  PROVE  SkipOK(n, p, q, d, m)
<1>1. m \in Nat /\ m >= 1 /\ d \in Nat /\ d >= 2
  OBVIOUS
<1>2. ASSUME NEW k \in 1 .. m
      PROVE  /\ Skip(k, p, d) \in 1 .. n
             /\ Skip(k, p, d) # p /\ Skip(k, p, d) # q /\ ~Inside(Skip(k, p, d), p, q)
  BY <1>1 DEF Skip, Inside
<1>3. ASSUME NEW j \in 1 .. m, NEW k \in 1 .. m, j < k PROVE Skip(j, p, d) < Skip(k, p, d)
  BY <1>1, <1>3 DEF Skip
<1>4. ASSUME NEW i \in 1 .. n, ~Inside(i, p, q), i # p PROVE \E k \in 1 .. m : Skip(k, p, d) = i
  <2>1. CASE i < p
    <3>1. i \in 1 .. m /\ Skip(i, p, d) = i
      BY <1>1, <2>1 DEF Skip
    <3>. QED
      BY <3>1
  <2>2. CASE i > q
    <3>1. i - d \in 1 .. m /\ Skip(i - d, p, d) = i
      BY <1>1, <2>2 DEF Skip
    <3>. QED
      BY <3>1
  <2>. QED
    BY <1>4, <2>1, <2>2 DEF Inside
<1>5. ASSUME NEW k \in 1 .. m
      PROVE  /\ After(m, k) \in 1 .. m
             /\ \/ Skip(After(m, k), p, d) = After(n, Skip(k, p, d))
                \/ /\ After(n, Skip(k, p, d)) = p
                   /\ Skip(After(m, k), p, d) = After(n, q)
  <2>1. After(m, k) = IF k = m THEN 1 ELSE k + 1
    BY DEF After
  <2>2. After(n, q) = IF q = n THEN 1 ELSE q + 1
    BY DEF After
  <2>3. CASE k < p
    <3>1. After(n, Skip(k, p, d)) = k + 1
      BY <1>1, <2>3 DEF Skip, After
    <3>. QED
      BY <1>1, <2>1, <2>2, <2>3, <3>1 DEF Skip
  <2>4. CASE ~(k < p)
    <3>1. After(n, Skip(k, p, d)) = IF k = m THEN 1 ELSE k + d + 1
      BY <1>1, <2>4 DEF Skip, After
    <3>. QED
      BY <1>1, <2>1, <2>2, <2>4, <3>1 DEF Skip
  <2>. QED
    BY <2>3, <2>4
<1>. QED
  BY <1>1, <1>2, <1>3, <1>4, <1>5, Zenon DEF SkipOK

\* t is the m entries of s that follow place p.
Shifted(t, D, s, p, m) ==
  t \in Seq(D) /\ Len(t) = m /\ \A k \in 1 .. m : t[k] = s[p + k]

LEMMA Piece ==
  ASSUME NEW D, NEW s \in Seq(D), NEW a \in Int, NEW b \in Int, 1 <= a, b <= Len(s), a <= b + 1,
         NEW t, t = SubSeq(s, a, b), NEW p, p = a - 1, NEW m, m = b - a + 1
  PROVE  Shifted(t, D, s, p, m)
<1>1. Len(s) \in Nat /\ \A i \in a .. b : s[i] \in D
  OBVIOUS
<1>2. /\ SubSeq(s, a, b) \in Seq(D)
      /\ Len(SubSeq(s, a, b)) = IF a <= b THEN b - a + 1 ELSE 0
      /\ \A i \in 1 .. b - a + 1 : SubSeq(s, a, b)[i] = s[a + i - 1]
  BY <1>1, SubSeqProperties
<1>3. /\ t \in Seq(D)
      /\ Len(t) = IF a <= b THEN b - a + 1 ELSE 0
      /\ \A i \in 1 .. b - a + 1 : t[i] = s[a + i - 1]
  BY <1>2
<1>4. Len(t) = m
  BY <1>3
<1>5. ASSUME NEW k \in 1 .. m PROVE t[k] = s[p + k]
  <2>1. p + k = a + k - 1
    OBVIOUS
  <2>. QED
    BY <1>3, <2>1
<1>. QED
  BY <1>3, <1>4, <1>5 DEF Shifted

LEMMA OuterPlaces ==
  ASSUME NEW D, NEW s \in Seq(D), NEW p \in 1 .. Len(s), NEW q \in 1 .. Len(s), p < q,
         ~(p = 1 /\ q = Len(s)),
         NEW t, t = OuterTour(s, p, q), NEW d, d = q - p + 1, NEW m, m = Len(s) - d
  PROVE  t \in Seq(D) /\ Len(t) = m /\ \A k \in 1 .. m : t[k] = s[Skip(k, p, d)]
<1>. DEFINE n == Len(s)
<1>. PICK a, b : a = SubSeq(s, 1, p - 1) /\ b = SubSeq(s, q + 1, Len(s))
  OBVIOUS
<1>1. n \in Nat /\ p \in 1 .. n /\ q \in 1 .. n
  OBVIOUS
<1>2. a \in Seq(D) /\ Len(a) = p - 1 /\ \A k \in 1 .. p - 1 : a[k] = s[k]
  <2>1. 1 \in Int /\ p - 1 \in Int /\ 1 <= 1 /\ p - 1 <= Len(s) /\ 1 <= p - 1 + 1
        /\ 0 = 1 - 1 /\ p - 1 = p - 1 - 1 + 1
    BY <1>1
  <2>2. Shifted(a, D, s, 0, p - 1)
    BY <2>1, Piece
  <2>. QED
    BY <1>1, <2>2 DEF Shifted
<1>3. b \in Seq(D) /\ Len(b) = n - q /\ \A k \in 1 .. n - q : b[k] = s[q + k]
  <2>1. q + 1 \in Int /\ Len(s) \in Int /\ 1 <= q + 1 /\ Len(s) <= Len(s) /\ q + 1 <= Len(s) + 1
        /\ q = q + 1 - 1 /\ n - q = Len(s) - (q + 1) + 1
    BY <1>1
  <2>2. PICK c, e, k : c = q + 1 /\ e = Len(s) /\ k = n - q
    OBVIOUS
  <2>3. /\ c \in Int /\ e \in Int /\ 1 <= c /\ e <= Len(s) /\ c <= e + 1
        /\ b = SubSeq(s, c, e) /\ q = c - 1 /\ k = e - c + 1
    <3>1. b = SubSeq(s, c, e)
      BY <2>2
    <3>2. /\ c \in Int /\ e \in Int /\ 1 <= c /\ e <= Len(s) /\ c <= e + 1
          /\ q = c - 1 /\ k = e - c + 1
      BY ONLY <2>1, <2>2
    <3>. QED
      BY ONLY <3>1, <3>2
  <2>4. Shifted(b, D, s, q, k)
    BY ONLY <2>3, s \in Seq(D), Piece
  <2>. QED
    BY <2>2, <2>4 DEF Shifted
<1>4. t = a \o b
  BY DEF OuterTour
<1>5. t \in Seq(D) /\ Joins(t, a, b)
  BY <1>2, <1>3, <1>4, Joining
<1>6. Len(t) = n - (q - p + 1) /\ Len(t) >= 1
  <2>1. Len(t) = (p - 1) + (n - q)
    BY <1>2, <1>3, <1>5 DEF Joins
  <2>2. p # 1 \/ q # n
    OBVIOUS
  <2>. QED
    BY <1>1, <2>1, <2>2
<1>7. ASSUME NEW k \in 1 .. Len(t) PROVE t[k] = s[IF k < p THEN k ELSE k + (q - p + 1)]
  <2>1. CASE k < p
    <3>1. k \in 1 .. p - 1 /\ k \in 1 .. Len(a)
      BY <1>1, <1>2, <1>6, <2>1
    <3>2. t[k] = a[k] /\ a[k] = s[k]
      BY <1>2, <1>5, <3>1 DEF Joins
    <3>. QED
      BY <2>1, <3>2
  <2>2. CASE ~(k < p)
    <3>1. k - (p - 1) \in 1 .. n - q /\ q + (k - (p - 1)) = k + (q - p + 1)
      BY <1>1, <1>6, <2>2
    <3>2. t[(p - 1) + (k - (p - 1))] = b[k - (p - 1)]
      BY <1>2, <1>3, <1>5, <3>1 DEF Joins
    <3>3. (p - 1) + (k - (p - 1)) = k
      BY <1>1, <1>6
    <3>. QED
      BY <1>3, <2>2, <3>1, <3>2, <3>3
  <2>. QED
    BY <2>1, <2>2
<1>. QED
  BY <1>5, <1>6, <1>7 DEF Skip

LEMMA InnerPlaces ==
  ASSUME NEW D, NEW s \in Seq(D), NEW p \in 1 .. Len(s), NEW q \in 1 .. Len(s), p < q,
         q # p + 1,
         NEW t, t = InnerTour(s, p, q), NEW m, m = q - p - 1
  PROVE  Shifted(t, D, s, p, m)
<1>1. Len(s) \in Nat /\ t = SubSeq(s, p + 1, q - 1)
  BY DEF InnerTour
<1>2. PICK c, e : c = p + 1 /\ e = q - 1
  OBVIOUS
<1>3. /\ c \in Int /\ e \in Int /\ 1 <= c /\ e <= Len(s) /\ c <= e + 1
      /\ t = SubSeq(s, c, e) /\ p = c - 1 /\ m = e - c + 1
  BY <1>1, <1>2
<1>. QED
  BY ONLY <1>3, s \in Seq(D), Piece

\* The crossings of x are at places p and q.
CutAt(s, H, x, p, q) ==
  p \in 1 .. Len(s) /\ q \in 1 .. Len(s) /\ p < q /\ Crossing(H, x) = {s[p], s[q]}

\* The vertices around the two crossings.
LEMMA CutVisits ==
  ASSUME NEW D, NEW V, NEW H, NEW s, IsTour(s, D, V, H), Handles(D, V, H),
         NEW x \in DOMAIN H, NEW p, NEW q, CutAt(s, H, x, p, q)
  PROVE  /\ V[s[p]] # V[s[q]]
         /\ V[s[After(Len(s), p)]] = V[s[q]]
         /\ V[s[After(Len(s), q)]] = V[s[p]]
<1>. DEFINE n == Len(s)
<1>0. p \in 1 .. n /\ q \in 1 .. n /\ p < q /\ Crossing(H, x) = {s[p], s[q]}
  BY DEF CutAt
<1>1. n \in Nat /\ n > 1
  BY <1>0 DEF IsTour
<1>2. x[1] # x[2] /\ {V[s[p]], V[s[q]]} = {x[1], x[2]}
  <2>1. /\ x[1] # x[2]
        /\ {V[H[x][1]], V[H[x][2]]} = {x[1], x[2]}
    BY DEF Handles
  <2>. QED
    BY <1>0, <2>1 DEF Crossing
<1>3. ASSUME NEW i \in {p, q}
      PROVE  {V[s[i]], V[s[After(n, i)]]} = {x[1], x[2]}
  <2>1. i \in 1 .. n
    BY <1>0
  <2>2. PICK y \in DOMAIN H : /\ s[i] \in Crossing(H, y)
                              /\ {V[s[i]], V[s[After(n, i)]]} = {y[1], y[2]}
    BY <1>1, <2>1 DEF IsTour, Crossed
  <2>3. y = x
    BY <1>0, <2>2 DEF Handles
  <2>. QED
    BY <2>2, <2>3
<1>. QED
  BY <1>2, <1>3

\* Edge y has its other crossing on the same side as the one at place i.
TwinOnSide(s, H, y, i, p, q) ==
  /\ i # p /\ i # q
  /\ \E j \in 1 .. Len(s) : /\ j # i /\ j # p /\ j # q
                            /\ Crossing(H, y) = {s[i], s[j]}
                            /\ Inside(i, p, q) <=> Inside(j, p, q)

\* Another edge has both crossings on the same side.
LEMMA SideOfEdge ==
  ASSUME NEW D, NEW V, NEW H, NEW s, IsTour(s, D, V, H), Handles(D, V, H), Complete(s, H),
         NEW x \in DOMAIN H, NEW p, NEW q, CutAt(s, H, x, p, q),
         NEW y \in DOMAIN H, y # x, NEW i \in 1 .. Len(s), s[i] \in Crossing(H, y)
  PROVE  TwinOnSide(s, H, y, i, p, q)
<1>. DEFINE n == Len(s)
<1>0. p \in 1 .. n /\ q \in 1 .. n /\ p < q /\ Crossing(H, x) = {s[p], s[q]}
  BY DEF CutAt
<1>1. n \in Nat /\ n > 1 /\ i \in 1 .. n /\ p \in 1 .. n /\ q \in 1 .. n
  BY <1>0 DEF IsTour
<1>2. Crossing(H, x) \cap Crossing(H, y) = {}
  BY DEF Handles
<1>3. Crossing(H, y) \subseteq ToSeqSet(s)
  BY <1>1 DEF Complete, ToSeqSet, IsTour
<1>4. PICK e \in Crossing(H, y) : Crossing(H, y) = {s[i], e} /\ V[e] # V[s[i]]
                                  /\ {V[s[i]], V[e]} = {y[1], y[2]}
  <2>1. y[1] # y[2] /\ {V[H[y][1]], V[H[y][2]]} = {y[1], y[2]}
    BY DEF Handles
  <2>. DEFINE e == IF s[i] = H[y][1] THEN H[y][2] ELSE H[y][1]
  <2>2. e \in Crossing(H, y) /\ Crossing(H, y) = {s[i], e}
    BY DEF Crossing
  <2>3. V[e] # V[s[i]] /\ {V[s[i]], V[e]} = {y[1], y[2]}
    <3>1. CASE s[i] = H[y][1]
      <4>1. e = H[y][2]
        BY <3>1
      <4>. HIDE DEF e
      <4>. QED
        BY <2>1, <3>1, <4>1
    <3>2. CASE s[i] # H[y][1]
      <4>1. s[i] = H[y][2] /\ e = H[y][1]
        BY <3>2 DEF Crossing
      <4>. HIDE DEF e
      <4>. QED
        BY <2>1, <4>1
    <3>. QED
      BY <3>1, <3>2
  <2>. QED
    BY <2>2, <2>3
<1>5. PICK j \in 1 .. n : e = s[j]
  BY <1>1, <1>3, <1>4 DEF ToSeqSet, IsTour
<1>6. i # p /\ i # q /\ j # p /\ j # q /\ j # i
  BY <1>0, <1>2, <1>4, <1>5
<1>7. PICK z \in DOMAIN H : /\ s[i] \in Crossing(H, z)
                            /\ {V[s[i]], V[s[After(n, i)]]} = {z[1], z[2]}
  BY <1>1 DEF IsTour, Crossed
<1>8. z = y
  BY <1>7 DEF Handles
<1>9. V[s[After(n, i)]] = V[s[j]]
  BY <1>4, <1>5, <1>7, <1>8
<1>10. After(n, i) \in 1 .. n /\ (Inside(After(n, i), p, q) <=> Inside(i, p, q))
  BY <1>0, <1>1, <1>6 DEF After, Inside
<1>11. Apart(s, V, p, q)
  BY <1>0, <1>1 DEF IsTour, Separated
<1>12. Inside(i, p, q) <=> Inside(j, p, q)
  BY <1>1, <1>5, <1>9, <1>10, <1>11 DEF Apart
<1>. QED
  BY <1>4, <1>5, <1>6, <1>12 DEF TwinOnSide

\* The entries that a cut deletes.
Freed(s, p, q) ==
  (IF p = 1 /\ q = Len(s) THEN {} ELSE {s[p]}) \cup (IF q = p + 1 THEN {} ELSE {s[q]})

\* The outer tour.
LEMMA OuterIsTour ==
  ASSUME NEW D, NEW V, NEW H, NEW s, IsTour(s, D, V, H), Handles(D, V, H), Complete(s, H),
         NEW x \in DOMAIN H, NEW p, NEW q, CutAt(s, H, x, p, q),
         NEW E, E = D \ Freed(s, p, q), NEW W, Agree(E, W, V),
         NEW G, G = Uncrossed(H, x),
         NEW t, t = OuterTour(s, p, q)
  PROVE  /\ IsTour(t, E, W, G)
         /\ ToSeqSet(t) = Outside(s, p, q) \ Freed(s, p, q)
         /\ Len(t) = 1 <=> p = 1 /\ q = Len(s)
<1>. DEFINE n == Len(s)
<1>0. p \in 1 .. n /\ q \in 1 .. n /\ p < q /\ Crossing(H, x) = {s[p], s[q]}
  BY DEF CutAt
<1>1. /\ n \in Nat /\ n > 1 /\ p \in 1 .. n /\ q \in 1 .. n /\ s \in Seq(D)
      /\ \A i, j \in 1 .. n : s[i] = s[j] => i = j
      /\ \A i \in 1 .. n : s[i] \in D
  BY <1>0 DEF IsTour
<1>1a. V[s[After(n, p)]] = V[s[q]] /\ V[s[After(n, q)]] = V[s[p]]
  BY CutVisits
<1>2. CASE p = 1 /\ q = n
  <2>1. t = <<s[p]>>
    BY <1>2 DEF OuterTour
  <2>2. s[p] \in E
    <3>1. s[p] # s[q]
      BY <1>0, <1>1
    <3>. QED
      BY <1>1, <1>2, <3>1 DEF Freed
  <2>3. t \in Seq(E) /\ Len(t) = 1 /\ \A k \in 1 .. 1 : t[k] = s[p]
    BY <2>1, <2>2
  <2>4. PICK g : g = [k \in 1 .. 1 |-> p]
    OBVIOUS
  <2>5. Selects(t, s, g)
    BY <1>0, <1>1, <2>3, <2>4 DEF Selects
  <2>6. Follows(t, s, g, V, Crossing(H, x))
    BY <2>3 DEF Follows
  <2>7. IsTour(t, E, W, G)
    <3>1. t \in Seq(E)
      BY <2>3
    <3>2. IsTour(t, E, W, Uncrossed(H, x))
      BY <2>5, <2>6, <3>1, PartTour
    <3>. QED
      BY <3>2
  <2>8. ToSeqSet(t) = {s[p]}
    BY <2>1 DEF ToSeqSet
  <2>9. Outside(s, p, q) = {s[p]}
    BY <1>1, <1>2 DEF Outside, Inside
  <2>. QED
    BY <1>2, <2>2, <2>3, <2>7, <2>8, <2>9
<1>3. CASE ~(p = 1 /\ q = n)
  <2>. PICK d, m : d = q - p + 1 /\ m = n - d
    OBVIOUS
  <2>1. t \in Seq(D) /\ Len(t) = m /\ \A k \in 1 .. m : t[k] = s[Skip(k, p, d)]
    <3>1. /\ s \in Seq(D) /\ m = Len(s) - d /\ ~(p = 1 /\ q = Len(s)) /\ p < q
          /\ p \in 1 .. Len(s) /\ q \in 1 .. Len(s) /\ d = q - p + 1
      BY <1>0, <1>1, <1>3
    <3>. HIDE DEF n
    <3>. QED
      BY <3>1, OuterPlaces
  <2>2. /\ m \in Nat /\ m >= 1
        /\ \A k \in 1 .. m : /\ Skip(k, p, d) \in 1 .. n
                             /\ Skip(k, p, d) # p /\ Skip(k, p, d) # q /\ ~Inside(Skip(k, p, d), p, q)
        /\ \A j, k \in 1 .. m : j < k => Skip(j, p, d) < Skip(k, p, d)
        /\ \A i \in 1 .. n : ~Inside(i, p, q) /\ i # p => \E k \in 1 .. m : Skip(k, p, d) = i
        /\ \A k \in 1 .. m :
             /\ After(m, k) \in 1 .. m
             /\ \/ Skip(After(m, k), p, d) = After(n, Skip(k, p, d))
                \/ /\ After(n, Skip(k, p, d)) = p
                   /\ Skip(After(m, k), p, d) = After(n, q)
    <3>. HIDE DEF n
    <3>1. SkipOK(n, p, q, d, m)
      BY <1>0, <1>1, <1>3, SkipFacts, Zenon
    <3>. QED
      BY <3>1, Zenon DEF SkipOK
  <2>3. PICK g : g = [k \in 1 .. m |-> Skip(k, p, d)]
    OBVIOUS
  <2>4. \A k \in 1 .. m : g[k] = Skip(k, p, d)
    BY <2>3
  <2>5. Selects(t, s, g)
    BY <2>1, <2>2, <2>3 DEF Selects
  <2>6. Freed(s, p, q) \subseteq {s[p], s[q]} /\ s[p] \in Freed(s, p, q)
    BY <1>3 DEF Freed
  <2>7. ASSUME NEW k \in 1 .. m
        PROVE  t[k] \in E /\ s[Skip(k, p, d)] \notin {s[p], s[q]}
    <3>. PICK i : i = Skip(k, p, d)
      OBVIOUS
    <3>1. i \in 1 .. n /\ i # p /\ i # q
      BY <2>2
    <3>2. s[i] \notin {s[p], s[q]} /\ s[i] \in D
      BY <1>1, <3>1
    <3>3. t[k] = s[i]
      BY <2>1
    <3>. QED
      BY <2>6, <3>2, <3>3
  <2>8. t \in Seq(E)
    BY <2>1, <2>7
  <2>9. ASSUME NEW k \in 1 .. m
        PROVE  V[t[After(m, k)]] = V[s[After(n, Skip(k, p, d))]]
    <3>1. V[s[After(n, p)]] = V[s[q]] /\ V[s[After(n, q)]] = V[s[p]]
      BY <1>1a
    <3>2. t[After(m, k)] = s[Skip(After(m, k), p, d)]
      BY <2>1, <2>2
    <3>. QED
      BY <2>2, <3>1, <3>2
  <2>10. Follows(t, s, g, V, Crossing(H, x))
    <3>1. \A k \in 1 .. m : s[g[k]] \notin Crossing(H, x)
      BY <1>0, <2>4, <2>7
    <3>2. \A k \in 1 .. m : V[t[After(m, k)]] = V[s[After(n, g[k])]]
      BY <2>4, <2>9
    <3>. QED
      BY <2>1, <3>1, <3>2 DEF Follows
  <2>11. IsTour(t, E, W, G)
    <3>1. IsTour(t, E, W, Uncrossed(H, x))
      BY <2>5, <2>8, <2>10, PartTour
    <3>. QED
      BY <3>1
  <2>12. ToSeqSet(t) = Outside(s, p, q) \ Freed(s, p, q)
    <3>1. DOMAIN t = 1 .. m
      BY <2>1
    <3>2. ASSUME NEW e \in ToSeqSet(t) PROVE e \in Outside(s, p, q) \ Freed(s, p, q)
      <4>1. PICK k \in 1 .. m : e = t[k]
        BY <3>1 DEF ToSeqSet
      <4>2. e = s[Skip(k, p, d)] /\ e \notin {s[p], s[q]}
        BY <2>1, <2>7, <4>1
      <4>. QED
        BY <2>2, <2>6, <4>2 DEF Outside
    <3>3. ASSUME NEW e \in Outside(s, p, q) \ Freed(s, p, q) PROVE e \in ToSeqSet(t)
      <4>1. PICK i \in 1 .. n : ~Inside(i, p, q) /\ e = s[i]
        BY DEF Outside
      <4>2. i # p
        BY <2>6, <4>1
      <4>3. PICK k \in 1 .. m : Skip(k, p, d) = i
        BY <2>2, <4>1, <4>2
      <4>4. e = t[k]
        BY <2>1, <4>1, <4>3
      <4>. QED
        BY <3>1, <4>4 DEF ToSeqSet
    <3>. QED
      BY <3>2, <3>3
  <2>13. m # 1
    <3>. SUFFICES ASSUME m = 1 PROVE FALSE
      OBVIOUS
    <3>. PICK i : i = Skip(1, p, d)
      OBVIOUS
    <3>1. i \in 1 .. n /\ i # p /\ i # q /\ ~Inside(i, p, q)
      BY <2>2
    <3>2. PICK y \in DOMAIN H : s[i] \in Crossing(H, y)
      BY <1>1, <3>1 DEF IsTour, Crossed
    <3>3. y # x
      BY <1>0, <1>1, <3>1, <3>2
    <3>4. PICK j \in 1 .. n : j # i /\ j # p /\ ~Inside(j, p, q)
      <4>1. TwinOnSide(s, H, y, i, p, q)
        BY <3>1, <3>2, <3>3, SideOfEdge
      <4>. QED
        BY <3>1, <4>1 DEF TwinOnSide
    <3>5. PICK k \in 1 .. m : Skip(k, p, d) = j
      BY <2>2, <3>4
    <3>. QED
      BY <3>4, <3>5
  <2>. QED
    BY <1>3, <2>1, <2>11, <2>12, <2>13
<1>. QED
  BY <1>2, <1>3

\* Within the two crossings: what follows the places p + k.
ShiftOK(n, p, q, m) ==
  /\ m \in Nat /\ m >= 1
  /\ \A k \in 1 .. m : /\ p + k \in 1 .. n
                       /\ p + k # p /\ p + k # q /\ Inside(p + k, p, q)
  /\ \A j, k \in 1 .. m : j < k => p + j < p + k
  /\ \A i \in 1 .. n : Inside(i, p, q) /\ i # q => \E k \in 1 .. m : p + k = i
  /\ \A k \in 1 .. m :
       /\ After(m, k) \in 1 .. m
       /\ \/ p + After(m, k) = After(n, p + k)
          \/ After(n, p + k) = q /\ p + After(m, k) = After(n, p)

LEMMA ShiftFacts ==
  ASSUME NEW n \in Nat, NEW p \in 1 .. n, NEW q \in 1 .. n, p < q, q # p + 1,
         NEW m, m = q - p - 1
  PROVE  ShiftOK(n, p, q, m)
<1>1. m \in Nat /\ m >= 1
  OBVIOUS
<1>2. ASSUME NEW k \in 1 .. m
      PROVE  /\ p + k \in 1 .. n
             /\ p + k # p /\ p + k # q /\ Inside(p + k, p, q)
  BY <1>1 DEF Inside
<1>3. ASSUME NEW j \in 1 .. m, NEW k \in 1 .. m, j < k PROVE p + j < p + k
  BY <1>1, <1>3
<1>4. ASSUME NEW i \in 1 .. n, Inside(i, p, q), i # q PROVE \E k \in 1 .. m : p + k = i
  <2>1. i - p \in 1 .. m /\ p + (i - p) = i
    BY <1>1, <1>4 DEF Inside
  <2>. QED
    BY <2>1
<1>5. ASSUME NEW k \in 1 .. m
      PROVE  /\ After(m, k) \in 1 .. m
             /\ \/ p + After(m, k) = After(n, p + k)
                \/ After(n, p + k) = q /\ p + After(m, k) = After(n, p)
  BY <1>1 DEF After
<1>. QED
  BY <1>1, <1>2, <1>3, <1>4, <1>5, Zenon DEF ShiftOK

\* The inner tour.
LEMMA InnerIsTour ==
  ASSUME NEW D, NEW V, NEW H, NEW s, IsTour(s, D, V, H), Handles(D, V, H), Complete(s, H),
         NEW x \in DOMAIN H, NEW p, NEW q, CutAt(s, H, x, p, q),
         NEW E, E = D \ Freed(s, p, q), NEW W, Agree(E, W, V),
         NEW G, G = Uncrossed(H, x),
         NEW t, t = InnerTour(s, p, q)
  PROVE  /\ IsTour(t, E, W, G)
         /\ ToSeqSet(t) = Within(s, p, q) \ Freed(s, p, q)
         /\ Len(t) = 1 <=> q = p + 1
<1>. DEFINE n == Len(s)
<1>0. p \in 1 .. n /\ q \in 1 .. n /\ p < q /\ Crossing(H, x) = {s[p], s[q]}
  BY DEF CutAt
<1>1. /\ n \in Nat /\ n > 1 /\ p \in 1 .. n /\ q \in 1 .. n /\ s \in Seq(D)
      /\ \A i, j \in 1 .. n : s[i] = s[j] => i = j
      /\ \A i \in 1 .. n : s[i] \in D
  BY <1>0 DEF IsTour
<1>1a. V[s[After(n, p)]] = V[s[q]] /\ V[s[After(n, q)]] = V[s[p]]
  BY CutVisits
<1>2. CASE q = p + 1
  <2>1. t = <<s[q]>>
    BY <1>2 DEF InnerTour
  <2>2. s[q] \in E
    <3>1. s[p] # s[q]
      BY <1>0, <1>1
    <3>. QED
      BY <1>1, <1>2, <3>1 DEF Freed
  <2>3. t \in Seq(E) /\ Len(t) = 1 /\ \A k \in 1 .. 1 : t[k] = s[q]
    BY <2>1, <2>2
  <2>4. PICK g : g = [k \in 1 .. 1 |-> q]
    OBVIOUS
  <2>5. Selects(t, s, g)
    BY <1>0, <1>1, <2>3, <2>4 DEF Selects
  <2>6. Follows(t, s, g, V, Crossing(H, x))
    BY <2>3 DEF Follows
  <2>7. IsTour(t, E, W, G)
    <3>1. t \in Seq(E)
      BY <2>3
    <3>2. IsTour(t, E, W, Uncrossed(H, x))
      BY <2>5, <2>6, <3>1, PartTour
    <3>. QED
      BY <3>2
  <2>8. ToSeqSet(t) = {s[q]}
    BY <2>1 DEF ToSeqSet
  <2>9. Within(s, p, q) = {s[q]}
    BY <1>0, <1>1, <1>2 DEF Within, Inside
  <2>. QED
    BY <1>2, <2>2, <2>3, <2>7, <2>8, <2>9
<1>3. CASE q # p + 1
  <2>. PICK m : m = q - p - 1
    OBVIOUS
  <2>1. t \in Seq(D) /\ Len(t) = m /\ \A k \in 1 .. m : t[k] = s[p + k]
    <3>1. /\ s \in Seq(D) /\ p < q /\ q # p + 1 /\ m = q - p - 1
          /\ p \in 1 .. Len(s) /\ q \in 1 .. Len(s)
      BY <1>0, <1>1, <1>3
    <3>. HIDE DEF n
    <3>2. Shifted(t, D, s, p, m)
      BY <3>1, InnerPlaces
    <3>. QED
      BY <3>2 DEF Shifted
  <2>2. /\ m \in Nat /\ m >= 1
        /\ \A k \in 1 .. m : /\ p + k \in 1 .. n
                             /\ p + k # p /\ p + k # q /\ Inside(p + k, p, q)
        /\ \A j, k \in 1 .. m : j < k => p + j < p + k
        /\ \A i \in 1 .. n : Inside(i, p, q) /\ i # q => \E k \in 1 .. m : p + k = i
        /\ \A k \in 1 .. m :
             /\ After(m, k) \in 1 .. m
             /\ \/ p + After(m, k) = After(n, p + k)
                \/ After(n, p + k) = q /\ p + After(m, k) = After(n, p)
    <3>. HIDE DEF n
    <3>1. ShiftOK(n, p, q, m)
      BY <1>0, <1>1, <1>3, ShiftFacts, Zenon
    <3>. QED
      BY <3>1, Zenon DEF ShiftOK
  <2>3. PICK g : g = [k \in 1 .. m |-> p + k]
    OBVIOUS
  <2>4. \A k \in 1 .. m : g[k] = p + k
    BY <2>3
  <2>5. Selects(t, s, g)
    BY <2>1, <2>2, <2>3 DEF Selects
  <2>6. Freed(s, p, q) \subseteq {s[p], s[q]} /\ s[q] \in Freed(s, p, q)
    BY <1>3 DEF Freed
  <2>7. ASSUME NEW k \in 1 .. m
        PROVE  t[k] \in E /\ s[p + k] \notin {s[p], s[q]}
    <3>. PICK i : i = p + k
      OBVIOUS
    <3>1. i \in 1 .. n /\ i # p /\ i # q
      BY <2>2
    <3>2. s[i] \notin {s[p], s[q]} /\ s[i] \in D
      BY <1>1, <3>1
    <3>3. t[k] = s[i]
      BY <2>1
    <3>. QED
      BY <2>6, <3>2, <3>3
  <2>8. t \in Seq(E)
    BY <2>1, <2>7
  <2>9. ASSUME NEW k \in 1 .. m
        PROVE  V[t[After(m, k)]] = V[s[After(n, p + k)]]
    <3>1. V[s[After(n, p)]] = V[s[q]] /\ V[s[After(n, q)]] = V[s[p]]
      BY <1>1a
    <3>2. t[After(m, k)] = s[p + After(m, k)]
      BY <2>1, <2>2
    <3>. QED
      BY <2>2, <3>1, <3>2
  <2>10. Follows(t, s, g, V, Crossing(H, x))
    <3>1. \A k \in 1 .. m : s[g[k]] \notin Crossing(H, x)
      BY <1>0, <2>4, <2>7
    <3>2. \A k \in 1 .. m : V[t[After(m, k)]] = V[s[After(n, g[k])]]
      BY <2>4, <2>9
    <3>. QED
      BY <2>1, <3>1, <3>2 DEF Follows
  <2>11. IsTour(t, E, W, G)
    <3>1. IsTour(t, E, W, Uncrossed(H, x))
      BY <2>5, <2>8, <2>10, PartTour
    <3>. QED
      BY <3>1
  <2>12. ToSeqSet(t) = Within(s, p, q) \ Freed(s, p, q)
    <3>1. DOMAIN t = 1 .. m
      BY <2>1
    <3>2. ASSUME NEW e \in ToSeqSet(t) PROVE e \in Within(s, p, q) \ Freed(s, p, q)
      <4>1. PICK k \in 1 .. m : e = t[k]
        BY <3>1 DEF ToSeqSet
      <4>2. e = s[p + k] /\ e \notin {s[p], s[q]}
        BY <2>1, <2>7, <4>1
      <4>. QED
        BY <2>2, <2>6, <4>2 DEF Within
    <3>3. ASSUME NEW e \in Within(s, p, q) \ Freed(s, p, q) PROVE e \in ToSeqSet(t)
      <4>1. PICK i \in 1 .. n : Inside(i, p, q) /\ e = s[i]
        BY DEF Within
      <4>2. i # q
        BY <2>6, <4>1
      <4>3. PICK k \in 1 .. m : p + k = i
        BY <2>2, <4>1, <4>2
      <4>4. e = t[k]
        BY <2>1, <4>1, <4>3
      <4>. QED
        BY <3>1, <4>4 DEF ToSeqSet
    <3>. QED
      BY <3>2, <3>3
  <2>13. m # 1
    <3>. SUFFICES ASSUME m = 1 PROVE FALSE
      OBVIOUS
    <3>. PICK i : i = p + 1
      OBVIOUS
    <3>1. i \in 1 .. n /\ i # p /\ i # q /\ Inside(i, p, q)
      BY <2>2
    <3>2. PICK y \in DOMAIN H : s[i] \in Crossing(H, y)
      BY <1>1, <3>1 DEF IsTour, Crossed
    <3>3. y # x
      BY <1>0, <1>1, <3>1, <3>2
    <3>4. PICK j \in 1 .. n : j # i /\ j # q /\ Inside(j, p, q)
      <4>1. TwinOnSide(s, H, y, i, p, q)
        BY <3>1, <3>2, <3>3, SideOfEdge
      <4>. QED
        BY <3>1, <4>1 DEF TwinOnSide
    <3>5. PICK k \in 1 .. m : p + k = j
      BY <2>2, <3>4
    <3>. QED
      BY <3>4, <3>5
  <2>. QED
    BY <1>3, <2>1, <2>11, <2>12, <2>13
<1>. QED
  BY <1>2, <1>3

------------------------------------------------------------------------------
(* Turning a tour, and joining two. *)

\* Place k of a tour of length n turned to start at place i.
Turn(n, i, k) == IF k <= n - i + 1 THEN k + i - 1 ELSE k - (n - i + 1)

TurnOK(n, i) ==
  /\ \A k \in 1 .. n : /\ Turn(n, i, k) \in 1 .. n
                       /\ After(n, k) \in 1 .. n
                       /\ Turn(n, i, After(n, k)) = After(n, Turn(n, i, k))
  /\ \A j, k \in 1 .. n : Turn(n, i, j) = Turn(n, i, k) => j = k
  /\ \A j \in 1 .. n : \E k \in 1 .. n : Turn(n, i, k) = j

LEMMA TurnFacts ==
  ASSUME NEW n \in Nat, NEW i \in 1 .. n
  PROVE  TurnOK(n, i)
<1>1. ASSUME NEW k \in 1 .. n
      PROVE  /\ Turn(n, i, k) \in 1 .. n
             /\ After(n, k) \in 1 .. n
             /\ Turn(n, i, After(n, k)) = After(n, Turn(n, i, k))
  BY DEF Turn, After
<1>2. ASSUME NEW j \in 1 .. n, NEW k \in 1 .. n, Turn(n, i, j) = Turn(n, i, k) PROVE j = k
  BY <1>2 DEF Turn
<1>3. ASSUME NEW j \in 1 .. n PROVE \E k \in 1 .. n : Turn(n, i, k) = j
  <2>1. CASE j >= i
    <3>1. j - i + 1 \in 1 .. n /\ Turn(n, i, j - i + 1) = j
      BY <2>1 DEF Turn
    <3>. QED
      BY <3>1
  <2>2. CASE j < i
    <3>1. j + (n - i + 1) \in 1 .. n /\ Turn(n, i, j + (n - i + 1)) = j
      BY <2>2 DEF Turn
    <3>. QED
      BY <3>1
  <2>. QED
    BY <2>1, <2>2
<1>. QED
  BY <1>1, <1>2, <1>3 DEF TurnOK

\* Between two places in the turned tour is between them before, or around them.
LEMMA TurnInside ==
  ASSUME NEW n \in Nat, NEW i \in 1 .. n, NEW p \in 1 .. n, NEW q \in 1 .. n, p < q
  PROVE  /\ Turn(n, i, p) < Turn(n, i, q) =>
              \A k \in 1 .. n : Inside(Turn(n, i, k), Turn(n, i, p), Turn(n, i, q)) <=> Inside(k, p, q)
         /\ ~(Turn(n, i, p) < Turn(n, i, q)) =>
              /\ Turn(n, i, q) < Turn(n, i, p)
              /\ \A k \in 1 .. n : Inside(Turn(n, i, k), Turn(n, i, q), Turn(n, i, p)) <=> ~Inside(k, p, q)
BY DEF Turn, Inside

\* t is s turned to place i.
Turns(t, D, s, i, n) == t \in Seq(D) /\ Len(t) = n /\ \A k \in 1 .. n : t[k] = s[Turn(n, i, k)]

LEMMA TurnPlaces ==
  ASSUME NEW D, NEW s \in Seq(D), NEW i \in 1 .. Len(s),
         NEW t, t = SubSeq(s, i, Len(s)) \o SubSeq(s, 1, i - 1), NEW n, n = Len(s)
  PROVE  Turns(t, D, s, i, n)
<1>. PICK a, b : a = SubSeq(s, i, n) /\ b = SubSeq(s, 1, i - 1)
  OBVIOUS
<1>1. n \in Nat /\ i \in 1 .. n
  OBVIOUS
<1>2. b \in Seq(D) /\ Len(b) = i - 1 /\ \A k \in 1 .. i - 1 : b[k] = s[k]
  <2>1. 1 \in Int /\ i - 1 \in Int /\ 1 <= 1 /\ i - 1 <= Len(s) /\ 1 <= i - 1 + 1
        /\ 0 = 1 - 1 /\ i - 1 = i - 1 - 1 + 1
    BY <1>1
  <2>2. Shifted(b, D, s, 0, i - 1)
    BY <2>1, Piece
  <2>. QED
    BY <1>1, <2>2 DEF Shifted
<1>3. a \in Seq(D) /\ Len(a) = n - i + 1 /\ \A k \in 1 .. n - i + 1 : a[k] = s[k + i - 1]
  <2>1. i \in Int /\ n \in Int /\ 1 <= i /\ n <= Len(s) /\ i <= n + 1
        /\ i - 1 = i - 1 /\ n - i + 1 = n - i + 1
    BY <1>1
  <2>2. Shifted(a, D, s, i - 1, n - i + 1)
    BY <2>1, Piece
  <2>3. \A k \in 1 .. n - i + 1 : i - 1 + k = k + i - 1
    BY <1>1
  <2>. QED
    BY <2>2, <2>3 DEF Shifted
<1>4. t \in Seq(D) /\ Joins(t, a, b)
  BY <1>2, <1>3, Joining
<1>5. Len(t) = n
  <2>1. Len(t) = Len(a) + Len(b)
    BY ONLY <1>4 DEF Joins
  <2>. QED
    BY ONLY <1>1, <1>2, <1>3, <2>1
<1>6. ASSUME NEW k \in 1 .. n PROVE t[k] = s[Turn(n, i, k)]
  <2>1. CASE k <= n - i + 1
    <3>1. k \in 1 .. Len(a) /\ Turn(n, i, k) = k + i - 1
      BY <1>1, <1>3, <2>1 DEF Turn
    <3>2. t[k] = a[k]
      BY <1>4, <3>1 DEF Joins
    <3>. QED
      BY <1>3, <3>1, <3>2
  <2>2. CASE ~(k <= n - i + 1)
    <3>. PICK h : h = k - (n - i + 1)
      OBVIOUS
    <3>1. h \in 1 .. Len(b) /\ h \in 1 .. i - 1 /\ Turn(n, i, k) = h /\ Len(a) + h = k
      BY <1>1, <1>2, <1>3, <2>2 DEF Turn
    <3>2. t[Len(a) + h] = b[h]
      BY <1>4, <3>1 DEF Joins
    <3>. QED
      BY <1>2, <3>1, <3>2
  <2>. QED
    BY <2>1, <2>2
<1>. QED
  BY <1>4, <1>5, <1>6 DEF Turns

LEMMA PlaceFound ==
  ASSUME NEW s, NEW e \in ToSeqSet(s)
  PROVE  PlaceIn(s, e) \in DOMAIN s /\ s[PlaceIn(s, e)] = e
<1>1. \E i \in DOMAIN s : s[i] = e
  BY DEF ToSeqSet
<1>. QED
  BY <1>1 DEF PlaceIn

\* make_root: a tour of the same entries that starts at e.
LEMMA TurnedIsTour ==
  ASSUME NEW D, NEW V, NEW H, NEW s, IsTour(s, D, V, H), NEW e \in ToSeqSet(s),
         NEW t, t = Turned(s, e)
  PROVE  /\ IsTour(t, D, V, H)
         /\ ToSeqSet(t) = ToSeqSet(s) /\ Len(t) = Len(s) /\ t[1] = e
<1>. PICK n, i : n = Len(s) /\ i = PlaceIn(s, e)
  OBVIOUS
<1>1. /\ n \in Nat /\ n >= 1 /\ s \in Seq(D)
      /\ \A j, k \in 1 .. n : s[j] = s[k] => j = k
  BY DEF IsTour
<1>2. i \in 1 .. n /\ s[i] = e
  BY <1>1, PlaceFound
<1>3. t \in Seq(D) /\ Len(t) = n /\ \A k \in 1 .. n : t[k] = s[Turn(n, i, k)]
  <2>1. t = SubSeq(s, i, Len(s)) \o SubSeq(s, 1, i - 1)
    BY DEF Turned
  <2>2. s \in Seq(D) /\ i \in 1 .. Len(s) /\ n = Len(s)
    BY <1>1, <1>2
  <2>3. Turns(t, D, s, i, n)
    BY <2>1, <2>2, TurnPlaces
  <2>. QED
    BY <2>3 DEF Turns
<1>4. /\ \A k \in 1 .. n : /\ Turn(n, i, k) \in 1 .. n
                           /\ After(n, k) \in 1 .. n
                           /\ Turn(n, i, After(n, k)) = After(n, Turn(n, i, k))
      /\ \A j, k \in 1 .. n : Turn(n, i, j) = Turn(n, i, k) => j = k
      /\ \A j \in 1 .. n : \E k \in 1 .. n : Turn(n, i, k) = j
  <2>1. TurnOK(n, i)
    BY <1>1, <1>2, TurnFacts
  <2>. QED
    BY <2>1 DEF TurnOK
<1>5. ASSUME NEW j \in 1 .. n, NEW k \in 1 .. n, t[j] = t[k] PROVE j = k
  <2>1. s[Turn(n, i, j)] = s[Turn(n, i, k)] /\ Turn(n, i, j) \in 1 .. n /\ Turn(n, i, k) \in 1 .. n
    BY <1>3, <1>4, <1>5
  <2>2. Turn(n, i, j) = Turn(n, i, k)
    BY <1>1, <2>1
  <2>. QED
    BY <1>4, <2>2
<1>6. Crossed(t, V, H)
  <2>. SUFFICES ASSUME Len(t) > 1, NEW k \in 1 .. Len(t)
                PROVE  \E x \in DOMAIN H : /\ t[k] \in Crossing(H, x)
                                           /\ {V[t[k]], V[t[After(Len(t), k)]]} = {x[1], x[2]}
    BY Zenon DEF Crossed
  <2>. PICK j : j = Turn(n, i, k)
    OBVIOUS
  <2>0. k \in 1 .. n /\ n > 1 /\ Len(t) = n
    BY ONLY <1>3, Len(t) > 1, k \in 1 .. Len(t)
  <2>1. j \in 1 .. n /\ t[k] = s[j] /\ t[After(Len(t), k)] = s[After(n, j)] /\ n > 1
    BY ONLY <1>3, <1>4, <2>0, j = Turn(n, i, k)
  <2>2. PICK x \in DOMAIN H : /\ s[j] \in Crossing(H, x)
                              /\ {V[s[j]], V[s[After(n, j)]]} = {x[1], x[2]}
    BY <2>1 DEF IsTour, Crossed
  <2>. QED
    BY <2>1, <2>2
<1>7. Separated(t, V, H)
  <2>. SUFFICES ASSUME NEW x \in DOMAIN H, NEW p \in 1 .. Len(t), NEW q \in 1 .. Len(t),
                       p < q, Crossing(H, x) = {t[p], t[q]}
                PROVE  Apart(t, V, p, q)
    BY Zenon DEF Separated
  <2>. SUFFICES ASSUME NEW j \in 1 .. Len(t), NEW k \in 1 .. Len(t), Inside(j, p, q), ~Inside(k, p, q)
                PROVE  V[t[j]] # V[t[k]]
    BY Zenon DEF Apart
  <2>0. p \in 1 .. n /\ q \in 1 .. n /\ j \in 1 .. n /\ k \in 1 .. n
    BY <1>3
  <2>. PICK P, Q, J, K : /\ P = Turn(n, i, p) /\ Q = Turn(n, i, q)
                         /\ J = Turn(n, i, j) /\ K = Turn(n, i, k)
    OBVIOUS
  <2>1. /\ P \in 1 .. n /\ Q \in 1 .. n /\ J \in 1 .. n /\ K \in 1 .. n
        /\ t[p] = s[P] /\ t[q] = s[Q] /\ t[j] = s[J] /\ t[k] = s[K]
    BY <1>3, <1>4, <2>0
  <2>2. CASE P < Q
    <3>1. Inside(J, P, Q) /\ ~Inside(K, P, Q)
      BY <1>1, <1>2, <2>0, <2>2, TurnInside
    <3>2. Apart(s, V, P, Q)
      BY <2>1, <2>2 DEF IsTour, Separated
    <3>. QED
      BY <2>1, <3>1, <3>2 DEF Apart
  <2>3. CASE ~(P < Q)
    <3>1. Q < P /\ Inside(K, Q, P) /\ ~Inside(J, Q, P)
      BY <1>1, <1>2, <2>0, <2>3, TurnInside
    <3>2. Crossing(H, x) = {s[Q], s[P]}
      BY <2>1
    <3>3. Apart(s, V, Q, P)
      BY <2>1, <3>1, <3>2 DEF IsTour, Separated
    <3>. QED
      BY <2>1, <3>1, <3>3 DEF Apart
  <2>. QED
    BY <2>2, <2>3
<1>8. IsTour(t, D, V, H)
  BY <1>1, <1>3, <1>5, <1>6, <1>7 DEF IsTour
<1>9. ToSeqSet(t) = ToSeqSet(s)
  <2>1. DOMAIN t = 1 .. n /\ DOMAIN s = 1 .. n
    BY <1>1, <1>3
  <2>2. ASSUME NEW f \in ToSeqSet(s) PROVE f \in ToSeqSet(t)
    <3>1. PICK j \in 1 .. n : f = s[j]
      BY <2>1 DEF ToSeqSet
    <3>2. PICK k \in 1 .. n : Turn(n, i, k) = j
      BY <1>4
    <3>. QED
      BY <1>3, <2>1, <3>1, <3>2 DEF ToSeqSet
  <2>3. ASSUME NEW f \in ToSeqSet(t) PROVE f \in ToSeqSet(s)
    BY <1>3, <1>4, <2>1 DEF ToSeqSet
  <2>. QED
    BY <2>2, <2>3
<1>10. t[1] = e
  <2>1. 1 \in 1 .. n /\ Turn(n, i, 1) = i
    BY <1>1, <1>2 DEF Turn
  <2>. QED
    BY <1>2, <1>3, <2>1
<1>. QED
  BY <1>3, <1>8, <1>9, <1>10

\* A tour that is open where the new edge begins: it starts and ends at vertex v, and
\* nothing is said of what its last entry crosses.
IsPath(t, E, W, H, v) ==
  /\ t \in Seq(E) /\ Len(t) >= 1
  /\ \A i, j \in 1 .. Len(t) : t[i] = t[j] => i = j
  /\ W[t[1]] = v /\ W[t[Len(t)]] = v
  /\ \A i \in 1 .. Len(t) - 1 :
       \E x \in DOMAIN H : t[i] \in Crossing(H, x) /\ {W[t[i]], W[t[i + 1]]} = {x[1], x[2]}
  /\ Separated(t, W, H)

\* expand: the tour of v as such a path.
Grown(s, e, a) == IF Len(Turned(s, e)) = 1 THEN Turned(s, e) ELSE Append(Turned(s, e), a)

Opened(t, s, a, E, W, H, v) ==
  /\ IsPath(t, E, W, H, v)
  /\ ToSeqSet(t) = ToSeqSet(s) \cup (IF Len(s) = 1 THEN {} ELSE {a})
  /\ Len(t) = IF Len(s) = 1 THEN 1 ELSE Len(s) + 1
  /\ \A x \in DOMAIN H : t[Len(t)] \in Crossing(H, x) => Len(s) = 1

LEMMA ExpandedIsPath ==
  ASSUME NEW D, NEW V, NEW H, NEW s, IsTour(s, D, V, H), Handles(D, V, H),
         NEW e \in ToSeqSet(s), NEW a, a \notin D,
         NEW t, t = Grown(s, e, a),
         NEW v, v = V[e],
         NEW E, D \subseteq E, Len(s) # 1 => a \in E,
         NEW W, Agree(D, W, V), Len(s) # 1 => W[a] = v
  PROVE  Opened(t, s, a, E, W, H, v)
<1>. PICK r : r = Turned(s, e)
  OBVIOUS
<1>. PICK n : n = Len(s)
  OBVIOUS
<1>1. IsTour(r, D, V, H) /\ ToSeqSet(r) = ToSeqSet(s) /\ Len(r) = n /\ r[1] = e
  BY TurnedIsTour
<1>2. /\ n \in Nat /\ n >= 1 /\ r \in Seq(D) /\ r \in Seq(E) /\ e \in D
      /\ \A i, j \in 1 .. n : r[i] = r[j] => i = j
      /\ \A i \in 1 .. n : r[i] \in D
  BY <1>1 DEF IsTour
<1>3. \A i \in 1 .. n : W[r[i]] = V[r[i]]
  BY <1>2 DEF Agree
<1>4. \A x \in DOMAIN H : a \notin Crossing(H, x)
  BY DEF Handles
<1>5. CASE n = 1
  <2>1. t = r
    BY <1>1, <1>5 DEF Grown
  <2>2. \A i \in 1 .. n : i = 1
    BY <1>5
  <2>3. Separated(t, W, H)
    <3>1. \A p, q \in 1 .. n : ~(p < q)
      BY <1>5
    <3>. QED
      BY <1>1, <2>1, <3>1, Zenon DEF Separated
  <2>4. W[r[1]] = v
    BY <1>1, <1>3, <1>5
  <2>5. Len(t) - 1 = 0 /\ 1 .. 0 = {}
    BY <1>1, <1>5, <2>1
  <2>6. IsPath(t, E, W, H, v)
    BY <1>1, <1>2, <1>5, <2>1, <2>3, <2>4, <2>5 DEF IsPath
  <2>. QED
    BY <1>1, <1>5, <2>1, <2>6 DEF Opened
<1>6. CASE n # 1
  <2>1. t = Append(r, a) /\ a \in E /\ W[a] = v
    BY <1>1, <1>6 DEF Grown
  <2>2. t \in Seq(E) /\ Len(t) = n + 1 /\ t[n + 1] = a /\ \A i \in 1 .. n : t[i] = r[i]
    BY <1>1, <1>2, <2>1
  <2>3. \A i \in 1 .. n : i \in 1 .. n + 1 /\ i # n + 1
    BY <1>2
  <2>4. \A i \in 1 .. n + 1 : i \in 1 .. n \/ i = n + 1
    BY <1>2
  <2>5. ASSUME NEW i \in 1 .. n + 1, NEW j \in 1 .. n + 1, t[i] = t[j] PROVE i = j
    <3>1. \A k \in 1 .. n : t[k] # a
      BY <1>2, <2>2
    <3>. QED
      BY <1>2, <2>2, <2>4, <2>5, <3>1
  <2>6. W[t[1]] = v /\ W[t[n + 1]] = v
    <3>1. 1 \in 1 .. n
      BY <1>2
    <3>. QED
      BY <1>1, <1>3, <2>1, <2>2, <3>1
  <2>7. ASSUME NEW i \in 1 .. n
        PROVE  \E x \in DOMAIN H : t[i] \in Crossing(H, x) /\ {W[t[i]], W[t[i + 1]]} = {x[1], x[2]}
    <3>1. PICK x \in DOMAIN H : /\ r[i] \in Crossing(H, x)
                                /\ {V[r[i]], V[r[After(n, i)]]} = {x[1], x[2]}
      <4>1. Crossed(r, V, H) /\ Len(r) = n /\ Len(r) > 1
        BY <1>1, <1>2, <1>6 DEF IsTour
      <4>2. i \in 1 .. Len(r)
        BY <4>1
      <4>3. \A k \in 1 .. Len(r) : \E x \in DOMAIN H : /\ r[k] \in Crossing(H, x)
                                                      /\ {V[r[k]], V[r[After(Len(r), k)]]} = {x[1], x[2]}
        BY ONLY <4>1, Zenon DEF Crossed
      <4>. QED
        BY ONLY <4>1, <4>2, <4>3
    <3>2. W[t[i]] = V[r[i]]
      BY <1>3, <2>2
    <3>3. W[t[i + 1]] = V[r[After(n, i)]]
      <4>1. CASE i = n
        BY <1>1, <2>2, <2>6, <4>1 DEF After
      <4>2. CASE i # n
        <5>1. i + 1 \in 1 .. n /\ After(n, i) = i + 1
          BY <1>2, <4>2 DEF After
        <5>. QED
          BY <1>3, <2>2, <5>1
      <4>. QED
        BY <4>1, <4>2
    <3>. QED
      BY <2>2, <3>1, <3>2, <3>3
  <2>8. Separated(t, W, H)
    <3>. SUFFICES ASSUME NEW x \in DOMAIN H, NEW p \in 1 .. Len(t), NEW q \in 1 .. Len(t),
                         p < q, Crossing(H, x) = {t[p], t[q]}
                  PROVE  Apart(t, W, p, q)
      BY Zenon DEF Separated
    <3>. SUFFICES ASSUME NEW j \in 1 .. Len(t), NEW k \in 1 .. Len(t), Inside(j, p, q), ~Inside(k, p, q)
                  PROVE  W[t[j]] # W[t[k]]
      BY Zenon DEF Apart
    <3>1. p \in 1 .. n /\ q \in 1 .. n
      BY <1>4, <2>2, <2>4
    <3>2. Apart(r, V, p, q)
      BY <1>1, <2>2, <3>1 DEF IsTour, Separated
    <3>3. j \in 1 .. n /\ j # 1
      BY <1>2, <3>1 DEF Inside
    <3>4. CASE k = n + 1
      <4>1. 1 \in 1 .. n /\ ~Inside(1, p, q)
        BY <1>2, <3>1 DEF Inside
      <4>2. V[r[j]] # V[r[1]]
        BY <1>1, <3>2, <3>3, <4>1 DEF Apart
      <4>. QED
        BY <1>1, <1>3, <2>2, <2>6, <3>3, <3>4, <4>2
    <3>5. CASE k \in 1 .. n
      <4>1. V[r[j]] # V[r[k]]
        BY <1>1, <3>2, <3>3, <3>5 DEF Apart
      <4>. QED
        BY <1>3, <2>2, <3>3, <3>5, <4>1
    <3>. QED
      BY <2>2, <2>4, <3>4, <3>5
  <2>9. IsPath(t, E, W, H, v)
    <3>1. Len(t) - 1 = n /\ Len(t) = n + 1 /\ Len(t) >= 1
      BY <1>2, <2>2
    <3>2. \A i, j \in 1 .. Len(t) : t[i] = t[j] => i = j
      BY <2>5, <3>1
    <3>3. \A i \in 1 .. Len(t) - 1 :
            \E x \in DOMAIN H : t[i] \in Crossing(H, x) /\ {W[t[i]], W[t[i + 1]]} = {x[1], x[2]}
      BY <2>7, <3>1
    <3>4. W[t[1]] = v /\ W[t[Len(t)]] = v
      BY <2>6, <3>1
    <3>5. t \in Seq(E)
      BY <2>2
    <3>. QED
      BY <2>8, <3>1, <3>2, <3>3, <3>4, <3>5, Zenon DEF IsPath
  <2>10. ToSeqSet(t) = ToSeqSet(s) \cup {a}
    <3>1. DOMAIN t = 1 .. n + 1 /\ DOMAIN r = 1 .. n
      BY <1>1, <1>2, <2>2
    <3>2. ToSeqSet(t) = ToSeqSet(r) \cup {a}
      <4>1. ASSUME NEW f \in ToSeqSet(t) PROVE f \in ToSeqSet(r) \cup {a}
        BY <2>2, <2>4, <3>1, <4>1 DEF ToSeqSet
      <4>2. ASSUME NEW f \in ToSeqSet(r) PROVE f \in ToSeqSet(t)
        BY <2>2, <2>3, <3>1, <4>2 DEF ToSeqSet
      <4>3. n + 1 \in 1 .. n + 1
        BY <1>2
      <4>4. a \in ToSeqSet(t)
        BY <2>2, <3>1, <4>3 DEF ToSeqSet
      <4>. QED
        BY <4>1, <4>2, <4>4
    <3>. QED
      BY <1>1, <3>2
  <2>. QED
    BY <1>4, <1>6, <2>2, <2>9, <2>10 DEF Opened
<1>. QED
  BY <1>5, <1>6

\* The joined tour crosses x from the end of l and back from the end of r.
WithEdge(H, x, l, r) ==
  [y \in DOMAIN H \cup {x} |-> IF y \in DOMAIN H THEN H[y] ELSE <<l[Len(l)], r[Len(r)]>>]

NoCommonEdge(H, l, r) ==
  \A y \in DOMAIN H : ~(Crossing(H, y) \cap ToSeqSet(l) # {} /\ Crossing(H, y) \cap ToSeqSet(r) # {})

NoCommonVertex(W, l, r) == \A i \in 1 .. Len(l), j \in 1 .. Len(r) : W[l[i]] # W[r[j]]

Between(x, v, u) == {x[1], x[2]} = {v, u}
IsJoin(t, l, r) == t = l \o r

LEMMA JoinedIsTour ==
  ASSUME NEW E, NEW W, NEW H, NEW l, NEW r, NEW v, NEW u,
         IsPath(l, E, W, H, v), IsPath(r, E, W, H, u),
         NoCommonVertex(W, l, r), NoCommonEdge(H, l, r),
         NEW x, x \notin DOMAIN H, Between(x, v, u),
         NEW t, IsJoin(t, l, r), NEW G, G = WithEdge(H, x, l, r)
  PROVE  IsTour(t, E, W, G) /\ ToSeqSet(t) = ToSeqSet(l) \cup ToSeqSet(r)
<1>. PICK a, b : a = Len(l) /\ b = Len(r)
  OBVIOUS
<1>1. /\ l \in Seq(E) /\ a \in Nat /\ a >= 1 /\ W[l[1]] = v /\ W[l[a]] = v
      /\ \A i, j \in 1 .. a : l[i] = l[j] => i = j
      /\ \A i \in 1 .. a - 1 :
           \E y \in DOMAIN H : l[i] \in Crossing(H, y) /\ {W[l[i]], W[l[i + 1]]} = {y[1], y[2]}
      /\ Separated(l, W, H)
  <2>1. /\ l \in Seq(E) /\ Len(l) >= 1 /\ W[l[1]] = v /\ W[l[Len(l)]] = v
        /\ \A i, j \in 1 .. Len(l) : l[i] = l[j] => i = j
        /\ \A i \in 1 .. Len(l) - 1 :
             \E y \in DOMAIN H : l[i] \in Crossing(H, y) /\ {W[l[i]], W[l[i + 1]]} = {y[1], y[2]}
        /\ Separated(l, W, H)
    BY Zenon DEF IsPath
  <2>2. Len(l) \in Nat
    BY <2>1
  <2>. QED
    BY <2>1, <2>2, Zenon
<1>2. /\ r \in Seq(E) /\ b \in Nat /\ b >= 1 /\ W[r[1]] = u /\ W[r[b]] = u
      /\ \A i, j \in 1 .. b : r[i] = r[j] => i = j
      /\ \A i \in 1 .. b - 1 :
           \E y \in DOMAIN H : r[i] \in Crossing(H, y) /\ {W[r[i]], W[r[i + 1]]} = {y[1], y[2]}
      /\ Separated(r, W, H)
  <2>1. /\ r \in Seq(E) /\ Len(r) >= 1 /\ W[r[1]] = u /\ W[r[Len(r)]] = u
        /\ \A i, j \in 1 .. Len(r) : r[i] = r[j] => i = j
        /\ \A i \in 1 .. Len(r) - 1 :
             \E y \in DOMAIN H : r[i] \in Crossing(H, y) /\ {W[r[i]], W[r[i + 1]]} = {y[1], y[2]}
        /\ Separated(r, W, H)
    BY Zenon DEF IsPath
  <2>2. Len(r) \in Nat
    BY <2>1
  <2>. QED
    BY <2>1, <2>2, Zenon
<1>. PICK n : n = a + b
  OBVIOUS
<1>3. /\ t \in Seq(E) /\ Len(t) = n /\ n \in Nat /\ n >= 1
      /\ \A k \in 1 .. a : t[k] = l[k]
      /\ \A k \in 1 .. b : t[a + k] = r[k]
  <2>1. t \in Seq(E) /\ Joins(t, l, r)
    BY <1>1, <1>2, Joining DEF IsJoin
  <2>. QED
    BY <1>1, <1>2, <2>1 DEF Joins
<1>4. \A k \in 1 .. n : k \in 1 .. a \/ (k > a /\ k - a \in 1 .. b /\ a + (k - a) = k)
  BY <1>1, <1>2
<1>5. \A k \in 1 .. n : k > a => k - a \in 1 .. b /\ t[k] = r[k - a]
  <2>. SUFFICES ASSUME NEW k \in 1 .. n, k > a PROVE k - a \in 1 .. b /\ t[k] = r[k - a]
    OBVIOUS
  <2>. PICK h : h = k - a
    OBVIOUS
  <2>1. h \in 1 .. b /\ a + h = k
    BY <1>1, <1>2
  <2>. QED
    BY <1>3, <2>1
<1>6. \A i \in 1 .. a, j \in 1 .. b : W[l[i]] # W[r[j]]
  BY DEF NoCommonVertex
<1>7. \A i, j \in 1 .. n : i \in 1 .. a /\ j > a => W[t[i]] # W[t[j]]
  <2>. SUFFICES ASSUME NEW i \in 1 .. a, NEW j \in 1 .. n, j > a PROVE W[t[i]] # W[t[j]]
    OBVIOUS
  <2>. PICK h : h = j - a
    OBVIOUS
  <2>1. h \in 1 .. b /\ t[j] = r[h]
    BY <1>5
  <2>2. t[i] = l[i]
    BY <1>3
  <2>. QED
    BY ONLY <1>6, <2>1, <2>2, i \in 1 .. a
<1>8. ASSUME NEW i \in 1 .. n, NEW j \in 1 .. n, t[i] = t[j] PROVE i = j
  <2>1. CASE i \in 1 .. a /\ j \in 1 .. a
    <3>1. l[i] = l[j]
      BY <1>3, <1>8, <2>1
    <3>. QED
      BY <1>1, <2>1, <3>1
  <2>2. CASE i > a /\ j > a
    <3>1. r[i - a] = r[j - a] /\ i - a \in 1 .. b /\ j - a \in 1 .. b
      BY <1>5, <1>8, <2>2
    <3>2. i - a = j - a
      BY <1>2, <3>1
    <3>. QED
      BY <1>1, <1>3, <3>2
  <2>3. ~(i \in 1 .. a /\ j > a) /\ ~(j \in 1 .. a /\ i > a)
    BY <1>7, <1>8
  <2>. QED
    BY <1>4, <2>1, <2>2, <2>3
<1>9. /\ DOMAIN G = DOMAIN H \cup {x}
      /\ \A y \in DOMAIN H : Crossing(G, y) = Crossing(H, y)
      /\ Crossing(G, x) = {t[a], t[n]}
  <2>1. DOMAIN G = DOMAIN H \cup {x} /\ G[x] = <<l[a], r[b]>> /\ \A y \in DOMAIN H : G[y] = H[y]
    BY DEF WithEdge
  <2>2. t[a] = l[a] /\ t[n] = r[b]
    BY <1>1, <1>2, <1>3
  <2>. QED
    BY <2>1, <2>2 DEF Crossing
<1>10. Crossed(t, W, G)
  <2>. SUFFICES ASSUME NEW i \in 1 .. Len(t)
                PROVE  \E y \in DOMAIN G : /\ t[i] \in Crossing(G, y)
                                           /\ {W[t[i]], W[t[After(Len(t), i)]]} = {y[1], y[2]}
    BY Zenon DEF Crossed
  <2>0. i \in 1 .. n
    BY <1>3
  <2>. SUFFICES \E y \in DOMAIN G : t[i] \in Crossing(G, y) /\ {W[t[i]], W[t[After(n, i)]]} = {y[1], y[2]}
    BY <1>3
  <2>1. CASE i \in 1 .. a - 1
    <3>1. i \in 1 .. a /\ i + 1 \in 1 .. a /\ After(n, i) = i + 1
      BY <1>1, <1>2, <2>1 DEF After
    <3>2. t[i] = l[i] /\ t[After(n, i)] = l[i + 1]
      BY <1>3, <3>1
    <3>3. PICK y \in DOMAIN H : l[i] \in Crossing(H, y) /\ {W[l[i]], W[l[i + 1]]} = {y[1], y[2]}
      BY <1>1, <2>1
    <3>4. y \in DOMAIN G /\ Crossing(G, y) = Crossing(H, y)
      BY <1>9
    <3>. QED
      BY <3>2, <3>3, <3>4
  <2>2. CASE i = a
    <3>1. After(n, i) = a + 1 /\ 1 \in 1 .. b /\ a \in 1 .. a
      BY <1>1, <1>2, <2>2 DEF After
    <3>2. W[t[i]] = v /\ W[t[After(n, i)]] = u
      BY <1>1, <1>2, <1>3, <2>2, <3>1
    <3>3. x \in DOMAIN G /\ t[i] \in Crossing(G, x)
      BY <1>9, <2>2
    <3>4. {W[t[i]], W[t[After(n, i)]]} = {x[1], x[2]}
      BY <3>2 DEF Between
    <3>. QED
      BY <3>3, <3>4
  <2>3. CASE i > a /\ i # n
    <3>. PICK h : h = i - a
      OBVIOUS
    <3>1. h \in 1 .. b - 1 /\ h \in 1 .. b /\ h + 1 \in 1 .. b /\ a + h = i /\ After(n, i) = a + (h + 1)
      <4>1. After(n, i) = i + 1
        BY <2>3 DEF After
      <4>. QED
        BY <1>1, <1>2, <2>0, <2>3, <4>1
    <3>2. t[i] = r[h] /\ t[After(n, i)] = r[h + 1]
      BY <1>3, <3>1
    <3>3. PICK y \in DOMAIN H : r[h] \in Crossing(H, y) /\ {W[r[h]], W[r[h + 1]]} = {y[1], y[2]}
      BY <1>2, <3>1
    <3>4. y \in DOMAIN G /\ Crossing(G, y) = Crossing(H, y)
      BY <1>9
    <3>. QED
      BY <3>2, <3>3, <3>4
  <2>4. CASE i = n
    <3>1. After(n, i) = 1 /\ 1 \in 1 .. a /\ b \in 1 .. b
      BY <1>1, <1>2, <2>4 DEF After
    <3>2. W[t[i]] = u /\ W[t[After(n, i)]] = v
      BY <1>1, <1>2, <1>3, <2>4, <3>1
    <3>3. x \in DOMAIN G /\ t[i] \in Crossing(G, x)
      BY <1>9, <2>4
    <3>4. {W[t[i]], W[t[After(n, i)]]} = {x[1], x[2]}
      BY <3>2 DEF Between
    <3>. QED
      BY <3>3, <3>4
  <2>5. i \in 1 .. a - 1 \/ i = a \/ (i > a /\ i # n) \/ i = n
    BY <1>1, <1>2, <2>0
  <2>. QED
    BY <2>1, <2>2, <2>3, <2>4, <2>5, Zenon
<1>11. Separated(t, W, G)
  <2>. SUFFICES ASSUME NEW y \in DOMAIN G, NEW p \in 1 .. Len(t), NEW q \in 1 .. Len(t),
                       p < q, Crossing(G, y) = {t[p], t[q]}
                PROVE  Apart(t, W, p, q)
    BY Zenon DEF Separated
  <2>. SUFFICES ASSUME NEW j \in 1 .. Len(t), NEW k \in 1 .. Len(t), Inside(j, p, q), ~Inside(k, p, q)
                PROVE  W[t[j]] # W[t[k]]
    BY Zenon DEF Apart
  <2>0. p \in 1 .. n /\ q \in 1 .. n /\ j \in 1 .. n /\ k \in 1 .. n
    BY <1>3
  <2>1. CASE y = x
    <3>1. a \in 1 .. n /\ n \in 1 .. n /\ a < n
      BY <1>1, <1>2
    <3>2. p \in {a, n} /\ q \in {a, n}
      <4>1. {t[p], t[q]} = {t[a], t[n]}
        BY <1>9, <2>1
      <4>2. (t[p] = t[a] \/ t[p] = t[n]) /\ (t[q] = t[a] \/ t[q] = t[n])
        BY <4>1
      <4>. QED
        BY <1>8, <2>0, <3>1, <4>2
    <3>3. p = a /\ q = n
      BY <2>0, <3>1, <3>2
    <3>4. j > a /\ k \in 1 .. a
      BY <1>1, <2>0, <3>3 DEF Inside
    <3>. QED
      BY <1>7, <2>0, <3>4
  <2>2. CASE y # x
    <3>1. y \in DOMAIN H /\ Crossing(H, y) = {t[p], t[q]}
      BY <1>9, <2>2
    <3>2. CASE q \in 1 .. a
      <4>1. p \in 1 .. a /\ j \in 1 .. a
        BY <2>0, <3>2 DEF Inside
      <4>2. t[p] = l[p] /\ t[q] = l[q]
        BY <1>3, <3>2, <4>1
      <4>3. Apart(l, W, p, q)
        BY <1>1, <3>1, <3>2, <4>1, <4>2 DEF Separated
      <4>4. CASE k \in 1 .. a
        BY <1>3, <3>2, <4>1, <4>3, <4>4 DEF Apart
      <4>5. CASE k > a
        BY <1>7, <2>0, <4>1, <4>5
      <4>. QED
        BY <1>4, <2>0, <4>4, <4>5
    <3>3. CASE p > a
      <4>. PICK P, Q, J : P = p - a /\ Q = q - a /\ J = j - a
        OBVIOUS
      <4>1. /\ q > a /\ j > a
            /\ P \in 1 .. b /\ Q \in 1 .. b /\ J \in 1 .. b /\ P < Q /\ Inside(J, P, Q)
        BY <1>1, <1>2, <2>0, <3>3 DEF Inside
      <4>2. t[p] = r[P] /\ t[q] = r[Q] /\ t[j] = r[J]
        BY <1>5, <2>0, <3>3, <4>1
      <4>3. Apart(r, W, P, Q)
        BY <1>2, <3>1, <4>1, <4>2 DEF Separated
      <4>4. CASE k > a
        <5>. PICK K : K = k - a
          OBVIOUS
        <5>1. K \in 1 .. b /\ ~Inside(K, P, Q)
          BY <1>1, <1>2, <2>0, <4>4 DEF Inside
        <5>2. t[k] = r[K]
          BY <1>5, <2>0, <4>4
        <5>. QED
          BY <4>1, <4>2, <4>3, <5>1, <5>2 DEF Apart
      <4>5. CASE k \in 1 .. a
        BY <1>7, <2>0, <4>1, <4>5
      <4>. QED
        BY <1>4, <2>0, <4>4, <4>5
    <3>4. CASE p \in 1 .. a /\ q > a
      <4>1. t[p] = l[p] /\ t[q] = r[q - a] /\ q - a \in 1 .. b
        BY <1>3, <1>5, <2>0, <3>4
      <4>2. t[p] \in ToSeqSet(l) /\ t[q] \in ToSeqSet(r)
        BY <1>1, <1>2, <3>4, <4>1 DEF ToSeqSet
      <4>. QED
        BY <3>1, <4>2 DEF NoCommonEdge
    <3>. QED
      BY <1>4, <2>0, <3>2, <3>3, <3>4
  <2>. QED
    BY <2>1, <2>2
<1>12. ToSeqSet(t) = ToSeqSet(l) \cup ToSeqSet(r)
  <2>1. DOMAIN t = 1 .. n /\ DOMAIN l = 1 .. a /\ DOMAIN r = 1 .. b
    BY <1>1, <1>2, <1>3
  <2>2. \A k \in 1 .. a : k \in 1 .. n
    BY <1>1, <1>2
  <2>3. \A k \in 1 .. b : a + k \in 1 .. n
    BY <1>1, <1>2
  <2>4. ASSUME NEW f \in ToSeqSet(t) PROVE f \in ToSeqSet(l) \cup ToSeqSet(r)
    <3>1. PICK k \in 1 .. n : f = t[k]
      BY <2>1, <2>4 DEF ToSeqSet
    <3>2. f \in {l[i] : i \in 1 .. a} \/ f \in {r[i] : i \in 1 .. b}
      BY <1>3, <1>4, <1>5, <3>1
    <3>. QED
      BY <2>1, <3>2 DEF ToSeqSet
  <2>5. ASSUME NEW f \in ToSeqSet(l) PROVE f \in ToSeqSet(t)
    BY <1>3, <2>1, <2>2 DEF ToSeqSet
  <2>6. ASSUME NEW f \in ToSeqSet(r) PROVE f \in ToSeqSet(t)
    <3>1. PICK k \in 1 .. b : f = r[k]
      BY <2>1 DEF ToSeqSet
    <3>2. f = t[a + k] /\ a + k \in DOMAIN t
      BY <1>3, <2>1, <2>3, <3>1
    <3>. QED
      BY <3>2 DEF ToSeqSet
  <2>. QED
    BY <2>4, <2>5, <2>6
<1>13. IsTour(t, E, W, G)
  BY <1>3, <1>8, <1>10, <1>11 DEF IsTour
<1>. QED
  BY <1>3, <1>12, <1>13

------------------------------------------------------------------------------
(* All tours together. *)

\* The tours T part the entries D; a vertex is visited in one tour only.
Well(D, V, H, T) ==
  /\ \A s \in T : IsTour(s, D, V, H) /\ Complete(s, H)
  /\ Handles(D, V, H)
  /\ \A e \in D : \E s \in T : e \in ToSeqSet(s)
  /\ \A s, t \in T : ToSeqSet(s) \cap ToSeqSet(t) # {} => s = t
  /\ \A s \in T : \A e, f \in D : V[e] = V[f] /\ e \in ToSeqSet(s) => f \in ToSeqSet(s)

\* G and H hold the same of the edges that s crosses.
SameEdgesOn(s, H, G) ==
  \A y : /\ y \in DOMAIN G /\ Crossing(G, y) \cap ToSeqSet(s) # {} => y \in DOMAIN H
         /\ y \in DOMAIN H /\ Crossing(H, y) \cap ToSeqSet(s) # {} => y \in DOMAIN G
         /\ y \in DOMAIN H /\ y \in DOMAIN G => Crossing(G, y) = Crossing(H, y)

LEMMA SameTour ==
  ASSUME NEW D, NEW V, NEW H, NEW s, IsTour(s, D, V, H), Complete(s, H),
         NEW E, ToSeqSet(s) \subseteq E, NEW W, Agree(ToSeqSet(s), W, V),
         NEW G, SameEdgesOn(s, H, G)
  PROVE  IsTour(s, E, W, G) /\ Complete(s, G)
<1>. PICK n : n = Len(s)
  OBVIOUS
<1>1. /\ s \in Seq(D) /\ n \in Nat /\ n >= 1 /\ DOMAIN s = 1 .. n
      /\ \A i, j \in 1 .. n : s[i] = s[j] => i = j
  BY DEF IsTour
<1>2. \A i \in 1 .. n : s[i] \in ToSeqSet(s) /\ s[i] \in E /\ W[s[i]] = V[s[i]]
  BY <1>1 DEF ToSeqSet, Agree
<1>3. s \in Seq(E)
  BY <1>1, <1>2
<1>4. Crossed(s, W, G)
  <2>. SUFFICES ASSUME Len(s) > 1, NEW i \in 1 .. Len(s)
                PROVE  \E y \in DOMAIN G : /\ s[i] \in Crossing(G, y)
                                           /\ {W[s[i]], W[s[After(Len(s), i)]]} = {y[1], y[2]}
    BY Zenon DEF Crossed
  <2>1. PICK y \in DOMAIN H : /\ s[i] \in Crossing(H, y)
                              /\ {V[s[i]], V[s[After(Len(s), i)]]} = {y[1], y[2]}
    BY DEF IsTour, Crossed
  <2>2. y \in DOMAIN G /\ Crossing(G, y) = Crossing(H, y)
    BY <1>2, <2>1 DEF SameEdgesOn
  <2>3. After(Len(s), i) \in 1 .. n /\ i \in 1 .. n
    BY <1>1 DEF After
  <2>4. W[s[i]] = V[s[i]] /\ W[s[After(Len(s), i)]] = V[s[After(Len(s), i)]]
    BY <1>2, <2>3
  <2>. QED
    BY <2>1, <2>2, <2>4
<1>5. Separated(s, W, G)
  <2>. SUFFICES ASSUME NEW y \in DOMAIN G, NEW p \in 1 .. Len(s), NEW q \in 1 .. Len(s),
                       p < q, Crossing(G, y) = {s[p], s[q]}
                PROVE  Apart(s, W, p, q)
    BY Zenon DEF Separated
  <2>. SUFFICES ASSUME NEW j \in 1 .. Len(s), NEW k \in 1 .. Len(s), Inside(j, p, q), ~Inside(k, p, q)
                PROVE  W[s[j]] # W[s[k]]
    BY Zenon DEF Apart
  <2>1. s[p] \in ToSeqSet(s) /\ s[p] \in Crossing(G, y)
    BY <1>2
  <2>2. y \in DOMAIN H /\ Crossing(H, y) = {s[p], s[q]}
    BY <2>1 DEF SameEdgesOn
  <2>3. Apart(s, V, p, q)
    BY <2>2 DEF IsTour, Separated
  <2>. QED
    BY <1>2, <2>3 DEF Apart
<1>6. Complete(s, G)
  <2>. SUFFICES ASSUME NEW y \in DOMAIN G, Crossing(G, y) \cap ToSeqSet(s) # {}
                PROVE  Crossing(G, y) \subseteq ToSeqSet(s)
    BY DEF Complete
  <2>1. y \in DOMAIN H /\ Crossing(G, y) = Crossing(H, y)
    BY DEF SameEdgesOn
  <2>. QED
    BY <2>1 DEF Complete
<1>. QED
  BY <1>1, <1>3, <1>4, <1>5, <1>6 DEF IsTour

\* Which side of the crossings of x an entry of s is on.
LEMMA Sides ==
  ASSUME NEW D, NEW V, NEW H, NEW s, IsTour(s, D, V, H), Handles(D, V, H), Complete(s, H),
         NEW x \in DOMAIN H, NEW p, NEW q, CutAt(s, H, x, p, q)
  PROVE  /\ ToSeqSet(s) = Outside(s, p, q) \cup Within(s, p, q)
         /\ Outside(s, p, q) \cap Within(s, p, q) = {}
         /\ s[p] \in Outside(s, p, q) /\ s[q] \in Within(s, p, q)
         /\ \A e \in Outside(s, p, q), f \in Within(s, p, q) : V[e] # V[f]
         /\ \A y \in DOMAIN H \ {x}, side \in {Outside(s, p, q), Within(s, p, q)} :
              Crossing(H, y) \cap side # {} => Crossing(H, y) \subseteq side \ {s[p], s[q]}
<1>. PICK n : n = Len(s)
  OBVIOUS
<1>1. /\ s \in Seq(D) /\ n \in Nat /\ DOMAIN s = 1 .. n
      /\ \A i, j \in 1 .. n : s[i] = s[j] => i = j
  BY DEF IsTour
<1>2. p \in 1 .. n /\ q \in 1 .. n /\ p < q /\ Crossing(H, x) = {s[p], s[q]}
  BY DEF CutAt
<1>3. Apart(s, V, p, q)
  BY <1>2 DEF IsTour, Separated
<1>4. ToSeqSet(s) = Outside(s, p, q) \cup Within(s, p, q)
  BY <1>1 DEF ToSeqSet, Outside, Within
<1>5. Outside(s, p, q) \cap Within(s, p, q) = {}
  BY <1>1 DEF Outside, Within
<1>6. s[p] \in Outside(s, p, q) /\ s[q] \in Within(s, p, q)
  BY <1>1, <1>2 DEF Outside, Within, Inside
<1>7. ASSUME NEW e \in Outside(s, p, q), NEW f \in Within(s, p, q) PROVE V[e] # V[f]
  <2>1. PICK i \in 1 .. n : e = s[i] /\ ~Inside(i, p, q)
    BY DEF Outside
  <2>2. PICK j \in 1 .. n : f = s[j] /\ Inside(j, p, q)
    BY DEF Within
  <2>. QED
    BY <1>3, <2>1, <2>2 DEF Apart
<1>8. ASSUME NEW y \in DOMAIN H \ {x}, NEW i \in 1 .. n, s[i] \in Crossing(H, y)
      PROVE  \E j \in 1 .. n : /\ Crossing(H, y) = {s[i], s[j]}
                               /\ (Inside(i, p, q) <=> Inside(j, p, q))
                               /\ s[i] \notin {s[p], s[q]} /\ s[j] \notin {s[p], s[q]}
  <2>1. y \in DOMAIN H /\ y # x /\ i \in 1 .. Len(s)
    OBVIOUS
  <2>2. /\ i # p /\ i # q
        /\ \E j \in 1 .. Len(s) : /\ j # i /\ j # p /\ j # q
                                  /\ Crossing(H, y) = {s[i], s[j]}
                                  /\ Inside(i, p, q) <=> Inside(j, p, q)
    <3>1. TwinOnSide(s, H, y, i, p, q)
      BY <1>8, <2>1, SideOfEdge
    <3>. QED
      BY <3>1, Zenon DEF TwinOnSide
  <2>3. PICK j \in 1 .. n : /\ j # p /\ j # q
                            /\ Crossing(H, y) = {s[i], s[j]}
                            /\ Inside(i, p, q) <=> Inside(j, p, q)
    BY <2>2
  <2>. QED
    BY <1>1, <1>2, <2>2, <2>3
<1>9. ASSUME NEW y \in DOMAIN H \ {x}, Crossing(H, y) \cap Outside(s, p, q) # {}
      PROVE  Crossing(H, y) \subseteq Outside(s, p, q) \ {s[p], s[q]}
  <2>1. PICK i \in 1 .. n : s[i] \in Crossing(H, y) /\ ~Inside(i, p, q)
    BY <1>9 DEF Outside
  <2>2. PICK j \in 1 .. n : /\ Crossing(H, y) = {s[i], s[j]} /\ ~Inside(j, p, q)
                            /\ s[i] \notin {s[p], s[q]} /\ s[j] \notin {s[p], s[q]}
    BY <1>8, <2>1
  <2>3. s[i] \in Outside(s, p, q) /\ s[j] \in Outside(s, p, q)
    BY <2>1, <2>2 DEF Outside
  <2>. QED
    BY <2>2, <2>3
<1>10. ASSUME NEW y \in DOMAIN H \ {x}, Crossing(H, y) \cap Within(s, p, q) # {}
      PROVE  Crossing(H, y) \subseteq Within(s, p, q) \ {s[p], s[q]}
  <2>1. PICK i \in 1 .. n : s[i] \in Crossing(H, y) /\ Inside(i, p, q)
    BY <1>10 DEF Within
  <2>2. PICK j \in 1 .. n : /\ Crossing(H, y) = {s[i], s[j]} /\ Inside(j, p, q)
                            /\ s[i] \notin {s[p], s[q]} /\ s[j] \notin {s[p], s[q]}
    BY <1>8, <2>1
  <2>3. s[i] \in Within(s, p, q) /\ s[j] \in Within(s, p, q)
    BY <2>1, <2>2 DEF Within
  <2>. QED
    BY <2>2, <2>3
<1>. QED
  BY <1>4, <1>5, <1>6, <1>7, <1>9, <1>10

\* The tours after a cut of s into o and r, and what these are.
Halved(T, s, o, r) == (T \ {s}) \cup {o, r}
Parted(s, p, q, o, r) ==
  /\ ToSeqSet(o) = Outside(s, p, q) \ Freed(s, p, q)
  /\ ToSeqSet(r) = Within(s, p, q) \ Freed(s, p, q)
  /\ Len(o) = 1 <=> p = 1 /\ q = Len(s)
  /\ Len(r) = 1 <=> q = p + 1

\* Cutting a tour keeps all of it.
LEMMA WellCut ==
  ASSUME NEW D, NEW V, NEW H, NEW T, Well(D, V, H, T), NEW s \in T,
         NEW x \in DOMAIN H, NEW p, NEW q, CutAt(s, H, x, p, q),
         NEW E, E = D \ Freed(s, p, q), NEW W, Agree(E, W, V),
         NEW G, G = Uncrossed(H, x), NEW o, o = OuterTour(s, p, q), NEW r, r = InnerTour(s, p, q)
  PROVE  Well(E, W, G, Halved(T, s, o, r)) /\ Parted(s, p, q, o, r)
<1>1. IsTour(s, D, V, H) /\ Complete(s, H) /\ Handles(D, V, H)
  BY DEF Well
<1>2. /\ IsTour(o, E, W, G) /\ ToSeqSet(o) = Outside(s, p, q) \ Freed(s, p, q)
      /\ Len(o) = 1 <=> p = 1 /\ q = Len(s)
  BY <1>1, OuterIsTour
<1>3. /\ IsTour(r, E, W, G) /\ ToSeqSet(r) = Within(s, p, q) \ Freed(s, p, q)
      /\ Len(r) = 1 <=> q = p + 1
  BY <1>1, InnerIsTour
<1>4. /\ ToSeqSet(s) = Outside(s, p, q) \cup Within(s, p, q)
      /\ Outside(s, p, q) \cap Within(s, p, q) = {}
      /\ \A e \in Outside(s, p, q), f \in Within(s, p, q) : V[e] # V[f]
      /\ \A y \in DOMAIN H \ {x}, side \in {Outside(s, p, q), Within(s, p, q)} :
           Crossing(H, y) \cap side # {} => Crossing(H, y) \subseteq side \ {s[p], s[q]}
  BY <1>1, Sides
<1>5. Crossing(H, x) = {s[p], s[q]} /\ Freed(s, p, q) \subseteq Crossing(H, x)
      /\ Crossing(H, x) \subseteq ToSeqSet(s)
  <2>1. Crossing(H, x) = {s[p], s[q]} /\ p \in 1 .. Len(s) /\ q \in 1 .. Len(s)
    BY DEF CutAt
  <2>2. DOMAIN s = 1 .. Len(s)
    BY <1>1 DEF IsTour
  <2>. QED
    BY <2>1, <2>2 DEF Freed, ToSeqSet
<1>6. DOMAIN G = DOMAIN H \ {x} /\ \A y \in DOMAIN H \ {x} : G[y] = H[y] /\ Crossing(G, y) = Crossing(H, y)
  BY DEF Uncrossed, Crossing
<1>7. \A y \in DOMAIN H \ {x} : Crossing(H, y) \cap Freed(s, p, q) = {} /\ Crossing(H, y) \subseteq E
  BY <1>1, <1>5 DEF Handles
<1>8. \A t \in T \ {s} : ToSeqSet(t) \cap ToSeqSet(s) = {}
  BY DEF Well
<1>9. Complete(o, G) /\ Complete(r, G)
  BY <1>2, <1>3, <1>4, <1>5, <1>6 DEF Complete
<1>10. ASSUME NEW t \in T \ {s} PROVE IsTour(t, E, W, G) /\ Complete(t, G) /\ ToSeqSet(t) \subseteq E
  <2>1. IsTour(t, D, V, H) /\ Complete(t, H)
    BY DEF Well
  <2>2. ToSeqSet(t) \subseteq D
    BY <2>1 DEF IsTour, ToSeqSet
  <2>3. ToSeqSet(t) \subseteq E
    BY <1>5, <1>8, <2>2
  <2>4. Agree(ToSeqSet(t), W, V)
    BY <2>3 DEF Agree
  <2>5. SameEdgesOn(t, H, G)
    BY <1>5, <1>6, <1>8 DEF SameEdgesOn
  <2>. QED
    BY <2>1, <2>3, <2>4, <2>5, SameTour
<1>11. Handles(E, W, G)
  <2>. SUFFICES ASSUME NEW y \in DOMAIN G
                PROVE  /\ y[1] # y[2]
                       /\ Crossing(G, y) \subseteq E
                       /\ {W[G[y][1]], W[G[y][2]]} = {y[1], y[2]}
                       /\ \A z \in DOMAIN G : Crossing(G, y) \cap Crossing(G, z) # {} => y = z
    BY Zenon DEF Handles
  <2>1. /\ y[1] # y[2] /\ {V[H[y][1]], V[H[y][2]]} = {y[1], y[2]}
        /\ \A z \in DOMAIN H : Crossing(H, y) \cap Crossing(H, z) # {} => y = z
    BY <1>1, <1>6 DEF Handles
  <2>2. Crossing(G, y) = Crossing(H, y) /\ G[y] = H[y] /\ Crossing(H, y) \subseteq E
    BY <1>6, <1>7
  <2>3. H[y][1] \in E /\ H[y][2] \in E
    BY <2>2 DEF Crossing
  <2>4. W[H[y][1]] = V[H[y][1]] /\ W[H[y][2]] = V[H[y][2]]
    BY <2>3 DEF Agree
  <2>. QED
    BY <1>6, <2>1, <2>2, <2>4
<1>12. \A e \in E : \E t \in (T \ {s}) \cup {o, r} : e \in ToSeqSet(t)
  <2>. SUFFICES ASSUME NEW e \in E PROVE \E t \in (T \ {s}) \cup {o, r} : e \in ToSeqSet(t)
    OBVIOUS
  <2>1. PICK t \in T : e \in ToSeqSet(t)
    BY DEF Well
  <2>. QED
    BY <1>2, <1>3, <1>4, <2>1
<1>13. \A t, u \in (T \ {s}) \cup {o, r} : ToSeqSet(t) \cap ToSeqSet(u) # {} => t = u
  <2>1. \A t, u \in T \ {s} : ToSeqSet(t) \cap ToSeqSet(u) # {} => t = u
    BY DEF Well
  <2>2. ToSeqSet(o) \subseteq ToSeqSet(s) /\ ToSeqSet(r) \subseteq ToSeqSet(s) /\ ToSeqSet(o) \cap ToSeqSet(r) = {}
    BY <1>2, <1>3, <1>4
  <2>. QED
    BY <1>8, <2>1, <2>2
<1>14. ASSUME NEW t \in (T \ {s}) \cup {o, r}, NEW e \in E, NEW f \in E, W[e] = W[f], e \in ToSeqSet(t)
       PROVE  f \in ToSeqSet(t)
  <2>1. V[e] = V[f] /\ e \in D /\ f \in D
    BY <1>14 DEF Agree
  <2>2. CASE t \in T \ {s}
    BY <1>14, <2>1, <2>2 DEF Well
  <2>3. CASE t \in {o, r}
    <3>1. e \in ToSeqSet(s)
      BY <1>2, <1>3, <1>4, <1>14, <2>3
    <3>2. f \in ToSeqSet(s)
      BY <2>1, <3>1 DEF Well
    <3>. QED
      BY <1>2, <1>3, <1>4, <1>14, <2>1, <2>3, <3>2
  <2>. QED
    BY <2>2, <2>3
<1>. QED
  <2>1. \A t \in (T \ {s}) \cup {o, r} : IsTour(t, E, W, G) /\ Complete(t, G)
    BY <1>2, <1>3, <1>9, <1>10
  <2>2. Well(E, W, G, (T \ {s}) \cup {o, r})
    <3>1. \A t \in (T \ {s}) \cup {o, r} : \A e, f \in E :
             W[e] = W[f] /\ e \in ToSeqSet(t) => f \in ToSeqSet(t)
      BY <1>14
    <3>. QED
      BY <1>11, <1>12, <1>13, <2>1, <3>1, Zenon DEF Well
  <2>. QED
    BY <1>2, <1>3, <2>2 DEF Halved, Parted

\* An entry that a tour of length n has besides another one only if n is not 1.
Unless(n, e) == IF n = 1 THEN {} ELSE {e}
OneUnless(n) == IF n = 1 THEN 0 ELSE 1

IsLong(s) == Len(s) # 1
Ends(s, a, W, v) == IsLong(s) => W[a] = v

\* What expand makes of a tour, seen from outside it.
GrownOK(t, s, a, D, E, V, W, H, v) ==
  /\ IsPath(t, E, W, H, v)
  /\ ToSeqSet(t) = ToSeqSet(s) \cup (IF Len(s) = 1 THEN {} ELSE {a})
  /\ \A i \in 1 .. Len(t) : t[i] \in ToSeqSet(t) /\ \E e \in ToSeqSet(s) : W[t[i]] = V[e]
  /\ \A y \in DOMAIN H : t[Len(t)] \notin Crossing(H, y)
  /\ t[Len(t)] \in ToSeqSet(t)
  /\ Len(t) = IF Len(s) = 1 THEN 1 ELSE Len(s) + 1

LEMMA GrownPath ==
  ASSUME NEW D, NEW V, NEW H, NEW s, IsTour(s, D, V, H), Handles(D, V, H), Complete(s, H),
         NEW e \in ToSeqSet(s), NEW a, a \notin D, NEW t, t = Grown(s, e, a),
         NEW v, v = V[e],
         NEW E, D \subseteq E, Unless(Len(s), a) \subseteq E,
         NEW W, Agree(D, W, V), Ends(s, a, W, v)
  PROVE  GrownOK(t, s, a, D, E, V, W, H, v)
<1>0. (Len(s) # 1 => a \in E) /\ (Len(s) # 1 => W[a] = v)
  BY DEF Unless, Ends, IsLong
<1>1. Opened(t, s, a, E, W, H, v)
  BY <1>0, ExpandedIsPath
<1>2. /\ IsPath(t, E, W, H, v)
      /\ ToSeqSet(t) = ToSeqSet(s) \cup (IF Len(s) = 1 THEN {} ELSE {a})
      /\ Len(t) = IF Len(s) = 1 THEN 1 ELSE Len(s) + 1
      /\ \A x \in DOMAIN H : t[Len(t)] \in Crossing(H, x) => Len(s) = 1
  BY <1>1, Zenon DEF Opened
<1>3. /\ t \in Seq(E) /\ Len(t) >= 1 /\ Len(t) \in Nat /\ DOMAIN t = 1 .. Len(t)
      /\ s \in Seq(D) /\ Len(s) \in Nat /\ DOMAIN s = 1 .. Len(s)
      /\ ToSeqSet(s) \subseteq D
  <2>1. t \in Seq(E) /\ Len(t) >= 1
    BY <1>2, Zenon DEF IsPath
  <2>. QED
    BY <2>1 DEF IsTour, ToSeqSet
<1>4. \A i \in 1 .. Len(t) : t[i] \in ToSeqSet(t)
  BY <1>3 DEF ToSeqSet
<1>5. ASSUME NEW i \in 1 .. Len(t) PROVE \E f \in ToSeqSet(s) : W[t[i]] = V[f]
  <2>1. CASE t[i] \in ToSeqSet(s)
    BY <1>3, <2>1 DEF Agree
  <2>2. CASE t[i] \notin ToSeqSet(s)
    <3>1. Len(s) # 1 /\ t[i] = a
      BY <1>2, <1>4, <2>2
    <3>2. W[t[i]] = V[e]
      BY <1>0, <3>1
    <3>. QED
      BY <3>2
  <2>. QED
    BY <2>1, <2>2
<1>6. ASSUME NEW y \in DOMAIN H, t[Len(t)] \in Crossing(H, y) PROVE FALSE
  <2>1. Len(s) = 1 /\ ToSeqSet(t) = ToSeqSet(s)
    BY <1>2, <1>6
  <2>2. ToSeqSet(s) = {s[1]}
    BY <1>3, <2>1 DEF ToSeqSet
  <2>3. Crossing(H, y) \subseteq {s[1]}
    BY <1>3, <1>4, <1>6, <2>1, <2>2 DEF Complete
  <2>4. H[y][1] = s[1] /\ H[y][2] = s[1]
    BY <2>3 DEF Crossing
  <2>5. y[1] # y[2] /\ {V[H[y][1]], V[H[y][2]]} = {y[1], y[2]}
    BY DEF Handles
  <2>. QED
    BY <2>4, <2>5
<1>7. t[Len(t)] \in ToSeqSet(t)
  BY <1>3, <1>4
<1>. QED
  BY <1>2, <1>4, <1>5, <1>6, <1>7, Zenon DEF GrownOK

\* The entries after a link of the tours s1 and s2.
Enlarged(D, s1, s2, a, b) == D \cup Unless(Len(s1), a) \cup Unless(Len(s2), b)
Merged(T, s1, s2, t) == (T \ {s1, s2}) \cup {t}

\* Linking two tours keeps all of it.
LEMMA WellLink ==
  ASSUME NEW D, NEW V, NEW H, NEW T, Well(D, V, H, T), NEW s1 \in T, NEW s2 \in T, s1 # s2,
         NEW e1 \in ToSeqSet(s1), NEW e2 \in ToSeqSet(s2), NEW v, NEW u, v = V[e1], u = V[e2],
         NEW a, NEW b, a \notin D, b \notin D, a # b,
         NEW E, E = Enlarged(D, s1, s2, a, b),
         NEW W, Agree(D, W, V), Ends(s1, a, W, v), Ends(s2, b, W, u),
         NEW l, l = Grown(s1, e1, a), NEW r, r = Grown(s2, e2, b),
         NEW x, Between(x, v, u), NEW G, G = WithEdge(H, x, l, r),
         NEW t, IsJoin(t, l, r)
  PROVE  /\ Well(E, W, G, Merged(T, s1, s2, t))
         /\ x \notin DOMAIN H /\ v # u
         /\ ToSeqSet(t) = ToSeqSet(s1) \cup ToSeqSet(s2) \cup (E \ D)
<1>0. /\ E = D \cup (IF Len(s1) = 1 THEN {} ELSE {a}) \cup (IF Len(s2) = 1 THEN {} ELSE {b})
      /\ {x[1], x[2]} = {v, u} /\ t = l \o r
      /\ (Len(s1) # 1 => W[a] = v) /\ (Len(s2) # 1 => W[b] = u)
  BY DEF Enlarged, Between, Unless, Ends, IsLong, IsJoin
<1>1. /\ IsTour(s1, D, V, H) /\ Complete(s1, H) /\ IsTour(s2, D, V, H) /\ Complete(s2, H)
      /\ Handles(D, V, H)
  BY DEF Well
<1>2. D \subseteq E /\ Unless(Len(s1), a) \subseteq E /\ Unless(Len(s2), b) \subseteq E
  BY DEF Enlarged
<1>3. GrownOK(l, s1, a, D, E, V, W, H, v) /\ GrownOK(r, s2, b, D, E, V, W, H, u)
  BY <1>1, <1>2, GrownPath
<1>4. /\ IsPath(l, E, W, H, v)
      /\ ToSeqSet(l) = ToSeqSet(s1) \cup (IF Len(s1) = 1 THEN {} ELSE {a})
      /\ \A i \in 1 .. Len(l) : l[i] \in ToSeqSet(l) /\ \E e \in ToSeqSet(s1) : W[l[i]] = V[e]
      /\ \A y \in DOMAIN H : l[Len(l)] \notin Crossing(H, y)
      /\ l[Len(l)] \in ToSeqSet(l)
  BY <1>3, Zenon DEF GrownOK
<1>5. /\ IsPath(r, E, W, H, u)
      /\ ToSeqSet(r) = ToSeqSet(s2) \cup (IF Len(s2) = 1 THEN {} ELSE {b})
      /\ \A i \in 1 .. Len(r) : r[i] \in ToSeqSet(r) /\ \E e \in ToSeqSet(s2) : W[r[i]] = V[e]
      /\ \A y \in DOMAIN H : r[Len(r)] \notin Crossing(H, y)
      /\ r[Len(r)] \in ToSeqSet(r)
  BY <1>3, Zenon DEF GrownOK
<1>6. /\ \A s \in T : ToSeqSet(s) \subseteq D
      /\ \A s, z \in T : ToSeqSet(s) \cap ToSeqSet(z) # {} => s = z
      /\ \A s \in T : \A e, f \in D : V[e] = V[f] /\ e \in ToSeqSet(s) => f \in ToSeqSet(s)
  <2>1. \A s \in T : ToSeqSet(s) \subseteq D
    BY DEF Well, IsTour, ToSeqSet
  <2>. QED
    BY <2>1 DEF Well
<1>7. \A e \in ToSeqSet(s1), f \in ToSeqSet(s2) : V[e] # V[f]
  BY <1>6
<1>8. v # u
  BY <1>7
<1>9. \A y \in DOMAIN H : Crossing(H, y) \subseteq D
  BY <1>1 DEF Handles
<1>10. x \notin DOMAIN H
  <2>. SUFFICES ASSUME x \in DOMAIN H PROVE FALSE
    OBVIOUS
  <2>1. {V[H[x][1]], V[H[x][2]]} = {v, u}
    BY <1>0, <1>1 DEF Handles
  <2>2. H[x][1] \in D /\ H[x][2] \in D /\ Crossing(H, x) = {H[x][1], H[x][2]}
    BY <1>9 DEF Crossing
  <2>3. PICK c \in Crossing(H, x), d \in Crossing(H, x) : V[c] = V[e1] /\ V[d] = V[e2]
    <3>1. v \in {V[H[x][1]], V[H[x][2]]} /\ u \in {V[H[x][1]], V[H[x][2]]}
      BY <2>1
    <3>. QED
      BY <2>2, <3>1
  <2>4. c \in ToSeqSet(s1) /\ d \in ToSeqSet(s2)
    BY <1>6, <1>9, <2>3
  <2>5. d \in ToSeqSet(s1)
    BY <1>1, <2>3, <2>4 DEF Complete
  <2>. QED
    BY <1>6, <2>4, <2>5
<1>11. NoCommonVertex(W, l, r)
  BY <1>4, <1>5, <1>7 DEF NoCommonVertex
<1>12. NoCommonEdge(H, l, r)
  <2>. SUFFICES ASSUME NEW y \in DOMAIN H, NEW c \in Crossing(H, y), NEW d \in Crossing(H, y),
                       c \in ToSeqSet(l), d \in ToSeqSet(r)
                PROVE  FALSE
    BY DEF NoCommonEdge
  <2>1. c \in ToSeqSet(s1) /\ d \in ToSeqSet(s2)
    BY <1>4, <1>5, <1>9
  <2>2. d \in ToSeqSet(s1)
    BY <1>1, <2>1 DEF Complete
  <2>. QED
    BY <1>6, <2>1, <2>2
<1>13. IsTour(t, E, W, G) /\ ToSeqSet(t) = ToSeqSet(l) \cup ToSeqSet(r)
  <2>1. IsPath(l, E, W, H, v) /\ IsPath(r, E, W, H, u) /\ Between(x, v, u) /\ IsJoin(t, l, r)
    BY <1>4, <1>5 DEF Between, IsJoin
  <2>. QED
    BY <1>10, <1>11, <1>12, <2>1, JoinedIsTour
<1>14. ToSeqSet(t) = ToSeqSet(s1) \cup ToSeqSet(s2) \cup (E \ D)
  BY <1>0, <1>4, <1>5, <1>6, <1>13
<1>15. /\ DOMAIN G = DOMAIN H \cup {x}
       /\ \A y \in DOMAIN H : G[y] = H[y] /\ Crossing(G, y) = Crossing(H, y)
       /\ G[x] = <<l[Len(l)], r[Len(r)]>> /\ Crossing(G, x) = {l[Len(l)], r[Len(r)]}
  BY <1>10 DEF WithEdge, Crossing
<1>16. Complete(t, G)
  <2>. SUFFICES ASSUME NEW y \in DOMAIN G, NEW c \in Crossing(G, y), c \in ToSeqSet(t)
                PROVE  Crossing(G, y) \subseteq ToSeqSet(t)
    BY DEF Complete
  <2>1. CASE y = x
    BY <1>4, <1>5, <1>13, <1>15, <2>1
  <2>2. CASE y \in DOMAIN H
    <3>1. Crossing(G, y) = Crossing(H, y) /\ Crossing(H, y) \subseteq D
      BY <1>9, <1>15, <2>2
    <3>2. c \in ToSeqSet(s1) \/ c \in ToSeqSet(s2)
      BY <1>14, <3>1
    <3>. QED
      BY <1>1, <1>14, <2>2, <3>1, <3>2 DEF Complete
  <2>. QED
    BY <1>15, <2>1, <2>2
<1>17. ASSUME NEW s \in T \ {s1, s2}
       PROVE  IsTour(s, E, W, G) /\ Complete(s, G) /\ ToSeqSet(s) \cap ToSeqSet(t) = {}
  <2>1. IsTour(s, D, V, H) /\ Complete(s, H)
    BY DEF Well
  <2>2. ToSeqSet(s) \subseteq D /\ ToSeqSet(s) \subseteq E
    BY <1>2, <1>6
  <2>3. ToSeqSet(s) \cap ToSeqSet(t) = {}
    BY <1>6, <1>14, <2>2
  <2>4. Agree(ToSeqSet(s), W, V)
    BY <2>2 DEF Agree
  <2>5. Crossing(G, x) \cap ToSeqSet(s) = {}
    BY <1>4, <1>5, <1>13, <1>15, <2>3
  <2>6. SameEdgesOn(s, H, G)
    BY <1>10, <1>15, <2>5 DEF SameEdgesOn
  <2>. QED
    BY <2>1, <2>2, <2>3, <2>4, <2>6, SameTour
<1>18. Handles(E, W, G)
  <2>1. W[l[Len(l)]] = v /\ W[r[Len(r)]] = u
    BY <1>4, <1>5, Zenon DEF IsPath
  <2>2. ASSUME NEW y \in DOMAIN H
        PROVE  /\ y[1] # y[2]
               /\ Crossing(G, y) \subseteq E
               /\ {W[G[y][1]], W[G[y][2]]} = {y[1], y[2]}
               /\ Crossing(G, y) \cap Crossing(G, x) = {}
               /\ \A z \in DOMAIN H : Crossing(G, y) \cap Crossing(G, z) # {} => y = z
    <3>1. /\ y[1] # y[2] /\ {V[H[y][1]], V[H[y][2]]} = {y[1], y[2]}
          /\ \A z \in DOMAIN H : Crossing(H, y) \cap Crossing(H, z) # {} => y = z
      BY <1>1 DEF Handles
    <3>2. Crossing(G, y) = Crossing(H, y) /\ G[y] = H[y] /\ Crossing(H, y) \subseteq D
      BY <1>9, <1>15
    <3>3. H[y][1] \in D /\ H[y][2] \in D
      BY <3>2 DEF Crossing
    <3>4. W[H[y][1]] = V[H[y][1]] /\ W[H[y][2]] = V[H[y][2]]
      BY <3>3 DEF Agree
    <3>5. Crossing(G, y) \cap Crossing(G, x) = {}
      BY <1>4, <1>5, <1>15, <3>2
    <3>6. Crossing(G, y) \subseteq E
      BY ONLY <1>2, <3>2
    <3>7. {W[G[y][1]], W[G[y][2]]} = {y[1], y[2]}
      BY ONLY <3>1, <3>2, <3>4
    <3>8. \A z \in DOMAIN H : Crossing(G, y) \cap Crossing(G, z) # {} => y = z
      BY ONLY <1>15, <3>1, <3>2
    <3>. QED
      BY ONLY <3>1, <3>5, <3>6, <3>7, <3>8
  <2>3. /\ x[1] # x[2]
        /\ Crossing(G, x) \subseteq E
        /\ {W[G[x][1]], W[G[x][2]]} = {x[1], x[2]}
    <3>1. x[1] # x[2]
      BY <1>0, <1>8
    <3>2. ToSeqSet(t) \subseteq E
      BY <1>2, <1>6, <1>14
    <3>3. Crossing(G, x) \subseteq E
      BY <1>4, <1>5, <1>13, <1>15, <3>2
    <3>4. G[x][1] = l[Len(l)] /\ G[x][2] = r[Len(r)]
      BY <1>15
    <3>. QED
      BY <1>0, <2>1, <3>1, <3>3, <3>4
  <2>4. ASSUME NEW y \in DOMAIN G
        PROVE  /\ y[1] # y[2]
               /\ Crossing(G, y) \subseteq E
               /\ {W[G[y][1]], W[G[y][2]]} = {y[1], y[2]}
               /\ \A z \in DOMAIN G : Crossing(G, y) \cap Crossing(G, z) # {} => y = z
    <3>1. CASE y \in DOMAIN H
      BY ONLY <1>15, <2>2, <3>1
    <3>2. CASE y = x
      <4>1. \A z \in DOMAIN G : Crossing(G, y) \cap Crossing(G, z) # {} => y = z
        <5>. SUFFICES ASSUME NEW z \in DOMAIN G, z # x PROVE Crossing(G, x) \cap Crossing(G, z) = {}
          BY <3>2
        <5>1. z \in DOMAIN H
          BY ONLY <1>15, z \in DOMAIN G, z # x
        <5>2. Crossing(G, z) \cap Crossing(G, x) = {}
          BY ONLY <2>2, <5>1
        <5>. QED
          BY ONLY <5>2
      <4>. QED
        BY ONLY <2>3, <3>2, <4>1
    <3>. QED
      BY <1>15, <3>1, <3>2
  <2>. QED
    BY <2>4, Zenon DEF Handles
<1>19. \A e \in E : \E s \in (T \ {s1, s2}) \cup {t} : e \in ToSeqSet(s)
  <2>. SUFFICES ASSUME NEW e \in E PROVE \E s \in (T \ {s1, s2}) \cup {t} : e \in ToSeqSet(s)
    OBVIOUS
  <2>1. CASE e \in D
    <3>1. PICK s \in T : e \in ToSeqSet(s)
      BY <2>1 DEF Well
    <3>. QED
      BY <1>14, <3>1
  <2>2. CASE e \notin D
    BY <1>14, <2>2
  <2>. QED
    BY <2>1, <2>2
<1>20. \A s, z \in (T \ {s1, s2}) \cup {t} : ToSeqSet(s) \cap ToSeqSet(z) # {} => s = z
  <2>1. \A s, z \in T \ {s1, s2} : ToSeqSet(s) \cap ToSeqSet(z) # {} => s = z
    BY <1>6
  <2>. QED
    BY <1>17, <2>1
<1>21. ASSUME NEW s \in (T \ {s1, s2}) \cup {t}, NEW e \in E, NEW f \in E, W[e] = W[f], e \in ToSeqSet(s)
       PROVE  f \in ToSeqSet(s)
  <2>1. ASSUME NEW g \in E
        PROVE  \E h \in D : /\ W[g] = V[h]
                            /\ \A z \in (T \ {s1, s2}) \cup {t} : g \in ToSeqSet(z) <=> h \in ToSeqSet(z)
    <3>1. CASE g \in D
      BY <3>1 DEF Agree
    <3>2. CASE g \notin D
      <4>1. g \in ToSeqSet(t) /\ \A z \in T \ {s1, s2} : g \notin ToSeqSet(z)
        BY <1>14, <1>17, <3>2
      <4>2. e1 \in D /\ e2 \in D /\ e1 \in ToSeqSet(t) /\ e2 \in ToSeqSet(t)
        BY <1>6, <1>14
      <4>3. W[g] = V[e1] \/ W[g] = V[e2]
        BY <1>0, <3>2
      <4>. QED
        BY <1>17, <4>1, <4>2, <4>3
    <3>. QED
      BY <3>1, <3>2
  <2>2. PICK h \in D : /\ W[e] = V[h]
                       /\ \A z \in (T \ {s1, s2}) \cup {t} : e \in ToSeqSet(z) <=> h \in ToSeqSet(z)
    BY <2>1
  <2>3. PICK k \in D : /\ W[f] = V[k]
                       /\ \A z \in (T \ {s1, s2}) \cup {t} : f \in ToSeqSet(z) <=> k \in ToSeqSet(z)
    BY <2>1
  <2>4. V[h] = V[k] /\ h \in ToSeqSet(s)
    BY <1>21, <2>2, <2>3
  <2>5. CASE s \in T \ {s1, s2}
    BY <1>6, <2>3, <2>4, <2>5
  <2>6. CASE s = t
    <3>1. h \in ToSeqSet(s1) \/ h \in ToSeqSet(s2)
      BY <1>14, <2>4, <2>6
    <3>2. k \in ToSeqSet(s1) \/ k \in ToSeqSet(s2)
      BY <1>6, <2>4, <3>1
    <3>. QED
      BY <1>14, <2>3, <2>6, <3>2
  <2>. QED
    BY <2>5, <2>6
<1>. QED
  <2>1. \A s \in (T \ {s1, s2}) \cup {t} : IsTour(s, E, W, G) /\ Complete(s, G)
    BY <1>13, <1>16, <1>17
  <2>2. \A s \in (T \ {s1, s2}) \cup {t} : \A e, f \in E :
          W[e] = W[f] /\ e \in ToSeqSet(s) => f \in ToSeqSet(s)
    BY <1>21
  <2>3. Well(E, W, G, (T \ {s1, s2}) \cup {t})
    BY <1>18, <1>19, <1>20, <2>1, <2>2, Zenon DEF Well
  <2>. QED
    BY <1>8, <1>10, <1>14, <2>3 DEF Merged

\* Along a tour a set that no edge leaves holds all vertices or none.
LEMMA TourStays ==
  ASSUME NEW D, NEW V, NEW H, NEW s, IsTour(s, D, V, H), NEW S, Closed(S, DOMAIN H),
         NEW e \in ToSeqSet(s), V[e] \in S, NEW f \in ToSeqSet(s)
  PROVE  V[f] \in S
<1>. PICK n : n = Len(s)
  OBVIOUS
<1>1. n \in Nat /\ n >= 1 /\ DOMAIN s = 1 .. n /\ Crossed(s, V, H)
  BY DEF IsTour
<1>2. ASSUME NEW i \in 1 .. n, i + 1 \in 1 .. n PROVE V[s[i]] \in S <=> V[s[i + 1]] \in S
  <2>1. n > 1 /\ i # n /\ After(n, i) = i + 1
    BY <1>1, <1>2 DEF After
  <2>2. PICK x \in DOMAIN H : {V[s[i]], V[s[i + 1]]} = {x[1], x[2]}
    BY <1>1, <2>1 DEF Crossed
  <2>. QED
    BY <2>2 DEF Closed
<1>3. ASSUME NEW k \in 1 .. n PROVE V[s[k]] \in S <=> V[s[1]] \in S
  <2>. SUFFICES ASSUME \E m \in Nat : m \in 1 .. n /\ ~(V[s[m]] \in S <=> V[s[1]] \in S)
                PROVE  FALSE
    BY <1>1
  <2>1. PICK B : B = {m \in Nat : m \in 1 .. n /\ ~(V[s[m]] \in S <=> V[s[1]] \in S)}
    OBVIOUS
  <2>2. PICK m \in B : \A j \in B : m <= j
    BY <2>1, LeastNatural
  <2>3. m \in 1 .. n /\ m # 1 /\ m - 1 \in 1 .. n /\ m - 1 \in Nat /\ (m - 1) + 1 = m
    BY <1>1, <2>1, <2>2
  <2>4. m - 1 \notin B
    BY <2>2, <2>3
  <2>5. V[s[m - 1]] \in S <=> V[s[1]] \in S
    BY <2>1, <2>3, <2>4
  <2>6. V[s[m - 1]] \in S <=> V[s[m]] \in S
    BY <1>2, <2>3
  <2>. QED
    BY <2>1, <2>2, <2>5, <2>6
<1>. QED
  BY <1>1, <1>3 DEF ToSeqSet

\* A tour visits the vertices of one component.
LEMMA TourComponent ==
  ASSUME NEW D, NEW V, NEW H, NEW T, Well(D, V, H, T), \A e \in D : V[e] \in Vertices,
         DOMAIN H \subseteq AllEdges, NEW s \in T, NEW e \in ToSeqSet(s), NEW v, v = V[e]
  PROVE  Component(DOMAIN H, v) = {V[f] : f \in ToSeqSet(s)}
<1>. PICK S : S = {V[f] : f \in ToSeqSet(s)}
  OBVIOUS
<1>1. IsTour(s, D, V, H) /\ Complete(s, H) /\ Handles(D, V, H)
  BY DEF Well
<1>2. ToSeqSet(s) \subseteq D
  BY <1>1 DEF IsTour, ToSeqSet
<1>3. S \in SUBSET Vertices /\ v \in S /\ v \in Vertices
  BY <1>2
<1>4. ASSUME NEW y \in DOMAIN H, NEW c \in Crossing(H, y), NEW d \in Crossing(H, y), V[c] \in S
      PROVE  V[d] \in S
  <2>1. c \in D
    BY <1>1 DEF Handles
  <2>2. PICK f \in ToSeqSet(s) : V[c] = V[f]
    BY <1>4
  <2>3. c \in ToSeqSet(s)
    BY <1>2, <2>1, <2>2 DEF Well
  <2>4. d \in ToSeqSet(s)
    BY <1>1, <2>3 DEF Complete
  <2>. QED
    BY <2>4
<1>5. Closed(S, DOMAIN H)
  <2>. SUFFICES ASSUME NEW y \in DOMAIN H PROVE y[1] \in S <=> y[2] \in S
    BY DEF Closed
  <2>1. {V[H[y][1]], V[H[y][2]]} = {y[1], y[2]}
    BY <1>1 DEF Handles
  <2>2. H[y][1] \in Crossing(H, y) /\ H[y][2] \in Crossing(H, y)
    BY DEF Crossing
  <2>3. V[H[y][1]] \in S <=> V[H[y][2]] \in S
    BY <1>4, <2>2
  <2>. QED
    BY <2>1, <2>3
<1>6. Component(DOMAIN H, v) \subseteq S
  BY <1>3, <1>5, ComponentSmallest
<1>7. ASSUME NEW f \in ToSeqSet(s) PROVE V[f] \in Component(DOMAIN H, v)
  <2>1. ASSUME NEW R \in SUBSET Vertices, v \in R, Closed(R, DOMAIN H) PROVE V[f] \in R
    BY <1>1, <2>1, TourStays
  <2>2. V[f] \in Vertices
    BY <1>2
  <2>. QED
    BY <2>1, <2>2 DEF Component
<1>. QED
  BY <1>6, <1>7

------------------------------------------------------------------------------
(* Counting. *)

LEMMA SameSize ==
  ASSUME NEW S, NEW T, IsFiniteSet(S), NEW f \in [S -> T],
         \A a, b \in S : f[a] = f[b] => a = b, \A t \in T : \E a \in S : f[a] = t
  PROVE  IsFiniteSet(T) /\ Cardinality(T) = Cardinality(S)
<1>1. f \in Bijection(S, T)
  BY DEF Bijection, Injection, Surjection, IsInjective
<1>2. ExistsBijection(S, T)
  BY <1>1 DEF ExistsBijection
<1>. QED
  BY <1>2, FS_Bijection

\* The edges of a tour.
Crosses(s, H) == {x \in DOMAIN H : H[x][1] \in ToSeqSet(s)}
Visits(s, V) == {V[e] : e \in ToSeqSet(s)}

LEMMA TourSize ==
  ASSUME NEW D, NEW s \in Seq(D), \A i, j \in 1 .. Len(s) : s[i] = s[j] => i = j
  PROVE  IsFiniteSet(ToSeqSet(s)) /\ Cardinality(ToSeqSet(s)) = Len(s)
<1>. PICK n : n = Len(s)
  OBVIOUS
<1>1. n \in Nat /\ DOMAIN s = 1 .. n /\ IsFiniteSet(1 .. n) /\ Cardinality(1 .. n) = n
  <2>1. n \in Nat /\ DOMAIN s = 1 .. n /\ 1 \in Int /\ n \in Int
    OBVIOUS
  <2>2. IsFiniteSet(1 .. n) /\ Cardinality(1 .. n) = IF 1 > n THEN 0 ELSE n - 1 + 1
    BY ONLY <2>1, FS_Interval
  <2>. QED
    BY <2>1, <2>2
<1>2. PICK f : f = [i \in 1 .. n |-> s[i]]
  OBVIOUS
<1>3. /\ f \in [1 .. n -> ToSeqSet(s)]
      /\ \A i, j \in 1 .. n : f[i] = f[j] => i = j
      /\ \A e \in ToSeqSet(s) : \E i \in 1 .. n : f[i] = e
  BY <1>1, <1>2 DEF ToSeqSet
<1>. QED
  <2>1. IsFiniteSet(ToSeqSet(s)) /\ Cardinality(ToSeqSet(s)) = Cardinality(1 .. n)
    BY ONLY <1>1, <1>3, SameSize, Zenon
  <2>. QED
    BY <1>1, <2>1

\* A tour has two entries for each of its edges.
LEMMA EdgesHalve ==
  ASSUME NEW D, NEW V, NEW H, NEW s, IsTour(s, D, V, H), Handles(D, V, H), Complete(s, H),
         Len(s) # 1, NEW X, X = Crosses(s, H)
  PROVE  IsFiniteSet(X) /\ Len(s) = 2 * Cardinality(X)
<1>1. /\ IsFiniteSet(ToSeqSet(s)) /\ Cardinality(ToSeqSet(s)) = Len(s)
      /\ s \in Seq(D) /\ Len(s) \in Nat /\ Len(s) > 1 /\ DOMAIN s = 1 .. Len(s)
  <2>1. s \in Seq(D) /\ Len(s) >= 1 /\ \A i, j \in 1 .. Len(s) : s[i] = s[j] => i = j
    BY DEF IsTour
  <2>2. IsFiniteSet(ToSeqSet(s)) /\ Cardinality(ToSeqSet(s)) = Len(s)
    BY <2>1, TourSize
  <2>. QED
    BY <2>1, <2>2
<1>2. PICK A, B : A = {H[x][1] : x \in X} /\ B = {H[x][2] : x \in X}
  OBVIOUS
<1>3. \A x \in X : H[x][1] \in ToSeqSet(s) /\ H[x][2] \in ToSeqSet(s)
  BY DEF Crosses, Complete, Crossing
<1>4. ASSUME NEW x \in X, NEW y \in X
      PROVE  /\ H[x][1] = H[y][1] => x = y
             /\ H[x][2] = H[y][2] => x = y
             /\ H[x][1] # H[y][2]
  <2>1. x \in DOMAIN H /\ y \in DOMAIN H
    BY DEF Crosses
  <2>2. Crossing(H, x) \cap Crossing(H, y) # {} => x = y
    BY <2>1 DEF Handles
  <2>3. x[1] # x[2] /\ {V[H[x][1]], V[H[x][2]]} = {x[1], x[2]}
    BY <2>1 DEF Handles
  <2>. QED
    BY <2>2, <2>3 DEF Crossing
<1>5. PICK f : f = [x \in X |-> H[x][1]]
  OBVIOUS
<1>6. PICK g : g = [x \in X |-> H[x][2]]
  OBVIOUS
<1>7. IsFiniteSet(X)
  <2>1. f \in Injection(X, ToSeqSet(s))
    BY <1>3, <1>4, <1>5 DEF Injection, IsInjective
  <2>. QED
    BY <1>1, <2>1, FS_Injection
<1>8. IsFiniteSet(A) /\ Cardinality(A) = Cardinality(X)
  <2>1. /\ f \in [X -> A]
        /\ \A a, b \in X : f[a] = f[b] => a = b
        /\ \A t \in A : \E a \in X : f[a] = t
    BY <1>2, <1>4, <1>5
  <2>. QED
    BY <1>7, <2>1, SameSize
<1>9. IsFiniteSet(B) /\ Cardinality(B) = Cardinality(X)
  <2>1. /\ g \in [X -> B]
        /\ \A a, b \in X : g[a] = g[b] => a = b
        /\ \A t \in B : \E a \in X : g[a] = t
    BY <1>2, <1>4, <1>6
  <2>. QED
    BY <1>7, <2>1, SameSize
<1>10. A \cap B = {}
  BY <1>2, <1>4
<1>11. ToSeqSet(s) = A \cup B
  <2>1. ASSUME NEW e \in ToSeqSet(s) PROVE e \in A \cup B
    <3>1. PICK i \in 1 .. Len(s) : e = s[i]
      BY <1>1 DEF ToSeqSet
    <3>2. PICK x \in DOMAIN H : e \in Crossing(H, x)
      BY <1>1, <3>1 DEF IsTour, Crossed
    <3>3. Crossing(H, x) \subseteq ToSeqSet(s)
      BY <3>2 DEF Complete
    <3>4. x \in X
      BY <3>3 DEF Crosses, Crossing
    <3>. QED
      BY <1>2, <3>2, <3>4 DEF Crossing
  <2>. QED
    BY <1>2, <1>3, <2>1
<1>12. Cardinality(A \cup B) = Cardinality(A) + Cardinality(B) - Cardinality({})
  BY <1>8, <1>9, <1>10, FS_Union
<1>. QED
  BY <1>1, <1>7, <1>8, <1>9, <1>11, <1>12, FS_EmptySet, FS_CardinalityType

\* The two crossings of an edge are at two places of its tour.
LEMMA CutPlaces ==
  ASSUME NEW D, NEW V, NEW H, NEW s, IsTour(s, D, V, H), Handles(D, V, H), Complete(s, H),
         NEW x \in DOMAIN H, Crossing(H, x) \cap ToSeqSet(s) # {}
  PROVE  \E p, q : CutAt(s, H, x, p, q)
<1>. PICK n : n = Len(s)
  OBVIOUS
<1>1. n \in Nat /\ DOMAIN s = 1 .. n
  BY DEF IsTour
<1>2. Crossing(H, x) \subseteq ToSeqSet(s) /\ Crossing(H, x) = {H[x][1], H[x][2]}
  BY DEF Complete, Crossing
<1>3. PICK i \in 1 .. n : s[i] = H[x][1]
  BY <1>1, <1>2 DEF ToSeqSet
<1>4. PICK j \in 1 .. n : s[j] = H[x][2]
  BY <1>1, <1>2 DEF ToSeqSet
<1>5. i # j
  <2>1. x[1] # x[2] /\ {V[H[x][1]], V[H[x][2]]} = {x[1], x[2]}
    BY DEF Handles
  <2>. QED
    BY <1>3, <1>4, <2>1
<1>6. CASE i < j
  <2>1. CutAt(s, H, x, i, j)
    BY <1>2, <1>3, <1>4, <1>6 DEF CutAt
  <2>. QED
    BY <2>1
<1>7. CASE j < i
  <2>1. CutAt(s, H, x, j, i)
    BY <1>2, <1>3, <1>4, <1>7 DEF CutAt
  <2>. QED
    BY <2>1
<1>. QED
  BY <1>1, <1>5, <1>6, <1>7

\* A tour visits one vertex more than it has edges: the later crossing of an edge visits
\* the vertex the edge leads to when one comes from the start.
LEMMA VerticesExceed ==
  ASSUME NEW D, NEW V, NEW H, NEW s, IsTour(s, D, V, H), Handles(D, V, H), Complete(s, H),
         Len(s) # 1, NEW X, X = Crosses(s, H), NEW S, S = Visits(s, V)
  PROVE  IsFiniteSet(S) /\ Cardinality(S) = Cardinality(X) + 1
<1>. PICK n : n = Len(s)
  OBVIOUS
<1>1. /\ s \in Seq(D) /\ n \in Nat /\ n > 1 /\ DOMAIN s = 1 .. n
      /\ \A i, j \in 1 .. n : s[i] = s[j] => i = j
  BY DEF IsTour
<1>2. IsFiniteSet(X)
  BY EdgesHalve
<1>3. PICK g : g = [x \in X |-> CHOOSE q : \E p : CutAt(s, H, x, p, q)]
  OBVIOUS
<1>4. ASSUME NEW x \in X PROVE \E p : CutAt(s, H, x, p, g[x])
  <2>1. x \in DOMAIN H /\ Crossing(H, x) \cap ToSeqSet(s) # {}
    BY DEF Crosses, Crossing
  <2>2. \E p, q : CutAt(s, H, x, p, q)
    BY <2>1, CutPlaces
  <2>. QED
    BY <1>3, <2>2
<1>5. PICK f : f = [x \in X |-> V[s[g[x]]]]
  OBVIOUS
<1>6. PICK first : first = V[s[1]]
  OBVIOUS
<1>7. \A w \in S : \E i \in 1 .. n : w = V[s[i]]
  BY <1>1 DEF Visits, ToSeqSet
<1>8. \A i \in 1 .. n : V[s[i]] \in S
  BY <1>1 DEF Visits, ToSeqSet
<1>9. ASSUME NEW x \in X, NEW p, CutAt(s, H, x, p, g[x])
      PROVE  /\ p \in 1 .. n /\ g[x] \in 1 .. n /\ p < g[x]
             /\ Crossing(H, x) = {s[p], s[g[x]]}
             /\ Apart(s, V, p, g[x])
             /\ V[s[After(n, p)]] = V[s[g[x]]] /\ V[s[After(n, g[x])]] = V[s[p]]
  <2>1. x \in DOMAIN H
    BY DEF Crosses
  <2>2. /\ p \in 1 .. n /\ g[x] \in 1 .. n /\ p < g[x]
        /\ Crossing(H, x) = {s[p], s[g[x]]}
    BY <1>9 DEF CutAt
  <2>3. Apart(s, V, p, g[x])
    BY <2>1, <2>2 DEF IsTour, Separated
  <2>4. V[s[After(n, p)]] = V[s[g[x]]] /\ V[s[After(n, g[x])]] = V[s[p]]
    BY <1>9, <2>1, CutVisits
  <2>. QED
    BY <2>2, <2>3, <2>4
<1>10. f \in [X -> S \ {first}]
  <2>. SUFFICES ASSUME NEW x \in X PROVE V[s[g[x]]] \in S \ {first}
    BY <1>5
  <2>1. PICK p : CutAt(s, H, x, p, g[x])
    BY <1>4
  <2>2. p \in 1 .. n /\ g[x] \in 1 .. n /\ p < g[x] /\ Apart(s, V, p, g[x])
    BY <1>9, <2>1
  <2>3. Inside(g[x], p, g[x]) /\ ~Inside(1, p, g[x]) /\ 1 \in 1 .. n
    BY <1>1, <2>2 DEF Inside
  <2>4. V[s[g[x]]] # V[s[1]]
    BY <2>2, <2>3 DEF Apart
  <2>. QED
    BY <1>6, <1>8, <2>2, <2>4
<1>11. ASSUME NEW x \in X, NEW y \in X, V[s[g[x]]] = V[s[g[y]]] PROVE ~(g[x] < g[y])
  <2>1. PICK p : CutAt(s, H, x, p, g[x])
    BY <1>4
  <2>2. p \in 1 .. n /\ g[x] \in 1 .. n /\ p < g[x] /\ Apart(s, V, p, g[x])
    BY <1>9, <2>1
  <2>3. \E r : CutAt(s, H, y, r, g[y])
    BY <1>4
  <2>4. g[y] \in 1 .. n
    BY <1>9, <2>3
  <2>5. g[x] < g[y] => Inside(g[x], p, g[x]) /\ ~Inside(g[y], p, g[x])
    BY <2>2, <2>4 DEF Inside
  <2>. QED
    BY <1>11, <2>2, <2>4, <2>5 DEF Apart
<1>12. ASSUME NEW x \in X, NEW y \in X, f[x] = f[y] PROVE x = y
  <2>1. \E p : CutAt(s, H, x, p, g[x])
    BY <1>4
  <2>2. \E p : CutAt(s, H, y, p, g[y])
    BY <1>4
  <2>3. /\ g[x] \in 1 .. n /\ g[y] \in 1 .. n
        /\ s[g[x]] \in Crossing(H, x) /\ s[g[y]] \in Crossing(H, y)
    <3>1. g[x] \in 1 .. n /\ s[g[x]] \in Crossing(H, x)
      BY ONLY <1>9, <2>1, x \in X, Zenon
    <3>2. g[y] \in 1 .. n /\ s[g[y]] \in Crossing(H, y)
      BY ONLY <1>9, <2>2, y \in X, Zenon
    <3>. QED
      BY <3>1, <3>2
  <2>4. g[x] = g[y]
    BY <1>1, <1>5, <1>11, <1>12, <2>3
  <2>5. x \in DOMAIN H /\ y \in DOMAIN H
    BY DEF Crosses
  <2>. QED
    BY <2>3, <2>4, <2>5 DEF Handles
<1>13. ASSUME NEW w \in S \ {first} PROVE \E x \in X : f[x] = w
  <2>1. PICK B : B = {i \in Nat : i \in 1 .. n /\ V[s[i]] = w}
    OBVIOUS
  <2>2. B # {} /\ B \subseteq Nat
    BY <1>1, <1>7, <2>1
  <2>3. PICK i \in B : \A j \in B : i <= j
    BY <2>2, LeastNatural
  <2>4. i \in 1 .. n /\ V[s[i]] = w /\ i # 1
    BY <1>6, <2>1, <2>3
  <2>5. i - 1 \in 1 .. n /\ After(n, i - 1) = i /\ (i - 1) + 1 = i
    BY <1>1, <2>4 DEF After
  <2>6. PICK x \in DOMAIN H : s[i - 1] \in Crossing(H, x)
    BY <1>1, <2>5 DEF IsTour, Crossed
  <2>7. x \in X
    <3>1. s[i - 1] \in ToSeqSet(s)
      BY <1>1, <2>5 DEF ToSeqSet
    <3>2. Crossing(H, x) \subseteq ToSeqSet(s)
      BY <2>6, <3>1 DEF Complete
    <3>. QED
      BY <3>2 DEF Crosses, Crossing
  <2>8. PICK p : CutAt(s, H, x, p, g[x])
    BY <1>4, <2>7
  <2>9. /\ p \in 1 .. n /\ g[x] \in 1 .. n /\ p < g[x]
        /\ Crossing(H, x) = {s[p], s[g[x]]}
        /\ V[s[After(n, p)]] = V[s[g[x]]] /\ V[s[After(n, g[x])]] = V[s[p]]
    BY <1>9, <2>7, <2>8
  <2>10. i - 1 = p \/ i - 1 = g[x]
    BY <1>1, <2>5, <2>6, <2>9
  <2>11. CASE i - 1 = p
    BY <1>5, <2>4, <2>5, <2>7, <2>9, <2>11
  <2>12. CASE i - 1 = g[x]
    <3>1. V[s[p]] = w /\ p \in Nat /\ ~(i <= p)
      BY <1>1, <2>4, <2>5, <2>9, <2>12
    <3>2. p \in B
      BY <2>1, <2>9, <3>1
    <3>. QED
      BY <2>3, <3>1, <3>2
  <2>. QED
    BY <2>10, <2>11, <2>12
<1>14. IsFiniteSet(S \ {first}) /\ Cardinality(S \ {first}) = Cardinality(X)
  BY <1>2, <1>10, <1>12, <1>13, SameSize
<1>15. S = (S \ {first}) \cup {first}
  BY <1>1, <1>6, <1>8
<1>16. IsFiniteSet((S \ {first}) \cup {first})
       /\ Cardinality((S \ {first}) \cup {first}) = Cardinality(S \ {first}) + 1
  BY <1>14, FS_AddElement
<1>. QED
  BY <1>14, <1>15, <1>16

------------------------------------------------------------------------------
(* The forest.  Besides the tours the invariant counts the entries: a tree  *)
(* of k vertices has 2 (k - 1) of them, and one if k is 1, so an allocation *)
(* for a link of two trees never finds all addresses taken.                 *)

Longer(T) == {s \in T : Len(s) # 1}

Room(D, T) ==
  /\ IsFiniteSet(D) /\ IsFiniteSet(T)
  /\ Cardinality(D) + Cardinality(T) + Cardinality(Longer(T)) = 2 * Cardinality(Vertices)

\* Entries D with vertices V and counters cnt; A leads from a vertex to an entry.
Typed(D, V, cnt, A, root, H) ==
  /\ D \subseteq Entries /\ V \in [D -> Vertices]
  /\ cnt \in [D -> 0 .. MaxCount]
  /\ A \in [Vertices -> D] /\ \A v \in Vertices : V[A[v]] = v
  /\ root \in D \cup {Nil}
  /\ DOMAIN H \subseteq AllEdges /\ H \in [DOMAIN H -> D \X D]

Owned(D, V, cnt, A) == \A e \in D : cnt[e] > 0 => A[V[e]] = e

TourInv ==
  /\ Typed(DOMAIN vert, vert, edges, any, anyRoot, handle)
  /\ Well(DOMAIN vert, vert, handle, tours)
  /\ Owned(DOMAIN vert, vert, edges, any)
  /\ Room(DOMAIN vert, tours)

\* The tour of an entry.
LEMMA TourOfEntry ==
  ASSUME Well(DOMAIN vert, vert, handle, tours), NEW e \in DOMAIN vert
  PROVE  /\ TourOf(e) \in tours /\ e \in ToSeqSet(TourOf(e))
         /\ \A s \in tours : e \in ToSeqSet(s) => TourOf(e) = s
<1>1. \E s \in tours : e \in ToSeqSet(s)
  BY DEF Well
<1>2. TourOf(e) \in tours /\ e \in ToSeqSet(TourOf(e))
  BY <1>1 DEF TourOf
<1>. QED
  BY <1>2 DEF Well

\* Two addresses are free for a link.
LEMMA FreshEntries ==
  ASSUME Room(DOMAIN vert, tours), DOMAIN vert \subseteq Entries,
         NEW s1 \in tours, NEW s2 \in tours, s1 # s2,
         NEW a, a = FreshEntry(DOMAIN vert), NEW b, b = FreshEntry(DOMAIN vert \cup {a})
  PROVE  a \in Entries /\ b \in Entries /\ a \notin DOMAIN vert /\ b \notin DOMAIN vert /\ a # b
<1>. PICK D : D = DOMAIN vert
  OBVIOUS
<1>1. /\ IsFiniteSet(D) /\ IsFiniteSet(tours) /\ IsFiniteSet(Longer(tours))
      /\ Cardinality(D) + Cardinality(tours) + Cardinality(Longer(tours)) = 2 * Cardinality(Vertices)
  <2>1. Longer(tours) \in SUBSET tours
    BY DEF Longer
  <2>. QED
    BY <2>1, FS_Subset DEF Room
<1>2. /\ Cardinality(D) \in Nat /\ Cardinality(tours) \in Nat
      /\ Cardinality(Longer(tours)) \in Nat /\ Cardinality(Vertices) \in Nat
  BY <1>1, FS_CardinalityType, VerticesAssumption
<1>3. Cardinality(tours) >= 2
  <2>1. IsFiniteSet({s1}) /\ Cardinality({s1}) = 1
    BY FS_Singleton
  <2>2. IsFiniteSet({s1} \cup {s2}) /\ Cardinality({s1} \cup {s2}) = 2
    BY <2>1, FS_AddElement
  <2>3. Cardinality({s1} \cup {s2}) <= Cardinality(tours)
    BY <1>1, FS_Subset
  <2>. QED
    BY <1>2, <2>2, <2>3
<1>4. /\ IsFiniteSet(Entries) /\ Cardinality(Entries) \in Nat
      /\ Cardinality(D) + 2 <= Cardinality(Entries)
  BY <1>1, <1>2, <1>3, EulerTourAssumption, FS_CardinalityType
<1>5. ASSUME NEW U, IsFiniteSet(U), Cardinality(U) < Cardinality(Entries)
      PROVE  FreshEntry(U) \in Entries /\ FreshEntry(U) \notin U
  <2>1. \E e \in Entries : e \notin U
    <3>. SUFFICES ASSUME Entries \subseteq U PROVE FALSE
      OBVIOUS
    <3>1. Cardinality(Entries) <= Cardinality(U) /\ Cardinality(U) \in Nat
      BY <1>5, FS_Subset, FS_CardinalityType
    <3>. QED
      BY <1>4, <1>5, <3>1
  <2>. QED
    BY <2>1 DEF FreshEntry
<1>6. a \in Entries /\ a \notin D
  BY <1>1, <1>2, <1>4, <1>5
<1>7. IsFiniteSet(D \cup {a}) /\ Cardinality(D \cup {a}) < Cardinality(Entries)
  <2>1. IsFiniteSet(D \cup {a}) /\ Cardinality(D \cup {a}) = Cardinality(D) + 1
    BY <1>1, <1>6, FS_AddElement
  <2>. QED
    BY <1>2, <1>4, <2>1
<1>8. b \in Entries /\ b \notin D \cup {a}
  BY <1>5, <1>7
<1>. QED
  BY <1>6, <1>8

LEMMA WithOne ==
  ASSUME NEW S, IsFiniteSet(S), NEW x, x \notin S, NEW n, NEW k, k = OneUnless(n),
         NEW U, U = S \cup Unless(n, x)
  PROVE  IsFiniteSet(U) /\ Cardinality(U) = Cardinality(S) + k
<1>1. Cardinality(S) \in Nat
  BY FS_CardinalityType
<1>2. CASE n = 1
  BY <1>1, <1>2 DEF Unless, OneUnless
<1>3. CASE n # 1
  <2>1. U = S \cup {x} /\ k = 1
    BY <1>3 DEF Unless, OneUnless
  <2>. QED
    BY <2>1, FS_AddElement
<1>. QED
  BY <1>2, <1>3

LEMMA WithoutOne ==
  ASSUME NEW S, IsFiniteSet(S), NEW x, NEW n, Unless(n, x) \subseteq S,
         NEW k, k = OneUnless(n), NEW U, U = S \ Unless(n, x)
  PROVE  IsFiniteSet(U) /\ Cardinality(U) = Cardinality(S) - k
<1>1. Cardinality(S) \in Nat
  BY FS_CardinalityType
<1>2. CASE n = 1
  BY <1>1, <1>2 DEF Unless, OneUnless
<1>3. CASE n # 1
  <2>1. U = S \ {x} /\ k = 1 /\ x \in S
    BY <1>3 DEF Unless, OneUnless
  <2>. QED
    BY <2>1, FS_RemoveElement
<1>. QED
  BY <1>2, <1>3

LEMMA RoomLink ==
  ASSUME NEW D, NEW T, Room(D, T), NEW s1 \in T, NEW s2 \in T, s1 # s2,
         NEW a, NEW b, a \notin D, b \notin D, a # b,
         NEW E, E = Enlarged(D, s1, s2, a, b),
         NEW t, t \notin T, IsLong(t)
  PROVE  Room(E, Merged(T, s1, s2, t))
<1>0. Len(t) # 1
  BY DEF IsLong
<1>. PICK L : L = Longer(T)
  OBVIOUS
<1>. PICK M : M = Longer((T \ {s1, s2}) \cup {t})
  OBVIOUS
<1>. PICK k1 : k1 = OneUnless(Len(s1))
  OBVIOUS
<1>. PICK k2 : k2 = OneUnless(Len(s2))
  OBVIOUS
<1>1. /\ IsFiniteSet(D) /\ IsFiniteSet(T) /\ IsFiniteSet(L)
      /\ Cardinality(D) + Cardinality(T) + Cardinality(L) = 2 * Cardinality(Vertices)
  <2>1. L \in SUBSET T
    BY DEF Longer
  <2>. QED
    BY <2>1, FS_Subset DEF Room
<1>2. Cardinality(D) \in Nat /\ Cardinality(T) \in Nat /\ Cardinality(L) \in Nat
      /\ k1 \in {0, 1} /\ k2 \in {0, 1}
  BY <1>1, FS_CardinalityType DEF OneUnless
<1>3. PICK D1 : D1 = D \cup Unless(Len(s1), a)
  OBVIOUS
<1>4. IsFiniteSet(D1) /\ Cardinality(D1) = Cardinality(D) + k1
  BY <1>1, <1>3, WithOne
<1>5. b \notin D1 /\ E = D1 \cup Unless(Len(s2), b)
  BY <1>3 DEF Enlarged, Unless
<1>6. IsFiniteSet(E) /\ Cardinality(E) = Cardinality(D1) + k2
  BY <1>4, <1>5, WithOne
<1>7. PICK T1 : T1 = T \ {s1}
  OBVIOUS
<1>8. IsFiniteSet(T1) /\ Cardinality(T1) = Cardinality(T) - 1 /\ s2 \in T1
  BY <1>1, <1>7, FS_RemoveElement
<1>9. PICK T2 : T2 = T1 \ {s2}
  OBVIOUS
<1>10. IsFiniteSet(T2) /\ Cardinality(T2) = Cardinality(T1) - 1 /\ t \notin T2
  BY <1>7, <1>8, <1>9, FS_RemoveElement
<1>11. IsFiniteSet(T2 \cup {t}) /\ Cardinality(T2 \cup {t}) = Cardinality(T2) + 1
  BY <1>10, FS_AddElement
<1>12. (T \ {s1, s2}) \cup {t} = T2 \cup {t}
  BY <1>7, <1>9
<1>13. PICK L1 : L1 = L \ Unless(Len(s1), s1)
  OBVIOUS
<1>14. PICK L2 : L2 = L1 \ Unless(Len(s2), s2)
  OBVIOUS
<1>15. (Len(s1) # 1 => s1 \in L) /\ (Len(s2) # 1 => s2 \in L1) /\ t \notin L2 /\ M = L2 \cup {t}
  BY <1>0, <1>13, <1>14 DEF Longer, Unless
<1>16. IsFiniteSet(L1) /\ Cardinality(L1) = Cardinality(L) - k1
  <2>1. IsFiniteSet(L) /\ Unless(Len(s1), s1) \subseteq L
    BY <1>1, <1>15 DEF Unless
  <2>. QED
    BY ONLY <1>13, <2>1, k1 = OneUnless(Len(s1)), WithoutOne
<1>17. IsFiniteSet(L2) /\ Cardinality(L2) = Cardinality(L1) - k2
  <2>1. IsFiniteSet(L1) /\ Unless(Len(s2), s2) \subseteq L1
    BY <1>15, <1>16 DEF Unless
  <2>. QED
    BY ONLY <1>14, <2>1, k2 = OneUnless(Len(s2)), WithoutOne
<1>18. IsFiniteSet(L2 \cup {t}) /\ Cardinality(L2 \cup {t}) = Cardinality(L2) + 1
  BY <1>15, <1>17, FS_AddElement
<1>19. IsFiniteSet((T \ {s1, s2}) \cup {t})
  BY <1>11, <1>12
<1>20. Cardinality(E) + Cardinality((T \ {s1, s2}) \cup {t}) + Cardinality(M) = 2 * Cardinality(Vertices)
  <2>1. Cardinality((T \ {s1, s2}) \cup {t}) = Cardinality(T2) + 1
    BY <1>11, <1>12
  <2>2. Cardinality(M) = Cardinality(L2) + 1
    BY <1>15, <1>18
  <2>3. Cardinality(M) = Cardinality(L1) - k2 + 1
    BY ONLY <1>17, <2>2
  <2>. QED
    BY ONLY <1>1, <1>2, <1>4, <1>6, <1>8, <1>10, <1>16, <2>1, <2>3
<1>. QED
  BY <1>6, <1>19, <1>20 DEF Room, Merged

LEMMA RoomCut ==
  ASSUME NEW D, NEW T, Room(D, T), NEW s \in T, Len(s) # 1, NEW c \in D, NEW d \in D, c # d,
         NEW o, NEW r, o \notin T, r \notin T, o # r,
         NEW E, E = D \ (Unless(Len(o), c) \cup Unless(Len(r), d))
  PROVE  Room(E, (T \ {s}) \cup {o, r})
<1>. PICK L : L = Longer(T)
  OBVIOUS
<1>. PICK M : M = Longer((T \ {s}) \cup {o, r})
  OBVIOUS
<1>. PICK k1 : k1 = OneUnless(Len(o))
  OBVIOUS
<1>. PICK k2 : k2 = OneUnless(Len(r))
  OBVIOUS
<1>1. /\ IsFiniteSet(D) /\ IsFiniteSet(T) /\ IsFiniteSet(L)
      /\ Cardinality(D) + Cardinality(T) + Cardinality(L) = 2 * Cardinality(Vertices)
  <2>1. L \in SUBSET T
    BY DEF Longer
  <2>. QED
    BY <2>1, FS_Subset DEF Room
<1>2. Cardinality(D) \in Nat /\ Cardinality(T) \in Nat /\ Cardinality(L) \in Nat
      /\ k1 \in {0, 1} /\ k2 \in {0, 1}
  BY <1>1, FS_CardinalityType DEF OneUnless
<1>3. s \in L /\ o \notin L /\ r \notin L
  BY DEF Longer
<1>4. PICK D1 : D1 = D \ Unless(Len(o), c)
  OBVIOUS
<1>5. IsFiniteSet(D1) /\ Cardinality(D1) = Cardinality(D) - k1
  <2>1. Unless(Len(o), c) \subseteq D
    BY DEF Unless
  <2>. QED
    BY <1>1, <1>4, <2>1, WithoutOne
<1>6. d \in D1 /\ E = D1 \ Unless(Len(r), d)
  BY <1>4 DEF Unless
<1>7. IsFiniteSet(E) /\ Cardinality(E) = Cardinality(D1) - k2
  <2>1. Unless(Len(r), d) \subseteq D1
    BY <1>6 DEF Unless
  <2>. QED
    BY <1>5, <1>6, <2>1, WithoutOne
<1>8. PICK T1 : T1 = T \ {s}
  OBVIOUS
<1>9. IsFiniteSet(T1) /\ Cardinality(T1) = Cardinality(T) - 1
  BY <1>1, <1>8, FS_RemoveElement
<1>10. PICK T2 : T2 = T1 \cup {o}
  OBVIOUS
<1>11. IsFiniteSet(T2) /\ Cardinality(T2) = Cardinality(T1) + 1
  BY <1>8, <1>9, <1>10, FS_AddElement
<1>12. IsFiniteSet(T2 \cup {r}) /\ Cardinality(T2 \cup {r}) = Cardinality(T2) + 1
  <2>1. r \notin T2
    BY <1>8, <1>10
  <2>. QED
    BY <1>11, <2>1, FS_AddElement
<1>13. (T \ {s}) \cup {o, r} = T2 \cup {r}
  BY <1>8, <1>10
<1>14. PICK L1 : L1 = L \ {s}
  OBVIOUS
<1>15. IsFiniteSet(L1) /\ Cardinality(L1) = Cardinality(L) - 1
  BY <1>1, <1>3, <1>14, FS_RemoveElement
<1>16. PICK L2 : L2 = L1 \cup Unless(Len(o), o)
  OBVIOUS
<1>17. IsFiniteSet(L2) /\ Cardinality(L2) = Cardinality(L1) + k1
  <2>1. IsFiniteSet(L1) /\ o \notin L1
    BY <1>3, <1>14, <1>15
  <2>. QED
    BY ONLY <1>16, <2>1, k1 = OneUnless(Len(o)), WithOne
<1>18. r \notin L2 /\ M = L2 \cup Unless(Len(r), r)
  BY <1>3, <1>14, <1>16 DEF Longer, Unless
<1>19. IsFiniteSet(M) /\ Cardinality(M) = Cardinality(L2) + k2
  <2>1. IsFiniteSet(L2) /\ r \notin L2
    BY <1>17, <1>18
  <2>. QED
    BY ONLY <1>18, <2>1, k2 = OneUnless(Len(r)), WithOne
<1>20. IsFiniteSet((T \ {s}) \cup {o, r})
  BY <1>12, <1>13
<1>21. Cardinality(E) + Cardinality((T \ {s}) \cup {o, r}) + Cardinality(M) = 2 * Cardinality(Vertices)
  <2>1. Cardinality((T \ {s}) \cup {o, r}) = Cardinality(T2) + 1
    BY <1>12, <1>13
  <2>2. Cardinality(M) = Cardinality(L2) + k2
    BY ONLY <1>19
  <2>. QED
    BY ONLY <1>1, <1>2, <1>5, <1>7, <1>9, <1>11, <1>15, <1>17, <2>1, <2>2
<1>. QED
  BY <1>7, <1>20, <1>21 DEF Room

LEMMA LinkKeeps ==
  ASSUME TourInv, NEW v \in Vertices, NEW u \in Vertices, Link(v, u)
  PROVE  TourInv'
<1>. PICK D, E, V, W, H, G, T : /\ D = DOMAIN vert /\ E = DOMAIN vert' /\ V = vert /\ W = vert'
                                /\ H = handle /\ G = handle' /\ T = tours
  OBVIOUS
<1>. PICK s1, s2 : s1 = TourOf(any[v]) /\ s2 = TourOf(any[u])
  OBVIOUS
<1>. PICK a : a = FreshEntry(D)
  OBVIOUS
<1>. PICK b : b = FreshEntry(D \cup {a})
  OBVIOUS
<1>. PICK l, r : l = Grown(s1, any[v], a) /\ r = Grown(s2, any[u], b)
  OBVIOUS
<1>. PICK x : x = IF v < u THEN <<v, u>> ELSE <<u, v>>
  OBVIOUS
<1>. PICK t : t = l \o r
  OBVIOUS
<1>1. /\ D \subseteq Entries /\ V \in [D -> Vertices] /\ edges \in [D -> 0 .. MaxCount]
      /\ any \in [Vertices -> D] /\ V[any[v]] = v /\ V[any[u]] = u
      /\ \A w \in Vertices : V[any[w]] = w
      /\ DOMAIN H \subseteq AllEdges /\ H \in [DOMAIN H -> D \X D]
      /\ Well(D, V, H, T) /\ Room(D, T)
      /\ \A e \in D : edges[e] > 0 => any[V[e]] = e
  <2>1. Typed(D, V, edges, any, anyRoot, H) /\ Well(D, V, H, T) /\ Room(D, T) /\ Owned(D, V, edges, any)
    BY DEF TourInv
  <2>. QED
    BY <2>1 DEF Typed, Owned
<1>2. /\ s1 \in T /\ any[v] \in ToSeqSet(s1) /\ s2 \in T /\ any[u] \in ToSeqSet(s2)
      /\ any[v] \in D /\ any[u] \in D
  <2>1. any[v] \in DOMAIN vert /\ any[u] \in DOMAIN vert /\ Well(DOMAIN vert, vert, handle, tours)
    BY <1>1
  <2>. QED
    BY <2>1, TourOfEntry
<1>3. s1 # s2
  BY DEF Link
<1>4. a \in Entries /\ b \in Entries /\ a \notin D /\ b \notin D /\ a # b
  <2>1. /\ Room(DOMAIN vert, tours) /\ DOMAIN vert \subseteq Entries
        /\ s1 \in tours /\ s2 \in tours
        /\ a = FreshEntry(DOMAIN vert) /\ b = FreshEntry(DOMAIN vert \cup {a})
    BY <1>1, <1>2
  <2>. QED
    BY <1>3, <2>1, FreshEntries
<1>5. Expanded(v, a) = l /\ Expanded(u, b) = r
  BY DEF Expanded, Grown
<1>6. /\ W = [e \in D \cup (Unless(Len(s1), a) \cup Unless(Len(s2), b)) |->
                IF e \in D THEN V[e] ELSE IF e = a THEN v ELSE u]
      /\ edges' = [e \in D \cup (Unless(Len(s1), a) \cup Unless(Len(s2), b)) |->
                     IF e \in D THEN edges[e] ELSE 0]
      /\ tours' = Merged(T, s1, s2, t)
      /\ anyRoot' = l[Len(l)]
      /\ G = [y \in DOMAIN H \cup {x} |-> IF y \in DOMAIN H THEN H[y] ELSE <<l[Len(l)], r[Len(r)]>>]
      /\ any' = any
  BY <1>5 DEF Link, Alone, LastOf, Unless, Merged
<1>7. /\ E = D \cup (Unless(Len(s1), a) \cup Unless(Len(s2), b))
      /\ E = Enlarged(D, s1, s2, a, b)
  <2>1. E = D \cup (Unless(Len(s1), a) \cup Unless(Len(s2), b))
    BY <1>6
  <2>. QED
    BY ONLY <2>1 DEF Enlarged
<1>8. /\ \A e \in D : W[e] = V[e]
      /\ Len(s1) # 1 => W[a] = v
      /\ Len(s2) # 1 => W[b] = u
      /\ \A e \in E : e \in D \/ W[e] \in {v, u}
  <2>1. W = [e \in E |-> IF e \in D THEN V[e] ELSE IF e = a THEN v ELSE u]
    BY <1>6, <1>7
  <2>2. D \subseteq E /\ (Len(s1) # 1 => a \in E) /\ (Len(s2) # 1 => b \in E)
    BY <1>7 DEF Unless
  <2>. QED
    BY <1>4, <2>1, <2>2
<1>9. Agree(D, W, V)
  BY <1>8 DEF Agree
<1>10. Between(x, v, u)
  BY DEF Between
<1>11. G = WithEdge(H, x, l, r)
  BY <1>6 DEF WithEdge
<1>12. /\ Well(E, W, G, Merged(T, s1, s2, t))
       /\ x \notin DOMAIN H /\ v # u
       /\ ToSeqSet(t) = ToSeqSet(s1) \cup ToSeqSet(s2) \cup (E \ D)
  <2>1. v = V[any[v]] /\ u = V[any[u]] /\ Ends(s1, a, W, v) /\ Ends(s2, b, W, u) /\ IsJoin(t, l, r)
    BY <1>1, <1>8 DEF Ends, IsLong, IsJoin
  <2>2. /\ Well(D, V, H, T) /\ s1 \in T /\ s2 \in T /\ s1 # s2
        /\ any[v] \in ToSeqSet(s1) /\ any[u] \in ToSeqSet(s2)
        /\ a \notin D /\ b \notin D /\ a # b
        /\ E = Enlarged(D, s1, s2, a, b)
    BY <1>1, <1>2, <1>3, <1>4, <1>7
  <2>3. l = Grown(s1, any[v], a) /\ r = Grown(s2, any[u], b)
    OBVIOUS
  <2>4. PICK e1, e2 : e1 = any[v] /\ e2 = any[u]
    OBVIOUS
  <2>5. /\ e1 \in ToSeqSet(s1) /\ e2 \in ToSeqSet(s2) /\ v = V[e1] /\ u = V[e2]
        /\ l = Grown(s1, e1, a) /\ r = Grown(s2, e2, b)
    BY <2>1, <2>2, <2>3, <2>4
  <2>. QED
    BY ONLY <1>9, <1>10, <1>11, <2>1, <2>2, <2>5, WellLink
<1>13. x \in AllEdges
  BY <1>12, VerticesAssumption DEF AllEdges
<1>14. /\ G[x] = <<l[Len(l)], r[Len(r)]>> /\ x \in DOMAIN G /\ DOMAIN G = DOMAIN H \cup {x}
       /\ l[Len(l)] \in E /\ r[Len(r)] \in E
  <2>1. G[x] = <<l[Len(l)], r[Len(r)]>> /\ x \in DOMAIN G /\ DOMAIN G = DOMAIN H \cup {x}
    BY <1>6, <1>12
  <2>2. Handles(E, W, G)
    BY <1>12 DEF Well
  <2>3. Crossing(G, x) \subseteq E
    BY <2>1, <2>2 DEF Handles
  <2>. QED
    BY <2>1, <2>3 DEF Crossing
<1>15. Typed(E, W, edges', any', anyRoot', G)
  <2>1. E \subseteq Entries /\ W \in [E -> Vertices]
    <3>1. E \subseteq Entries
      BY <1>1, <1>4, <1>7 DEF Unless
    <3>2. W = [e \in E |-> IF e \in D THEN V[e] ELSE IF e = a THEN v ELSE u]
      BY <1>6, <1>7
    <3>. QED
      BY <1>1, <3>1, <3>2
  <2>2. edges' \in [E -> 0 .. MaxCount]
    BY <1>1, <1>6, <1>7, EulerTourAssumption
  <2>3. any' \in [Vertices -> E] /\ \A w \in Vertices : W[any'[w]] = w
    BY <1>1, <1>6, <1>7, <1>8
  <2>4. anyRoot' \in E
    BY <1>6, <1>14
  <2>5. DOMAIN G \subseteq AllEdges
    BY <1>1, <1>13, <1>14
  <2>6. G \in [DOMAIN G -> E \X E]
    <3>1. ASSUME NEW y \in DOMAIN H \cup {x} PROVE G[y] \in E \X E
      <4>1. CASE y \in DOMAIN H
        <5>1. G[y] = H[y] /\ H[y] \in D \X D
          BY <1>1, <1>6, <4>1
        <5>2. D \subseteq E
          BY <1>7
        <5>. QED
          BY <5>1, <5>2
      <4>2. CASE y \notin DOMAIN H
        <5>1. y = x /\ <<l[Len(l)], r[Len(r)]>> \in E \X E
          BY <1>14, <4>2
        <5>. QED
          BY ONLY <1>14, <5>1
      <4>. QED
        BY <4>1, <4>2
    <3>. QED
      BY <1>6, <3>1
  <2>. QED
    BY <2>1, <2>2, <2>3, <2>4, <2>5, <2>6 DEF Typed
<1>16. Owned(E, W, edges', any')
  BY <1>1, <1>6, <1>7, <1>8 DEF Owned
<1>17. t \notin T /\ IsLong(t)
  <2>1. /\ \A s, z \in T : ToSeqSet(s) \cap ToSeqSet(z) # {} => s = z
        /\ IsTour(t, E, W, G)
    <3>1. \A s, z \in T : ToSeqSet(s) \cap ToSeqSet(z) # {} => s = z
      BY <1>1 DEF Well
    <3>2. IsTour(t, E, W, G)
      <4>. PICK M : M = Merged(T, s1, s2, t)
        OBVIOUS
      <4>1. Well(E, W, G, M)
        BY <1>12
      <4>2. \A s \in M : IsTour(s, E, W, G)
        BY ONLY <4>1, Zenon DEF Well
      <4>3. t \in M
        BY DEF Merged
      <4>. QED
        BY ONLY <4>2, <4>3
    <3>. QED
      BY <3>1, <3>2
  <2>2. any[v] \in ToSeqSet(t) /\ any[u] \in ToSeqSet(t)
    BY <1>2, <1>12
  <2>3. t \notin T
    BY <1>2, <1>3, <2>1, <2>2
  <2>4. ASSUME Len(t) = 1 PROVE FALSE
    <3>1. ToSeqSet(t) = {t[1]}
      BY <2>1, <2>4 DEF IsTour, ToSeqSet
    <3>. QED
      BY <1>2, <1>3, <2>1, <2>2, <3>1
  <2>. QED
    BY <2>3, <2>4 DEF IsLong
<1>18. Room(E, Merged(T, s1, s2, t))
  <2>1. /\ Room(D, T) /\ s1 \in T /\ s2 \in T /\ s1 # s2
        /\ a \notin D /\ b \notin D /\ a # b
        /\ E = Enlarged(D, s1, s2, a, b) /\ t \notin T /\ IsLong(t)
    BY <1>1, <1>2, <1>3, <1>4, <1>7, <1>17
  <2>. QED
    BY ONLY <2>1, RoomLink
<1>. QED
  <2>1. Well(DOMAIN vert', vert', handle', tours') /\ Room(DOMAIN vert', tours')
    BY <1>6, <1>12, <1>18
  <2>. QED
    BY <1>15, <1>16, <2>1 DEF TourInv

------------------------------------------------------------------------------
(* Cut. *)

\* Each vertex has an entry of its own, and counters are on these only.
Holds(D, V, cnt, A) ==
  /\ cnt \in [D -> 0 .. MaxCount]
  /\ A \in [Vertices -> D]
  /\ \A v \in Vertices : V[A[v]] = v
  /\ Owned(D, V, cnt, A)

SameCounts(cnt, A, c, B) == \A v \in Vertices : c[B[v]] = cnt[A[v]]

Moved(A, V, g) == [A EXCEPT ![V[g]] = g]
Carried(cnt, A, V, g) == [cnt EXCEPT ![A[V[g]]] = 0, ![g] = cnt[A[V[g]]]]

\* change_any to entry g: its vertex keeps its counter, the others keep all.
LEMMA MovingOwn ==
  ASSUME NEW D, NEW V \in [D -> Vertices], NEW cnt, NEW A, Holds(D, V, cnt, A), NEW g \in D,
         NEW B, B = Moved(A, V, g), NEW c, c = Carried(cnt, A, V, g)
  PROVE  /\ Holds(D, V, c, B) /\ SameCounts(cnt, A, c, B)
         /\ B[V[g]] = g /\ \A w \in Vertices : w # V[g] => B[w] = A[w]
<1>. PICK v : v = V[g]
  OBVIOUS
<1>. PICK f : f = A[v]
  OBVIOUS
<1>1. /\ v \in Vertices /\ f \in D /\ V[f] = v
      /\ cnt \in [D -> 0 .. MaxCount] /\ A \in [Vertices -> D]
      /\ \A w \in Vertices : V[A[w]] = w
      /\ \A e \in D : cnt[e] > 0 => A[V[e]] = e
  BY DEF Holds, Owned
<1>2. /\ B \in [Vertices -> D] /\ B[v] = g
      /\ \A w \in Vertices : w # v => B[w] = A[w]
  BY <1>1 DEF Moved
<1>3. /\ c \in [D -> 0 .. MaxCount] /\ c[g] = cnt[f]
      /\ f # g => c[f] = 0
      /\ \A e \in D : e # g /\ e # f => c[e] = cnt[e]
  <2>1. c = [cnt EXCEPT ![f] = 0, ![g] = cnt[f]]
    BY DEF Carried
  <2>2. cnt[f] \in 0 .. MaxCount /\ 0 \in 0 .. MaxCount
    BY <1>1, EulerTourAssumption
  <2>3. PICK k : k = cnt[f]
    OBVIOUS
  <2>4. c = [cnt EXCEPT ![f] = 0, ![g] = k] /\ k \in 0 .. MaxCount
    BY <2>1, <2>2, <2>3
  <2>5. /\ c \in [D -> 0 .. MaxCount] /\ c[g] = k
        /\ f # g => c[f] = 0
        /\ \A e \in D : e # g /\ e # f => c[e] = cnt[e]
    BY ONLY <1>1, <2>2, <2>4, g \in D
  <2>. QED
    BY <2>3, <2>5
<1>4. \A w \in Vertices : V[B[w]] = w
  BY <1>1, <1>2
<1>5. ASSUME NEW e \in D, c[e] > 0 PROVE B[V[e]] = e
  <2>1. CASE e = g
    BY <1>2, <2>1
  <2>2. CASE e # g
    <3>1. e # f
      BY <1>3, <1>5, <2>2
    <3>2. A[V[e]] = e /\ V[e] \in Vertices
      BY <1>1, <1>3, <1>5, <2>2, <3>1
    <3>3. V[e] # v
      BY <3>1, <3>2
    <3>. QED
      BY <1>2, <3>2, <3>3
  <2>. QED
    BY <2>1, <2>2
<1>6. SameCounts(cnt, A, c, B)
  <2>. SUFFICES ASSUME NEW w \in Vertices PROVE c[B[w]] = cnt[A[w]]
    BY DEF SameCounts
  <2>1. CASE w = v
    BY <1>2, <1>3, <2>1
  <2>2. CASE w # v
    <3>1. B[w] = A[w] /\ A[w] \in D /\ V[A[w]] = w
      BY <1>1, <1>2, <2>2
    <3>2. A[w] # g /\ A[w] # f
      BY <1>1, <2>2, <3>1
    <3>. QED
      BY <1>3, <3>1, <3>2
  <2>. QED
    BY <2>1, <2>2
<1>. QED
  BY <1>2, <1>3, <1>4, <1>5, <1>6 DEF Holds, Owned

\* An end of the cut gives up entry e; g stands in when the vertex is found through e.
Vacated(D, V, cnt, A, c, B, e) ==
  /\ Holds(D, V, c, B) /\ SameCounts(cnt, A, c, B)
  /\ \A w \in Vertices : B[w] # e /\ (w # V[e] => B[w] = A[w])

LEMMA GivingUp ==
  ASSUME NEW D, NEW V \in [D -> Vertices], NEW cnt, NEW A, Holds(D, V, cnt, A),
         NEW e \in D, NEW g \in D, g # e, V[g] = V[e],
         NEW moves \in BOOLEAN, A[V[e]] = e => moves,
         NEW B, B = IF moves THEN Moved(A, V, g) ELSE A,
         NEW c, c = IF moves THEN Carried(cnt, A, V, g) ELSE cnt
  PROVE  Vacated(D, V, cnt, A, c, B, e)
<1>1. V[e] \in Vertices /\ \A w \in Vertices : V[A[w]] = w
  BY DEF Holds
<1>2. CASE moves
  <2>1. /\ Holds(D, V, c, B) /\ SameCounts(cnt, A, c, B)
        /\ B[V[g]] = g /\ \A w \in Vertices : w # V[g] => B[w] = A[w]
    <3>1. B = Moved(A, V, g) /\ c = Carried(cnt, A, V, g)
      BY <1>2
    <3>. QED
      BY <3>1, MovingOwn
  <2>. QED
    BY <1>1, <2>1 DEF Vacated
<1>3. CASE ~moves
  <2>1. B = A /\ c = cnt
    BY <1>3
  <2>. QED
    BY <1>1, <1>3, <2>1 DEF Vacated, SameCounts
<1>. QED
  BY <1>2, <1>3

\* Deleting entries that no vertex is found through.
LEMMA Deleting ==
  ASSUME NEW D, NEW V \in [D -> Vertices], NEW cnt, NEW A, Holds(D, V, cnt, A),
         NEW E, E \subseteq D, \A w \in Vertices : A[w] \in E,
         NEW c, c = [e \in E |-> cnt[e]], NEW W, W = [e \in E |-> V[e]]
  PROVE  Holds(E, W, c, A) /\ SameCounts(cnt, A, c, A)
<1>1. /\ cnt \in [D -> 0 .. MaxCount] /\ A \in [Vertices -> D]
      /\ \A v \in Vertices : V[A[v]] = v
      /\ \A e \in D : cnt[e] > 0 => A[V[e]] = e
  BY DEF Holds, Owned
<1>2. c \in [E -> 0 .. MaxCount] /\ A \in [Vertices -> E]
  BY <1>1
<1>. QED
  BY <1>1, <1>2 DEF Holds, Owned, SameCounts

\* The places of a cut: where the tour crosses the edge.
LEMMA PlacesOfCut ==
  ASSUME NEW D, NEW V, NEW H, NEW T, Well(D, V, H, T), NEW s \in T, NEW x \in DOMAIN H,
         H[x][1] \in ToSeqSet(s),
         NEW i, i = PlaceIn(s, H[x][1]), NEW j, j = PlaceIn(s, H[x][2]),
         NEW p, p = IF i < j THEN i ELSE j, NEW q, q = IF i < j THEN j ELSE i
  PROVE  CutAt(s, H, x, p, q)
<1>1. IsTour(s, D, V, H) /\ Complete(s, H) /\ Handles(D, V, H)
  BY DEF Well
<1>2. DOMAIN s = 1 .. Len(s) /\ Len(s) \in Nat
  BY <1>1 DEF IsTour
<1>3. H[x][2] \in ToSeqSet(s)
  BY <1>1 DEF Complete, Crossing
<1>4. i \in DOMAIN s /\ s[i] = H[x][1] /\ j \in DOMAIN s /\ s[j] = H[x][2]
  BY <1>3, PlaceFound
<1>5. H[x][1] # H[x][2]
  <2>1. x[1] # x[2] /\ {V[H[x][1]], V[H[x][2]]} = {x[1], x[2]}
    BY <1>1 DEF Handles
  <2>. QED
    BY <2>1
<1>6. i # j /\ i \in 1 .. Len(s) /\ j \in 1 .. Len(s)
  BY <1>2, <1>4, <1>5
<1>7. Crossing(H, x) = {s[i], s[j]}
  BY <1>4 DEF Crossing
<1>. QED
  BY <1>2, <1>6, <1>7 DEF CutAt

\* The entries that stand in are of the same vertices, and stay.
StandIn(D, V, e, g, other) == g \in D /\ g # e /\ g # other /\ V[g] = V[e]

LEMMA StandIns ==
  ASSUME NEW D, NEW V, NEW H, NEW s, IsTour(s, D, V, H), Handles(D, V, H),
         NEW x \in DOMAIN H, NEW p, NEW q, CutAt(s, H, x, p, q)
  PROVE  /\ ~(p = 1 /\ q = Len(s)) => StandIn(D, V, s[p], OuterStandIn(s, p, q), s[q])
         /\ q # p + 1 => StandIn(D, V, s[q], InnerStandIn(s, p, q), s[p])
         /\ s[p] \in D /\ s[q] \in D /\ s[p] # s[q] /\ V[s[p]] # V[s[q]]
<1>. PICK n : n = Len(s)
  OBVIOUS
<1>1. /\ p \in 1 .. n /\ q \in 1 .. n /\ p < q /\ n \in Nat
      /\ \A k, m \in 1 .. n : s[k] = s[m] => k = m
      /\ \A k \in 1 .. n : s[k] \in D
  BY DEF CutAt, IsTour
<1>2. /\ V[s[p]] # V[s[q]]
      /\ V[s[After(n, p)]] = V[s[q]]
      /\ V[s[After(n, q)]] = V[s[p]]
  BY CutVisits
<1>3. ASSUME ~(p = 1 /\ q = n) PROVE StandIn(D, V, s[p], OuterStandIn(s, p, q), s[q])
  <2>1. After(n, q) \in 1 .. n /\ After(n, q) # p /\ After(n, q) # q
    BY <1>1, <1>3 DEF After
  <2>2. OuterStandIn(s, p, q) = s[After(n, q)]
    BY <1>1 DEF OuterStandIn, After
  <2>. QED
    BY <1>1, <1>2, <2>1, <2>2 DEF StandIn
<1>4. ASSUME q # p + 1 PROVE StandIn(D, V, s[q], InnerStandIn(s, p, q), s[p])
  <2>1. After(n, p) \in 1 .. n /\ After(n, p) # p /\ After(n, p) # q
    BY <1>1, <1>4 DEF After
  <2>2. InnerStandIn(s, p, q) = s[After(n, p)]
    BY <1>1 DEF InnerStandIn, After
  <2>. QED
    BY <1>1, <1>2, <2>1, <2>2 DEF StandIn
<1>. QED
  BY <1>1, <1>2, <1>3, <1>4

\* What a cut at places p and q does, with the entries of the vertices before it,
\* after the outer end gave up its entry, and after the inner one did.
Parting(D, V, cnt, A, s, p, q, c1, A1, c2, A2) ==
  LET outer == ~(p = 1 /\ q = Len(s)) /\ (p = 1 \/ A[V[s[p]]] = s[p])
      inner == q # p + 1 /\ A1[V[s[q]]] = s[q]
  IN  /\ A1 = IF outer THEN Moved(A, V, OuterStandIn(s, p, q)) ELSE A
      /\ c1 = IF outer THEN Carried(cnt, A, V, OuterStandIn(s, p, q)) ELSE cnt
      /\ A2 = IF inner THEN Moved(A1, V, InnerStandIn(s, p, q)) ELSE A1
      /\ c2 = IF inner THEN Carried(c1, A1, V, InnerStandIn(s, p, q)) ELSE c1

LEMMA PartingHolds ==
  ASSUME NEW D, NEW V \in [D -> Vertices], NEW H, NEW s, IsTour(s, D, V, H), Handles(D, V, H),
         NEW x \in DOMAIN H, NEW p, NEW q, CutAt(s, H, x, p, q),
         NEW cnt, NEW A, Holds(D, V, cnt, A),
         NEW c1, NEW A1, NEW c2, NEW A2, Parting(D, V, cnt, A, s, p, q, c1, A1, c2, A2)
  PROVE  /\ Holds(D, V, c2, A2) /\ SameCounts(cnt, A, c2, A2)
         /\ \A w \in Vertices : A2[w] \notin Freed(s, p, q)
<1>. PICK e, f : e = s[p] /\ f = s[q]
  OBVIOUS
<1>. PICK g, h : g = OuterStandIn(s, p, q) /\ h = InnerStandIn(s, p, q)
  OBVIOUS
<1>. PICK stays : stays = (p = 1 /\ q = Len(s))
  OBVIOUS
<1>. PICK outer : outer = (~stays /\ (p = 1 \/ A[V[e]] = e))
  OBVIOUS
<1>. PICK inner : inner = (q # p + 1 /\ A1[V[f]] = f)
  OBVIOUS
<1>0. outer \in BOOLEAN /\ inner \in BOOLEAN /\ stays \in BOOLEAN
  OBVIOUS
<1>1. /\ ~stays => StandIn(D, V, e, g, f)
      /\ q # p + 1 => StandIn(D, V, f, h, e)
      /\ e \in D /\ f \in D /\ e # f /\ V[e] # V[f]
  BY StandIns
<1>2. /\ A1 = IF outer THEN Moved(A, V, g) ELSE A
      /\ c1 = IF outer THEN Carried(cnt, A, V, g) ELSE cnt
      /\ A2 = IF inner THEN Moved(A1, V, h) ELSE A1
      /\ c2 = IF inner THEN Carried(c1, A1, V, h) ELSE c1
  BY DEF Parting
<1>3. /\ Holds(D, V, c1, A1) /\ SameCounts(cnt, A, c1, A1)
      /\ ~stays => \A w \in Vertices : A1[w] # e
  <2>1. CASE stays
    <3>1. A1 = A /\ c1 = cnt
      BY <1>2, <2>1
    <3>. QED
      BY <2>1, <3>1 DEF SameCounts
  <2>2. CASE ~stays
    <3>1. g \in D /\ g # e /\ V[g] = V[e] /\ (A[V[e]] = e => outer)
      BY <1>1, <2>2 DEF StandIn
    <3>2. Vacated(D, V, cnt, A, c1, A1, e)
      BY <1>0, <1>1, <1>2, <3>1, GivingUp
    <3>. QED
      BY <3>2 DEF Vacated
  <2>. QED
    BY <1>0, <2>1, <2>2
<1>4. /\ Holds(D, V, c2, A2) /\ SameCounts(c1, A1, c2, A2)
      /\ \A w \in Vertices : w # V[f] => A2[w] = A1[w]
      /\ q # p + 1 => \A w \in Vertices : A2[w] # f
  <2>1. CASE q = p + 1
    <3>1. A2 = A1 /\ c2 = c1
      BY <1>2, <2>1
    <3>. QED
      BY <1>3, <2>1, <3>1 DEF SameCounts
  <2>2. CASE q # p + 1
    <3>1. h \in D /\ h # f /\ V[h] = V[f] /\ (A1[V[f]] = f => inner)
      BY <1>1, <2>2 DEF StandIn
    <3>2. Vacated(D, V, c1, A1, c2, A2, f)
      BY <1>0, <1>1, <1>2, <1>3, <3>1, GivingUp
    <3>. QED
      BY <3>2 DEF Vacated
  <2>. QED
    BY <2>1, <2>2
<1>5. ASSUME NEW w \in Vertices, ~stays, A2[w] = e PROVE FALSE
  <2>1. V[A2[w]] = w
    BY <1>4 DEF Holds
  <2>2. w # V[f]
    BY <1>1, <1>5, <2>1
  <2>. QED
    BY <1>3, <1>4, <1>5, <2>2
<1>6. ASSUME NEW w \in Vertices PROVE A2[w] \notin Freed(s, p, q)
  BY <1>4, <1>5 DEF Freed
<1>7. SameCounts(cnt, A, c2, A2)
  BY <1>3, <1>4 DEF SameCounts
<1>. QED
  BY <1>4, <1>6, <1>7

\* The tours a cut leaves are new and differ.
LEMMA PartsNew ==
  ASSUME NEW D, NEW V, NEW H, NEW T, Well(D, V, H, T), NEW s \in T,
         NEW x \in DOMAIN H, NEW p, NEW q, CutAt(s, H, x, p, q),
         NEW E, NEW W, NEW G, NEW o, NEW r, Well(E, W, G, Halved(T, s, o, r)),
         Parted(s, p, q, o, r)
  PROVE  o \notin T /\ r \notin T /\ o # r
<1>1. IsTour(s, D, V, H) /\ Handles(D, V, H) /\ Complete(s, H)
  BY DEF Well
<1>2. /\ ToSeqSet(s) = Outside(s, p, q) \cup Within(s, p, q)
      /\ Outside(s, p, q) \cap Within(s, p, q) = {}
      /\ s[p] \in Outside(s, p, q) /\ s[q] \in Within(s, p, q)
  BY <1>1, Sides
<1>3. IsTour(o, E, W, G) /\ IsTour(r, E, W, G)
  BY DEF Well, Halved
<1>4. o[1] \in ToSeqSet(o) /\ r[1] \in ToSeqSet(r)
  BY <1>3 DEF IsTour, ToSeqSet
<1>5. \A z, t \in T : ToSeqSet(z) \cap ToSeqSet(t) # {} => z = t
  BY DEF Well
<1>6. ToSeqSet(o) \subseteq Outside(s, p, q) /\ ToSeqSet(r) \subseteq Within(s, p, q)
  BY DEF Parted
<1>7. o \notin T
  BY <1>2, <1>4, <1>5, <1>6
<1>8. r \notin T
  BY <1>2, <1>4, <1>5, <1>6
<1>9. o # r
  BY <1>2, <1>4, <1>6
<1>. QED
  BY <1>7, <1>8, <1>9

\* A cut, in the terms of these lemmas.
Kept(c, E) == [e \in E |-> c[e]]

Severed(D, V, H, T, cnt, A, x, s, p, q, o, r, E, W, G, U, c, B) ==
  /\ s \in T /\ CutAt(s, H, x, p, q) /\ x \in DOMAIN H
  /\ o = OuterTour(s, p, q) /\ r = InnerTour(s, p, q)
  /\ E = D \ Freed(s, p, q) /\ W = Kept(V, E) /\ G = Uncrossed(H, x)
  /\ U = (T \ {s}) \cup {o, r}
  /\ \E c1, A1, c2, A2 :
       /\ Parting(D, V, cnt, A, s, p, q, c1, A1, c2, A2)
       /\ c = Kept(c2, E) /\ B = A2

LEMMA CutSevers ==
  ASSUME TourInv, NEW x, Cut(x)
  PROVE  \E s, p, q, o, r :
           Severed(DOMAIN vert, vert, handle, tours, edges, any, x, s, p, q, o, r,
                   DOMAIN vert', vert', handle', tours', edges', any')
<1>. PICK D, V, H, T : D = DOMAIN vert /\ V = vert /\ H = handle /\ T = tours
  OBVIOUS
<1>. PICK s : s = TourOf(H[x][1])
  OBVIOUS
<1>. PICK i, j : i = PlaceIn(s, H[x][1]) /\ j = PlaceIn(s, H[x][2])
  OBVIOUS
<1>. PICK p, q : p = (IF i < j THEN i ELSE j) /\ q = (IF i < j THEN j ELSE i)
  OBVIOUS
<1>. PICK A1 : A1 = IF ~(p = 1 /\ q = Len(s)) /\ (p = 1 \/ any[vert[s[p]]] = s[p])
                    THEN Repointed(any, OuterStandIn(s, p, q)) ELSE any
  OBVIOUS
<1>. PICK c1 : c1 = IF ~(p = 1 /\ q = Len(s)) /\ (p = 1 \/ any[vert[s[p]]] = s[p])
                    THEN Recounted(edges, any, OuterStandIn(s, p, q)) ELSE edges
  OBVIOUS
<1>. PICK A2 : A2 = IF ~(q = p + 1) /\ A1[vert[s[q]]] = s[q]
                    THEN Repointed(A1, InnerStandIn(s, p, q)) ELSE A1
  OBVIOUS
<1>. PICK c2 : c2 = IF ~(q = p + 1) /\ A1[vert[s[q]]] = s[q]
                    THEN Recounted(c1, A1, InnerStandIn(s, p, q)) ELSE c1
  OBVIOUS
<1>1. x \in DOMAIN H /\ Well(D, V, H, T) /\ H \in [DOMAIN H -> D \X D]
  BY DEF Cut, TourInv, Typed
<1>2. s \in T /\ H[x][1] \in ToSeqSet(s)
  <2>1. H[x][1] \in DOMAIN vert /\ Well(DOMAIN vert, vert, handle, tours)
    BY <1>1
  <2>. QED
    BY <2>1, TourOfEntry
<1>3. CutAt(s, H, x, p, q)
  BY <1>1, <1>2, PlacesOfCut
<1>4. Freed(s, p, q) = (IF p = 1 /\ q = Len(s) THEN {} ELSE {s[p]}) \cup (IF q = p + 1 THEN {} ELSE {s[q]})
  BY DEF Freed
<1>5. vert' = [e \in D \ Freed(s, p, q) |-> V[e]]
  BY <1>4 DEF Cut
<1>6. any' = A2
  BY DEF Cut
<1>7. edges' = [e \in D \ Freed(s, p, q) |-> c2[e]]
  BY <1>4, ZenonT(30) DEF Cut
<1>8. tours' = (T \ {s}) \cup {OuterTour(s, p, q), InnerTour(s, p, q)}
  BY DEF Cut
<1>9. handle' = Uncrossed(H, x)
  BY DEF Cut, Uncrossed
<1>10. Parting(D, V, edges, any, s, p, q, c1, A1, c2, A2)
  <2>1. \A B, e : Repointed(B, e) = Moved(B, V, e)
    BY DEF Repointed, Moved
  <2>2. \A k, B, e : Recounted(k, B, e) = Carried(k, B, V, e)
    BY DEF Recounted, Carried
  <2>. QED
    BY <2>1, <2>2 DEF Parting
<1>11. DOMAIN vert' = D \ Freed(s, p, q)
  BY <1>5
<1>12. PICK o, r : o = OuterTour(s, p, q) /\ r = InnerTour(s, p, q)
  OBVIOUS
<1>13. Severed(D, V, H, T, edges, any, x, s, p, q, o, r,
              DOMAIN vert', vert', handle', tours', edges', any')
  <2>1. \E d1, B1, d2, B2 : /\ Parting(D, V, edges, any, s, p, q, d1, B1, d2, B2)
                            /\ edges' = Kept(d2, DOMAIN vert') /\ any' = B2
    <3>1. edges' = Kept(c2, DOMAIN vert')
      BY <1>7, <1>11 DEF Kept
    <3>. QED
      BY ONLY <1>6, <1>10, <3>1, ZenonT(30)
  <2>2. vert' = Kept(V, DOMAIN vert')
    BY <1>5, <1>11 DEF Kept
  <2>. QED
    BY <1>1, <1>2, <1>3, <1>8, <1>9, <1>11, <1>12, <2>1, <2>2 DEF Severed
<1>. QED
  BY <1>13

LEMMA SeveredKeeps ==
  ASSUME NEW D, NEW V \in [D -> Vertices], NEW H, NEW T, Well(D, V, H, T), Room(D, T),
         NEW cnt, NEW A, Holds(D, V, cnt, A),
         NEW x, NEW s, NEW p, NEW q, NEW o, NEW r, NEW E, NEW W, NEW G, NEW U, NEW c, NEW B,
         Severed(D, V, H, T, cnt, A, x, s, p, q, o, r, E, W, G, U, c, B)
  PROVE  /\ E \subseteq D /\ W = Kept(V, E) /\ G = Uncrossed(H, x)
         /\ Well(E, W, G, U) /\ Room(E, U)
         /\ Holds(E, W, c, B) /\ SameCounts(cnt, A, c, B)
<1>1. /\ s \in T /\ CutAt(s, H, x, p, q) /\ x \in DOMAIN H
      /\ o = OuterTour(s, p, q) /\ r = InnerTour(s, p, q)
      /\ E = D \ Freed(s, p, q) /\ W = Kept(V, E) /\ G = Uncrossed(H, x)
      /\ U = (T \ {s}) \cup {o, r}
  BY DEF Severed
<1>2. PICK c1, A1, c2, A2 : /\ Parting(D, V, cnt, A, s, p, q, c1, A1, c2, A2)
                            /\ c = Kept(c2, E) /\ B = A2
  BY Zenon DEF Severed
<1>3. IsTour(s, D, V, H) /\ Handles(D, V, H)
  BY <1>1 DEF Well
<1>4. Agree(E, W, V) /\ E \subseteq D
  BY <1>1 DEF Kept, Agree
<1>5. Well(E, W, G, Halved(T, s, o, r)) /\ Parted(s, p, q, o, r)
  <2>1. /\ Well(D, V, H, T) /\ s \in T /\ x \in DOMAIN H /\ CutAt(s, H, x, p, q)
        /\ E = D \ Freed(s, p, q) /\ Agree(E, W, V) /\ G = Uncrossed(H, x)
        /\ o = OuterTour(s, p, q) /\ r = InnerTour(s, p, q)
    BY <1>1, <1>4
  <2>. QED
    BY ONLY <2>1, WellCut
<1>6. o \notin T /\ r \notin T /\ o # r
  <2>1. Well(D, V, H, T) /\ s \in T /\ CutAt(s, H, x, p, q) /\ x \in DOMAIN H
    BY <1>1
  <2>2. Well(E, W, G, Halved(T, s, o, r)) /\ Parted(s, p, q, o, r)
    BY <1>5
  <2>. QED
    BY ONLY <2>1, <2>2, PartsNew
<1>7. s[p] \in D /\ s[q] \in D /\ s[p] # s[q]
  BY <1>1, <1>3, StandIns
<1>8. E = D \ (Unless(Len(o), s[p]) \cup Unless(Len(r), s[q]))
  BY <1>1, <1>5 DEF Freed, Unless, Parted
<1>9. IsLong(s)
  BY <1>1, <1>3 DEF IsLong, CutAt, IsTour
<1>10. Room(E, (T \ {s}) \cup {o, r})
  <2>1. Len(s) # 1
    BY <1>9 DEF IsLong
  <2>2. PICK d, e : d = s[p] /\ e = s[q]
    OBVIOUS
  <2>3. d \in D /\ e \in D /\ d # e
        /\ E = D \ (Unless(Len(o), d) \cup Unless(Len(r), e))
    BY <1>7, <1>8, <2>2
  <2>4. Room(D, T) /\ s \in T
    BY <1>1
  <2>. QED
    BY ONLY <1>6, <2>1, <2>3, <2>4, RoomCut
<1>11. /\ Holds(D, V, c2, A2) /\ SameCounts(cnt, A, c2, A2)
       /\ \A w \in Vertices : A2[w] \notin Freed(s, p, q)
  BY <1>1, <1>2, <1>3, PartingHolds
<1>12. \A w \in Vertices : A2[w] \in E
  BY <1>1, <1>11 DEF Holds
<1>13. c = [e \in E |-> c2[e]] /\ W = [e \in E |-> V[e]]
  BY <1>1, <1>2 DEF Kept
<1>14. Holds(E, W, c, A2) /\ SameCounts(c2, A2, c, A2)
  BY <1>4, <1>11, <1>12, <1>13, Deleting
<1>15. SameCounts(cnt, A, c, A2)
  BY <1>11, <1>14 DEF SameCounts
<1>. QED
  BY <1>1, <1>2, <1>4, <1>5, <1>10, <1>14, <1>15 DEF Halved

LEMMA CutKeeps ==
  ASSUME TourInv, NEW x, Cut(x)
  PROVE  /\ TourInv' /\ DOMAIN handle' = DOMAIN handle \ {x}
         /\ SameCounts(edges, any, edges', any')
<1>. PICK D, E, V, W, H, G, T, U :
       /\ D = DOMAIN vert /\ E = DOMAIN vert' /\ V = vert /\ W = vert'
       /\ H = handle /\ G = handle' /\ T = tours /\ U = tours'
  OBVIOUS
<1>1. /\ D \subseteq Entries /\ V \in [D -> Vertices] /\ DOMAIN H \subseteq AllEdges
      /\ H \in [DOMAIN H -> D \X D]
      /\ Well(D, V, H, T) /\ Room(D, T) /\ Holds(D, V, edges, any)
  BY DEF TourInv, Typed, Holds
<1>2. PICK s, p, q, o, r : Severed(D, V, H, T, edges, any, x, s, p, q, o, r,
                                   E, W, G, U, edges', any')
  BY CutSevers, Zenon
<1>3. /\ E \subseteq D /\ W = Kept(V, E) /\ G = Uncrossed(H, x)
      /\ Well(E, W, G, U) /\ Room(E, U)
      /\ Holds(E, W, edges', any') /\ SameCounts(edges, any, edges', any')
  BY <1>1, <1>2, SeveredKeeps
<1>4. DOMAIN G = DOMAIN H \ {x} /\ \A y \in DOMAIN G : G[y] = H[y]
  BY <1>3 DEF Uncrossed
<1>5. W \in [E -> Vertices]
  BY <1>1, <1>3 DEF Kept
<1>6. G \in [DOMAIN G -> E \X E]
  <2>1. ASSUME NEW y \in DOMAIN G PROVE G[y] \in E \X E
    <3>1. Handles(E, W, G)
      BY <1>3 DEF Well
    <3>2. G[y][1] \in E /\ G[y][2] \in E
      BY <3>1 DEF Handles, Crossing
    <3>3. G[y] \in D \X D
      BY <1>1, <1>4
    <3>. QED
      BY <3>2, <3>3
  <2>. QED
    BY <1>3, <2>1 DEF Uncrossed
<1>7. anyRoot' = Nil
  BY DEF Cut
<1>8. Typed(E, W, edges', any', anyRoot', G) /\ Owned(E, W, edges', any')
  BY <1>1, <1>3, <1>4, <1>5, <1>6, <1>7 DEF Typed, Holds
<1>. QED
  BY <1>3, <1>4, <1>8 DEF TourInv

------------------------------------------------------------------------------
(* Counting, and the first state. *)

LEMMA CountKeeps ==
  ASSUME TourInv, NEW v \in Vertices, Increment(v) \/ Decrement(v)
  PROVE  TourInv'
<1>. PICK D, V, A : D = DOMAIN vert /\ V = vert /\ A = any
  OBVIOUS
<1>1. /\ Typed(D, V, edges, A, anyRoot, handle) /\ Well(D, V, handle, tours)
      /\ Owned(D, V, edges, A) /\ Room(D, tours)
  BY DEF TourInv
<1>2. UNCHANGED <<vert, tours, any, anyRoot, handle>>
  BY Zenon DEF Increment, Decrement
<1>3. A[v] \in D /\ V[A[v]] = v /\ edges \in [D -> 0 .. MaxCount] /\ edges[A[v]] \in 0 .. MaxCount
  BY <1>1 DEF Typed
<1>4. \E k \in 0 .. MaxCount : edges' = [edges EXCEPT ![A[v]] = k]
  <2>1. CASE Increment(v)
    <3>1. edges[A[v]] + 1 \in 0 .. MaxCount /\ edges' = [edges EXCEPT ![A[v]] = edges[A[v]] + 1]
      BY <1>3, <2>1, EulerTourAssumption DEF Increment
    <3>. QED
      BY <3>1
  <2>2. CASE Decrement(v)
    <3>1. edges[A[v]] - 1 \in 0 .. MaxCount /\ edges' = [edges EXCEPT ![A[v]] = edges[A[v]] - 1]
      BY <1>3, <2>2, EulerTourAssumption DEF Decrement
    <3>. QED
      BY <3>1
  <2>. QED
    BY <2>1, <2>2
<1>5. /\ edges' \in [D -> 0 .. MaxCount]
      /\ \A e \in D : e # A[v] => edges'[e] = edges[e]
  BY <1>3, <1>4
<1>6. Typed(D, V, edges', A, anyRoot, handle)
  BY <1>1, <1>5 DEF Typed
<1>7. Owned(D, V, edges', A)
  BY <1>1, <1>3, <1>5 DEF Owned
<1>. QED
  BY <1>1, <1>2, <1>6, <1>7 DEF TourInv

\* Enough addresses for the first entries.
LEMMA FirstSound ==
  /\ FirstEntries \in [Vertices -> Entries]
  /\ \A u, v \in Vertices : FirstEntries[u] = FirstEntries[v] => u = v
<1>. PICK K, N : K = Cardinality(Vertices) /\ N = Cardinality(Entries)
  OBVIOUS
<1>1. /\ IsFiniteSet(Vertices) /\ IsFiniteSet(Entries) /\ N >= 2 * K /\ K \in Nat /\ N \in Nat
  BY VerticesAssumption, EulerTourAssumption, FS_CardinalityType
<1>2. \E F \in SUBSET Entries : Cardinality(F) = Cardinality(Vertices)
  <2>1. PICK f : f \in Bijection(1 .. N, Entries)
    BY <1>1, FS_CardinalityType DEF ExistsBijection
  <2>2. /\ f \in [1 .. N -> Entries]
        /\ \A i, j \in 1 .. N : f[i] = f[j] => i = j
    BY <2>1 DEF Bijection, Injection, IsInjective
  <2>3. PICK F : F = {f[i] : i \in 1 .. K}
    OBVIOUS
  <2>4. PICK g : g = [i \in 1 .. K |-> f[i]]
    OBVIOUS
  <2>5. \A i \in 1 .. K : i \in 1 .. N
    BY <1>1
  <2>6. /\ g \in [1 .. K -> F]
        /\ \A a, b \in 1 .. K : g[a] = g[b] => a = b
        /\ \A t \in F : \E a \in 1 .. K : g[a] = t
    BY <2>2, <2>3, <2>4, <2>5
  <2>7. IsFiniteSet(1 .. K) /\ Cardinality(1 .. K) = K
    <3>1. 1 \in Int /\ K \in Int
      BY <1>1
    <3>2. IsFiniteSet(1 .. K) /\ Cardinality(1 .. K) = IF 1 > K THEN 0 ELSE K - 1 + 1
      BY ONLY <3>1, FS_Interval
    <3>. QED
      BY <1>1, <3>2
  <2>8. Cardinality(F) = K
    BY ONLY <2>6, <2>7, SameSize, Zenon
  <2>9. F \in SUBSET Entries
    BY <2>2, <2>3, <2>5
  <2>. QED
    BY <2>8, <2>9
<1>3. PICK F : F = CHOOSE E \in SUBSET Entries : Cardinality(E) = Cardinality(Vertices)
  OBVIOUS
<1>4. F \in SUBSET Entries /\ Cardinality(F) = Cardinality(Vertices)
  BY <1>2, <1>3
<1>5. IsFiniteSet(F)
  BY <1>1, <1>4, FS_Subset
<1>6. \E f \in [Vertices -> F] : \A u, v \in Vertices : f[u] = f[v] => u = v
  <2>1. PICK f : f \in Bijection(Vertices, F)
    BY <1>1, <1>4, <1>5, FS_SameCardinalityBij DEF ExistsBijection
  <2>. QED
    BY <2>1 DEF Bijection, Injection, IsInjective
<1>7. FirstEntries = CHOOSE f \in [Vertices -> F] : \A u, v \in Vertices : f[u] = f[v] => u = v
  BY <1>3 DEF FirstEntries
<1>8. FirstEntries \in [Vertices -> F] /\ \A u, v \in Vertices : FirstEntries[u] = FirstEntries[v] => u = v
  BY <1>6, <1>7
<1>. QED
  BY <1>4, <1>8

\* A tour of a single entry crosses nothing.
LEMMA SingleTour ==
  ASSUME NEW D, NEW V, NEW H, DOMAIN H = {}, NEW e \in D, NEW s, s = <<e>>
  PROVE  IsTour(s, D, V, H) /\ Complete(s, H) /\ ToSeqSet(s) = {e} /\ Len(s) = 1
<1>1. s \in Seq(D) /\ Len(s) = 1 /\ DOMAIN s = 1 .. 1 /\ s[1] = e
  OBVIOUS
<1>2. ToSeqSet(s) = {e}
  BY <1>1 DEF ToSeqSet
<1>3. Crossed(s, V, H) /\ Separated(s, V, H) /\ Complete(s, H)
  BY <1>1 DEF Crossed, Separated, Complete
<1>. QED
  BY <1>1, <1>2, <1>3 DEF IsTour

LEMMA TourInitInv ==
  ASSUME TourInit
  PROVE  TourInv
<1>. PICK f : f = FirstEntries
  OBVIOUS
<1>. PICK D : D = {f[v] : v \in Vertices}
  OBVIOUS
<1>. PICK V : V = [e \in D |-> CHOOSE v \in Vertices : f[v] = e]
  OBVIOUS
<1>1. f \in [Vertices -> Entries] /\ \A u, v \in Vertices : f[u] = f[v] => u = v
  BY FirstSound
<1>2. /\ vert = V /\ DOMAIN vert = D /\ edges = [e \in D |-> 0] /\ tours = {<<e>> : e \in D}
      /\ any = f /\ anyRoot = Nil /\ DOMAIN handle = {} /\ handle \in [{} -> D \X D]
  BY DEF TourInit
<1>3. /\ V \in [D -> Vertices] /\ \A v \in Vertices : f[v] \in D /\ V[f[v]] = v
      /\ \A e \in D : f[V[e]] = e
  BY <1>1
<1>4. Typed(D, V, edges, any, anyRoot, handle) /\ Owned(D, V, edges, any)
  BY <1>1, <1>2, <1>3, EulerTourAssumption DEF Typed, Owned
<1>5. \A e \in D : /\ IsTour(<<e>>, D, V, handle) /\ Complete(<<e>>, handle)
                   /\ ToSeqSet(<<e>>) = {e} /\ Len(<<e>>) = 1
  BY <1>2, SingleTour
<1>6. Well(D, V, handle, tours)
  <2>1. Handles(D, V, handle)
    BY <1>2 DEF Handles
  <2>2. \A s \in tours : IsTour(s, D, V, handle) /\ Complete(s, handle)
    BY <1>2, <1>5
  <2>3. \A e \in D : \E s \in tours : e \in ToSeqSet(s)
    <3>. SUFFICES ASSUME NEW e \in D PROVE \E s \in tours : e \in ToSeqSet(s)
      OBVIOUS
    <3>1. <<e>> \in tours
      BY <1>2
    <3>2. ToSeqSet(<<e>>) = {e}
      BY <1>5
    <3>. QED
      BY <3>1, <3>2
  <2>4. \A s, t \in tours : ToSeqSet(s) \cap ToSeqSet(t) # {} => s = t
    <3>. SUFFICES ASSUME NEW s \in tours, NEW t \in tours, ToSeqSet(s) \cap ToSeqSet(t) # {}
                  PROVE  s = t
      OBVIOUS
    <3>1. PICK e \in D : s = <<e>>
      BY <1>2
    <3>2. PICK g \in D : t = <<g>>
      BY <1>2
    <3>3. ToSeqSet(s) = {e} /\ ToSeqSet(t) = {g}
      BY <1>5, <3>1, <3>2
    <3>. QED
      BY <3>1, <3>2, <3>3
  <2>5. ASSUME NEW s \in tours, NEW e \in D, NEW g \in D, V[e] = V[g], e \in ToSeqSet(s)
        PROVE  g \in ToSeqSet(s)
    <3>1. e = g
      BY <1>3, <2>5
    <3>. QED
      BY <2>5, <3>1
  <2>. QED
    BY <2>1, <2>2, <2>3, <2>4, <2>5, Zenon DEF Well
<1>7. Room(D, tours)
  <2>1. IsFiniteSet(Vertices) /\ Cardinality(Vertices) \in Nat
    BY VerticesAssumption, FS_CardinalityType
  <2>2. IsFiniteSet(D) /\ Cardinality(D) = Cardinality(Vertices)
    <3>1. f \in [Vertices -> D] /\ \A t \in D : \E a \in Vertices : f[a] = t
      BY <1>1
    <3>. QED
      BY <1>1, <2>1, <3>1, SameSize
  <2>3. IsFiniteSet(tours) /\ Cardinality(tours) = Cardinality(D)
    <3>1. PICK g : g = [e \in D |-> <<e>>]
      OBVIOUS
    <3>2. /\ g \in [D -> tours] /\ \A t \in tours : \E a \in D : g[a] = t
          /\ \A a, b \in D : g[a] = g[b] => a = b
      BY <1>2, <3>1
    <3>. QED
      BY <2>2, <3>2, SameSize
  <2>4. Longer(tours) = {}
    BY <1>2, <1>5 DEF Longer
  <2>5. Cardinality(Longer(tours)) = 0
    BY <2>4, FS_EmptySet
  <2>. QED
    BY <2>1, <2>2, <2>3, <2>5 DEF Room
<1>. QED
  BY <1>2, <1>4, <1>6, <1>7 DEF TourInv

\* The forest stays what the invariant says.
LEMMA TourStep ==
  ASSUME TourInv, [TourNext]_tourVars
  PROVE  TourInv'
<1>1. CASE UNCHANGED tourVars
  BY <1>1 DEF TourInv, tourVars, Typed, Owned, Nil
<1>2. CASE \E u, v \in Vertices : Link(u, v)
  BY <1>2, LinkKeeps
<1>3. CASE \E x \in AllEdges : Cut(x)
  BY <1>3, CutKeeps
<1>4. CASE \E v \in Vertices : Increment(v) \/ Decrement(v)
  BY <1>4, CountKeeps
<1>. QED
  BY <1>1, <1>2, <1>3, <1>4 DEF TourNext

LEMMA TourAlways == TourSpec => []TourInv
<1>1. TourInit => TourInv
  BY TourInitInv
<1>2. TourInv /\ [TourNext]_tourVars => TourInv'
  BY TourStep
<1>. QED
  BY <1>1, <1>2, PTL DEF TourSpec

------------------------------------------------------------------------------
(* What the tours are to a caller. *)

\* The trees, as the entries of the vertices lead to them.
LEMMA TreesAre ==
  ASSUME TourInv, NEW v \in Vertices, NEW s, s = TourOf(any[v])
  PROVE  /\ s \in tours /\ any[v] \in ToSeqSet(s) /\ vert[any[v]] = v
         /\ Component(DOMAIN handle, v) = Visits(s, vert)
<1>1. /\ Well(DOMAIN vert, vert, handle, tours) /\ any[v] \in DOMAIN vert /\ vert[any[v]] = v
      /\ \A e \in DOMAIN vert : vert[e] \in Vertices
      /\ DOMAIN handle \subseteq AllEdges
  BY DEF TourInv, Typed
<1>2. s \in tours /\ any[v] \in ToSeqSet(s)
  BY <1>1, TourOfEntry
<1>3. PICK D, V, H, T : D = DOMAIN vert /\ V = vert /\ H = handle /\ T = tours
  OBVIOUS
<1>4. PICK e : e = any[v]
  OBVIOUS
<1>5. /\ Well(D, V, H, T) /\ \A f \in D : V[f] \in Vertices
      /\ DOMAIN H \subseteq AllEdges /\ s \in T /\ e \in ToSeqSet(s) /\ v = V[e]
  BY <1>1, <1>2, <1>3, <1>4
<1>6. Component(DOMAIN H, v) = {V[f] : f \in ToSeqSet(s)}
  BY ONLY <1>5, TourComponent
<1>. QED
  BY <1>1, <1>2, <1>3, <1>6 DEF Visits

\* No edge joins vertices that are connected without it.
LEMMA ToursAcyclic ==
  ASSUME NEW D, NEW V \in [D -> Vertices], NEW H, NEW T, Well(D, V, H, T),
         DOMAIN H \subseteq AllEdges
  PROVE  Acyclic(DOMAIN H)
<1>. SUFFICES ASSUME NEW x \in DOMAIN H
              PROVE  x[2] \notin Component(DOMAIN H \ {x}, x[1])
  BY DEF Acyclic
<1>1. Handles(D, V, H) /\ \A s \in T : IsTour(s, D, V, H) /\ Complete(s, H)
  BY DEF Well
<1>2. PICK s \in T : H[x][1] \in ToSeqSet(s)
  <2>1. H[x][1] \in D
    BY <1>1 DEF Handles, Crossing
  <2>. QED
    BY <2>1 DEF Well
<1>3. IsTour(s, D, V, H) /\ Complete(s, H)
  BY <1>1
<1>4. PICK p, q : CutAt(s, H, x, p, q)
  <2>1. Crossing(H, x) \cap ToSeqSet(s) # {}
    BY <1>2 DEF Crossing
  <2>. QED
    BY <1>1, <1>3, <2>1, CutPlaces
<1>5. PICK o, r, E, W, G :
        /\ o = OuterTour(s, p, q) /\ r = InnerTour(s, p, q)
        /\ E = D \ Freed(s, p, q) /\ W = Kept(V, E) /\ G = Uncrossed(H, x)
  OBVIOUS
<1>6. Well(E, W, G, Halved(T, s, o, r)) /\ Parted(s, p, q, o, r)
  <2>1. Agree(E, W, V)
    BY <1>5 DEF Kept, Agree
  <2>2. /\ Well(D, V, H, T) /\ s \in T /\ x \in DOMAIN H /\ CutAt(s, H, x, p, q)
        /\ E = D \ Freed(s, p, q) /\ G = Uncrossed(H, x)
        /\ o = OuterTour(s, p, q) /\ r = InnerTour(s, p, q)
    BY <1>4, <1>5
  <2>. QED
    BY ONLY <2>1, <2>2, WellCut
<1>7. /\ ToSeqSet(s) = Outside(s, p, q) \cup Within(s, p, q)
      /\ Outside(s, p, q) \cap Within(s, p, q) = {}
      /\ s[p] \in Outside(s, p, q) /\ s[q] \in Within(s, p, q)
      /\ \A e \in Outside(s, p, q), f \in Within(s, p, q) : V[e] # V[f]
  BY <1>1, <1>3, <1>4, Sides
<1>8. /\ ~(p = 1 /\ q = Len(s)) => StandIn(D, V, s[p], OuterStandIn(s, p, q), s[q])
      /\ q # p + 1 => StandIn(D, V, s[q], InnerStandIn(s, p, q), s[p])
      /\ s[p] \in D /\ s[q] \in D /\ s[p] # s[q] /\ V[s[p]] # V[s[q]]
  BY <1>1, <1>3, <1>4, StandIns
<1>9. /\ ToSeqSet(o) = Outside(s, p, q) \ Freed(s, p, q)
      /\ ToSeqSet(r) = Within(s, p, q) \ Freed(s, p, q)
  BY <1>6 DEF Parted
<1>10. \A e \in D : e \in ToSeqSet(s) <=> \E f \in ToSeqSet(s) : V[f] = V[e]
  <2>1. ToSeqSet(s) \subseteq D
    BY <1>3 DEF IsTour, ToSeqSet
  <2>2. \A e, f \in D : V[e] = V[f] /\ e \in ToSeqSet(s) => f \in ToSeqSet(s)
    BY DEF Well
  <2>. QED
    BY <2>1, <2>2
<1>11. \E e \in ToSeqSet(o) : V[e] = V[s[p]]
  <2>1. CASE p = 1 /\ q = Len(s)
    <3>1. s[p] \notin Freed(s, p, q)
      BY <1>8, <2>1 DEF Freed
    <3>. QED
      BY <1>7, <1>9, <3>1
  <2>2. CASE ~(p = 1 /\ q = Len(s))
    <3>1. PICK g : g = OuterStandIn(s, p, q)
      OBVIOUS
    <3>2. g \in D /\ g # s[p] /\ g # s[q] /\ V[g] = V[s[p]]
      BY <1>8, <2>2, <3>1 DEF StandIn
    <3>3. g \in ToSeqSet(s) /\ g \notin Within(s, p, q)
      BY <1>7, <1>10, <3>2
    <3>4. g \in Outside(s, p, q) /\ g \notin Freed(s, p, q)
      BY <1>7, <3>2, <3>3 DEF Freed
    <3>. QED
      BY <1>9, <3>2, <3>4
  <2>. QED
    BY <2>1, <2>2
<1>12. \E e \in ToSeqSet(r) : V[e] = V[s[q]]
  <2>1. CASE q = p + 1
    <3>1. s[q] \notin Freed(s, p, q)
      BY <1>8, <2>1 DEF Freed
    <3>. QED
      BY <1>7, <1>9, <3>1
  <2>2. CASE q # p + 1
    <3>1. PICK g : g = InnerStandIn(s, p, q)
      OBVIOUS
    <3>2. g \in D /\ g # s[p] /\ g # s[q] /\ V[g] = V[s[q]]
      BY <1>8, <2>2, <3>1 DEF StandIn
    <3>3. g \in ToSeqSet(s) /\ g \notin Outside(s, p, q)
      BY <1>7, <1>10, <3>2
    <3>4. g \in Within(s, p, q) /\ g \notin Freed(s, p, q)
      BY <1>7, <3>2, <3>3 DEF Freed
    <3>. QED
      BY <1>9, <3>2, <3>4
  <2>. QED
    BY <2>1, <2>2
<1>13. DOMAIN G = DOMAIN H \ {x} /\ DOMAIN G \subseteq AllEdges
  BY <1>5 DEF Uncrossed
<1>14. \A e \in E : W[e] = V[e] /\ W[e] \in Vertices
  BY <1>5 DEF Kept
<1>15. o \in Halved(T, s, o, r) /\ r \in Halved(T, s, o, r)
  BY DEF Halved
<1>16. ToSeqSet(o) \subseteq E /\ ToSeqSet(r) \subseteq E
  <2>1. IsTour(o, E, W, G) /\ IsTour(r, E, W, G)
    BY <1>6, <1>15 DEF Well
  <2>. QED
    BY <2>1 DEF IsTour, ToSeqSet
<1>17. ASSUME NEW t \in {o, r}, NEW e \in ToSeqSet(t)
       PROVE  Component(DOMAIN G, W[e]) = {W[f] : f \in ToSeqSet(t)}
  <2>1. PICK U : U = Halved(T, s, o, r)
    OBVIOUS
  <2>2. PICK v : v = W[e]
    OBVIOUS
  <2>3. /\ Well(E, W, G, U) /\ \A f \in E : W[f] \in Vertices
        /\ DOMAIN G \subseteq AllEdges /\ t \in U /\ e \in ToSeqSet(t) /\ v = W[e]
    BY <1>6, <1>13, <1>14, <1>15, <2>1, <2>2
  <2>4. Component(DOMAIN G, v) = {W[f] : f \in ToSeqSet(t)}
    BY ONLY <2>3, TourComponent
  <2>. QED
    BY <2>2, <2>4
<1>18. Component(DOMAIN H \ {x}, V[s[p]]) = {W[f] : f \in ToSeqSet(o)}
  <2>1. PICK e \in ToSeqSet(o) : V[e] = V[s[p]]
    BY <1>11
  <2>2. W[e] = V[s[p]]
    BY <1>14, <1>16, <2>1
  <2>. QED
    BY <1>13, <1>17, <2>1, <2>2
<1>19. Component(DOMAIN H \ {x}, V[s[q]]) = {W[f] : f \in ToSeqSet(r)}
  <2>1. PICK e \in ToSeqSet(r) : V[e] = V[s[q]]
    BY <1>12
  <2>2. W[e] = V[s[q]]
    BY <1>14, <1>16, <2>1
  <2>. QED
    BY <1>13, <1>17, <2>1, <2>2
<1>20. V[s[q]] \notin {W[f] : f \in ToSeqSet(o)} /\ V[s[p]] \notin {W[f] : f \in ToSeqSet(r)}
  BY <1>7, <1>9, <1>14, <1>16
<1>21. {V[s[p]], V[s[q]]} = {x[1], x[2]} /\ x[1] # x[2]
  <2>1. {V[H[x][1]], V[H[x][2]]} = {x[1], x[2]} /\ x[1] # x[2]
    BY <1>1 DEF Handles
  <2>2. {H[x][1], H[x][2]} = {s[p], s[q]}
    BY <1>4 DEF CutAt, Crossing
  <2>. QED
    BY <2>1, <2>2
<1>. QED
  BY <1>18, <1>19, <1>20, <1>21

\* In every state the tours, counters and answers are right.
LEMMA SoundTours ==
  ASSUME TourInv
  PROVE  ToursSound
<1>. PICK D, V, H, T : D = DOMAIN vert /\ V = vert /\ H = handle /\ T = tours
  OBVIOUS
<1>1. /\ D \subseteq Entries /\ V \in [D -> Vertices] /\ edges \in [D -> 0 .. MaxCount]
      /\ any \in [Vertices -> D] /\ \A v \in Vertices : V[any[v]] = v
      /\ anyRoot \in D \cup {Nil} /\ DOMAIN H \subseteq AllEdges /\ H \in [DOMAIN H -> D \X D]
      /\ Well(D, V, H, T)
  BY DEF TourInv, Typed
<1>2. /\ Handles(D, V, H) /\ \A s \in T : IsTour(s, D, V, H) /\ Complete(s, H)
  BY <1>1 DEF Well
<1>3. TourTypeOK
  <2>1. \A s \in T : s \in Seq(D)
    BY <1>2 DEF IsTour
  <2>. QED
    BY <1>1, <2>1 DEF TourTypeOK
<1>4. PointersSound
  <2>1. \A v \in Vertices : any[v] \in DOMAIN vert /\ vert[any[v]] = v
    BY <1>1
  <2>2. ASSUME NEW x \in DOMAIN H
        PROVE  ToSeqSet(H[x]) = Crossing(H, x) /\ H[x][1] \in D /\ H[x][2] \in D
    <3>1. H[x] \in D \X D
      BY <1>1
    <3>2. PICK a \in D, b \in D : H[x] = <<a, b>>
      BY <3>1
    <3>3. DOMAIN H[x] = {1, 2} /\ H[x][1] = a /\ H[x][2] = b
      BY <3>2
    <3>. QED
      BY <3>3 DEF ToSeqSet, Crossing
  <2>3. ASSUME NEW x \in DOMAIN H
        PROVE  /\ \A i \in 1 .. 2 : H[x][i] \in D
               /\ {V[H[x][1]], V[H[x][2]]} = {x[1], x[2]}
               /\ \A y \in DOMAIN H : ToSeqSet(H[x]) \cap ToSeqSet(H[y]) # {} => x = y
    <3>1. \A i \in 1 .. 2 : i = 1 \/ i = 2
      OBVIOUS
    <3>2. \A i \in 1 .. 2 : H[x][i] \in D
      BY <2>2, <3>1
    <3>3. {V[H[x][1]], V[H[x][2]]} = {x[1], x[2]}
      BY <1>2 DEF Handles
    <3>4. \A y \in DOMAIN H : Crossing(H, x) \cap Crossing(H, y) # {} => x = y
      BY <1>2 DEF Handles
    <3>. QED
      BY <2>2, <3>2, <3>3, <3>4
  <2>4. ASSUME NEW e \in D PROVE Cardinality({s \in T : e \in ToSeqSet(s)}) = 1
    <3>1. PICK s \in T : e \in ToSeqSet(s)
      BY <1>1 DEF Well
    <3>2. \A z \in T : e \in ToSeqSet(z) => z = s
      BY <1>1, <3>1 DEF Well
    <3>3. {z \in T : e \in ToSeqSet(z)} = {s}
      BY <3>1, <3>2
    <3>4. Cardinality({s}) = 1
      BY FS_Singleton
    <3>. QED
      BY <3>3, <3>4
  <2>. QED
    BY <2>1, <2>3, <2>4 DEF PointersSound
<1>5. ToursCross
  <2>. SUFFICES ASSUME NEW s \in tours, Len(s) > 1
                PROVE  /\ \A i \in DOMAIN s :
                            \E x \in DOMAIN handle :
                              /\ s[i] \in ToSeqSet(handle[x])
                              /\ {vert[s[i]], vert[s[IF i = Len(s) THEN 1 ELSE i + 1]]} = {x[1], x[2]}
                       /\ Len(s) = 2 * Cardinality({x \in DOMAIN handle : handle[x][1] \in ToSeqSet(s)})
    BY Zenon DEF ToursCross
  <2>1. IsTour(s, D, V, H) /\ Complete(s, H)
    BY <1>2
  <2>2. DOMAIN s = 1 .. Len(s) /\ Len(s) \in Nat /\ Len(s) # 1
    BY <2>1 DEF IsTour
  <2>3. ASSUME NEW i \in DOMAIN s
        PROVE  \E x \in DOMAIN H : /\ s[i] \in ToSeqSet(H[x])
                                   /\ {V[s[i]], V[s[After(Len(s), i)]]} = {x[1], x[2]}
    <3>1. PICK x \in DOMAIN H : /\ s[i] \in Crossing(H, x)
                                /\ {V[s[i]], V[s[After(Len(s), i)]]} = {x[1], x[2]}
      BY <2>1, <2>2 DEF IsTour, Crossed
    <3>2. PICK a \in D, b \in D : H[x] = <<a, b>>
      BY <1>1
    <3>3. DOMAIN H[x] = {1, 2} /\ s[i] \in {H[x][1], H[x][2]}
      BY <3>1, <3>2 DEF Crossing
    <3>4. s[i] \in ToSeqSet(H[x])
      BY <3>3 DEF ToSeqSet
    <3>. QED
      BY <3>1, <3>4
  <2>4. Len(s) = 2 * Cardinality(Crosses(s, H))
    BY ONLY <1>2, <2>1, <2>2, EdgesHalve
  <2>. QED
    BY <2>3, <2>4 DEF After, Crosses
<1>. QED
  BY <1>3, <1>4, <1>5 DEF ToursSound

\* The vertices of a tour are counted by its length.
LEMMA VisitsCounted ==
  ASSUME TourInv, NEW s \in tours
  PROVE  /\ Visits(s, vert) \subseteq Vertices /\ IsFiniteSet(Visits(s, vert))
         /\ Len(s) \in Nat /\ Len(s) >= 1
         /\ Len(s) = 1 => Cardinality(Visits(s, vert)) = 1
         /\ Len(s) # 1 => Len(s) = 2 * (Cardinality(Visits(s, vert)) - 1)
<1>. PICK D, V, H : D = DOMAIN vert /\ V = vert /\ H = handle
  OBVIOUS
<1>1. V \in [D -> Vertices] /\ Well(D, V, H, tours)
  BY DEF TourInv, Typed
<1>2. IsTour(s, D, V, H) /\ Complete(s, H) /\ Handles(D, V, H)
  BY <1>1 DEF Well
<1>3. s \in Seq(D) /\ Len(s) \in Nat /\ Len(s) >= 1 /\ DOMAIN s = 1 .. Len(s)
  BY <1>2 DEF IsTour
<1>4. Visits(s, V) \subseteq Vertices
  BY <1>1, <1>3 DEF Visits, ToSeqSet
<1>5. IsFiniteSet(Visits(s, V))
  BY <1>4, VerticesAssumption, FS_Subset
<1>6. ASSUME Len(s) = 1 PROVE Cardinality(Visits(s, V)) = 1
  <2>1. ToSeqSet(s) = {s[1]}
    BY <1>3, <1>6 DEF ToSeqSet
  <2>2. Visits(s, V) = {V[s[1]]}
    BY <2>1 DEF Visits
  <2>3. Cardinality({V[s[1]]}) = 1
    BY FS_Singleton
  <2>. QED
    BY <2>2, <2>3
<1>7. ASSUME Len(s) # 1 PROVE Len(s) = 2 * (Cardinality(Visits(s, V)) - 1)
  <2>1. PICK X, S : X = Crosses(s, H) /\ S = Visits(s, V)
    OBVIOUS
  <2>2. IsFiniteSet(X) /\ Len(s) = 2 * Cardinality(X)
    BY <1>2, <1>7, <2>1, EdgesHalve
  <2>3. Cardinality(S) = Cardinality(X) + 1
    BY <1>2, <1>7, <2>1, VerticesExceed
  <2>4. Cardinality(X) \in Nat
    BY <2>2, FS_CardinalityType
  <2>. QED
    BY <2>1, <2>2, <2>3, <2>4
<1>. QED
  BY <1>3, <1>4, <1>5, <1>6, <1>7

LEMMA RightAnswers ==
  ASSUME TourInv
  PROVE  AnswersRight
<1>. SUFFICES ASSUME NEW u \in Vertices
              PROVE  LET comp == Component(DOMAIN handle, u) IN
                       /\ \A v \in Vertices : TourConnects(u, v) <=> v \in comp
                       /\ ComponentSize(u) = Cardinality(comp)
  BY DEF AnswersRight
<1>. PICK s : s = TourOf(any[u])
  OBVIOUS
<1>. PICK C : C = Component(DOMAIN handle, u)
  OBVIOUS
<1>1. s \in tours /\ any[u] \in ToSeqSet(s) /\ vert[any[u]] = u /\ C = Visits(s, vert)
  BY TreesAre
<1>2. /\ Well(DOMAIN vert, vert, handle, tours)
      /\ \A v \in Vertices : any[v] \in DOMAIN vert /\ vert[any[v]] = v
      /\ \A e \in DOMAIN vert : vert[e] \in Vertices /\ (edges[e] > 0 => any[vert[e]] = e)
      /\ anyRoot \in DOMAIN vert \cup {Nil}
  BY DEF TourInv, Typed, Owned
<1>3. IsFiniteSet(Vertices) /\ Cardinality(Vertices) \in Nat
  BY VerticesAssumption, FS_CardinalityType
<1>4. ToSeqSet(s) \subseteq DOMAIN vert
  <2>1. IsTour(s, DOMAIN vert, vert, handle)
    BY <1>1, <1>2 DEF Well
  <2>. QED
    BY <2>1 DEF IsTour, ToSeqSet
<1>5. \A v \in Vertices : v \in C <=> any[v] \in ToSeqSet(s)
  <2>1. \A e, f \in DOMAIN vert : vert[e] = vert[f] /\ e \in ToSeqSet(s) => f \in ToSeqSet(s)
    BY <1>1, <1>2 DEF Well
  <2>. QED
    BY <1>1, <1>2, <1>4, <2>1 DEF Visits
<1>6. \A v \in Vertices : TourOf(any[u]) = TourOf(any[v]) <=> v \in C
  <2>. SUFFICES ASSUME NEW v \in Vertices PROVE s = TourOf(any[v]) <=> v \in C
    OBVIOUS
  <2>1. any[v] \in ToSeqSet(TourOf(any[v]))
    BY TreesAre
  <2>2. any[v] \in ToSeqSet(s) => TourOf(any[v]) = s
    BY <1>1, <1>2, TourOfEntry
  <2>. QED
    BY <1>5, <2>1, <2>2
<1>7. ASSUME SpansAll PROVE C = Vertices
  <2>1. anyRoot \in DOMAIN vert
    BY <1>2, <1>7 DEF SpansAll
  <2>2. PICK z : z = TourOf(anyRoot)
    OBVIOUS
  <2>3. z \in tours
    BY <1>2, <2>1, <2>2, TourOfEntry
  <2>4. Len(z) = 2 * (Cardinality(Vertices) - 1)
    BY <1>7, <2>2 DEF SpansAll
  <2>5. /\ Visits(z, vert) \subseteq Vertices /\ IsFiniteSet(Visits(z, vert))
        /\ Len(z) \in Nat
        /\ Len(z) # 1 => Len(z) = 2 * (Cardinality(Visits(z, vert)) - 1)
    BY <2>3, VisitsCounted
  <2>6. Cardinality(Visits(z, vert)) \in Nat
    BY <2>5, FS_CardinalityType
  <2>7. Len(z) # 1
    BY <1>3, <2>4
  <2>8. Cardinality(Visits(z, vert)) = Cardinality(Vertices)
    BY <1>3, <2>4, <2>5, <2>6, <2>7
  <2>9. Visits(z, vert) = Vertices
    BY <1>3, <2>5, <2>8, FS_Subset
  <2>10. \A v \in Vertices : any[v] \in ToSeqSet(z)
    <3>1. ToSeqSet(z) \subseteq DOMAIN vert
      <4>1. IsTour(z, DOMAIN vert, vert, handle)
        BY <1>2, <2>3 DEF Well
      <4>. QED
        BY <4>1 DEF IsTour, ToSeqSet
    <3>2. \A e, f \in DOMAIN vert : vert[e] = vert[f] /\ e \in ToSeqSet(z) => f \in ToSeqSet(z)
      BY <1>2, <2>3 DEF Well
    <3>. QED
      BY <1>2, <2>9, <3>1, <3>2 DEF Visits
  <2>11. z = s
    BY <1>1, <1>2, <2>3, <2>10 DEF Well
  <2>. QED
    BY <1>1, <2>9, <2>11
<1>8. \A v \in Vertices : TourConnects(u, v) <=> v \in C
  BY <1>6, <1>7 DEF TourConnects
<1>9. ComponentSize(u) = Cardinality(C)
  <2>1. /\ IsFiniteSet(C) /\ Len(s) \in Nat /\ Len(s) >= 1
        /\ Len(s) = 1 => Cardinality(C) = 1
        /\ Len(s) # 1 => Len(s) = 2 * (Cardinality(C) - 1)
    BY <1>1, VisitsCounted
  <2>2. Cardinality(C) \in Nat
    BY <2>1, FS_CardinalityType
  <2>3. ComponentSize(u) = IF Len(s) = 1 THEN 1 ELSE Len(s) \div 2 + 1
    BY DEF ComponentSize
  <2>4. CASE Len(s) = 1
    BY <2>1, <2>3, <2>4
  <2>5. CASE Len(s) # 1
    <3>1. Len(s) \div 2 = Cardinality(C) - 1
      BY <2>1, <2>2, <2>5
    <3>. QED
      BY <2>2, <2>3, <2>5, <3>1
  <2>. QED
    BY <2>4, <2>5
<1>. QED
  BY <1>8, <1>9

\* The iterator meets the entries with a counter of its tour, and perhaps the
\* first one; those with a counter are the own entries of their vertices.
LEMMA WalkCovers ==
  ASSUME TourInv
  PROVE  IterationCovers
<1>. SUFFICES ASSUME NEW u \in Vertices, NEW reach \in DOMAIN TourOf(any[u])
              PROVE  LET s    == TourOf(any[u])
                         comp == Component(DOMAIN handle, u)
                         own  == {any[v] : v \in {w \in comp : edges[any[w]] > 0}}
                         met  == {s[i] : i \in Stops(s, reach)}
                     IN  /\ own \subseteq met
                         /\ met \ own \subseteq {s[1]}
                         /\ \A e \in met : vert[e] \in comp
  BY Zenon DEF IterationCovers
<1>. PICK s : s = TourOf(any[u])
  OBVIOUS
<1>. PICK C : C = Component(DOMAIN handle, u)
  OBVIOUS
<1>. PICK own : own = {any[v] : v \in {w \in C : edges[any[w]] > 0}}
  OBVIOUS
<1>. PICK met : met = {s[i] : i \in Stops(s, reach)}
  OBVIOUS
<1>. reach \in DOMAIN s
  OBVIOUS
<1>1. s \in tours /\ C = Visits(s, vert) /\ C \subseteq Vertices
  <2>1. s \in tours /\ C = Visits(s, vert)
    BY TreesAre
  <2>. QED
    BY <2>1, VisitsCounted
<1>2. /\ Well(DOMAIN vert, vert, handle, tours)
      /\ \A v \in Vertices : any[v] \in DOMAIN vert /\ vert[any[v]] = v
      /\ \A e \in DOMAIN vert : vert[e] \in Vertices /\ (edges[e] > 0 => any[vert[e]] = e)
  BY DEF TourInv, Typed, Owned
<1>3. /\ \A i \in DOMAIN s : s[i] \in DOMAIN vert
      /\ DOMAIN s = 1 .. Len(s) /\ Len(s) \in Nat
  <2>1. IsTour(s, DOMAIN vert, vert, handle)
    BY <1>1, <1>2 DEF Well
  <2>. QED
    BY <2>1 DEF IsTour
<1>4. 1 \in DOMAIN s
  BY ONLY <1>3, reach \in DOMAIN s
<1>5. \A v \in C : \E i \in DOMAIN s : s[i] = any[v]
  <2>1. \A e, f \in DOMAIN vert : vert[e] = vert[f] /\ e \in ToSeqSet(s) => f \in ToSeqSet(s)
    BY <1>1, <1>2 DEF Well
  <2>2. ASSUME NEW v \in C PROVE any[v] \in ToSeqSet(s)
    <3>1. PICK e \in ToSeqSet(s) : v = vert[e]
      BY <1>1 DEF Visits
    <3>2. e \in DOMAIN vert /\ any[v] \in DOMAIN vert /\ vert[any[v]] = v
      BY <1>1, <1>2, <1>3 DEF ToSeqSet
    <3>. QED
      BY ONLY <2>1, <3>1, <3>2
  <2>. QED
    BY <2>2 DEF ToSeqSet
<1>6. \A i \in DOMAIN s : vert[s[i]] \in C
  BY <1>1 DEF Visits, ToSeqSet
<1>7. /\ \A i \in DOMAIN s : edges[s[i]] > 0 => i \in Stops(s, reach)
      /\ \A i \in Stops(s, reach) : i \in DOMAIN s /\ (edges[s[i]] > 0 \/ i = 1)
  BY <1>4 DEF Stops, Counted
<1>8. own \subseteq met
  BY <1>5, <1>7
<1>9. ASSUME NEW i \in Stops(s, reach), i # 1 PROVE s[i] \in own
  <2>1. i \in DOMAIN s /\ edges[s[i]] > 0
    BY <1>7, <1>9
  <2>2. vert[s[i]] \in C /\ any[vert[s[i]]] = s[i]
    BY <1>2, <1>3, <1>6, <2>1
  <2>. QED
    BY <2>1, <2>2
<1>10. met \ own \subseteq {s[1]}
  BY <1>9
<1>11. \A e \in met : vert[e] \in C
  BY <1>6, <1>7
<1>. QED
  BY <1>8, <1>10, <1>11

------------------------------------------------------------------------------
(* The tours implement the forest of vertex sets. *)

TreeVertices(T, V, A) ==
  [v \in Vertices |-> {V[e] : e \in ToSeqSet(CHOOSE s \in T : A[v] \in ToSeqSet(s))}]

LEMMA TourVisits ==
  ASSUME NEW D, NEW V, NEW H, NEW T, Well(D, V, H, T), \A e \in D : V[e] \in Vertices,
         DOMAIN H \subseteq AllEdges, NEW s \in T, NEW e \in ToSeqSet(s), NEW v, v = V[e]
  PROVE  Component(DOMAIN H, v) = Visits(s, V)
BY TourComponent DEF Visits

LEMMA TreeVerticesAre ==
  ASSUME NEW D, NEW V \in [D -> Vertices], NEW H, NEW T, Well(D, V, H, T),
         DOMAIN H \subseteq AllEdges, NEW A \in [Vertices -> D], \A v \in Vertices : V[A[v]] = v
  PROVE  TreeVertices(T, V, A) = Components(DOMAIN H)
<1>1. ASSUME NEW v \in Vertices
      PROVE  {V[e] : e \in ToSeqSet(CHOOSE s \in T : A[v] \in ToSeqSet(s))} = Component(DOMAIN H, v)
  <2>1. PICK s : s = CHOOSE z \in T : A[v] \in ToSeqSet(z)
    OBVIOUS
  <2>2. s \in T /\ A[v] \in ToSeqSet(s)
    <3>1. A[v] \in D
      OBVIOUS
    <3>2. \E z \in T : A[v] \in ToSeqSet(z)
      BY <3>1 DEF Well
    <3>. QED
      BY <2>1, <3>2
  <2>3. PICK e : e = A[v]
    OBVIOUS
  <2>4. /\ Well(D, V, H, T) /\ \A f \in D : V[f] \in Vertices
        /\ DOMAIN H \subseteq AllEdges /\ s \in T /\ e \in ToSeqSet(s) /\ v = V[e]
    BY <2>2, <2>3
  <2>5. Component(DOMAIN H, v) = Visits(s, V)
    BY ONLY <2>4, TourVisits
  <2>. QED
    BY <2>1, <2>5 DEF Visits
<1>. QED
  BY <1>1 DEF TreeVertices, Components

\* What the forest of vertex sets sees of the tours.
Seen(D, V, cnt, A, H, T) ==
  /\ V \in [D -> Vertices] /\ cnt \in [D -> 0 .. MaxCount]
  /\ A \in [Vertices -> D] /\ \A v \in Vertices : V[A[v]] = v
  /\ DOMAIN H \in SUBSET AllEdges /\ Acyclic(DOMAIN H)
  /\ TreeVertices(T, V, A) = Components(DOMAIN H)

LEMMA TreesSeen ==
  ASSUME NEW D, NEW V, NEW cnt, NEW A, NEW root, NEW H, NEW T,
         Typed(D, V, cnt, A, root, H), Well(D, V, H, T)
  PROVE  Seen(D, V, cnt, A, H, T)
<1>1. /\ V \in [D -> Vertices] /\ cnt \in [D -> 0 .. MaxCount]
      /\ A \in [Vertices -> D] /\ \A v \in Vertices : V[A[v]] = v
      /\ DOMAIN H \subseteq AllEdges
  BY DEF Typed
<1>2. Acyclic(DOMAIN H)
  BY <1>1, ToursAcyclic
<1>3. TreeVertices(T, V, A) = Components(DOMAIN H)
  BY <1>1, TreeVerticesAre
<1>. QED
  BY <1>1, <1>2, <1>3 DEF Seen

LEMMA SeenNow ==
  TourInv => Seen(DOMAIN vert, vert, edges, any, handle, tours)
BY TreesSeen DEF TourInv

LEMMA SeenNext ==
  TourInv' => Seen(DOMAIN vert', vert', edges', any', handle', tours')
BY TreesSeen DEF TourInv

LEMMA ShownTrees ==
  [v \in Vertices |-> VerticesOf(TourOf(any[v]))] = TreeVertices(tours, vert, any)
BY DEF VerticesOf, TourOf, TreeVertices

LEMMA ShownTreesNext ==
  [v \in Vertices |-> VerticesOf(TourOf(any[v]))]' = TreeVertices(tours', vert', any')
BY DEF VerticesOf, TourOf, TreeVertices

\* The instance speaks of the same edges and trees.
LEMMA SameTerms ==
  /\ Forest!AllEdges = AllEdges
  /\ \A t, u, v : Forest!Linked(t, u, v) = Linked(t, u, v)
  /\ \A t, E, e : Forest!CutTree(t, E, e) = CutTree(t, E, e)
<1>1. Forest!AllEdges = AllEdges
  BY DEF Forest!AllEdges, AllEdges
<1>2. \A t, u, v : Forest!Linked(t, u, v) = Linked(t, u, v)
  BY DEF Forest!Linked, Linked
<1>3. \A t, E, e : Forest!CutTree(t, E, e) = CutTree(t, E, e)
  BY DEF Forest!CutTree, CutTree, Forest!Half, Half, Forest!Closed, Closed
<1>. QED
  BY <1>1, <1>2, <1>3

LEMMA LinkRefines ==
  ASSUME TourInv, TourInv', NEW v \in Vertices, NEW u \in Vertices, Link(v, u)
  PROVE  \E e \in Forest!AllEdges : Forest!Link(e)
<1>. PICK E : E = DOMAIN handle
  OBVIOUS
<1>. PICK x : x = IF v < u THEN <<v, u>> ELSE <<u, v>>
  OBVIOUS
<1>1. /\ \A w \in Vertices : any[w] \in DOMAIN vert
      /\ E \in SUBSET AllEdges
      /\ TreeVertices(tours, vert, any) = Components(E)
  BY SeenNow DEF Seen
<1>2. TreeVertices(tours', vert', any') = Components(DOMAIN handle')
  BY SeenNext DEF Seen
<1>3. TourOf(any[v]) # TourOf(any[u])
  BY DEF Link
<1>4. x \in AllEdges /\ {x[1], x[2]} = {v, u}
  BY <1>3, VerticesAssumption DEF AllEdges
<1>5. DOMAIN handle' = E \cup {x}
  BY DEF Link
<1>6. /\ any' = any /\ \A e \in DOMAIN vert : edges'[e] = edges[e]
  BY DEF Link
<1>7. ASSUME NEW w \in Vertices, NEW z \in Vertices, TourOf(any[w]) # TourOf(any[z])
      PROVE  z \notin Components(E)[w]
  <2>1. /\ TourOf(any[w]) \in tours
        /\ Component(E, w) = Visits(TourOf(any[w]), vert)
    BY TreesAre
  <2>2. TourOf(any[z]) \in tours /\ any[z] \in ToSeqSet(TourOf(any[z])) /\ vert[any[z]] = z
    BY TreesAre
  <2>3. /\ \A s, t \in tours : ToSeqSet(s) \cap ToSeqSet(t) # {} => s = t
        /\ \A s \in tours : \A e, f \in DOMAIN vert :
             vert[e] = vert[f] /\ e \in ToSeqSet(s) => f \in ToSeqSet(s)
        /\ \A s \in tours : ToSeqSet(s) \subseteq DOMAIN vert
    <3>1. Well(DOMAIN vert, vert, handle, tours)
      BY DEF TourInv
    <3>2. \A s \in tours : ToSeqSet(s) \subseteq DOMAIN vert
      BY <3>1 DEF Well, IsTour, ToSeqSet
    <3>. QED
      BY <3>1, <3>2, Zenon DEF Well
  <2>4. z \notin Visits(TourOf(any[w]), vert)
    BY <1>1, <1>7, <2>1, <2>2, <2>3 DEF Visits
  <2>. QED
    BY <2>1, <2>4 DEF Components
<1>8. x[2] \notin Components(E)[x[1]]
  BY <1>3, <1>4, <1>7
<1>9. Components(E \cup {x}) = Linked(Components(E), x[1], x[2])
  BY <1>1, <1>4, ComponentsLinked
<1>10. [w \in Vertices |-> edges[any[w]]]' = [w \in Vertices |-> edges[any[w]]]
  BY <1>1, <1>6
<1>11. Forest!Link(x)
  <2>1. [w \in Vertices |-> VerticesOf(TourOf(any[w]))] = Components(E)
    BY <1>1, ShownTrees
  <2>2. [w \in Vertices |-> VerticesOf(TourOf(any[w]))]' = Components(E \cup {x})
    BY <1>2, <1>5, ShownTreesNext
  <2>3. Forest!Linked(Components(E), x[1], x[2]) = Components(E \cup {x})
    BY <1>9, SameTerms
  <2>. QED
    BY <1>5, <1>8, <1>10, <2>1, <2>2, <2>3 DEF Forest!Link
<1>. QED
  BY <1>4, <1>11, SameTerms

LEMMA CutRefines ==
  ASSUME TourInv, NEW x \in AllEdges, Cut(x)
  PROVE  Forest!Cut(x)
<1>. PICK E : E = DOMAIN handle
  OBVIOUS
<1>1. /\ E \in SUBSET AllEdges /\ Acyclic(E) /\ x \in E
      /\ TreeVertices(tours, vert, any) = Components(E)
  BY SeenNow DEF Seen, Cut
<1>2. TourInv' /\ DOMAIN handle' = E \ {x} /\ SameCounts(edges, any, edges', any')
  BY CutKeeps
<1>3. TreeVertices(tours', vert', any') = Components(E \ {x})
  BY <1>2, SeenNext DEF Seen
<1>4. CutTree(Components(E), E \ {x}, x) = Components(E \ {x})
  BY <1>1, ComponentsCut
<1>5. [w \in Vertices |-> edges[any[w]]]' = [w \in Vertices |-> edges[any[w]]]
  BY <1>2 DEF SameCounts
<1>6. [w \in Vertices |-> VerticesOf(TourOf(any[w]))] = Components(E)
  BY <1>1, ShownTrees
<1>7. [w \in Vertices |-> VerticesOf(TourOf(any[w]))]' = Components(E \ {x})
  BY <1>3, ShownTreesNext
<1>8. Forest!CutTree(Components(E), E \ {x}, x) = Components(E \ {x})
  BY <1>4, SameTerms
<1>9. (DOMAIN handle)' = E \ {x}
  BY <1>2
<1>. QED
  BY <1>1, <1>5, <1>6, <1>7, <1>8, <1>9 DEF Forest!Cut

LEMMA CountRefines ==
  ASSUME TourInv, NEW v \in Vertices, Increment(v) \/ Decrement(v)
  PROVE  Forest!Count(v)
<1>1. /\ any \in [Vertices -> DOMAIN vert] /\ \A w \in Vertices : vert[any[w]] = w
      /\ edges \in [DOMAIN vert -> 0 .. MaxCount]
  BY SeenNow DEF Seen
<1>2. UNCHANGED <<vert, tours, any, anyRoot, handle>>
  BY Zenon DEF Increment, Decrement
<1>3. edges[any[v]] \in Nat
  BY <1>1, EulerTourAssumption
<1>4. PICK k \in {edges[any[v]] - 1, edges[any[v]] + 1} \cap Nat : edges' = [edges EXCEPT ![any[v]] = k]
  <2>1. CASE Increment(v)
    <3>1. edges[any[v]] + 1 \in Nat /\ edges' = [edges EXCEPT ![any[v]] = edges[any[v]] + 1]
      BY <1>3, <2>1 DEF Increment
    <3>. QED
      BY <3>1
  <2>2. CASE Decrement(v)
    <3>1. edges[any[v]] - 1 \in Nat /\ edges' = [edges EXCEPT ![any[v]] = edges[any[v]] - 1]
      BY <1>3, <2>2 DEF Decrement
    <3>. QED
      BY <3>1
  <2>. QED
    BY <2>1, <2>2
<1>5. \A w \in Vertices : edges'[any[w]] = IF w = v THEN k ELSE edges[any[w]]
  BY <1>1, <1>4
<1>6. [w \in Vertices |-> edges[any[w]]]' = [[w \in Vertices |-> edges[any[w]]] EXCEPT ![v] = k]
  BY <1>2, <1>5
<1>7. [w \in Vertices |-> edges[any[w]]][v] = edges[any[v]]
  OBVIOUS
<1>8. [w \in Vertices |-> VerticesOf(TourOf(any[w]))]' = [w \in Vertices |-> VerticesOf(TourOf(any[w]))]
  BY <1>2 DEF VerticesOf, TourOf
<1>. QED
  BY <1>2, <1>4, <1>6, <1>7, <1>8 DEF Forest!Count

------------------------------------------------------------------------------

\* For any number of vertices, linking, cutting and counting in any order leave
\* every pointer of the Euler tour forest on an allocated entry of its own vertex
\* or edge, and every tour crosses each edge of its tree once in either direction.
THEOREM ToursStaySound == TourSpec => []ToursSound
<1>1. TourInv => ToursSound
  BY SoundTours
<1>. QED
  BY <1>1, TourAlways, PTL

\* The counter of a vertex is on its own entry, also after change_any moved it.
THEOREM CountersStayOwned == TourSpec => []CountersOwned
<1>1. TourInv => CountersOwned
  BY DEF TourInv, Owned, CountersOwned
<1>. QED
  BY <1>1, TourAlways, PTL

\* The answers is_connected and component_size agree with the graph of the tree
\* edges, the any_root shortcut included.
THEOREM AnswersStayRight == TourSpec => []AnswersRight
<1>1. TourInv => AnswersRight
  BY RightAnswers
<1>. QED
  BY <1>1, TourAlways, PTL

\* However the splay tree that holds a tour is shaped, the iterator meets every
\* vertex of the component that has a counter at its own entry, and apart from
\* these it stops at most at the first entry of the tour.
THEOREM IterationStaysComplete == TourSpec => []IterationCovers
<1>1. TourInv => IterationCovers
  BY WalkCovers
<1>. QED
  BY <1>1, TourAlways, PTL

\* The tours implement the forest of vertex sets the dynamic graph is modelled with.
THEOREM ToursAreForest == TourSpec => ForestSpec
<1>1. TourInit => Forest!Init
  <2>. SUFFICES ASSUME TourInit PROVE Forest!Init
    OBVIOUS
  <2>1. TourInv
    BY TourInitInv
  <2>2. DOMAIN handle = {}
    BY DEF TourInit
  <2>3. /\ \A v \in Vertices : any[v] \in DOMAIN vert
        /\ TreeVertices(tours, vert, any) = Components({})
    BY <2>1, <2>2, SeenNow DEF Seen
  <2>4. \A v \in Vertices : Component({}, v) = {v}
    BY DEF Component, Closed
  <2>5. Components({}) = [v \in Vertices |-> {v}]
    BY <2>4 DEF Components
  <2>6. \A v \in Vertices : edges[any[v]] = 0
    BY <2>3 DEF TourInit
  <2>. QED
    BY <2>2, <2>3, <2>5, <2>6, ShownTrees DEF Forest!Init
<1>2. TourInv /\ [TourNext]_tourVars => [Forest!Next]_(Forest!vars)
  <2>. SUFFICES ASSUME TourInv, [TourNext]_tourVars PROVE [Forest!Next]_(Forest!vars)
    OBVIOUS
  <2>1. CASE UNCHANGED tourVars
    BY <2>1 DEF tourVars, Forest!vars, VerticesOf, TourOf
  <2>2. ASSUME NEW u \in Vertices, NEW v \in Vertices, Link(u, v) PROVE Forest!Next
    <3>1. TourInv'
      BY <2>2, LinkKeeps
    <3>2. \E e \in Forest!AllEdges : Forest!Link(e)
      BY <2>2, <3>1, LinkRefines
    <3>. QED
      BY <3>2 DEF Forest!Next
  <2>3. ASSUME NEW x \in AllEdges, Cut(x) PROVE Forest!Next
    <3>1. Forest!Cut(x) /\ x \in Forest!AllEdges
      BY <2>3, CutRefines, SameTerms
    <3>. QED
      BY <3>1 DEF Forest!Next
  <2>4. ASSUME NEW v \in Vertices, Increment(v) \/ Decrement(v) PROVE Forest!Next
    BY <2>4, CountRefines DEF Forest!Next
  <2>. QED
    BY <2>1, <2>2, <2>3, <2>4 DEF TourNext
<1>. QED
  BY <1>1, <1>2, TourAlways, PTL DEF TourSpec, ForestSpec, Forest!Spec
===============================================================================
