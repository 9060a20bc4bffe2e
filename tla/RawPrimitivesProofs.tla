-------------------------- MODULE RawPrimitivesProofs --------------------------
(***************************************************************************)
(* What the functions of raw_core.cpp and the primitives of                *)
(* raw_primitives.cpp do to an engine, for any engine and any arguments.   *)
(*                                                                         *)
(* Core: batches of alloc and retire calls keep a pool exact; a commit     *)
(* retires the lists of a skeleton and allocates new ones, partly from the *)
(* identifiers it has retired, and still no identifier is in two lists;    *)
(* the skeletons it does not rewrite keep their contents.                  *)
(*                                                                         *)
(* Primitives: each is a chain of three composite calls: rewrite a         *)
(* skeleton, add one, drop one.  Each keeps every skeleton consistent that *)
(* hosts no occurrence of the builder; that the builders of one primitive  *)
(* share no occurrence is the heart of the proof, for a split because the  *)
(* components of a skeleton are disjoint.                                  *)
(***************************************************************************)
EXTENDS RawViews, SequenceTheorems, FiniteSetTheorems, WellFoundedInduction, TLAPS

------------------------------------------------------------------------------
(* A batch of calls of the pool. *)

\* The identifiers alloc returns are new, distinct and below the new size.
LEMMA NewIdsFresh ==
  ASSUME NEW p, IsPool(p), NEW n \in Nat
  PROVE  /\ NewIds(p, n) \in Seq(Nat)
         /\ DOMAIN NewIds(p, n) = 1 .. n
         /\ \A i, j \in 1 .. n : NewIds(p, n)[i] = NewIds(p, n)[j] => i = j
         /\ \A i \in 1 .. n : NewIds(p, n)[i] \notin Live(p)
<1>. DEFINE k == Len(p.free)
            ids == NewIds(p, n)
<1>1. k \in Nat /\ DOMAIN p.free = 1 .. k /\ p.size \in Nat
  BY DEF IsPool
<1>2. \A i \in 1 .. k : /\ p.free[i] \in 0 .. p.size - 1
                        /\ p.free[i] \notin Live(p)
  <2>1. /\ Live(p) \cap ToSet(p.free) = {}
        /\ Live(p) \cup ToSet(p.free) = 0 .. p.size - 1
    BY DEF IsPool
  <2>2. \A i \in 1 .. k : p.free[i] \in ToSet(p.free)
    BY <1>1 DEF ToSet
  <2>. HIDE DEF k
  <2>. QED
    BY <2>1, <2>2, Zenon
<1>3. \A i \in 1 .. n : ids[i] = IF i <= k THEN p.free[i] ELSE p.size + i - k - 1
  BY DEF NewIds
<1>4. \A i \in 1 .. n : i <= k => ids[i] \in 0 .. p.size - 1
  BY <1>1, <1>2, <1>3
<1>5. \A i \in 1 .. n : i > k => ids[i] \in Nat /\ ids[i] >= p.size
  BY <1>1, <1>3
<1>6. ids \in [1 .. n -> Nat]
  BY <1>1, <1>4, <1>5 DEF NewIds
<1>7. \A i, j \in 1 .. n : ids[i] = ids[j] => i = j
  <2>. SUFFICES ASSUME NEW i \in 1 .. n, NEW j \in 1 .. n, ids[i] = ids[j] PROVE i = j
    OBVIOUS
  <2>1. CASE i <= k /\ j <= k
    <3>1. i \in DOMAIN p.free /\ j \in DOMAIN p.free
      BY <2>1, <1>1
    <3>2. p.free[i] = p.free[j]
      BY <2>1, <1>3
    <3>. QED
      BY <3>1, <3>2 DEF IsPool
  <2>2. CASE i > k /\ j > k
    BY <2>2, <1>1, <1>3
  <2>3. CASE i <= k /\ j > k
    BY <2>3, <1>1, <1>4, <1>5
  <2>4. CASE i > k /\ j <= k
    BY <2>4, <1>1, <1>4, <1>5
  <2>. QED
    BY <2>1, <2>2, <2>3, <2>4, <1>1
<1>8. \A i \in 1 .. n : ids[i] \notin Live(p)
  <2>1. Live(p) \subseteq 0 .. p.size - 1
    BY DEF IsPool
  <2>. SUFFICES ASSUME NEW i \in 1 .. n PROVE ids[i] \notin Live(p)
    OBVIOUS
  <2>. HIDE DEF ids
  <2>2. CASE i <= k
    <3>1. i \in 1 .. k /\ ids[i] = p.free[i]
      BY <1>1, <1>3, <2>2
    <3>. QED
      BY <1>2, <3>1
  <2>3. CASE i > k
    <3>1. ids[i] \notin 0 .. p.size - 1
      BY <1>1, <1>5, <2>3
    <3>. QED
      BY <2>1, <3>1
  <2>. QED
    BY <1>1, <2>2, <2>3
<1>. QED
  BY <1>6, <1>7, <1>8

\* alloc keeps what the pool held and adds the batch, item by item.
LEMMA AllocAllHolds ==
  ASSUME NEW p, IsPool(p), NEW xs, NEW n \in Nat, Len(xs) = n
  PROVE  /\ Live(AllocAll(p, xs)) = Live(p) \cup ToSet(NewIds(p, n))
         /\ \A id \in Live(p) : AllocAll(p, xs).val[id] = p.val[id]
         /\ \A i \in 1 .. n : AllocAll(p, xs).val[NewIds(p, n)[i]] = xs[i]
<1>. DEFINE ids == NewIds(p, n)
            at(id) == CHOOSE i \in 1 .. n : ids[i] = id
<1>1. DOMAIN ids = 1 .. n
  BY NewIdsFresh
<1>2. \A i, j \in 1 .. n : ids[i] = ids[j] => i = j
  BY NewIdsFresh
<1>3. \A i \in 1 .. n : ids[i] \notin Live(p)
  BY NewIdsFresh
<1>4. \A i \in 1 .. n : at(ids[i]) = i
  BY <1>2
<1>5. AllocAll(p, xs).val =
        [id \in Live(p) \cup ToSet(ids) |-> IF id \in ToSet(ids) THEN xs[at(id)] ELSE p.val[id]]
  BY DEF AllocAll
<1>. HIDE DEF ids, at
<1>6. ToSet(ids) = {ids[i] : i \in 1 .. n}
  BY <1>1 DEF ToSet
<1>. QED
  BY <1>3, <1>4, <1>5, <1>6 DEF Live, ids

LEMMA AllocAllPool ==
  ASSUME NEW p, IsPool(p), NEW xs, NEW n \in Nat, Len(xs) = n
  PROVE  IsPool(AllocAll(p, xs))
<1>. DEFINE k == Len(p.free)
            ids == NewIds(p, n)
            q == AllocAll(p, xs)
<1>1. /\ k \in Nat
      /\ p.free \in Seq(Nat)
      /\ DOMAIN p.free = 1 .. k
      /\ p.size \in Nat
  BY DEF IsPool
<1>2. Live(q) = Live(p) \cup ToSet(ids)
  BY AllocAllHolds
<1>3. q.free = SubSeq(p.free, n + 1, k)
  BY DEF AllocAll
<1>4. q.size = IF n <= k THEN p.size ELSE p.size + n - k
  BY DEF AllocAll
<1>5. ToSet(ids) = {ids[i] : i \in 1 .. n}
  BY NewIdsFresh DEF ToSet
<1>6. \A i \in 1 .. n : ids[i] = IF i <= k THEN p.free[i] ELSE p.size + i - k - 1
  BY DEF NewIds
<1>7. ToSet(p.free) = {p.free[i] : i \in 1 .. k}
  BY <1>1 DEF ToSet
<1>8. \A i, j \in 1 .. k : p.free[i] = p.free[j] => i = j
  BY <1>1 DEF IsPool
<1>9. Live(p) \cap ToSet(p.free) = {} /\ Live(p) \cup ToSet(p.free) = 0 .. p.size - 1
  BY DEF IsPool
<1>. HIDE DEF k, ids, q
<1>10. ASSUME n <= k PROVE IsPool(q)
  <2>1. /\ q.free \in Seq(Nat)
        /\ DOMAIN q.free = 1 .. k - n
        /\ \A i \in 1 .. k - n : q.free[i] = p.free[n + i]
    BY <1>1, <1>3, <1>10
  <2>2. \A i \in 1 .. n : ids[i] = p.free[i]
    BY <1>1, <1>6, <1>10
  <2>3. ToSet(q.free) = {p.free[i] : i \in n + 1 .. k}
    <3>1. ToSet(q.free) = {p.free[n + i] : i \in 1 .. k - n}
      <4>1. ToSet(q.free) = {q.free[i] : i \in 1 .. k - n}
        BY ONLY <2>1 DEF ToSet
      <4>. QED
        BY ONLY <2>1, <4>1
    <3>2. \A i \in n + 1 .. k : i - n \in 1 .. k - n /\ n + (i - n) = i
      BY <1>1, <1>10
    <3>3. \A i \in 1 .. k - n : n + i \in n + 1 .. k
      BY <1>1, <1>10
    <3>. QED
      BY <3>1, <3>2, <3>3
  <2>4. ToSet(ids) = {p.free[i] : i \in 1 .. n}
    BY <1>5, <2>2
  <2>5. ToSet(p.free) = ToSet(ids) \cup ToSet(q.free) /\ ToSet(ids) \cap ToSet(q.free) = {}
    BY <1>1, <1>7, <1>8, <1>10, <2>3, <2>4
  <2>6. \A i, j \in DOMAIN q.free : q.free[i] = q.free[j] => i = j
    <3>. SUFFICES ASSUME NEW i \in 1 .. k - n, NEW j \in 1 .. k - n,
                         p.free[n + i] = p.free[n + j]
                  PROVE  i = j
      BY <2>1
    <3>1. n + i \in 1 .. k /\ n + j \in 1 .. k
      BY <1>1, <1>10
    <3>2. n + i = n + j
      BY <1>8, <3>1
    <3>. QED
      BY <3>2
  <2>7. q.size = p.size
    BY <1>4, <1>10
  <2>8. Live(q) \cap ToSet(q.free) = {} /\ Live(q) \cup ToSet(q.free) = 0 .. q.size - 1
    BY <1>2, <1>9, <2>5, <2>7
  <2>. QED
    BY <1>1, <2>1, <2>6, <2>7, <2>8 DEF IsPool
<1>11. ASSUME n > k PROVE IsPool(q)
  <2>1. q.free = <<>>
    BY <1>1, <1>3, <1>11
  <2>2. q.size = p.size + n - k /\ q.size \in Nat
    BY <1>1, <1>4, <1>11
  <2>3. ToSet(ids) = ToSet(p.free) \cup p.size .. q.size - 1
    <3>1. ASSUME NEW id \in p.size .. q.size - 1 PROVE id \in ToSet(ids)
      <4>. DEFINE i == id - p.size + k + 1
      <4>1. i \in 1 .. n /\ i > k
        BY <1>1, <1>11, <2>2
      <4>2. ids[i] = id
        <5>1. p.size + i - k - 1 = id
          BY <1>1
        <5>. HIDE DEF i
        <5>. QED
          BY <1>1, <1>6, <4>1, <5>1
      <4>. QED
        BY <1>5, <4>1, <4>2
    <3>2. ASSUME NEW i \in 1 .. k PROVE p.free[i] \in ToSet(ids)
      <4>1. i \in 1 .. n /\ ids[i] = p.free[i]
        BY <1>1, <1>6, <1>11
      <4>. QED
        BY <1>5, <4>1
    <3>3. ASSUME NEW i \in 1 .. n PROVE ids[i] \in ToSet(p.free) \cup p.size .. q.size - 1
      <4>1. CASE i <= k
        BY <1>1, <1>6, <1>7, <4>1
      <4>2. CASE i > k
        <5>1. ids[i] = p.size + i - k - 1
          BY <1>1, <1>6, <4>2
        <5>2. i \in Nat /\ i <= n
          OBVIOUS
        <5>3. p.size + i - k - 1 \in p.size .. q.size - 1
          BY ONLY <1>1, <2>2, <4>2, <5>2, n \in Nat
        <5>. QED
          BY ONLY <5>1, <5>3
      <4>. QED
        BY <1>1, <4>1, <4>2
    <3>. QED
      BY <1>5, <1>7, <3>1, <3>2, <3>3
  <2>4. Live(q) = 0 .. q.size - 1
    BY <1>1, <1>2, <1>9, <1>11, <2>2, <2>3
  <2>5. ToSet(q.free) = {} /\ DOMAIN q.free = {} /\ q.free \in Seq(Nat)
    BY <2>1 DEF ToSet
  <2>. QED
    BY <2>2, <2>4, <2>5 DEF IsPool
<1>. QED
  BY <1>1, <1>10, <1>11 DEF q

\* What is left of the stack after m calls.
IsRest(s, m, k, z) ==
  s \in Seq(Nat) /\ m \in Nat /\ k = Len(s) /\ z = SubSeq(s, m + 1, k)

LEMMA RestOfStack ==
  ASSUME NEW s, NEW m, NEW k, NEW z, IsRest(s, m, k, z)
  PROVE  /\ z \in Seq(Nat)
         /\ m <= k => Len(z) = k - m /\ \A i \in 1 .. k - m : z[i] = s[m + i]
         /\ m > k => z = <<>> /\ Len(z) = 0
<1>. s \in Seq(Nat) /\ m \in Nat /\ k = Len(s) /\ z = SubSeq(s, m + 1, k)
  BY DEF IsRest
<1>1. k \in Nat /\ m + 1 \in Int /\ k \in Int /\ DOMAIN s = 1 .. k
  OBVIOUS
<1>2. \A i \in m + 1 .. k : s[i] \in Nat
  BY <1>1
<1>3. /\ z \in Seq(Nat)
      /\ Len(z) = IF m + 1 <= k THEN k - (m + 1) + 1 ELSE 0
      /\ \A i \in 1 .. k - (m + 1) + 1 : z[i] = s[(m + 1) + i - 1]
  BY ONLY <1>1, <1>2, SubSeqProperties, z = SubSeq(s, m + 1, k)
<1>4. ASSUME m <= k PROVE Len(z) = k - m
  BY ONLY <1>1, <1>3, <1>4, m \in Nat
<1>5. ASSUME m <= k, NEW i \in 1 .. k - m PROVE z[i] = s[m + i]
  <2>1. i \in 1 .. k - (m + 1) + 1 /\ (m + 1) + i - 1 = m + i
    BY ONLY <1>1, <1>5, m \in Nat
  <2>. QED
    BY <1>3, <2>1
<1>6. ASSUME m > k PROVE z = <<>> /\ Len(z) = 0
  <2>1. Len(z) = 0
    BY ONLY <1>1, <1>3, <1>6, m \in Nat
  <2>. QED
    BY <1>3, <2>1
<1>. QED
  BY <1>3, <1>4, <1>5, <1>6

\* AllocAll is the loop of commit_skeleton: one call of alloc for each item.
LEMMA AllocIsLoop ==
  ASSUME NEW p, IsPool(p), NEW D, NEW xs \in Seq(D), NEW x \in D
  PROVE  AllocAll(p, Append(xs, x)) = AllocAll(AllocAll(p, xs), <<x>>)
<1>. PICK n : n = Len(xs)
  OBVIOUS
<1>k. PICK k : k = Len(p.free)
  OBVIOUS
<1>q. PICK q : q = AllocAll(p, xs)
  OBVIOUS
<1>. PICK ys : ys = Append(xs, x)
  OBVIOUS
<1>1. /\ n \in Nat /\ Len(ys) = n + 1 /\ ys[n + 1] = x
      /\ \A i \in 1 .. n : ys[i] = xs[i]
  BY AppendProperties
<1>2. k \in Nat /\ p.free \in Seq(Nat) /\ p.size \in Nat /\ DOMAIN p.free = 1 .. k
  BY <1>k DEF IsPool
<1>3. IsPool(q)
  <2>1. n \in Nat /\ Len(xs) = n
    BY <1>1
  <2>2. IsPool(AllocAll(p, xs))
    BY ONLY <2>1, IsPool(p), AllocAllPool
  <2>. QED
    BY <1>q, <2>2
<1>4. /\ q.free = SubSeq(p.free, n + 1, k)
      /\ q.size = IF n <= k THEN p.size ELSE p.size + n - k
  BY ONLY <1>q, <1>k, n = Len(xs) DEF AllocAll
<1>5. /\ n <= k => Len(q.free) = k - n /\ \A i \in 1 .. k - n : q.free[i] = p.free[n + i]
      /\ n > k => q.free = <<>> /\ Len(q.free) = 0
  <2>. PICK s, z : s = p.free /\ z = q.free
    OBVIOUS
  <2>1. z = SubSeq(s, n + 1, k)
    BY <1>4
  <2>2. /\ n <= k => Len(z) = k - n /\ \A i \in 1 .. k - n : z[i] = p.free[n + i]
        /\ n > k => z = <<>> /\ Len(z) = 0
    <3>1. IsRest(s, n, k, z)
      BY <1>1, <1>2, <1>k, <2>1 DEF IsRest
    <3>2. /\ n <= k => Len(z) = k - n /\ \A i \in 1 .. k - n : z[i] = s[n + i]
          /\ n > k => z = <<>> /\ Len(z) = 0
      BY ONLY <3>1, RestOfStack
    <3>. QED
      BY ONLY <3>2, s = p.free
  <2>. QED
    BY <2>2
<1>. PICK a : a = NewIds(q, 1)[1]
  OBVIOUS
<1>i. PICK ids, more : ids = NewIds(p, n) /\ more = NewIds(p, n + 1)
  OBVIOUS
<1>6. a = IF 1 <= Len(q.free) THEN q.free[1] ELSE q.size + 1 - Len(q.free) - 1
  BY DEF NewIds
<1>7. /\ \A i \in 1 .. n : ids[i] = IF i <= k THEN p.free[i] ELSE p.size + i - k - 1
      /\ \A i \in 1 .. n + 1 : more[i] = IF i <= k THEN p.free[i] ELSE p.size + i - k - 1
  BY ONLY <1>i, <1>k DEF NewIds
<1>8. a = more[n + 1]
  <2>1. more[n + 1] = IF n + 1 <= k THEN p.free[n + 1] ELSE p.size + n - k
    BY <1>1, <1>2, <1>7
  <2>2. CASE n + 1 <= k
    <3>1. Len(q.free) = k - n /\ 1 \in 1 .. k - n /\ n <= k
      BY <1>1, <1>2, <1>5, <2>2
    <3>2. q.free[1] = p.free[n + 1]
      BY <1>5, <3>1
    <3>3. 1 <= Len(q.free)
      BY <3>1
    <3>. QED
      BY ONLY <1>6, <2>1, <2>2, <3>2, <3>3
  <2>3. CASE ~(n + 1 <= k)
    <3>1. Len(q.free) = 0 /\ q.size = p.size + n - k
      BY <1>1, <1>2, <1>4, <1>5, <2>3
    <3>2. ~(1 <= Len(q.free)) /\ q.size + 1 - Len(q.free) - 1 = p.size + n - k
      BY <1>1, <1>2, <3>1
    <3>. QED
      BY ONLY <1>6, <2>1, <2>3, <3>2
  <2>. QED
    BY <2>2, <2>3
<1>9. \A i \in 1 .. n : more[i] = ids[i]
  BY <1>1, <1>7
<1>10. /\ DOMAIN ids = 1 .. n /\ DOMAIN more = 1 .. n + 1
       /\ DOMAIN NewIds(q, 1) = 1 .. 1
  BY ONLY <1>i DEF NewIds
<1>11. ToSet(more) = ToSet(ids) \cup {a} /\ ToSet(NewIds(q, 1)) = {a}
  <2>1. 1 .. n + 1 = (1 .. n) \cup {n + 1}
    BY <1>1
  <2>2. ToSet(more) = {more[i] : i \in 1 .. n + 1} /\ ToSet(ids) = {ids[i] : i \in 1 .. n}
    BY <1>10 DEF ToSet
  <2>3. ToSet(NewIds(q, 1)) = {NewIds(q, 1)[i] : i \in 1 .. 1}
    BY <1>10 DEF ToSet
  <2>. QED
    BY <1>8, <1>9, <2>1, <2>2, <2>3
<1>r. PICK r, t : r = AllocAll(q, <<x>>) /\ t = AllocAll(p, ys)
  OBVIOUS
<1>s. /\ t.val = [id \in DOMAIN t.val |-> t.val[id]]
      /\ t.free = SubSeq(p.free, n + 2, k)
      /\ t.size = IF n + 1 <= k THEN p.size ELSE p.size + (n + 1) - k
      /\ t = [val |-> t.val, free |-> t.free, size |-> t.size]
  <2>. PICK m : m = Len(ys)
    OBVIOUS
  <2>1. m = n + 1 /\ m + 1 = n + 2
    BY <1>1
  <2>2. /\ t.val = [id \in DOMAIN t.val |-> t.val[id]]
        /\ t.free = SubSeq(p.free, m + 1, k)
        /\ t.size = IF m <= k THEN p.size ELSE p.size + m - k
        /\ t = [val |-> t.val, free |-> t.free, size |-> t.size]
    BY ONLY <1>r, <1>k, m = Len(ys) DEF AllocAll
  <2>. QED
    BY ONLY <2>1, <2>2
<1>t. /\ r.val = [id \in DOMAIN r.val |-> r.val[id]]
      /\ r.free = SubSeq(q.free, 2, Len(q.free))
      /\ r.size = IF 1 <= Len(q.free) THEN q.size ELSE q.size + 1 - Len(q.free)
      /\ r = [val |-> r.val, free |-> r.free, size |-> r.size]
  <2>. PICK one : one = <<x>>
    OBVIOUS
  <2>. PICK m : m = Len(one)
    OBVIOUS
  <2>1. m = 1 /\ m + 1 = 2
    OBVIOUS
  <2>2. /\ r.val = [id \in DOMAIN r.val |-> r.val[id]]
        /\ r.free = SubSeq(q.free, m + 1, Len(q.free))
        /\ r.size = IF m <= Len(q.free) THEN q.size ELSE q.size + m - Len(q.free)
        /\ r = [val |-> r.val, free |-> r.free, size |-> r.size]
    BY ONLY <1>r, one = <<x>>, m = Len(one) DEF AllocAll
  <2>. QED
    BY ONLY <2>1, <2>2
<1>12. /\ Live(q) = Live(p) \cup ToSet(ids)
       /\ \A id \in Live(p) : q.val[id] = p.val[id]
       /\ \A i \in 1 .. n : q.val[ids[i]] = xs[i]
  <2>1. n \in Nat /\ Len(xs) = n
    BY <1>1
  <2>2. /\ Live(AllocAll(p, xs)) = Live(p) \cup ToSet(NewIds(p, n))
        /\ \A id \in Live(p) : AllocAll(p, xs).val[id] = p.val[id]
        /\ \A i \in 1 .. n : AllocAll(p, xs).val[NewIds(p, n)[i]] = xs[i]
    BY ONLY <2>1, IsPool(p), AllocAllHolds
  <2>. QED
    BY ONLY <1>i, <1>q, <2>2
<1>13. /\ Live(t) = Live(p) \cup ToSet(more)
       /\ \A id \in Live(p) : t.val[id] = p.val[id]
       /\ \A i \in 1 .. n + 1 : t.val[more[i]] = ys[i]
  <2>. PICK m : m = n + 1
    OBVIOUS
  <2>1. m \in Nat /\ Len(ys) = m
    BY <1>1
  <2>2. /\ Live(AllocAll(p, ys)) = Live(p) \cup ToSet(NewIds(p, m))
        /\ \A id \in Live(p) : AllocAll(p, ys).val[id] = p.val[id]
        /\ \A i \in 1 .. m : AllocAll(p, ys).val[NewIds(p, m)[i]] = ys[i]
    BY ONLY <2>1, IsPool(p), AllocAllHolds
  <2>. QED
    BY ONLY <1>i, <1>r, <2>2, m = n + 1
<1>14. /\ Live(r) = Live(q) \cup {a}
       /\ \A id \in Live(q) : r.val[id] = q.val[id]
       /\ r.val[a] = x
  <2>. PICK one : one = <<x>>
    OBVIOUS
  <2>. PICK m : m = 1
    OBVIOUS
  <2>1. Len(one) = m /\ one[1] = x /\ m \in Nat /\ 1 \in 1 .. m
    OBVIOUS
  <2>2. /\ Live(AllocAll(q, one)) = Live(q) \cup ToSet(NewIds(q, 1))
        /\ \A id \in Live(q) : AllocAll(q, one).val[id] = q.val[id]
        /\ \A i \in 1 .. m : AllocAll(q, one).val[NewIds(q, 1)[i]] = one[i]
    <3>1. /\ Live(AllocAll(q, one)) = Live(q) \cup ToSet(NewIds(q, m))
          /\ \A id \in Live(q) : AllocAll(q, one).val[id] = q.val[id]
          /\ \A i \in 1 .. m : AllocAll(q, one).val[NewIds(q, m)[i]] = one[i]
      BY ONLY <1>3, <2>1, AllocAllHolds
    <3>. QED
      BY ONLY <3>1, m = 1
  <2>3. r = AllocAll(q, one)
    BY <1>r
  <2>4. AllocAll(q, one).val[NewIds(q, 1)[1]] = x
    BY ONLY <2>1, <2>2
  <2>5. r.val[a] = x
    BY <2>3, <2>4
  <2>. QED
    BY ONLY <1>11, <2>2, <2>3, <2>5
<1>15. t.val = r.val
  <2>1. Live(t) = Live(r)
    BY <1>11, <1>12, <1>13, <1>14
  <2>2. ASSUME NEW id \in Live(t) PROVE t.val[id] = r.val[id]
    <3>1. CASE id \in Live(p)
      BY <1>12, <1>13, <1>14, <3>1
    <3>2. CASE id \in ToSet(ids)
      <4>1. PICK i \in 1 .. n : id = ids[i]
        BY <1>10, <3>2 DEF ToSet
      <4>2. t.val[id] = xs[i]
        <5>1. i \in 1 .. n + 1 /\ id = more[i]
          BY <1>1, <1>9, <4>1
        <5>. QED
          BY <1>1, <1>13, <5>1
      <4>3. r.val[id] = xs[i]
        BY <1>12, <1>14, <3>2, <4>1
      <4>. QED
        BY <4>2, <4>3
    <3>3. CASE id = a
      <4>1. n + 1 \in 1 .. n + 1
        BY <1>1
      <4>2. t.val[a] = x
        BY <1>1, <1>8, <1>13, <4>1
      <4>. QED
        BY <1>14, <3>3, <4>2
    <3>. QED
      BY <1>11, <1>13, <3>1, <3>2, <3>3
  <2>3. /\ t.val = [id \in Live(t) |-> t.val[id]]
        /\ r.val = [id \in Live(r) |-> r.val[id]]
    BY ONLY <1>s, <1>t DEF Live
  <2>. QED
    BY ONLY <2>1, <2>2, <2>3
<1>16. t.free = r.free
  <2>. PICK s, w, y, z : s = p.free /\ w = q.free /\ y = t.free /\ z = r.free
    OBVIOUS
  <2>. PICK l, m, u : l = Len(w) /\ m = n + 1 /\ u = 1
    OBVIOUS
  <2>1. /\ w \in Seq(Nat) /\ m \in Nat /\ 1 \in Nat /\ m + 1 = n + 2 /\ 1 + 1 = 2
    BY <1>1, <1>3 DEF IsPool
  <2>2. y = SubSeq(p.free, m + 1, k) /\ z = SubSeq(w, 1 + 1, l)
    BY <1>s, <1>t, <2>1
  <2>3. /\ y \in Seq(Nat)
        /\ m <= k => Len(y) = k - m /\ \A i \in 1 .. k - m : y[i] = p.free[m + i]
        /\ m > k => y = <<>> /\ Len(y) = 0
    <3>1. IsRest(s, m, k, y)
      BY <1>2, <1>k, <2>1, <2>2 DEF IsRest
    <3>2. /\ y \in Seq(Nat)
          /\ m <= k => Len(y) = k - m /\ \A i \in 1 .. k - m : y[i] = s[m + i]
          /\ m > k => y = <<>> /\ Len(y) = 0
      BY ONLY <3>1, RestOfStack
    <3>. QED
      BY ONLY <3>2, s = p.free
  <2>4. /\ z \in Seq(Nat)
        /\ 1 <= l => Len(z) = l - 1 /\ \A i \in 1 .. l - 1 : z[i] = w[1 + i]
        /\ 1 > l => z = <<>> /\ Len(z) = 0
    <3>1. IsRest(w, u, l, z)
      BY <2>1, <2>2 DEF IsRest
    <3>2. /\ z \in Seq(Nat)
          /\ u <= l => Len(z) = l - u /\ \A i \in 1 .. l - u : z[i] = w[u + i]
          /\ u > l => z = <<>> /\ Len(z) = 0
      BY ONLY <3>1, RestOfStack
    <3>. QED
      BY ONLY <3>2, u = 1
  <2>5. /\ n <= k => l = k - n /\ \A i \in 1 .. k - n : w[i] = p.free[n + i]
        /\ n > k => l = 0
    BY <1>5
  <2>6. CASE m <= k
    <3>1. n <= k /\ l = k - n /\ 1 <= l /\ l - 1 = k - m
      BY ONLY <1>1, <1>2, <2>5, <2>6, m = n + 1
    <3>2. ASSUME NEW i \in 1 .. k - m PROVE y[i] = z[i]
      <4>1. 1 + i \in 1 .. k - n /\ n + (1 + i) = m + i
        BY ONLY <1>1, <1>2, m = n + 1, i \in 1 .. k - m
      <4>2. w[1 + i] = p.free[m + i]
        BY ONLY <2>5, <3>1, <4>1
      <4>. QED
        BY ONLY <2>3, <2>4, <2>6, <3>1, <4>2, i \in 1 .. k - m
    <3>3. Len(y) = k - m /\ Len(z) = k - m
      BY ONLY <2>3, <2>4, <2>6, <3>1
    <3>4. y = z
      BY ONLY <2>3, <2>4, <3>2, <3>3, SeqEqual
    <3>. QED
      BY <3>4
  <2>7. CASE ~(m <= k)
    <3>1. m > k /\ 1 > l
      BY ONLY <1>1, <1>2, <2>5, <2>7, m = n + 1
    <3>. QED
      BY <2>3, <2>4, <3>1
  <2>. QED
    BY <2>6, <2>7
<1>17. t.size = r.size
  <2>. PICK l : l = Len(q.free)
    OBVIOUS
  <2>. PICK big : big = q.size
    OBVIOUS
  <2>1. /\ n <= k => l = k - n /\ big = p.size
        /\ n > k => l = 0 /\ big = p.size + n - k
    BY <1>1, <1>2, <1>4, <1>5
  <2>2. r.size = IF 1 <= l THEN big ELSE big + 1 - l
    BY <1>t
  <2>3. CASE n + 1 <= k
    <3>1. 1 <= l /\ big = p.size
      BY ONLY <1>1, <1>2, <2>1, <2>3
    <3>. QED
      BY ONLY <1>s, <2>2, <2>3, <3>1
  <2>4. CASE ~(n + 1 <= k)
    <3>. PICK sz : sz = p.size
      OBVIOUS
    <3>1. /\ n \in Nat /\ k \in Nat /\ sz \in Nat
          /\ n <= k => l = k - n /\ big = sz
          /\ n > k => l = 0 /\ big = sz + n - k
      BY ONLY <1>1, <1>2, <2>1, sz = p.size
    <3>2. CASE n = k
      <4>1. l = 0 /\ big = sz
        BY ONLY <3>1, <3>2
      <4>. QED
        BY ONLY <1>s, <2>2, <2>4, <3>1, <3>2, <4>1, sz = p.size
    <3>3. CASE n > k
      <4>1. l = 0 /\ big = sz + n - k
        BY ONLY <3>1, <3>3
      <4>2. big + 1 - l = sz + (n + 1) - k
        BY ONLY <3>1, <4>1
      <4>. QED
        BY ONLY <1>s, <2>2, <2>4, <4>1, <4>2, sz = p.size
    <3>. QED
      BY ONLY <2>4, <3>1, <3>2, <3>3
  <2>. QED
    BY <2>3, <2>4
<1>. QED
  BY ONLY <1>s, <1>t, <1>15, <1>16, <1>17, <1>q, <1>r, ys = Append(xs, x)

\* retire drops the batch, keeps everything else and stacks it for reuse.
LEMMA RetireAllPool ==
  ASSUME NEW p, IsPool(p), NEW ids \in Seq(Nat),
         \A i, j \in DOMAIN ids : ids[i] = ids[j] => i = j,
         ToSet(ids) \subseteq Live(p)
  PROVE  /\ IsPool(RetireAll(p, ids))
         /\ Live(RetireAll(p, ids)) = Live(p) \ ToSet(ids)
         /\ \A id \in Live(p) \ ToSet(ids) : RetireAll(p, ids).val[id] = p.val[id]
<1>. DEFINE k == Len(p.free)
            n == Len(ids)
            q == RetireAll(p, ids)
            r == Reverse(ids)
<1>1. /\ k \in Nat /\ p.free \in Seq(Nat) /\ DOMAIN p.free = 1 .. k
      /\ n \in Nat /\ DOMAIN ids = 1 .. n
      /\ p.size \in Nat
  BY DEF IsPool
<1>2. q.val = [id \in Live(p) \ ToSet(ids) |-> p.val[id]] /\ q.free = r \o p.free /\ q.size = p.size
  BY DEF RetireAll
<1>3. r \in Seq(Nat) /\ Len(r) = n /\ \A i \in 1 .. n : r[i] = ids[(n - i) + 1]
  <2>1. \A i \in 1 .. n : (n - i) + 1 \in 1 .. n
    BY <1>1
  <2>. QED
    BY <1>1, <2>1 DEF Reverse
<1>4. Live(q) = Live(p) \ ToSet(ids)
  BY <1>2 DEF Live
<1>. HIDE DEF k, n, q, r
<1>5. /\ q.free \in Seq(Nat)
      /\ DOMAIN q.free = 1 .. n + k
      /\ \A i \in 1 .. n : q.free[i] = r[i]
      /\ \A i \in n + 1 .. n + k : q.free[i] = p.free[i - n]
  <2>1. /\ r \o p.free \in Seq(Nat)
        /\ Len(r \o p.free) = n + k
        /\ \A i \in 1 .. n + k : (r \o p.free)[i] = IF i <= n THEN r[i] ELSE p.free[i - n]
    <3>1. /\ r \o p.free \in Seq(Nat)
          /\ Len(r \o p.free) = Len(r) + Len(p.free)
          /\ \A i \in 1 .. Len(r) + Len(p.free) :
               (r \o p.free)[i] = IF i <= Len(r) THEN r[i] ELSE p.free[i - Len(r)]
      <4>1. r \in Seq(Nat) /\ p.free \in Seq(Nat)
        BY <1>1, <1>3
      <4>. QED
        BY ONLY <4>1, ConcatProperties, Zenon
    <3>2. Len(r) + Len(p.free) = n + k
      BY <1>3 DEF k
    <3>. QED
      BY <1>3, <3>1, <3>2
  <2>2. DOMAIN (r \o p.free) = 1 .. n + k
    BY <2>1
  <2>3. \A i \in 1 .. n : i \in 1 .. n + k /\ i <= n
    BY <1>1
  <2>4. \A i \in n + 1 .. n + k : i \in 1 .. n + k /\ ~(i <= n)
    BY <1>1
  <2>. QED
    BY <1>2, <2>1, <2>2, <2>3, <2>4
<1>6. ToSet(ids) = {ids[i] : i \in 1 .. n} /\ ToSet(p.free) = {p.free[i] : i \in 1 .. k}
  BY <1>1 DEF ToSet
<1>7. ASSUME NEW i \in 1 .. n PROVE q.free[i] \in ToSet(ids)
  <2>1. (n - i) + 1 \in 1 .. n
    BY <1>1
  <2>2. q.free[i] = ids[(n - i) + 1]
    BY <1>3, <1>5
  <2>. QED
    BY <1>6, <2>1, <2>2
<1>8. \A i \in n + 1 .. n + k : q.free[i] \in ToSet(p.free)
  <2>1. \A i \in n + 1 .. n + k : i - n \in 1 .. k
    BY <1>1
  <2>. QED
    BY <1>5, <1>6, <2>1
<1>9. ToSet(q.free) = ToSet(ids) \cup ToSet(p.free)
  <2>1. ToSet(q.free) = {q.free[i] : i \in 1 .. n + k}
    BY <1>5 DEF ToSet
  <2>2. ASSUME NEW i \in 1 .. n PROVE ids[i] \in ToSet(q.free)
    <3>1. (n - i) + 1 \in 1 .. n /\ (n - ((n - i) + 1)) + 1 = i
      BY <1>1
    <3>2. q.free[(n - i) + 1] = ids[i]
      BY <1>3, <1>5, <3>1
    <3>3. (n - i) + 1 \in 1 .. n + k
      BY <1>1
    <3>. QED
      BY <2>1, <3>2, <3>3
  <2>3. ASSUME NEW i \in 1 .. k PROVE p.free[i] \in ToSet(q.free)
    <3>1. n + i \in n + 1 .. n + k /\ n + i \in 1 .. n + k /\ (n + i) - n = i
      BY <1>1
    <3>. QED
      BY <1>5, <2>1, <3>1
  <2>4. \A i \in 1 .. n + k : i \in 1 .. n \/ i \in n + 1 .. n + k
    BY <1>1
  <2>5. ToSet(q.free) \subseteq ToSet(ids) \cup ToSet(p.free)
    BY <1>7, <1>8, <2>1, <2>4
  <2>6. ToSet(ids) \subseteq ToSet(q.free) /\ ToSet(p.free) \subseteq ToSet(q.free)
    BY <1>6, <2>2, <2>3
  <2>. QED
    BY <2>5, <2>6
<1>10. Live(p) \cap ToSet(p.free) = {} /\ Live(p) \cup ToSet(p.free) = 0 .. p.size - 1
  BY DEF IsPool
<1>11. \A i, j \in 1 .. n + k : q.free[i] = q.free[j] => i = j
  <2>. SUFFICES ASSUME NEW i \in 1 .. n + k, NEW j \in 1 .. n + k, q.free[i] = q.free[j]
                PROVE  i = j
    OBVIOUS
  <2>1. CASE i \in 1 .. n /\ j \in 1 .. n
    <3>1. (n - i) + 1 \in 1 .. n /\ (n - j) + 1 \in 1 .. n
      BY <1>1, <2>1
    <3>2. ids[(n - i) + 1] = ids[(n - j) + 1]
      BY <1>3, <1>5, <2>1
    <3>3. (n - i) + 1 = (n - j) + 1
      BY <1>1, <3>1, <3>2
    <3>. QED
      BY <1>1, <3>3
  <2>2. CASE i \in n + 1 .. n + k /\ j \in n + 1 .. n + k
    <3>1. i - n \in 1 .. k /\ j - n \in 1 .. k /\ p.free[i - n] = p.free[j - n]
      BY <1>1, <1>5, <2>2
    <3>2. i - n = j - n
      BY <1>1, <3>1 DEF IsPool
    <3>. QED
      BY <1>1, <3>2
  <2>3. CASE i \in 1 .. n /\ j \in n + 1 .. n + k
    BY <1>7, <1>8, <1>10, <2>3
  <2>4. CASE j \in 1 .. n /\ i \in n + 1 .. n + k
    BY <1>7, <1>8, <1>10, <2>4
  <2>. QED
    BY <1>1, <2>1, <2>2, <2>3, <2>4
<1>12. IsPool(q)
  BY <1>1, <1>2, <1>4, <1>5, <1>9, <1>10, <1>11 DEF IsPool
<1>. QED
  BY <1>2, <1>4, <1>12 DEF q

\* RetireAll is the loop of retire_skeleton_contents: one call of retire for each
\* identifier.
LEMMA RetireIsLoop ==
  ASSUME NEW p, IsPool(p), NEW ids \in Seq(Nat), NEW id \in Nat
  PROVE  RetireAll(p, Append(ids, id)) = RetireAll(RetireAll(p, ids), <<id>>)
<1>. PICK n : n = Len(ids)
  OBVIOUS
<1>. PICK more : more = Append(ids, id)
  OBVIOUS
<1>m. PICK one : one = <<id>>
  OBVIOUS
<1>q. PICK q : q = RetireAll(p, ids)
  OBVIOUS
<1>r. PICK r, t : r = RetireAll(q, one) /\ t = RetireAll(p, more)
  OBVIOUS
<1>1. /\ n \in Nat /\ DOMAIN ids = 1 .. n /\ more \in Seq(Nat)
      /\ Len(more) = n + 1 /\ DOMAIN more = 1 .. n + 1
      /\ more[n + 1] = id /\ \A i \in 1 .. n : more[i] = ids[i]
  BY AppendProperties
<1>2. /\ q.val = [v \in Live(p) \ ToSet(ids) |-> p.val[v]]
      /\ q.free = Reverse(ids) \o p.free /\ q.size = p.size
  BY ONLY <1>q DEF RetireAll
<1>2a. /\ r.val = [v \in Live(q) \ ToSet(one) |-> q.val[v]]
       /\ r.free = Reverse(one) \o q.free /\ r.size = q.size
       /\ r = [val |-> r.val, free |-> r.free, size |-> r.size]
  BY ONLY <1>r DEF RetireAll
<1>2b. /\ t.val = [v \in Live(p) \ ToSet(more) |-> p.val[v]]
       /\ t.free = Reverse(more) \o p.free /\ t.size = p.size
       /\ t = [val |-> t.val, free |-> t.free, size |-> t.size]
  BY ONLY <1>r DEF RetireAll
<1>3. ToSet(more) = ToSet(ids) \cup {id} /\ ToSet(one) = {id}
  <2>1. 1 .. n + 1 = (1 .. n) \cup {n + 1}
    BY <1>1
  <2>2. ToSet(more) = {more[i] : i \in 1 .. n + 1} /\ ToSet(ids) = {ids[i] : i \in 1 .. n}
    BY <1>1 DEF ToSet
  <2>3. ToSet(one) = {id}
    BY ONLY <1>m DEF ToSet
  <2>. QED
    BY <1>1, <2>1, <2>2, <2>3
<1>4. t.val = r.val
  <2>1. /\ r.val = [v \in Live(q) \ {id} |-> q.val[v]]
        /\ t.val = [v \in Live(p) \ (ToSet(ids) \cup {id}) |-> p.val[v]]
    BY ONLY <1>2a, <1>2b, <1>3
  <2>2. Live(q) = Live(p) \ ToSet(ids)
    BY ONLY <1>2 DEF Live
  <2>3. (Live(p) \ ToSet(ids)) \ {id} = Live(p) \ (ToSet(ids) \cup {id})
    OBVIOUS
  <2>4. \A v \in Live(p) \ (ToSet(ids) \cup {id}) : q.val[v] = p.val[v]
    BY ONLY <1>2
  <2>. QED
    BY ONLY <2>1, <2>2, <2>3, <2>4
<1>5. Reverse(more) = one \o Reverse(ids)
  <2>. PICK a, b : a = Reverse(more) /\ b = Reverse(ids)
    OBVIOUS
  <2>1. /\ a = [i \in 1 .. n + 1 |-> more[(n + 1 - i) + 1]]
        /\ b = [i \in 1 .. n |-> ids[(n - i) + 1]]
    BY <1>1 DEF Reverse
  <2>2. \A i \in 1 .. n : (n - i) + 1 \in 1 .. n
    BY <1>1
  <2>3. \A i \in 1 .. n + 1 : (n + 1 - i) + 1 \in 1 .. n + 1
    BY <1>1
  <2>4. a \in Seq(Nat) /\ Len(a) = n + 1 /\ b \in Seq(Nat) /\ Len(b) = n
    <3>1. \A i \in 1 .. n + 1 : a[i] \in Nat
      BY <1>1, <2>1, <2>3
    <3>2. \A i \in 1 .. n : b[i] \in Nat
      BY <1>1, <2>1, <2>2
    <3>3. /\ a \in [1 .. n + 1 -> Nat] /\ b \in [1 .. n -> Nat]
          /\ n \in Nat /\ n + 1 \in Nat
      BY ONLY <1>1, <2>1, <3>1, <3>2
    <3>4. a \in Seq(Nat) /\ Len(a) = n + 1
      BY ONLY <3>3
    <3>5. b \in Seq(Nat) /\ Len(b) = n
      BY ONLY <3>3
    <3>. QED
      BY ONLY <3>4, <3>5
  <2>. PICK c : c = one \o b
    OBVIOUS
  <2>5. /\ c \in Seq(Nat) /\ Len(c) = n + 1
        /\ \A i \in 1 .. n + 1 : c[i] = IF i <= 1 THEN id ELSE b[i - 1]
    <3>1. one \in Seq(Nat) /\ Len(one) = 1 /\ one[1] = id
      BY ONLY <1>m, id \in Nat
    <3>2. /\ c \in Seq(Nat) /\ Len(c) = Len(one) + Len(b)
          /\ \A i \in 1 .. Len(one) + Len(b) :
               c[i] = IF i <= Len(one) THEN one[i] ELSE b[i - Len(one)]
      <4>1. b \in Seq(Nat) /\ one \in Seq(Nat)
        BY <2>4, <3>1
      <4>. QED
        BY ONLY <4>1, c = one \o b, ConcatProperties, Zenon
    <3>3. Len(one) + Len(b) = n + 1
      BY <1>1, <2>4, <3>1
    <3>4. ASSUME NEW i \in 1 .. n + 1 PROVE c[i] = IF i <= 1 THEN id ELSE b[i - 1]
      <4>1. c[i] = IF i <= 1 THEN one[i] ELSE b[i - 1]
        BY <3>1, <3>2, <3>3
      <4>2. i <= 1 => i = 1
        BY <1>1
      <4>. QED
        BY <3>1, <4>1, <4>2
    <3>. QED
      BY <3>2, <3>3, <3>4
  <2>6. ASSUME NEW i \in 1 .. n + 1 PROVE a[i] = c[i]
    <3>1. a[i] = more[(n + 1 - i) + 1]
      BY <2>1
    <3>2. CASE i = 1
      <4>1. (n + 1 - i) + 1 = n + 1
        BY <1>1, <3>2
      <4>2. c[i] = id
        BY <2>5, <3>2
      <4>. QED
        BY <1>1, <3>1, <4>1, <4>2
    <3>3. CASE i # 1
      <4>1. /\ i - 1 \in 1 .. n /\ ~(i <= 1)
            /\ (n + 1 - i) + 1 = (n - (i - 1)) + 1 /\ (n - (i - 1)) + 1 \in 1 .. n
        BY <1>1, <3>3
      <4>2. c[i] = b[i - 1]
        BY <2>5, <4>1
      <4>3. b[i - 1] = ids[(n - (i - 1)) + 1]
        BY <2>1, <4>1
      <4>4. a[i] = ids[(n - (i - 1)) + 1]
        BY <1>1, <3>1, <4>1
      <4>. QED
        BY <4>2, <4>3, <4>4
    <3>. QED
      BY <3>2, <3>3
  <2>7. a = c
    BY <2>4, <2>5, <2>6, SeqEqual
  <2>. QED
    BY <2>7
<1>6. t.free = r.free
  <2>. PICK b : b = Reverse(ids)
    OBVIOUS
  <2>1. b \in Seq(Nat)
    <3>1. \A i \in 1 .. n : (n - i) + 1 \in 1 .. n
      BY <1>1
    <3>. QED
      BY <1>1, <3>1 DEF Reverse
  <2>. PICK f : f = p.free
    OBVIOUS
  <2>2. f \in Seq(Nat) /\ one \in Seq(Nat)
    BY <1>m DEF IsPool
  <2>3. (one \o b) \o f = one \o (b \o f)
    BY ONLY <2>1, <2>2
  <2>4. Reverse(one) = one
    <3>1. one \in Seq(Nat) /\ Len(one) = 1
      BY ONLY <1>m, id \in Nat
    <3>. PICK z : z = Reverse(one)
      OBVIOUS
    <3>2. z = [i \in 1 .. 1 |-> one[(1 - i) + 1]]
      BY <3>1 DEF Reverse
    <3>3. \A i \in 1 .. 1 : (1 - i) + 1 \in 1 .. 1 /\ (1 - i) + 1 = i
      OBVIOUS
    <3>4. \A i \in 1 .. 1 : one[i] \in Nat
      <4>1. one[1] \in Nat
        BY ONLY <1>m, id \in Nat
      <4>. QED
        BY <4>1
    <3>5. z \in Seq(Nat) /\ Len(z) = 1 /\ \A i \in 1 .. 1 : z[i] = one[i]
      BY ONLY <3>2, <3>3, <3>4
    <3>6. z = one
      BY ONLY <3>1, <3>5, SeqEqual
    <3>. QED
      BY <3>6
  <2>. QED
    BY ONLY <1>2, <1>2a, <1>2b, <1>5, <2>3, <2>4, b = Reverse(ids), f = p.free
<1>7. t.size = r.size
  BY ONLY <1>2, <1>2a, <1>2b
<1>. QED
  BY ONLY <1>2a, <1>2b, <1>4, <1>6, <1>7, <1>m, <1>q, <1>r, more = Append(ids, id)

------------------------------------------------------------------------------
(* A pool and lists that partition its identifiers. *)

\* retire every identifier of one list, then clear the list.
LEMMA PartitionDrop ==
  ASSUME NEW p, IsPool(p), NEW L, Partitioned(p, L), NEW s \in DOMAIN L,
         L[s] \in Seq(Nat),
         NEW M, DOMAIN M = DOMAIN L, M[s] = <<>>,
         \A t \in DOMAIN L : t # s => M[t] = L[t]
  PROVE  /\ IsPool(RetireAll(p, L[s]))
         /\ Live(RetireAll(p, L[s])) \subseteq Live(p)
         /\ \A id \in Live(RetireAll(p, L[s])) : RetireAll(p, L[s]).val[id] = p.val[id]
         /\ Partitioned(RetireAll(p, L[s]), M)
<1>. DEFINE q == RetireAll(p, L[s])
<1>1. \A i, j \in DOMAIN L[s] : L[s][i] = L[s][j] => i = j
  BY DEF Partitioned
<1>2. ToSet(L[s]) \subseteq Live(p)
  BY DEF Partitioned
<1>3. /\ IsPool(q)
      /\ Live(q) = Live(p) \ ToSet(L[s])
      /\ \A id \in Live(p) \ ToSet(L[s]) : q.val[id] = p.val[id]
  BY <1>1, <1>2, RetireAllPool
<1>. HIDE DEF q
<1>4. ToSet(M[s]) = {}
  BY DEF ToSet
<1>5. \A t \in DOMAIN L : t # s => ToSet(L[t]) \cap ToSet(L[s]) = {}
  BY DEF Partitioned, ToSet
<1>6. Live(q) = UNION {ToSet(M[t]) : t \in DOMAIN M}
  <2>1. ASSUME NEW id \in Live(q) PROVE \E t \in DOMAIN M : id \in ToSet(M[t])
    <3>1. id \in Live(p) /\ id \notin ToSet(L[s])
      BY <2>1, <1>3
    <3>2. PICK t \in DOMAIN L : id \in ToSet(L[t])
      BY <3>1 DEF Partitioned
    <3>. QED
      BY <3>1, <3>2
  <2>2. ASSUME NEW t \in DOMAIN M, NEW id \in ToSet(M[t]) PROVE id \in Live(q)
    <3>1. t # s /\ id \in ToSet(L[t])
      BY <2>2, <1>4
    <3>2. id \in Live(p)
      BY <3>1 DEF Partitioned
    <3>. QED
      BY <3>1, <3>2, <1>3, <1>5
  <2>. QED
    BY <2>1, <2>2
<1>7. \A t, u \in DOMAIN M : \A i \in DOMAIN M[t], j \in DOMAIN M[u] :
        M[t][i] = M[u][j] => t = u /\ i = j
  <2>1. DOMAIN M[s] = {}
    OBVIOUS
  <2>. SUFFICES ASSUME NEW t \in DOMAIN M, NEW u \in DOMAIN M,
                       NEW i \in DOMAIN M[t], NEW j \in DOMAIN M[u], M[t][i] = M[u][j]
                PROVE  t = u /\ i = j
    OBVIOUS
  <2>2. M[t] = L[t] /\ M[u] = L[u]
    BY <2>1
  <2>. QED
    BY <2>2 DEF Partitioned
<1>. QED
  <2>1. Partitioned(q, M)
    BY <1>6, <1>7 DEF Partitioned
  <2>. QED
    BY <1>3, <2>1 DEF q

\* L becomes M when the empty list s is given the identifiers of a batch xs.
Filling(p, L, s, xs, M) ==
  /\ IsPool(p)
  /\ Partitioned(p, L)
  /\ s \in DOMAIN L
  /\ L[s] = <<>>
  /\ Len(xs) \in Nat
  /\ DOMAIN M = DOMAIN L
  /\ M[s] = NewIds(p, Len(xs))
  /\ \A t \in DOMAIN L : t # s => M[t] = L[t]

\* allocate a batch for one list that is empty.
LEMMA PartitionAdd ==
  ASSUME NEW p, NEW L, NEW s, NEW xs, NEW M, Filling(p, L, s, xs, M)
  PROVE  Partitioned(AllocAll(p, xs), M)
<1>. DEFINE q == AllocAll(p, xs)
            n == Len(xs)
            ids == NewIds(p, n)
<1>. USE DEF Filling
<1>1. Live(q) = Live(p) \cup ToSet(ids)
  BY AllocAllHolds
<1>2. /\ DOMAIN ids = 1 .. n
      /\ \A i, j \in 1 .. n : ids[i] = ids[j] => i = j
      /\ \A i \in 1 .. n : ids[i] \notin Live(p)
  BY NewIdsFresh
<1>3. M[s] = ids
  OBVIOUS
<1>. HIDE DEF q, ids
<1>4. Live(p) = UNION {ToSet(L[t]) : t \in DOMAIN L} /\ ToSet(L[s]) = {}
  BY DEF Partitioned, ToSet
<1>5. Live(q) = UNION {ToSet(M[t]) : t \in DOMAIN M}
  <2>1. ASSUME NEW id \in Live(q) PROVE \E t \in DOMAIN M : id \in ToSet(M[t])
    <3>1. CASE id \in ToSet(ids)
      BY <3>1, <1>3
    <3>2. CASE id \in Live(p)
      <4>1. PICK t \in DOMAIN L : id \in ToSet(L[t])
        BY <3>2, <1>4
      <4>. QED
        BY <4>1, <1>4
    <3>. QED
      BY <2>1, <3>1, <3>2, <1>1
  <2>2. ASSUME NEW t \in DOMAIN M, NEW id \in ToSet(M[t]) PROVE id \in Live(q)
    <3>1. CASE t = s
      BY <2>2, <3>1, <1>1, <1>3
    <3>2. CASE t # s
      BY <2>2, <3>2, <1>1, <1>4
    <3>. QED
      BY <3>1, <3>2
  <2>. QED
    BY <2>1, <2>2
<1>6. \A t \in DOMAIN L : \A i \in DOMAIN L[t] : L[t][i] \in Live(p)
  BY <1>4 DEF ToSet
<1>7. \A t, u \in DOMAIN M : \A i \in DOMAIN M[t], j \in DOMAIN M[u] :
        M[t][i] = M[u][j] => t = u /\ i = j
  <2>. SUFFICES ASSUME NEW t \in DOMAIN M, NEW u \in DOMAIN M,
                       NEW i \in DOMAIN M[t], NEW j \in DOMAIN M[u], M[t][i] = M[u][j]
                PROVE  t = u /\ i = j
    OBVIOUS
  <2>1. CASE t = s /\ u = s
    BY <2>1, <1>2, <1>3
  <2>2. CASE t = s /\ u # s
    BY <2>2, <1>2, <1>3, <1>6
  <2>3. CASE t # s /\ u = s
    BY <2>3, <1>2, <1>3, <1>6
  <2>4. CASE t # s /\ u # s
    BY <2>4 DEF Partitioned
  <2>. QED
    BY <2>1, <2>2, <2>3, <2>4
<1>. QED
  <2>1. Partitioned(q, M)
    BY <1>5, <1>7 DEF Partitioned
  <2>. QED
    BY <2>1 DEF q

\* Empty lists come and go without a trace.
LEMMA PartitionEmpty ==
  ASSUME NEW p, NEW L, Partitioned(p, L), NEW M,
         \A t \in DOMAIN M : IF t \in DOMAIN L THEN M[t] = L[t] ELSE M[t] = <<>>,
         \A t \in DOMAIN L \ DOMAIN M : L[t] = <<>>
  PROVE  Partitioned(p, M)
<1>1. \A t \in DOMAIN M : DOMAIN M[t] # {} => t \in DOMAIN L /\ M[t] = L[t]
  OBVIOUS
<1>2. \A t \in DOMAIN L : ToSet(L[t]) # {} => t \in DOMAIN M /\ M[t] = L[t]
  BY DEF ToSet
<1>3. \A t \in DOMAIN M : ToSet(M[t]) # {} => t \in DOMAIN L /\ M[t] = L[t]
  BY DEF ToSet
<1>4. UNION {ToSet(L[t]) : t \in DOMAIN L} = UNION {ToSet(M[t]) : t \in DOMAIN M}
  <2>1. ASSUME NEW t \in DOMAIN L, NEW id \in ToSet(L[t])
        PROVE  \E u \in DOMAIN M : id \in ToSet(M[u])
    BY <2>1, <1>2
  <2>2. ASSUME NEW t \in DOMAIN M, NEW id \in ToSet(M[t])
        PROVE  \E u \in DOMAIN L : id \in ToSet(L[u])
    BY <2>2, <1>3
  <2>. QED
    BY <2>1, <2>2
<1>. QED
  BY <1>1, <1>4 DEF Partitioned

------------------------------------------------------------------------------
(* The functions of raw_core.cpp keep an engine sound. *)

VertLists(r) == [t \in Skels(r) |-> r.skel.val[t].verts]
EdgeLists(r) == [t \in Skels(r) |-> r.skel.val[t].edges]

\* retire_skeleton_contents leaves a sound engine and an empty skeleton.
LEMMA RetireContentsSound ==
  ASSUME NEW r, IsEngine(r), Owned(r), NEW sid \in Skels(r)
  PROVE  LET x == RetireContents(r, sid) IN
         /\ IsEngine(x) /\ Owned(x)
         /\ Skels(x) = Skels(r)
         /\ x.skel.val[sid] = EmptySkeleton
<1>. DEFINE x  == RetireContents(r, sid)
            vs == r.skel.val[sid].verts
            es == r.skel.val[sid].edges
<1>1. /\ x.V = RetireAll(r.V, vs)
      /\ x.E = RetireAll(r.E, es)
      /\ x.skel = Put(r.skel, sid, EmptySkeleton)
      /\ x.occ = r.occ
  BY DEF RetireContents, Stores
<1>. HIDE DEF x
<1>2. /\ Skels(x) = Skels(r)
      /\ x.skel.val[sid] = EmptySkeleton
      /\ \A t \in Skels(r) : t # sid => x.skel.val[t] = r.skel.val[t]
      /\ x.skel.free = r.skel.free /\ x.skel.size = r.skel.size
  BY <1>1 DEF Put, Skels, Live
<1>3. vs \in Seq(Nat) /\ es \in Seq(Nat)
  BY DEF IsEngine, RawSkeleton
<1>4. EmptySkeleton \in RawSkeleton /\ EmptySkeleton.verts = <<>> /\ EmptySkeleton.edges = <<>>
  BY DEF EmptySkeleton, RawSkeleton
<1>5. /\ IsPool(x.V) /\ Live(x.V) \subseteq Live(r.V)
      /\ \A id \in Live(x.V) : x.V.val[id] = r.V.val[id]
      /\ Partitioned(x.V, VertLists(x))
  <2>. DEFINE L == VertLists(r)
              M == VertLists(x)
  <2>1. IsPool(r.V) /\ Partitioned(r.V, L)
    BY DEF IsEngine, Owned, VertLists
  <2>2. /\ DOMAIN L = Skels(r) /\ DOMAIN M = DOMAIN L
        /\ L[sid] = vs /\ M[sid] = <<>>
        /\ \A t \in DOMAIN L : t # sid => M[t] = L[t]
    BY <1>2, <1>4 DEF VertLists
  <2>. HIDE DEF L, M
  <2>3. L[sid] \in Seq(Nat) /\ sid \in DOMAIN L
    BY <1>3, <2>2
  <2>4. /\ IsPool(RetireAll(r.V, L[sid]))
        /\ Live(RetireAll(r.V, L[sid])) \subseteq Live(r.V)
        /\ \A id \in Live(RetireAll(r.V, L[sid])) : RetireAll(r.V, L[sid]).val[id] = r.V.val[id]
        /\ Partitioned(RetireAll(r.V, L[sid]), M)
    BY ONLY <2>1, <2>2, <2>3, PartitionDrop
  <2>. QED
    BY <2>2, <2>4, <1>1 DEF M
<1>6. /\ IsPool(x.E)
      /\ Partitioned(x.E, EdgeLists(x))
  <2>. DEFINE L == EdgeLists(r)
              M == EdgeLists(x)
  <2>1. IsPool(r.E) /\ Partitioned(r.E, L)
    BY DEF IsEngine, Owned, EdgeLists
  <2>2. /\ DOMAIN L = Skels(r) /\ DOMAIN M = DOMAIN L
        /\ L[sid] = es /\ M[sid] = <<>>
        /\ \A t \in DOMAIN L : t # sid => M[t] = L[t]
    BY <1>2, <1>4 DEF EdgeLists
  <2>. HIDE DEF L, M
  <2>3. L[sid] \in Seq(Nat) /\ sid \in DOMAIN L
    BY <1>3, <2>2
  <2>4. /\ IsPool(RetireAll(r.E, L[sid]))
        /\ Partitioned(RetireAll(r.E, L[sid]), M)
    BY ONLY <2>1, <2>2, <2>3, PartitionDrop
  <2>. QED
    BY <2>2, <2>4, <1>1 DEF M
<1>7. IsPool(x.skel)
  BY <1>2 DEF IsEngine, IsPool, Skels
<1>8. \A t \in Skels(x) : x.skel.val[t] \in RawSkeleton
  BY <1>2, <1>4 DEF IsEngine
<1>9. IsEngine(x)
  BY <1>1, <1>5, <1>6, <1>7, <1>8 DEF IsEngine
<1>10. Owned(x)
  BY <1>5, <1>6 DEF Owned, VertLists, EdgeLists
<1>. QED
  BY <1>2, <1>9, <1>10 DEF x

\* commit_skeleton leaves a sound engine, whatever it finds in the skeleton.
LEMMA CommitSkeletonSound ==
  ASSUME NEW r, IsEngine(r), Owned(r), NEW sid \in Skels(r), NEW B, TypedBuilder(B)
  PROVE  IsEngine(CommitSkeleton(r, sid, B)) /\ Owned(CommitSkeleton(r, sid, B))
<1>. DEFINE x    == CommitSkeleton(r, sid, B)
            r0   == RetireContents(r, sid)
            n    == Len(B.V)
            m    == Len(B.E)
            vids == NewIds(r0.V, n)
            eids == NewIds(r0.E, m)
            S    == [verts |-> vids, edges |-> eids, hosted |-> OccsOf(B)]
<1>1. /\ x.V = AllocAll(r0.V, StoredVertices(B, eids))
      /\ x.E = AllocAll(r0.E, StoredEdges(B, vids))
      /\ x.skel = Put(r0.skel, sid, S)
      /\ DOMAIN x.occ = DOMAIN r.occ
  BY DEF CommitSkeleton
<1>2. /\ IsEngine(r0) /\ Owned(r0)
      /\ Skels(r0) = Skels(r)
      /\ r0.skel.val[sid] = EmptySkeleton
  BY RetireContentsSound
<1>. HIDE DEF x, r0
<1>3. n \in Nat /\ m \in Nat /\ B.V \in Seq(BuilderVertex)
  BY DEF TypedBuilder
<1>4. IsPool(r0.V) /\ IsPool(r0.E) /\ IsPool(r0.skel)
  BY <1>2 DEF IsEngine
<1>5. vids \in Seq(Nat) /\ eids \in Seq(Nat) /\ DOMAIN eids = 1 .. m
  BY <1>3, <1>4, NewIdsFresh
<1>6. Len(StoredVertices(B, eids)) = n /\ Len(StoredEdges(B, vids)) = m
  BY <1>3 DEF StoredVertices, StoredEdges
<1>. HIDE DEF n, m, vids, eids
<1>7. S \in RawSkeleton /\ S.verts = vids /\ S.edges = eids
  BY <1>5 DEF RawSkeleton, TypedBuilder
<1>8. \A i \in 1 .. n : StoredVertices(B, eids)[i] \in RawVertex
  <2>. SUFFICES ASSUME NEW i \in 1 .. n PROVE StoredVertices(B, eids)[i] \in RawVertex
    OBVIOUS
  <2>. DEFINE adj == {eids[k] : k \in {k \in 1 .. m : i \in {B.E[k].a, B.E[k].b}}}
  <2>1. B.V[i] \in BuilderVertex
    BY <1>3 DEF n
  <2>2. \A k \in 1 .. m : eids[k] \in Nat
    <3>1. \A s \in Seq(Nat) : \A k \in DOMAIN s : s[k] \in Nat
      OBVIOUS
    <3>. QED
      BY <3>1, <1>5, Zenon
  <2>3. adj \in SUBSET Nat
    BY <2>2
  <2>4. StoredVertices(B, eids)[i] =
          [kind |-> B.V[i].kind, orig |-> B.V[i].orig, occ |-> B.V[i].occ, adj |-> adj]
    BY DEF StoredVertices, n, m
  <2>. HIDE DEF adj
  <2>. QED
    BY <2>1, <2>3, <2>4 DEF BuilderVertex, RawVertex
<1>9. /\ Skels(x) = Skels(r)
      /\ x.skel.val[sid] = S
      /\ \A t \in Skels(r) : t # sid => x.skel.val[t] = r0.skel.val[t]
      /\ x.skel.free = r0.skel.free /\ x.skel.size = r0.skel.size
  BY <1>1, <1>2 DEF Put, Skels, Live
<1>. HIDE DEF S
<1>10. EmptySkeleton.verts = <<>> /\ EmptySkeleton.edges = <<>>
  BY DEF EmptySkeleton
<1>11. Partitioned(x.V, VertLists(x))
  <2>. DEFINE L == VertLists(r0)
              M == VertLists(x)
  <2>1. Partitioned(r0.V, L)
    BY <1>2 DEF Owned, VertLists
  <2>2. /\ sid \in DOMAIN L /\ DOMAIN M = DOMAIN L
        /\ L[sid] = <<>> /\ M[sid] = NewIds(r0.V, n)
        /\ \A t \in DOMAIN L : t # sid => M[t] = L[t]
    BY <1>2, <1>7, <1>9, <1>10 DEF VertLists, vids
  <2>. HIDE DEF L, M
  <2>3. Partitioned(AllocAll(r0.V, StoredVertices(B, eids)), M)
    <3>. DEFINE xs == StoredVertices(B, eids)
    <3>1. Len(xs) = n
      BY <1>6
    <3>. HIDE DEF xs
    <3>2. Filling(r0.V, L, sid, xs, M)
      BY <1>3, <1>4, <3>1, <2>1, <2>2 DEF Filling
    <3>3. Partitioned(AllocAll(r0.V, xs), M)
      BY <3>2, PartitionAdd, Zenon
    <3>. QED
      BY <3>3 DEF xs
  <2>. QED
    BY <2>3, <1>1 DEF M
<1>12. Partitioned(x.E, EdgeLists(x))
  <2>. DEFINE L == EdgeLists(r0)
              M == EdgeLists(x)
  <2>1. Partitioned(r0.E, L)
    BY <1>2 DEF Owned, EdgeLists
  <2>2. /\ sid \in DOMAIN L /\ DOMAIN M = DOMAIN L
        /\ L[sid] = <<>> /\ M[sid] = NewIds(r0.E, m)
        /\ \A t \in DOMAIN L : t # sid => M[t] = L[t]
    BY <1>2, <1>7, <1>9, <1>10 DEF EdgeLists, eids
  <2>. HIDE DEF L, M
  <2>3. Partitioned(AllocAll(r0.E, StoredEdges(B, vids)), M)
    <3>. DEFINE xs == StoredEdges(B, vids)
    <3>1. Len(xs) = m
      BY <1>6
    <3>. HIDE DEF xs
    <3>2. Filling(r0.E, L, sid, xs, M)
      BY <1>3, <1>4, <3>1, <2>1, <2>2 DEF Filling
    <3>3. Partitioned(AllocAll(r0.E, xs), M)
      BY <3>2, PartitionAdd, Zenon
    <3>. QED
      BY <3>3 DEF xs
  <2>. QED
    BY <2>3, <1>1 DEF M
<1>13. IsPool(x.V) /\ IsPool(x.E) /\ IsPool(x.skel)
  <2>1. IsPool(x.V)
    BY <1>1, <1>3, <1>4, <1>6, AllocAllPool
  <2>2. IsPool(x.E)
    BY <1>1, <1>3, <1>4, <1>6, AllocAllPool
  <2>3. IsPool(x.skel)
    BY <1>2, <1>4, <1>9 DEF IsPool, Skels
  <2>. QED
    BY <2>1, <2>2, <2>3
<1>14. \A v \in Live(x.V) : x.V.val[v] \in RawVertex
  <2>1. /\ Live(x.V) = Live(r0.V) \cup ToSet(vids)
        /\ \A v \in Live(r0.V) : x.V.val[v] = r0.V.val[v]
        /\ \A i \in 1 .. n : x.V.val[vids[i]] = StoredVertices(B, eids)[i]
    BY <1>1, <1>3, <1>4, <1>6, AllocAllHolds DEF vids
  <2>2. DOMAIN vids = 1 .. n
    BY <1>3, <1>4, NewIdsFresh DEF vids
  <2>3. \A v \in ToSet(vids) : \E i \in 1 .. n : v = vids[i]
    BY <2>2 DEF ToSet
  <2>4. \A v \in Live(r0.V) : r0.V.val[v] \in RawVertex
    BY <1>2 DEF IsEngine
  <2>. QED
    BY <2>1, <2>3, <2>4, <1>8
<1>15. \A t \in Skels(x) : x.skel.val[t] \in RawSkeleton
  BY <1>2, <1>7, <1>9 DEF IsEngine
<1>16. IsEngine(x)
  BY <1>1, <1>13, <1>14, <1>15 DEF IsEngine
<1>17. Owned(x)
  BY <1>11, <1>12 DEF Owned, VertLists, EdgeLists
<1>. QED
  BY <1>16, <1>17 DEF x

\* A new skeleton is empty.
LEMMA AllocSkeletonSound ==
  ASSUME NEW r, IsEngine(r), Owned(r)
  PROVE  IsEngine(AllocSkeleton(r)) /\ Owned(AllocSkeleton(r))
<1>. DEFINE x   == AllocSkeleton(r)
            xs  == <<EmptySkeleton>>
            sid == NewIds(r.skel, 1)[1]
<1>1. /\ x.V = r.V /\ x.E = r.E /\ x.occ = r.occ
      /\ x.skel = AllocAll(r.skel, xs)
  BY DEF AllocSkeleton, Stores
<1>2. Len(xs) = 1 /\ xs[1] = EmptySkeleton
  OBVIOUS
<1>. HIDE DEF x, xs
<1>3. IsPool(r.skel)
  BY DEF IsEngine
<1>4. ToSet(NewIds(r.skel, 1)) = {sid} /\ sid \notin Skels(r)
  <2>1. DOMAIN NewIds(r.skel, 1) = 1 .. 1 /\ \A i \in 1 .. 1 : NewIds(r.skel, 1)[i] \notin Live(r.skel)
    BY <1>3, NewIdsFresh
  <2>. QED
    BY <2>1 DEF ToSet, Skels
<1>5. /\ Skels(x) = Skels(r) \cup {sid}
      /\ \A t \in Skels(r) : x.skel.val[t] = r.skel.val[t]
      /\ x.skel.val[sid] = EmptySkeleton
  <2>. DEFINE n == 1
  <2>1. n \in Nat /\ Len(xs) = n
    BY <1>2
  <2>. HIDE DEF n
  <2>2. /\ Live(AllocAll(r.skel, xs)) = Live(r.skel) \cup ToSet(NewIds(r.skel, n))
        /\ \A id \in Live(r.skel) : AllocAll(r.skel, xs).val[id] = r.skel.val[id]
        /\ \A i \in 1 .. n : AllocAll(r.skel, xs).val[NewIds(r.skel, n)[i]] = xs[i]
    BY ONLY <1>3, <2>1, AllocAllHolds
  <2>. QED
    BY <2>2, <1>1, <1>2, <1>4 DEF Skels, n
<1>. HIDE DEF sid
<1>6. EmptySkeleton \in RawSkeleton /\ EmptySkeleton.verts = <<>> /\ EmptySkeleton.edges = <<>>
  BY DEF EmptySkeleton, RawSkeleton
<1>7. IsPool(x.skel)
  <2>1. 1 \in Nat
    OBVIOUS
  <2>2. IsPool(AllocAll(r.skel, xs))
    BY ONLY <1>2, <1>3, <2>1, AllocAllPool, Zenon
  <2>. QED
    BY <2>2, <1>1
<1>8. \A t \in Skels(x) : x.skel.val[t] \in RawSkeleton
  BY <1>5, <1>6 DEF IsEngine
<1>9. Partitioned(x.V, VertLists(x))
  <2>1. Partitioned(r.V, VertLists(r))
    BY DEF Owned, VertLists
  <2>2. /\ \A t \in DOMAIN VertLists(x) : IF t \in DOMAIN VertLists(r)
                                          THEN VertLists(x)[t] = VertLists(r)[t]
                                          ELSE VertLists(x)[t] = <<>>
        /\ DOMAIN VertLists(r) \ DOMAIN VertLists(x) = {}
    BY <1>4, <1>5, <1>6 DEF VertLists
  <2>. QED
    BY <2>1, <2>2, <1>1, PartitionEmpty
<1>10. Partitioned(x.E, EdgeLists(x))
  <2>1. Partitioned(r.E, EdgeLists(r))
    BY DEF Owned, EdgeLists
  <2>2. /\ \A t \in DOMAIN EdgeLists(x) : IF t \in DOMAIN EdgeLists(r)
                                          THEN EdgeLists(x)[t] = EdgeLists(r)[t]
                                          ELSE EdgeLists(x)[t] = <<>>
        /\ DOMAIN EdgeLists(r) \ DOMAIN EdgeLists(x) = {}
    BY <1>4, <1>5, <1>6 DEF EdgeLists
  <2>. QED
    BY <2>1, <2>2, <1>1, PartitionEmpty
<1>11. IsEngine(x)
  BY <1>1, <1>7, <1>8 DEF IsEngine
<1>12. Owned(x)
  BY <1>9, <1>10 DEF Owned, VertLists, EdgeLists
<1>. QED
  BY <1>11, <1>12 DEF x

\* A skeleton may be retired once its lists are empty.
LEMMA FreeSkeletonSound ==
  ASSUME NEW r, IsEngine(r), Owned(r), NEW sid \in Skels(r),
         r.skel.val[sid].verts = <<>>, r.skel.val[sid].edges = <<>>
  PROVE  IsEngine(FreeSkeleton(r, sid)) /\ Owned(FreeSkeleton(r, sid))
<1>. DEFINE x   == FreeSkeleton(r, sid)
            ids == <<sid>>
<1>1. /\ x.V = r.V /\ x.E = r.E /\ x.occ = r.occ
      /\ x.skel = RetireAll(r.skel, ids)
  BY DEF FreeSkeleton, Stores
<1>. HIDE DEF x
<1>2. IsPool(r.skel) /\ sid \in Nat
  BY DEF IsEngine, IsPool, Skels
<1>3. /\ ids \in Seq(Nat)
      /\ \A i, j \in DOMAIN ids : ids[i] = ids[j] => i = j
      /\ ToSet(ids) = {sid}
  BY <1>2 DEF ToSet
<1>. HIDE DEF ids
<1>4. ToSet(ids) \subseteq Live(r.skel)
  BY <1>3 DEF Skels
<1>5. /\ IsPool(x.skel)
      /\ Skels(x) = Skels(r) \ {sid}
      /\ \A t \in Skels(x) : x.skel.val[t] = r.skel.val[t]
  BY <1>1, <1>2, <1>3, <1>4, RetireAllPool DEF Skels
<1>6. Partitioned(x.V, VertLists(x))
  <2>1. Partitioned(r.V, VertLists(r))
    BY DEF Owned, VertLists
  <2>2. /\ \A t \in DOMAIN VertLists(x) : IF t \in DOMAIN VertLists(r)
                                          THEN VertLists(x)[t] = VertLists(r)[t]
                                          ELSE VertLists(x)[t] = <<>>
        /\ \A t \in DOMAIN VertLists(r) \ DOMAIN VertLists(x) : VertLists(r)[t] = <<>>
    BY <1>5 DEF VertLists
  <2>. QED
    BY <2>1, <2>2, <1>1, PartitionEmpty
<1>7. Partitioned(x.E, EdgeLists(x))
  <2>1. Partitioned(r.E, EdgeLists(r))
    BY DEF Owned, EdgeLists
  <2>2. /\ \A t \in DOMAIN EdgeLists(x) : IF t \in DOMAIN EdgeLists(r)
                                          THEN EdgeLists(x)[t] = EdgeLists(r)[t]
                                          ELSE EdgeLists(x)[t] = <<>>
        /\ \A t \in DOMAIN EdgeLists(r) \ DOMAIN EdgeLists(x) : EdgeLists(r)[t] = <<>>
    BY <1>5 DEF EdgeLists
  <2>. QED
    BY <2>1, <2>2, <1>1, PartitionEmpty
<1>8. IsEngine(x)
  BY <1>1, <1>5 DEF IsEngine
<1>9. Owned(x)
  BY <1>6, <1>7 DEF Owned, VertLists, EdgeLists
<1>. QED
  BY <1>8, <1>9 DEF x

------------------------------------------------------------------------------
(* What a call leaves alone. *)

\* Skeleton t has the same lists in r and x, and what they name the same contents.
SameContents(r, x, t) ==
  /\ x.skel.val[t] = r.skel.val[t]
  /\ \A v \in VertsOf(r, t) : x.V.val[v] = r.V.val[v]
  /\ \A e \in EdgesOf(r, t) : x.E.val[e] = r.E.val[e]

\* A skeleton whose contents are left alone stays a graph.
LEMMA GraphFrame ==
  ASSUME NEW r, NEW x, NEW t, SameContents(r, x, t), IsGraph(r, t)
  PROVE  IsGraph(x, t)
<1>1. /\ VertsOf(x, t) = VertsOf(r, t)
      /\ EdgesOf(x, t) = EdgesOf(r, t)
      /\ HostedOf(x, t) = HostedOf(r, t)
  BY DEF SameContents, VertsOf, EdgesOf, HostedOf
<1>2. \A e \in EdgesOf(x, t) :
        /\ x.E.val[e].a \in VertsOf(x, t)
        /\ x.E.val[e].b \in VertsOf(x, t)
        /\ x.E.val[e].a # x.E.val[e].b
  BY <1>1 DEF SameContents, IsGraph
<1>3. \A v \in VertsOf(x, t) :
        x.V.val[v].adj = {e \in EdgesOf(x, t) : v \in {x.E.val[e].a, x.E.val[e].b}}
  <2>. SUFFICES ASSUME NEW v \in VertsOf(x, t)
                PROVE  x.V.val[v].adj = {e \in EdgesOf(x, t) : v \in {x.E.val[e].a, x.E.val[e].b}}
    OBVIOUS
  <2>1. r.V.val[v].adj = {e \in EdgesOf(r, t) : v \in {r.E.val[e].a, r.E.val[e].b}}
    BY <1>1 DEF IsGraph
  <2>2. {e \in EdgesOf(x, t) : v \in {x.E.val[e].a, x.E.val[e].b}}
          = {e \in EdgesOf(r, t) : v \in {r.E.val[e].a, r.E.val[e].b}}
    BY <1>1 DEF SameContents
  <2>. QED
    BY <1>1, <2>1, <2>2 DEF SameContents
<1>4. HostedOf(x, t) =
        {x.V.val[v].occ : v \in {v \in VertsOf(x, t) : x.V.val[v].kind = "OCC_CENTER"}}
  <2>1. HostedOf(r, t) =
          {r.V.val[v].occ : v \in {v \in VertsOf(r, t) : r.V.val[v].kind = "OCC_CENTER"}}
    BY DEF IsGraph
  <2>2. {v \in VertsOf(x, t) : x.V.val[v].kind = "OCC_CENTER"}
          = {v \in VertsOf(r, t) : r.V.val[v].kind = "OCC_CENTER"}
    BY <1>1 DEF SameContents
  <2>. QED
    BY <1>1, <2>1, <2>2 DEF SameContents
<1>. QED
  BY <1>2, <1>3, <1>4 DEF IsGraph

\* So does a record whose host is left alone.
LEMMA CurrentFrame ==
  ASSUME NEW r, NEW x, NEW o, x.occ[o] = r.occ[o],
         SameContents(r, x, r.occ[o].host), IsCurrent(r, o)
  PROVE  IsCurrent(x, o)
<1>. DEFINE h == r.occ[o].host
<1>1. VertsOf(x, h) = VertsOf(r, h) /\ EdgesOf(x, h) = EdgesOf(r, h)
  BY DEF SameContents, VertsOf, EdgesOf
<1>. QED
  BY <1>1 DEF SameContents, IsCurrent

\* A skeleton lists only vertices and edges in use.
LEMMA ListedAreLive ==
  ASSUME NEW r, Owned(r), NEW t \in Skels(r)
  PROVE  VertsOf(r, t) \subseteq Live(r.V) /\ EdgesOf(r, t) \subseteq Live(r.E)
<1>1. Live(r.V) = UNION {ToSet(VertLists(r)[s]) : s \in DOMAIN VertLists(r)}
  BY DEF Owned, Partitioned, VertLists
<1>2. Live(r.E) = UNION {ToSet(EdgeLists(r)[s]) : s \in DOMAIN EdgeLists(r)}
  BY DEF Owned, Partitioned, EdgeLists
<1>3. /\ t \in DOMAIN VertLists(r) /\ VertLists(r)[t] = r.skel.val[t].verts
      /\ t \in DOMAIN EdgeLists(r) /\ EdgeLists(r)[t] = r.skel.val[t].edges
  BY DEF VertLists, EdgeLists
<1>. QED
  BY <1>1, <1>2, <1>3 DEF VertsOf, EdgesOf

\* Retiring identifiers leaves the values of the others alone.
LEMMA RetireAllKeeps ==
  ASSUME NEW p, NEW ids, NEW id \in Live(p) \ ToSet(ids)
  PROVE  RetireAll(p, ids).val[id] = p.val[id]
<1>1. RetireAll(p, ids).val = [k \in Live(p) \ ToSet(ids) |-> p.val[k]]
  BY ONLY DEF RetireAll
<1>. QED
  BY ONLY <1>1, id \in Live(p) \ ToSet(ids)

\* retire_skeleton_contents leaves the other skeletons alone.
LEMMA RetireContentsFrame ==
  ASSUME NEW r, IsEngine(r), Owned(r), NEW sid \in Skels(r), NEW t \in Skels(r), t # sid
  PROVE  SameContents(r, RetireContents(r, sid), t)
<1>. DEFINE x  == RetireContents(r, sid)
            vs == r.skel.val[sid].verts
            es == r.skel.val[sid].edges
<1>1. /\ x.V = RetireAll(r.V, vs)
      /\ x.E = RetireAll(r.E, es)
      /\ x.skel = Put(r.skel, sid, EmptySkeleton)
  BY DEF RetireContents, Stores
<1>. HIDE DEF x
<1>2. x.skel.val[t] = r.skel.val[t]
  BY <1>1 DEF Put, Skels, Live
<1>3. VertsOf(r, t) \subseteq Live(r.V) /\ EdgesOf(r, t) \subseteq Live(r.E)
  BY ListedAreLive
<1>4. VertsOf(r, t) \cap ToSet(vs) = {}
  <2>1. \A i \in DOMAIN VertLists(r)[sid], j \in DOMAIN VertLists(r)[t] :
          VertLists(r)[sid][i] # VertLists(r)[t][j]
    BY DEF Owned, Partitioned, VertLists
  <2>. QED
    BY <2>1 DEF VertLists, VertsOf, ToSet
<1>5. EdgesOf(r, t) \cap ToSet(es) = {}
  <2>1. \A i \in DOMAIN EdgeLists(r)[sid], j \in DOMAIN EdgeLists(r)[t] :
          EdgeLists(r)[sid][i] # EdgeLists(r)[t][j]
    BY DEF Owned, Partitioned, EdgeLists
  <2>. QED
    BY <2>1 DEF EdgeLists, EdgesOf, ToSet
<1>6. \A id \in Live(r.V) \ ToSet(vs) : x.V.val[id] = r.V.val[id]
  BY ONLY <1>1, RetireAllKeeps
<1>7. \A id \in Live(r.E) \ ToSet(es) : x.E.val[id] = r.E.val[id]
  BY ONLY <1>1, RetireAllKeeps
<1>8. SameContents(r, x, t)
  <2>1. \A v \in VertsOf(r, t) : x.V.val[v] = r.V.val[v]
    BY ONLY <1>3, <1>4, <1>6
  <2>2. \A e \in EdgesOf(r, t) : x.E.val[e] = r.E.val[e]
    BY ONLY <1>3, <1>5, <1>7
  <2>. QED
    BY <1>2, <2>1, <2>2 DEF SameContents
<1>. QED
  BY <1>8 DEF x

------------------------------------------------------------------------------
(* What a commit stores. *)

\* x is r with the contents of B stored in the skeleton sid, under the vertex
\* identifiers vids and the edge identifiers eids.
Stored(x, sid, B, vids, eids) ==
  /\ x.skel.val[sid] = [verts |-> vids, edges |-> eids, hosted |-> OccsOf(B)]
  /\ DOMAIN vids = 1 .. Len(B.V) /\ DOMAIN eids = 1 .. Len(B.E)
  /\ \A i, j \in DOMAIN vids : vids[i] = vids[j] => i = j
  /\ \A k, l \in DOMAIN eids : eids[k] = eids[l] => k = l
  /\ \A i \in DOMAIN vids : x.V.val[vids[i]] = StoredVertices(B, eids)[i]
  /\ \A k \in DOMAIN eids : x.E.val[eids[k]] = StoredEdges(B, vids)[k]
  /\ \A o \in OccsOf(B) \cap DOMAIN x.occ : x.occ[o] = StoredRecord(B, o, sid, vids, eids)

\* The stored edges of B that end at its vertex i.
StoredAdj(B, eids, i) == {eids[k] : k \in {k \in 1 .. Len(B.E) : i \in {B.E[k].a, B.E[k].b}}}

\* The fields of what is stored.
LEMMA StoredItems ==
  ASSUME NEW x, NEW sid, NEW B, NEW vids, NEW eids, Stored(x, sid, B, vids, eids)
  PROVE  /\ \A i \in 1 .. Len(B.V) :
              /\ x.V.val[vids[i]].kind = B.V[i].kind
              /\ x.V.val[vids[i]].occ = B.V[i].occ
              /\ x.V.val[vids[i]].adj = StoredAdj(B, eids, i)
         /\ \A k \in 1 .. Len(B.E) :
              /\ x.E.val[eids[k]].a = vids[B.E[k].a]
              /\ x.E.val[eids[k]].b = vids[B.E[k].b]
              /\ x.E.val[eids[k]].kind = B.E[k].kind
<1>1. /\ \A i \in 1 .. Len(B.V) : x.V.val[vids[i]] = StoredVertices(B, eids)[i]
      /\ \A k \in 1 .. Len(B.E) : x.E.val[eids[k]] = StoredEdges(B, vids)[k]
  BY DEF Stored
<1>2. ASSUME NEW i \in 1 .. Len(B.V)
      PROVE  /\ x.V.val[vids[i]].kind = B.V[i].kind
             /\ x.V.val[vids[i]].occ = B.V[i].occ
             /\ x.V.val[vids[i]].adj = StoredAdj(B, eids, i)
  <2>1. StoredVertices(B, eids)[i] =
          [kind |-> B.V[i].kind, orig |-> B.V[i].orig, occ |-> B.V[i].occ,
           adj |-> StoredAdj(B, eids, i)]
    BY DEF StoredVertices, StoredAdj
  <2>2. x.V.val[vids[i]] = StoredVertices(B, eids)[i]
    BY <1>1
  <2>. QED
    BY <2>1, <2>2
<1>3. ASSUME NEW k \in 1 .. Len(B.E)
      PROVE  /\ x.E.val[eids[k]].a = vids[B.E[k].a]
             /\ x.E.val[eids[k]].b = vids[B.E[k].b]
             /\ x.E.val[eids[k]].kind = B.E[k].kind
  <2>1. StoredEdges(B, vids)[k] =
          [a |-> vids[B.E[k].a], b |-> vids[B.E[k].b], kind |-> B.E[k].kind, br |-> B.E[k].br]
    BY DEF StoredEdges
  <2>2. x.E.val[eids[k]] = StoredEdges(B, vids)[k]
    BY <1>1
  <2>. QED
    BY <2>1, <2>2
<1>. QED
  BY <1>2, <1>3

\* commit_skeleton stores the builder, leaves the other skeletons alone and
\* rewrites no record but those of the occurrences the builder holds.
LEMMA CommitStores ==
  ASSUME NEW r, IsEngine(r), Owned(r), NEW sid \in Skels(r), NEW B, TypedBuilder(B)
  PROVE  LET x == CommitSkeleton(r, sid, B) IN
         /\ Skels(x) = Skels(r)
         /\ DOMAIN x.occ = DOMAIN r.occ
         /\ \A o \in DOMAIN r.occ \ OccsOf(B) : x.occ[o] = r.occ[o]
         /\ \E vids, eids : Stored(x, sid, B, vids, eids)
         /\ \A t \in Skels(r) : t # sid => SameContents(r, x, t)
<1>. DEFINE x    == CommitSkeleton(r, sid, B)
            r0   == RetireContents(r, sid)
            n    == Len(B.V)
            m    == Len(B.E)
            vids == NewIds(r0.V, n)
            eids == NewIds(r0.E, m)
            S    == [verts |-> vids, edges |-> eids, hosted |-> OccsOf(B)]
<1>1. /\ x.V = AllocAll(r0.V, StoredVertices(B, eids))
      /\ x.E = AllocAll(r0.E, StoredEdges(B, vids))
      /\ x.skel = Put(r0.skel, sid, S)
      /\ x.occ = [o \in DOMAIN r.occ |->
                    IF o \in OccsOf(B) THEN StoredRecord(B, o, sid, vids, eids) ELSE r.occ[o]]
  BY DEF CommitSkeleton
<1>2. /\ IsEngine(r0) /\ Owned(r0)
      /\ Skels(r0) = Skels(r)
  BY RetireContentsSound
<1>3. \A t \in Skels(r) : t # sid => SameContents(r, r0, t)
  BY RetireContentsFrame
<1>. HIDE DEF x, r0
<1>4. n \in Nat /\ m \in Nat
  BY DEF TypedBuilder
<1>5. IsPool(r0.V) /\ IsPool(r0.E)
  BY <1>2 DEF IsEngine
<1>6. /\ DOMAIN vids = 1 .. n
      /\ \A i, j \in DOMAIN vids : vids[i] = vids[j] => i = j
  <2>. HIDE DEF n
  <2>1. /\ DOMAIN vids = 1 .. n
        /\ \A i, j \in 1 .. n : vids[i] = vids[j] => i = j
    BY <1>4, <1>5, NewIdsFresh
  <2>. QED
    BY <2>1
<1>7. /\ DOMAIN eids = 1 .. m
      /\ \A i, j \in DOMAIN eids : eids[i] = eids[j] => i = j
  <2>. HIDE DEF m
  <2>1. /\ DOMAIN eids = 1 .. m
        /\ \A i, j \in 1 .. m : eids[i] = eids[j] => i = j
    BY <1>4, <1>5, NewIdsFresh
  <2>. QED
    BY <2>1
<1>8. Len(StoredVertices(B, eids)) = n /\ Len(StoredEdges(B, vids)) = m
  BY <1>4 DEF StoredVertices, StoredEdges
<1>9. /\ Skels(x) = Skels(r)
      /\ x.skel.val[sid] = S
      /\ \A t \in Skels(r) : t # sid => x.skel.val[t] = r0.skel.val[t]
  BY <1>1, <1>2 DEF Put, Skels, Live
<1>. HIDE DEF n, m, vids, eids
<1>10. /\ \A v \in Live(r0.V) : x.V.val[v] = r0.V.val[v]
       /\ \A i \in 1 .. n : x.V.val[vids[i]] = StoredVertices(B, eids)[i]
  BY <1>1, <1>4, <1>5, <1>8, AllocAllHolds DEF vids
<1>11. /\ \A e \in Live(r0.E) : x.E.val[e] = r0.E.val[e]
       /\ \A k \in 1 .. m : x.E.val[eids[k]] = StoredEdges(B, vids)[k]
  BY <1>1, <1>4, <1>5, <1>8, AllocAllHolds DEF eids
<1>12. Stored(x, sid, B, vids, eids)
  BY <1>1, <1>6, <1>7, <1>9, <1>10, <1>11 DEF Stored, n, m
<1>13. ASSUME NEW t \in Skels(r), t # sid PROVE SameContents(r, x, t)
  <2>1. VertsOf(r0, t) \subseteq Live(r0.V) /\ EdgesOf(r0, t) \subseteq Live(r0.E)
    BY <1>2, ListedAreLive
  <2>2. SameContents(r, r0, t)
    BY <1>3, <1>13
  <2>3. VertsOf(r0, t) = VertsOf(r, t) /\ EdgesOf(r0, t) = EdgesOf(r, t)
    BY <2>2 DEF SameContents, VertsOf, EdgesOf
  <2>. QED
    BY <2>1, <2>2, <2>3, <1>9, <1>10, <1>11, <1>13 DEF SameContents
<1>. QED
  BY <1>1, <1>9, <1>12, <1>13 DEF x

\* What a valid builder stores is a graph.
LEMMA StoredIsGraph ==
  ASSUME NEW x, NEW sid, NEW B, NEW vids, NEW eids,
         TypedBuilder(B), ValidBuilder(B), Stored(x, sid, B, vids, eids)
  PROVE  IsGraph(x, sid)
<1>. DEFINE n == Len(B.V)
            m == Len(B.E)
<1>1. DOMAIN B.V = 1 .. n /\ DOMAIN B.E = 1 .. m
  BY DEF TypedBuilder
<1>2. /\ VertsOf(x, sid) = {vids[i] : i \in 1 .. n}
      /\ EdgesOf(x, sid) = {eids[k] : k \in 1 .. m}
      /\ HostedOf(x, sid) = OccsOf(B)
  BY DEF Stored, VertsOf, EdgesOf, HostedOf, ToSet
<1>3. \A k \in 1 .. m : /\ x.E.val[eids[k]].a = vids[B.E[k].a]
                        /\ x.E.val[eids[k]].b = vids[B.E[k].b]
  BY StoredItems
<1>4. \A k \in 1 .. m : /\ B.E[k].a \in 1 .. n /\ B.E[k].b \in 1 .. n
                        /\ B.E[k].a # B.E[k].b
  BY <1>1 DEF ValidBuilder
<1>5. \A i, j \in 1 .. n : vids[i] = vids[j] => i = j
  BY DEF Stored
<1>6. \A i \in 1 .. n :
        /\ x.V.val[vids[i]].kind = B.V[i].kind
        /\ x.V.val[vids[i]].occ = B.V[i].occ
        /\ x.V.val[vids[i]].adj = StoredAdj(B, eids, i)
  BY StoredItems
<1>. HIDE DEF n, m
<1>7. \A e \in EdgesOf(x, sid) :
        /\ x.E.val[e].a \in VertsOf(x, sid)
        /\ x.E.val[e].b \in VertsOf(x, sid)
        /\ x.E.val[e].a # x.E.val[e].b
  BY <1>2, <1>3, <1>4, <1>5
<1>8. ASSUME NEW i \in 1 .. n
      PROVE  x.V.val[vids[i]].adj
               = {e \in EdgesOf(x, sid) : vids[i] \in {x.E.val[e].a, x.E.val[e].b}}
  <2>1. \A k \in 1 .. m : i \in {B.E[k].a, B.E[k].b}
                            <=> vids[i] \in {x.E.val[eids[k]].a, x.E.val[eids[k]].b}
    BY <1>3, <1>4, <1>5
  <2>2. x.V.val[vids[i]].adj = {eids[k] : k \in {k \in 1 .. m : i \in {B.E[k].a, B.E[k].b}}}
    BY <1>6 DEF StoredAdj, m
  <2>. QED
    BY <2>1, <2>2, <1>2
<1>9. HostedOf(x, sid) =
        {x.V.val[v].occ : v \in {v \in VertsOf(x, sid) : x.V.val[v].kind = "OCC_CENTER"}}
  <2>1. OccsOf(B) = {B.V[i].occ : i \in {i \in 1 .. n : B.V[i].kind = "OCC_CENTER"}}
    BY <1>1 DEF OccsOf, CentersOf
  <2>. QED
    BY <2>1, <1>2, <1>6
<1>. QED
  BY <1>2, <1>7, <1>8, <1>9 DEF IsGraph

\* The records it stores are current.
LEMMA StoredIsCurrent ==
  ASSUME NEW x, NEW sid, NEW B, NEW vids, NEW eids,
         TypedBuilder(B), ValidBuilder(B), Stored(x, sid, B, vids, eids),
         NEW o \in OccsOf(B) \cap DOMAIN x.occ
  PROVE  IsCurrent(x, o)
<1>. DEFINE n == Len(B.V)
            m == Len(B.E)
            i == CHOOSE i \in CentersOf(B) : B.V[i].occ = o
<1>1. DOMAIN B.V = 1 .. n /\ DOMAIN B.E = 1 .. m
  BY DEF TypedBuilder
<1>2. i \in CentersOf(B) /\ B.V[i].occ = o
  BY DEF OccsOf
<1>3. i \in 1 .. n /\ B.V[i].kind = "OCC_CENTER"
  BY <1>1, <1>2 DEF CentersOf
<1>4. /\ x.occ[o].host = sid
      /\ x.occ[o].center = vids[i]
      /\ x.occ[o].patch = IF o \in DOMAIN B.patch THEN {eids[k] : k \in B.patch[o]} ELSE {}
  <2>1. x.occ[o] = StoredRecord(B, o, sid, vids, eids)
    BY DEF Stored
  <2>2. StoredRecord(B, o, sid, vids, eids) =
          [orig   |-> B.V[i].orig,
           host   |-> sid,
           center |-> vids[i],
           nbr    |-> IF o \in DOMAIN B.nbr THEN B.nbr[o] ELSE {},
           patch  |-> IF o \in DOMAIN B.patch THEN {eids[k] : k \in B.patch[o]} ELSE {}]
    BY DEF StoredRecord
  <2>. HIDE DEF i
  <2>. QED
    BY <2>1, <2>2
<1>. HIDE DEF i
<1>5. /\ VertsOf(x, sid) = {vids[j] : j \in 1 .. n}
      /\ EdgesOf(x, sid) = {eids[k] : k \in 1 .. m}
  BY DEF Stored, VertsOf, EdgesOf, ToSet
<1>6. /\ x.V.val[vids[i]].kind = B.V[i].kind
      /\ x.V.val[vids[i]].occ = B.V[i].occ
  BY <1>3, StoredItems
<1>7. \A k \in 1 .. m : x.E.val[eids[k]].kind = B.E[k].kind
  BY StoredItems
<1>. HIDE DEF n, m
<1>8. o \in DOMAIN B.patch => \A k \in B.patch[o] : k \in 1 .. m /\ B.E[k].kind = "CORE_REAL"
  BY <1>1 DEF ValidBuilder
<1>9. \A e \in x.occ[o].patch : e \in EdgesOf(x, sid) /\ x.E.val[e].kind = "CORE_REAL"
  BY <1>4, <1>5, <1>7, <1>8
<1>. QED
  BY <1>2, <1>3, <1>4, <1>5, <1>6, <1>9 DEF IsCurrent

------------------------------------------------------------------------------
(* The functions of raw_core.cpp keep skeletons and records well formed. *)

\* Hosted occurrences have records: without this NewOccurrence, whose record
\* names skeleton 0, could make a record of an occurrence that is hosted there.
WellKept(r) ==
  /\ \A sid \in Skels(r) : IsGraph(r, sid) /\ HostedOf(r, sid) \subseteq DOMAIN r.occ
  /\ \A o \in DOMAIN r.occ :
       /\ r.occ[o].host \in Skels(r)
       /\ o \in HostedOf(r, r.occ[o].host)
       => IsCurrent(r, o)

\* An empty skeleton is a graph that hosts nothing.
LEMMA EmptyIsGraph ==
  ASSUME NEW x, NEW t, x.skel.val[t] = EmptySkeleton
  PROVE  IsGraph(x, t) /\ HostedOf(x, t) = {}
<1>1. VertsOf(x, t) = {} /\ EdgesOf(x, t) = {} /\ HostedOf(x, t) = {}
  BY DEF EmptySkeleton, VertsOf, EdgesOf, HostedOf, ToSet
<1>. QED
  BY <1>1 DEF IsGraph

\* A call that leaves alone every skeleton it does not empty keeps all that.
LEMMA KeepOrEmpty ==
  ASSUME NEW r, NEW x, WellKept(r), x.occ = r.occ,
         \A t \in Skels(x) : \/ t \in Skels(r) /\ SameContents(r, x, t)
                             \/ x.skel.val[t] = EmptySkeleton
  PROVE  WellKept(x)
<1>1. ASSUME NEW t \in Skels(x) PROVE IsGraph(x, t) /\ HostedOf(x, t) \subseteq DOMAIN x.occ
  <2>1. CASE t \in Skels(r) /\ SameContents(r, x, t)
    BY <2>1, GraphFrame DEF WellKept, SameContents, HostedOf
  <2>2. CASE x.skel.val[t] = EmptySkeleton
    BY <2>2, EmptyIsGraph
  <2>. QED
    BY <2>1, <2>2
<1>2. ASSUME NEW o \in DOMAIN x.occ, x.occ[o].host \in Skels(x),
             o \in HostedOf(x, x.occ[o].host)
      PROVE  IsCurrent(x, o)
  <2>. DEFINE t == x.occ[o].host
  <2>1. x.skel.val[t] # EmptySkeleton
    BY <1>2, EmptyIsGraph
  <2>2. t \in Skels(r) /\ SameContents(r, x, t)
    BY <1>2, <2>1
  <2>3. o \in HostedOf(r, t)
    BY <1>2, <2>2 DEF SameContents, HostedOf
  <2>4. IsCurrent(r, o)
    BY <2>2, <2>3 DEF WellKept
  <2>. QED
    BY <2>2, <2>4, CurrentFrame
<1>. QED
  BY <1>1, <1>2 DEF WellKept

LEMMA RetireContentsKeeps ==
  ASSUME NEW r, IsEngine(r), Owned(r), WellKept(r), NEW sid \in Skels(r)
  PROVE  WellKept(RetireContents(r, sid))
<1>. DEFINE x == RetireContents(r, sid)
<1>1. Skels(x) = Skels(r) /\ x.skel.val[sid] = EmptySkeleton
  BY RetireContentsSound
<1>2. \A t \in Skels(r) : t # sid => SameContents(r, x, t)
  BY RetireContentsFrame
<1>3. x.occ = r.occ
  BY DEF RetireContents, Stores
<1>. HIDE DEF x
<1>4. WellKept(x)
  BY <1>1, <1>2, <1>3, KeepOrEmpty
<1>. QED
  BY <1>4 DEF x

LEMMA AllocSkeletonKeeps ==
  ASSUME NEW r, IsEngine(r), WellKept(r)
  PROVE  WellKept(AllocSkeleton(r))
<1>. DEFINE x  == AllocSkeleton(r)
            xs == <<EmptySkeleton>>
            n  == 1
<1>1. /\ x.V = r.V /\ x.E = r.E /\ x.occ = r.occ
      /\ x.skel = AllocAll(r.skel, xs)
  BY DEF AllocSkeleton, Stores
<1>2. n \in Nat /\ Len(xs) = n /\ xs[n] = EmptySkeleton
  OBVIOUS
<1>3. IsPool(r.skel)
  BY DEF IsEngine
<1>. HIDE DEF x, xs, n
<1>4. /\ Live(AllocAll(r.skel, xs)) = Live(r.skel) \cup ToSet(NewIds(r.skel, n))
      /\ \A id \in Live(r.skel) : AllocAll(r.skel, xs).val[id] = r.skel.val[id]
      /\ \A i \in 1 .. n : AllocAll(r.skel, xs).val[NewIds(r.skel, n)[i]] = xs[i]
  BY ONLY <1>2, <1>3, AllocAllHolds
<1>5. DOMAIN NewIds(r.skel, n) = 1 .. n
  BY ONLY <1>2, <1>3, NewIdsFresh
<1>6. \A t \in ToSet(NewIds(r.skel, n)) : AllocAll(r.skel, xs).val[t] = EmptySkeleton
  BY <1>2, <1>4, <1>5 DEF ToSet, n
<1>7. \A t \in Skels(x) : \/ t \in Skels(r) /\ SameContents(r, x, t)
                          \/ x.skel.val[t] = EmptySkeleton
  BY <1>1, <1>4, <1>6 DEF Skels, SameContents
<1>8. WellKept(x)
  BY <1>1, <1>7, KeepOrEmpty
<1>. QED
  BY <1>8 DEF x

LEMMA FreeSkeletonKeeps ==
  ASSUME NEW r, WellKept(r), NEW sid
  PROVE  WellKept(FreeSkeleton(r, sid))
<1>. DEFINE x == FreeSkeleton(r, sid)
<1>1. /\ x.V = r.V /\ x.E = r.E /\ x.occ = r.occ
      /\ x.skel = RetireAll(r.skel, <<sid>>)
  BY DEF FreeSkeleton, Stores
<1>2. \A t \in Skels(x) : t \in Skels(r) /\ x.skel.val[t] = r.skel.val[t]
  BY <1>1 DEF Skels, Live, RetireAll
<1>. HIDE DEF x
<1>3. \A t \in Skels(x) : t \in Skels(r) /\ SameContents(r, x, t)
  BY <1>1, <1>2 DEF SameContents
<1>4. WellKept(x)
  BY <1>1, <1>3, KeepOrEmpty
<1>. QED
  BY <1>4 DEF x

\* commit_skeleton: the new contents are a graph, the records of the occurrences
\* in them are current, and everything else is left alone.
LEMMA CommitSkeletonKeeps ==
  ASSUME NEW r, IsEngine(r), Owned(r), WellKept(r), NEW sid \in Skels(r),
         NEW B, TypedBuilder(B), ValidBuilder(B), OccsOf(B) \subseteq DOMAIN r.occ
  PROVE  WellKept(CommitSkeleton(r, sid, B))
<1>. DEFINE x == CommitSkeleton(r, sid, B)
<1>1. /\ Skels(x) = Skels(r)
      /\ DOMAIN x.occ = DOMAIN r.occ
      /\ \A o \in DOMAIN r.occ \ OccsOf(B) : x.occ[o] = r.occ[o]
      /\ \E vids, eids : Stored(x, sid, B, vids, eids)
      /\ \A t \in Skels(r) : t # sid => SameContents(r, x, t)
  BY CommitStores
<1>. HIDE DEF x
<1>2. PICK vids, eids : Stored(x, sid, B, vids, eids)
  BY <1>1
<1>3. IsGraph(x, sid)
  BY <1>2, StoredIsGraph
<1>4. HostedOf(x, sid) = OccsOf(B)
  BY <1>2 DEF Stored, HostedOf
<1>5. ASSUME NEW t \in Skels(x) PROVE IsGraph(x, t) /\ HostedOf(x, t) \subseteq DOMAIN x.occ
  <2>1. CASE t = sid
    BY <2>1, <1>1, <1>3, <1>4
  <2>2. CASE t # sid
    BY <2>2, <1>1, GraphFrame DEF WellKept, SameContents, HostedOf
  <2>. QED
    BY <2>1, <2>2
<1>6. ASSUME NEW o \in DOMAIN x.occ, x.occ[o].host \in Skels(x),
             o \in HostedOf(x, x.occ[o].host)
      PROVE  IsCurrent(x, o)
  <2>1. CASE o \in OccsOf(B)
    BY <2>1, <1>2, StoredIsCurrent
  <2>2. CASE o \notin OccsOf(B)
    <3>1. x.occ[o] = r.occ[o] /\ r.occ[o].host # sid
      BY <2>2, <1>1, <1>4, <1>6
    <3>2. r.occ[o].host \in Skels(r) /\ SameContents(r, x, r.occ[o].host)
      BY <3>1, <1>1, <1>6
    <3>3. o \in HostedOf(r, r.occ[o].host)
      BY <3>1, <3>2, <1>6 DEF SameContents, HostedOf
    <3>4. IsCurrent(r, o)
      BY <3>2, <3>3, <1>1 DEF WellKept
    <3>. QED
      BY <3>1, <3>2, <3>4, CurrentFrame
  <2>. QED
    BY <2>1, <2>2
<1>7. WellKept(x)
  BY <1>5, <1>6 DEF WellKept
<1>. QED
  BY <1>7 DEF x

------------------------------------------------------------------------------
(* Recursion along a list. *)

\* A set of numbers has a least one.
LEMMA Least ==
  ASSUME NEW Low, Low \subseteq Nat, Low # {}
  PROVE  \E m \in Low : \A k \in Low : m <= k
<1>1. \E m \in Low : \A k \in Low : ~(<<k, m>> \in OpToRel(<, Nat))
  BY NatLessThanWellFounded, WFMin, Zenon
<1>2. PICK m \in Low : \A k \in Low : ~(<<k, m>> \in OpToRel(<, Nat))
  BY <1>1, Zenon
<1>3. \A k \in Low : ~(k < m)
  BY <1>2 DEF OpToRel
<1>. QED
  BY <1>3

\* Induction up to n, with a set in place of the predicate.
LEMMA Upwards ==
  ASSUME NEW n \in Nat, NEW Good, 0 \in Good,
         \A i \in 1 .. n : i - 1 \in Good => i \in Good
  PROVE  \A i \in 0 .. n : i \in Good
<1>. DEFINE Bad == {i \in 0 .. n : i \notin Good}
<1>1. ASSUME Bad # {} PROVE FALSE
  <2>1. Bad \subseteq Nat
    OBVIOUS
  <2>. HIDE DEF Bad
  <2>2. PICK i \in Bad : \A m \in Bad : i <= m
    BY <1>1, <2>1, Least
  <2>. USE DEF Bad
  <2>3. i \in 0 .. n /\ i \notin Good /\ i # 0
    BY <2>2
  <2>4. i - 1 \notin Bad /\ i - 1 \in 0 .. n /\ i \in 1 .. n
    BY <2>2, <2>3
  <2>. QED
    BY <2>3, <2>4
<1>. QED
  BY <1>1

\* The states f of a loop that updates a member of D once for every i in 1 .. n.
Iterates(f, D, base, n, step) ==
  /\ f \in [0 .. n -> D]
  /\ f[0] = base
  /\ \A i \in 1 .. n : f[i] = step[<<f[i - 1], i>>]

LEMMA Iterated ==
  ASSUME NEW D, NEW base \in D, NEW n \in Nat, NEW step \in [D \X (1 .. n) -> D]
  PROVE  \E f : Iterates(f, D, base, n, step)
<1>. DEFINE To(f, k) == /\ f \in [0 .. k -> D] /\ f[0] = base
                        /\ \A i \in 1 .. k : f[i] = step[<<f[i - 1], i>>]
            Good == {k \in 0 .. n : \E f : To(f, k)}
<1>1. 0 \in Good
  <2>. DEFINE g == [i \in 0 .. 0 |-> base]
  <2>1. g \in [0 .. 0 -> D] /\ g[0] = base /\ \A i \in 1 .. 0 : g[i] = step[<<g[i - 1], i>>]
    OBVIOUS
  <2>. HIDE DEF g
  <2>2. To(g, 0) /\ 0 \in 0 .. n
    BY <2>1
  <2>. HIDE DEF To
  <2>. QED
    BY <2>2
<1>2. ASSUME NEW k \in 1 .. n, k - 1 \in Good PROVE k \in Good
  <2>1. PICK f : To(f, k - 1)
    BY <1>2
  <2>. DEFINE g == [i \in 0 .. k |-> IF i = k THEN step[<<f[k - 1], k>>] ELSE f[i]]
  <2>2. f[k - 1] \in D /\ \A i \in 0 .. k - 1 : f[i] \in D
    BY <2>1
  <2>3. step[<<f[k - 1], k>>] \in D
    BY <2>2
  <2>4. g \in [0 .. k -> D] /\ g[0] = base
    BY <2>1, <2>2, <2>3
  <2>5. g[k] = step[<<f[k - 1], k>>] /\ \A i \in 0 .. k - 1 : g[i] = f[i]
    OBVIOUS
  <2>. HIDE DEF g
  <2>6. ASSUME NEW i \in 1 .. k PROVE g[i] = step[<<g[i - 1], i>>]
    <3>1. i - 1 \in 0 .. k - 1 /\ g[i - 1] = f[i - 1]
      BY <2>5
    <3>2. CASE i = k
      BY <2>5, <3>1, <3>2
    <3>3. CASE i # k
      <4>1. i \in 1 .. k - 1 /\ g[i] = f[i]
        BY <2>5, <3>3
      <4>2. f[i] = step[<<f[i - 1], i>>]
        BY <2>1, <4>1
      <4>. QED
        BY <3>1, <4>1, <4>2
    <3>. QED
      BY <3>2, <3>3
  <2>7. To(g, k) /\ k \in 0 .. n
    BY <2>4, <2>6
  <2>. HIDE DEF To
  <2>. QED
    BY <2>7
<1>. HIDE DEF Good
<1>3. \A k \in 0 .. n : k \in Good
  BY <1>1, <1>2, Upwards
<1>4. n \in Good
  BY <1>3
<1>. QED
  BY <1>4 DEF Good, Iterates

\* One element more.
LEMMA Appended ==
  ASSUME NEW X, NEW t \in Seq(X), NEW x \in X
  PROVE  /\ Append(t, x) \in Seq(X) /\ ToSet(Append(t, x)) = ToSet(t) \cup {x}
         /\ IsInjective(t) /\ x \notin ToSet(t) => IsInjective(Append(t, x))
<1>1. Append(t, x) \in Seq(X) /\ Len(Append(t, x)) = Len(t) + 1
      /\ \A i \in 1 .. Len(t) : Append(t, x)[i] = t[i]
      /\ Append(t, x)[Len(t) + 1] = x
  OBVIOUS
<1>2. DOMAIN t = 1 .. Len(t) /\ DOMAIN Append(t, x) = 1 .. Len(t) + 1 /\ Len(t) \in Nat
  BY <1>1
<1>3. 1 .. Len(t) + 1 = (1 .. Len(t)) \cup {Len(t) + 1}
  BY <1>2
<1>4. ToSet(Append(t, x)) = ToSet(t) \cup {x}
  BY <1>1, <1>2, <1>3 DEF ToSet
<1>. DEFINE u == Append(t, x)
<1>5. ASSUME IsInjective(t), x \notin ToSet(t), NEW i \in DOMAIN u, NEW j \in DOMAIN u, u[i] = u[j]
      PROVE  i = j
  <2>1. \A k \in DOMAIN u : (k \in DOMAIN t /\ u[k] = t[k]) \/ (k = Len(t) + 1 /\ u[k] = x)
    BY <1>1, <1>2, <1>3
  <2>2. \A k \in DOMAIN t : t[k] # x
    BY <1>5 DEF ToSet
  <2>3. \A k, m \in DOMAIN t : t[k] = t[m] => k = m
    BY <1>5 DEF IsInjective
  <2>. HIDE DEF u
  <2>. QED
    BY <1>5, <2>1, <2>2, <2>3
<1>. QED
  BY <1>1, <1>4, <1>5 DEF IsInjective

\* What Keep leaves of a list.
LEMMA KeepFacts ==
  ASSUME NEW X, NEW s \in Seq(X), NEW S
  PROVE  /\ Keep(s, S) \in Seq(X) /\ ToSet(Keep(s, S)) = ToSet(s) \cap S
         /\ IsInjective(s) => IsInjective(Keep(s, S))
<1>. DEFINE n == Len(s)
            kept[k \in 0 .. n] ==
              IF k = 0 THEN <<>>
              ELSE IF s[k] \in S THEN Append(kept[k - 1], s[k]) ELSE kept[k - 1]
            Is(f) == f = [k \in 0 .. n |->
                            IF k = 0 THEN <<>>
                            ELSE IF s[k] \in S THEN Append(f[k - 1], s[k]) ELSE f[k - 1]]
            step == [p \in Seq(X) \X (1 .. n) |->
                       IF s[p[2]] \in S THEN Append(p[1], s[p[2]]) ELSE p[1]]
<1>1. n \in Nat /\ DOMAIN s = 1 .. n /\ \A i \in 1 .. n : s[i] \in X
  OBVIOUS
<1>2. kept = CHOOSE f : Is(f)
  OBVIOUS
<1>3. Keep(s, S) = kept[n]
  BY DEF Keep
<1>. HIDE DEF kept, n
<1>4. \E f : Is(f)
  <2>1. step \in [Seq(X) \X (1 .. n) -> Seq(X)]
    BY <1>1
  <2>. HIDE DEF step
  <2>. DEFINE D == Seq(X)
  <2>0. <<>> \in D /\ step \in [D \X (1 .. n) -> D]
    BY <2>1
  <2>. HIDE DEF D
  <2>2a. PICK f : Iterates(f, D, <<>>, n, step)
    BY <1>1, <2>0, Iterated
  <2>2. f \in [0 .. n -> D] /\ f[0] = <<>> /\ \A i \in 1 .. n : f[i] = step[<<f[i - 1], i>>]
    BY <2>2a DEF Iterates
  <2>. USE DEF D
  <2>. USE DEF step
  <2>3. ASSUME NEW k \in 0 .. n
        PROVE  f[k] = IF k = 0 THEN <<>>
                      ELSE IF s[k] \in S THEN Append(f[k - 1], s[k]) ELSE f[k - 1]
    <3>1. CASE k = 0
      BY <2>2, <3>1
    <3>2. CASE k # 0
      <4>1. k \in 1 .. n /\ k - 1 \in 0 .. n
        BY <1>1, <3>2
      <4>2. f[k] = step[<<f[k - 1], k>>] /\ f[k - 1] \in Seq(X)
        BY <2>2, <4>1
      <4>. QED
        BY <3>2, <4>1, <4>2
    <3>. QED
      BY <3>1, <3>2
  <2>. QED
    BY <2>2, <2>3
<1>. HIDE DEF Is
<1>5a. Is(kept)
  BY <1>2, <1>4
<1>. USE DEF Is
<1>5. /\ kept[0] = <<>>
      /\ \A k \in 1 .. n : kept[k] = IF s[k] \in S THEN Append(kept[k - 1], s[k]) ELSE kept[k - 1]
  <2>1. 0 \in 0 .. n /\ kept[0] = <<>>
    BY <1>1, <1>5a
  <2>2. ASSUME NEW k \in 1 .. n
        PROVE  kept[k] = IF s[k] \in S THEN Append(kept[k - 1], s[k]) ELSE kept[k - 1]
    <3>1. k \in 0 .. n /\ k # 0
      BY <1>1
    <3>. QED
      BY <1>5a, <3>1
  <2>. QED
    BY <2>1, <2>2
<1>. HIDE DEF Is
<1>. DEFINE Good == {k \in 0 .. n : /\ kept[k] \in Seq(X)
                                    /\ ToSet(kept[k]) = {s[i] : i \in 1 .. k} \cap S
                                    /\ IsInjective(s) => IsInjective(kept[k])}
<1>6. 0 \in Good
  <2>1. kept[0] = <<>> /\ 0 \in 0 .. n
    BY <1>1, <1>5
  <2>2. ToSet(<<>>) = {} /\ <<>> \in Seq(X) /\ {s[i] : i \in 1 .. 0} = {}
    BY DEF ToSet
  <2>3. IsInjective(<<>>)
    BY DEF IsInjective
  <2>. QED
    BY <2>1, <2>2, <2>3
<1>7. ASSUME NEW k \in 1 .. n, k - 1 \in Good PROVE k \in Good
  <2>1. /\ k \in 0 .. n /\ k # 0 /\ s[k] \in X
        /\ kept[k - 1] \in Seq(X) /\ ToSet(kept[k - 1]) = {s[i] : i \in 1 .. k - 1} \cap S
    BY <1>1, <1>7
  <2>2. kept[k] = IF s[k] \in S THEN Append(kept[k - 1], s[k]) ELSE kept[k - 1]
    BY <1>5, <2>1
  <2>3. {s[i] : i \in 1 .. k} = {s[i] : i \in 1 .. k - 1} \cup {s[k]}
    OBVIOUS
  <2>. DEFINE t == kept[k - 1]
  <2>4. IsInjective(s) => IsInjective(t) /\ s[k] \notin ToSet(t)
    <3>1. IsInjective(s) => \A i \in 1 .. k - 1 : s[i] # s[k]
      BY <1>1 DEF IsInjective
    <3>. QED
      BY <1>7, <2>1, <3>1
  <2>. HIDE DEF t
  <2>5. t \in Seq(X) /\ s[k] \in X
    BY <2>1 DEF t
  <2>6. /\ ToSet(Append(t, s[k])) = ToSet(t) \cup {s[k]} /\ Append(t, s[k]) \in Seq(X)
        /\ IsInjective(t) /\ s[k] \notin ToSet(t) => IsInjective(Append(t, s[k]))
    BY <2>5, Appended
  <2>7. kept[k] \in Seq(X) /\ ToSet(kept[k]) = {s[i] : i \in 1 .. k} \cap S
    BY <2>1, <2>2, <2>3, <2>6 DEF t
  <2>8. IsInjective(s) => IsInjective(kept[k])
    BY <2>2, <2>4, <2>6 DEF t
  <2>. QED
    BY <2>1, <2>7, <2>8
<1>. HIDE DEF Good
<1>8. n \in Good
  BY <1>1, <1>6, <1>7, Upwards
<1>. USE DEF Good
<1>9. ToSet(s) = {s[i] : i \in 1 .. n}
  BY <1>1 DEF ToSet
<1>. QED
  BY <1>3, <1>8, <1>9

\* Distinct takes nothing that is not in the list, and nothing twice.
LEMMA DistinctFacts ==
  ASSUME NEW X, NEW s \in Seq(X)
  PROVE  Distinct(s) \in Seq(X) /\ IsInjective(Distinct(s))
<1>. DEFINE n == Len(s)
            seen[k \in 0 .. n] ==
              IF k = 0 THEN <<>>
              ELSE LET d == seen[k - 1] IN IF s[k] \in ToSet(d) THEN d ELSE Append(d, s[k])
            Next1(d, x) == IF x \in ToSet(d) THEN d ELSE Append(d, x)
            Is(f) == f = [k \in 0 .. n |-> IF k = 0 THEN <<>> ELSE Next1(f[k - 1], s[k])]
            D == {d \in Seq(X) : IsInjective(d)}
            step == [p \in D \X (1 .. n) |-> Next1(p[1], s[p[2]])]
<1>1. n \in Nat /\ \A i \in 1 .. n : s[i] \in X
  OBVIOUS
<1>2. seen = CHOOSE f : Is(f)
  OBVIOUS
<1>3. Distinct(s) = seen[n]
  BY DEF Distinct
<1>. HIDE DEF seen, n
<1>4. ASSUME NEW d \in D, NEW x \in X PROVE Next1(d, x) \in D
  <2>1. d \in Seq(X) /\ IsInjective(d)
    OBVIOUS
  <2>2. Append(d, x) \in Seq(X) /\ (x \notin ToSet(d) => IsInjective(Append(d, x)))
    BY <2>1, Appended
  <2>. QED
    BY <2>1, <2>2
<1>5. <<>> \in D
  BY DEF IsInjective
<1>. HIDE DEF D, Next1
<1>6. step \in [D \X (1 .. n) -> D]
  BY <1>1, <1>4
<1>7. \A d \in D, i \in 1 .. n : step[<<d, i>>] = Next1(d, s[i])
  OBVIOUS
<1>. HIDE DEF step
<1>8a. PICK f : Iterates(f, D, <<>>, n, step)
  BY <1>1, <1>5, <1>6, Iterated
<1>8. f \in [0 .. n -> D] /\ f[0] = <<>> /\ \A i \in 1 .. n : f[i] = step[<<f[i - 1], i>>]
  BY <1>8a DEF Iterates
<1>9. ASSUME NEW k \in 0 .. n PROVE f[k] = IF k = 0 THEN <<>> ELSE Next1(f[k - 1], s[k])
  <2>1. CASE k = 0
    BY <1>8, <2>1
  <2>2. CASE k # 0
    <3>1. k \in 1 .. n /\ k - 1 \in 0 .. n
      BY <1>1, <2>2
    <3>2. f[k] = step[<<f[k - 1], k>>] /\ f[k - 1] \in D
      BY <1>8, <3>1
    <3>. QED
      BY <1>7, <2>2, <3>1, <3>2
  <2>. QED
    BY <2>1, <2>2
<1>10. Is(f)
  BY <1>8, <1>9
<1>. HIDE DEF Is
<1>11. Is(seen)
  BY <1>2, <1>10
<1>. USE DEF Is
<1>. DEFINE Good == {k \in 0 .. n : seen[k] \in D}
<1>12. 0 \in Good
  BY <1>1, <1>5, <1>11
<1>13. ASSUME NEW k \in 1 .. n, k - 1 \in Good PROVE k \in Good
  <2>1. k \in 0 .. n /\ k # 0 /\ seen[k - 1] \in D
    BY <1>1, <1>13
  <2>2. seen[k] = Next1(seen[k - 1], s[k])
    BY <1>11, <2>1
  <2>. QED
    BY <1>1, <1>4, <2>1, <2>2
<1>. HIDE DEF Good
<1>14. \A k \in 0 .. n : k \in Good
  BY <1>1, <1>12, <1>13, Upwards
<1>15. n \in Good
  BY <1>1, <1>14
<1>. QED
  BY <1>3, <1>15 DEF Good, D

------------------------------------------------------------------------------
(* What stays of a sound engine in the middle of a call. *)

IsRecordOfEngine(r) ==
  r = [V |-> r.V, E |-> r.E, skel |-> r.skel,
       occ |-> r.occ, dirtySkel |-> r.dirtySkel, dirtyOcc |-> r.dirtyOcc]

\* Sound, but for what it says of the skeletons.
Kept(r) ==
  /\ IsRecordOfEngine(r)
  /\ IsEngine(r) /\ Owned(r)
  /\ \A o \in DOMAIN r.occ : r.occ[o].orig \in Vertex /\ r.occ[o].nbr \subseteq DOMAIN r.occ

\* The occurrences of x are those of r, under their names.
SameOccs(r, x) ==
  /\ DOMAIN x.occ = DOMAIN r.occ
  /\ \A o \in DOMAIN r.occ : x.occ[o].orig = r.occ[o].orig

LEMMA SoundIsKept ==
  ASSUME NEW r
  PROVE  Sound(r) <=> Kept(r) /\ \A sid \in Skels(r) : Consistent(r, sid)
  BY DEF Sound, Kept, IsRecordOfEngine

\* What a builder that is committed to r owes: it is typed and valid, its centers
\* and neighbours are those of occurrences r has, under their names, and no core
\* edge ends at a center.
GoodBuilder(r, B) ==
  /\ TypedBuilder(B) /\ ValidBuilder(B)
  /\ OccsOf(B) \subseteq DOMAIN r.occ
  /\ \A i \in CentersOf(B) : B.V[i].orig = r.occ[B.V[i].occ].orig
  /\ \A k \in DOMAIN B.E : B.E[k].kind = "CORE_REAL" => IsReal(B, B.E[k].a) /\ IsReal(B, B.E[k].b)
  /\ \A o \in DOMAIN B.nbr : \A n \in B.nbr[o] :
       n \in DOMAIN r.occ /\ n # o /\ r.occ[n].orig = r.occ[o].orig

LEMMA GoodBuilderFrame ==
  ASSUME NEW r, NEW x, NEW B, GoodBuilder(r, B), SameOccs(r, x)
  PROVE  GoodBuilder(x, B)
<1>1. /\ OccsOf(B) \subseteq DOMAIN x.occ
      /\ \A i \in CentersOf(B) : B.V[i].occ \in OccsOf(B)
  BY DEF GoodBuilder, SameOccs, OccsOf
<1>2. \A i \in CentersOf(B) : B.V[i].orig = x.occ[B.V[i].occ].orig
  BY <1>1 DEF GoodBuilder, SameOccs
<1>3. DOMAIN B.nbr \subseteq OccsOf(B)
  BY DEF GoodBuilder, ValidBuilder
<1>4. \A o \in DOMAIN B.nbr : \A n \in B.nbr[o] :
        n \in DOMAIN x.occ /\ n # o /\ x.occ[n].orig = x.occ[o].orig
  BY <1>1, <1>3 DEF GoodBuilder, SameOccs
<1>. QED
  BY <1>1, <1>2, <1>4 DEF GoodBuilder

\* A skeleton stays consistent when its contents and the records of its
\* occurrences are left alone.
LEMMA ConsistentFrame ==
  ASSUME NEW r, Kept(r), NEW x, NEW t, Consistent(r, t), SameContents(r, x, t), SameOccs(r, x),
         \A o \in HostedOf(r, t) : x.occ[o] = r.occ[o]
  PROVE  Consistent(x, t)
<1>1. /\ VertsOf(x, t) = VertsOf(r, t)
      /\ EdgesOf(x, t) = EdgesOf(r, t)
      /\ HostedOf(x, t) = HostedOf(r, t)
  BY DEF SameContents, VertsOf, EdgesOf, HostedOf
<1>2. IsGraph(r, t) /\ IsGraph(x, t)
  BY GraphFrame DEF Consistent, Validated
<1>3. ASSUME NEW o \in HostedOf(r, t)
      PROVE  /\ x.occ[o].host = t
             /\ IsCurrent(x, o)
             /\ \A e \in x.V.val[x.occ[o].center].adj : x.E.val[e].kind # "CORE_REAL"
             /\ \A n \in x.occ[o].nbr : n # o /\ x.occ[n].orig = x.occ[o].orig
  <2>1. /\ x.occ[o] = r.occ[o] /\ r.occ[o].host = t /\ IsCurrent(r, o)
        /\ \A e \in r.V.val[r.occ[o].center].adj : r.E.val[e].kind # "CORE_REAL"
        /\ \A n \in r.occ[o].nbr : n # o /\ r.occ[n].orig = r.occ[o].orig
        /\ o \in DOMAIN r.occ
    BY DEF Consistent, Validated
  <2>2. IsCurrent(x, o)
    BY <2>1, CurrentFrame
  <2>3. r.occ[o].center \in VertsOf(r, t)
    BY <2>1 DEF IsCurrent
  <2>4. r.V.val[r.occ[o].center].adj \subseteq EdgesOf(r, t)
    BY <1>2, <2>3 DEF IsGraph
  <2>5. x.V.val[r.occ[o].center] = r.V.val[r.occ[o].center]
    BY <2>3 DEF SameContents
  <2>6. \A e \in EdgesOf(r, t) : x.E.val[e] = r.E.val[e]
    BY DEF SameContents
  <2>7. r.occ[o].nbr \subseteq DOMAIN r.occ
    BY <2>1 DEF Kept
  <2>8. \A n \in x.occ[o].nbr : n # o /\ x.occ[n].orig = x.occ[o].orig
    BY <2>1, <2>7 DEF SameOccs
  <2>. QED
    BY <2>1, <2>2, <2>4, <2>5, <2>6, <2>8
<1>4. HostedOf(x, t) \subseteq DOMAIN x.occ
  BY <1>1 DEF Consistent, SameOccs
<1>5. ASSUME NEW v \in VertsOf(x, t), x.V.val[v].kind = "OCC_CENTER"
      PROVE  x.occ[x.V.val[v].occ].center = v /\ x.occ[x.V.val[v].occ].orig = x.V.val[v].orig
  <2>1. x.V.val[v] = r.V.val[v] /\ v \in VertsOf(r, t)
    BY <1>1 DEF SameContents
  <2>2. r.V.val[v].occ \in HostedOf(r, t)
    BY <1>2, <1>5, <2>1 DEF IsGraph
  <2>3. r.occ[r.V.val[v].occ].center = v /\ r.occ[r.V.val[v].occ].orig = r.V.val[v].orig
    BY <1>5, <2>1 DEF Consistent
  <2>. QED
    BY <2>1, <2>2, <2>3
<1>. QED
  BY <1>1, <1>2, <1>3, <1>4, <1>5 DEF Consistent, Validated

------------------------------------------------------------------------------
(* commit_skeleton with a good builder. *)

\* The record commit_skeleton writes for the center at i.
LEMMA StoredCenter ==
  ASSUME NEW x, NEW sid, NEW B, NEW vids, NEW eids, TypedBuilder(B), ValidBuilder(B),
         Stored(x, sid, B, vids, eids), NEW i \in CentersOf(B), B.V[i].occ \in DOMAIN x.occ
  PROVE  LET R == x.occ[B.V[i].occ] IN
         /\ R.orig = B.V[i].orig /\ R.host = sid /\ R.center = vids[i]
         /\ R.nbr = IF B.V[i].occ \in DOMAIN B.nbr THEN B.nbr[B.V[i].occ] ELSE {}
<1>. DEFINE o == B.V[i].occ
            j == CHOOSE j \in CentersOf(B) : B.V[j].occ = o
<1>1. j \in CentersOf(B) /\ B.V[j].occ = o
  OBVIOUS
<1>2. j = i
  BY <1>1 DEF ValidBuilder
<1>3. o \in OccsOf(B) /\ o \in DOMAIN x.occ
  BY DEF OccsOf
<1>4. x.occ[o] = StoredRecord(B, o, sid, vids, eids)
  BY <1>3 DEF Stored
<1>5. StoredRecord(B, o, sid, vids, eids) =
        [orig   |-> B.V[j].orig,
         host   |-> sid,
         center |-> vids[j],
         nbr    |-> IF o \in DOMAIN B.nbr THEN B.nbr[o] ELSE {},
         patch  |-> IF o \in DOMAIN B.patch THEN {eids[k] : k \in B.patch[o]} ELSE {}]
  BY DEF StoredRecord
<1>. HIDE DEF j
<1>. QED
  BY <1>2, <1>4, <1>5

LEMMA StoredOrig ==
  ASSUME NEW x, NEW sid, NEW B, NEW vids, NEW eids, Stored(x, sid, B, vids, eids),
         NEW i \in 1 .. Len(B.V)
  PROVE  x.V.val[vids[i]].orig = B.V[i].orig
<1>1. x.V.val[vids[i]] = StoredVertices(B, eids)[i]
  BY DEF Stored
<1>2. StoredVertices(B, eids)[i] =
        [kind |-> B.V[i].kind, orig |-> B.V[i].orig, occ |-> B.V[i].occ,
         adj |-> StoredAdj(B, eids, i)]
  BY DEF StoredVertices, StoredAdj
<1>. QED
  BY <1>1, <1>2

\* What it stores is consistent.
LEMMA StoredIsConsistent ==
  ASSUME NEW r, NEW B, GoodBuilder(r, B), NEW x, NEW sid, NEW vids, NEW eids,
         Stored(x, sid, B, vids, eids), DOMAIN x.occ = DOMAIN r.occ,
         \A o \in DOMAIN r.occ \ OccsOf(B) : x.occ[o] = r.occ[o]
  PROVE  Consistent(x, sid) /\ SameOccs(r, x) /\ HostedOf(x, sid) = OccsOf(B)
<1>. DEFINE n == Len(B.V)
            m == Len(B.E)
<1>1. TypedBuilder(B) /\ ValidBuilder(B) /\ DOMAIN B.V = 1 .. n /\ DOMAIN B.E = 1 .. m
  BY DEF GoodBuilder, TypedBuilder
<1>2. \A i \in CentersOf(B) : /\ i \in 1 .. n /\ B.V[i].kind = "OCC_CENTER"
                              /\ B.V[i].occ \in DOMAIN x.occ /\ B.V[i].occ \in OccsOf(B)
  BY <1>1 DEF GoodBuilder, CentersOf, OccsOf
<1>3. \A o \in OccsOf(B) : \E i \in CentersOf(B) : B.V[i].occ = o
  BY DEF OccsOf
<1>4. \A i \in CentersOf(B) : LET R == x.occ[B.V[i].occ] IN
        /\ R.orig = B.V[i].orig /\ R.host = sid /\ R.center = vids[i]
        /\ R.nbr = IF B.V[i].occ \in DOMAIN B.nbr THEN B.nbr[B.V[i].occ] ELSE {}
  BY <1>1, <1>2, StoredCenter
<1>5. SameOccs(r, x)
  <2>1. \A i \in CentersOf(B) : x.occ[B.V[i].occ].orig = r.occ[B.V[i].occ].orig
    BY <1>4 DEF GoodBuilder
  <2>2. \A o \in DOMAIN r.occ : x.occ[o].orig = r.occ[o].orig
    BY <1>3, <2>1
  <2>. QED
    BY <2>2 DEF SameOccs
<1>6. HostedOf(x, sid) = OccsOf(B)
  BY DEF Stored, HostedOf
<1>7. IsGraph(x, sid)
  BY <1>1, StoredIsGraph
<1>8. VertsOf(x, sid) = {vids[i] : i \in 1 .. n}
  BY <1>1 DEF Stored, VertsOf, ToSet
<1>9. \A i \in 1 .. n : /\ x.V.val[vids[i]].kind = B.V[i].kind
                        /\ x.V.val[vids[i]].occ = B.V[i].occ
                        /\ x.V.val[vids[i]].adj = StoredAdj(B, eids, i)
                        /\ x.V.val[vids[i]].orig = B.V[i].orig
  BY StoredItems, StoredOrig
<1>10. \A k \in 1 .. m : x.E.val[eids[k]].kind = B.E[k].kind
  BY StoredItems
<1>. HIDE DEF n, m
<1>11. ASSUME NEW i \in CentersOf(B), NEW e \in StoredAdj(B, eids, i)
       PROVE  x.E.val[e].kind # "CORE_REAL"
  <2>1. PICK k \in 1 .. m : e = eids[k] /\ i \in {B.E[k].a, B.E[k].b}
    BY DEF StoredAdj, m
  <2>2. B.E[k].kind = "CORE_REAL" => IsReal(B, i)
    BY <1>1, <2>1 DEF GoodBuilder
  <2>3. ~IsReal(B, i)
    BY <1>2 DEF IsReal
  <2>. QED
    BY <1>10, <2>1, <2>2, <2>3
<1>12. ASSUME NEW o \in HostedOf(x, sid)
       PROVE  /\ x.occ[o].host = sid
              /\ IsCurrent(x, o)
              /\ \A e \in x.V.val[x.occ[o].center].adj : x.E.val[e].kind # "CORE_REAL"
              /\ \A p \in x.occ[o].nbr : p # o /\ x.occ[p].orig = x.occ[o].orig
  <2>1. PICK i \in CentersOf(B) : B.V[i].occ = o
    BY <1>3, <1>6
  <2>2. o \in OccsOf(B) \cap DOMAIN x.occ /\ i \in 1 .. n
    BY <1>2, <2>1
  <2>3. IsCurrent(x, o)
    BY <1>1, <2>2, StoredIsCurrent
  <2>4. /\ x.occ[o].host = sid /\ x.occ[o].center = vids[i]
        /\ x.occ[o].nbr = IF o \in DOMAIN B.nbr THEN B.nbr[o] ELSE {}
    BY <1>4, <2>1
  <2>5. \A e \in x.V.val[x.occ[o].center].adj : x.E.val[e].kind # "CORE_REAL"
    BY <1>9, <1>11, <2>2, <2>4
  <2>6. \A p \in x.occ[o].nbr : p \in DOMAIN r.occ /\ p # o /\ r.occ[p].orig = r.occ[o].orig
    BY <2>4 DEF GoodBuilder
  <2>7. \A p \in x.occ[o].nbr : p # o /\ x.occ[p].orig = x.occ[o].orig
    BY <1>5, <2>2, <2>6 DEF SameOccs
  <2>. QED
    BY <2>3, <2>4, <2>5, <2>7
<1>13. ASSUME NEW v \in VertsOf(x, sid), x.V.val[v].kind = "OCC_CENTER"
       PROVE  x.occ[x.V.val[v].occ].center = v /\ x.occ[x.V.val[v].occ].orig = x.V.val[v].orig
  <2>1. PICK i \in 1 .. n : v = vids[i]
    BY <1>8
  <2>2. i \in CentersOf(B)
    BY <1>1, <1>9, <1>13, <2>1 DEF CentersOf
  <2>. QED
    BY <1>4, <1>9, <2>1, <2>2
<1>14. HostedOf(x, sid) \subseteq DOMAIN x.occ
  BY <1>6 DEF GoodBuilder
<1>. QED
  BY <1>5, <1>6, <1>7, <1>12, <1>13, <1>14 DEF Consistent, Validated

\* The names a builder gives, and a skeleton that shows them: each once, with the
\* occurrences of the builder.
BuilderNames(B) == {B.V[i].orig : i \in {i \in DOMAIN B.V : IsReal(B, i)}}
Shows(x, sid, B) ==
  /\ UniqueNames(x, sid)
  /\ RealNames(x, VertsOf(x, sid)) = BuilderNames(B)
  /\ HostedOf(x, sid) = OccsOf(B)

LEMMA StoredShows ==
  ASSUME NEW x, NEW sid, NEW B, NEW vids, NEW eids,
         TypedBuilder(B), Stored(x, sid, B, vids, eids), RealUnique(B)
  PROVE  Shows(x, sid, B)
<1>. DEFINE n == Len(B.V)
<1>1. DOMAIN B.V = 1 .. n /\ DOMAIN vids = 1 .. n
  BY DEF TypedBuilder, Stored
<1>2. VertsOf(x, sid) = {vids[i] : i \in 1 .. n} /\ HostedOf(x, sid) = OccsOf(B)
  BY <1>1 DEF Stored, VertsOf, HostedOf, ToSet
<1>3. \A i \in 1 .. n : x.V.val[vids[i]].kind = B.V[i].kind /\ x.V.val[vids[i]].orig = B.V[i].orig
  BY StoredItems, StoredOrig
<1>. HIDE DEF n
<1>4. UniqueNames(x, sid)
  <2>. SUFFICES ASSUME NEW i \in 1 .. n, NEW j \in 1 .. n,
                       x.V.val[vids[i]].kind = "REAL", x.V.val[vids[j]].kind = "REAL",
                       x.V.val[vids[i]].orig = x.V.val[vids[j]].orig
                PROVE  vids[i] = vids[j]
    BY <1>2 DEF UniqueNames
  <2>. QED
    BY <1>1, <1>3 DEF RealUnique, IsReal
<1>5. RealNames(x, VertsOf(x, sid)) = BuilderNames(B)
  BY <1>1, <1>2, <1>3 DEF RealNames, BuilderNames, IsReal
<1>. QED
  BY <1>2, <1>4, <1>5 DEF Shows

\* A skeleton left alone shows what it showed.
LEMMA ShowsFrame ==
  ASSUME NEW x, NEW y, NEW t, SameContents(x, y, t), NEW B, Shows(x, t, B)
  PROVE  Shows(y, t, B)
<1>1. /\ VertsOf(y, t) = VertsOf(x, t) /\ HostedOf(y, t) = HostedOf(x, t)
      /\ \A v \in VertsOf(x, t) : y.V.val[v] = x.V.val[v]
  BY DEF SameContents, VertsOf, HostedOf
<1>2. RealNames(y, VertsOf(y, t)) = RealNames(x, VertsOf(x, t))
  BY <1>1 DEF RealNames
<1>3. UniqueNames(y, t)
  BY <1>1 DEF UniqueNames, Shows
<1>. QED
  BY <1>1, <1>2, <1>3 DEF Shows

LEMMA CommitGood ==
  ASSUME NEW r, Kept(r), NEW sid \in Skels(r), NEW B, GoodBuilder(r, B)
  PROVE  LET x == CommitSkeleton(r, sid, B) IN
         /\ Kept(x) /\ SameOccs(r, x)
         /\ Skels(x) = Skels(r)
         /\ Consistent(x, sid) /\ HostedOf(x, sid) = OccsOf(B)
         /\ \A t \in Skels(r) : t # sid => SameContents(r, x, t)
         /\ \A o \in DOMAIN r.occ \ OccsOf(B) : x.occ[o] = r.occ[o]
         /\ x.dirtySkel = r.dirtySkel \cup {sid}
         /\ x.dirtyOcc = r.dirtyOcc \cup OccsOf(B)
         /\ RealUnique(B) => Shows(x, sid, B)
<1>. DEFINE x == CommitSkeleton(r, sid, B)
<1>1. IsEngine(r) /\ Owned(r) /\ TypedBuilder(B) /\ ValidBuilder(B)
  BY DEF Kept, GoodBuilder
<1>2. /\ Skels(x) = Skels(r)
      /\ DOMAIN x.occ = DOMAIN r.occ
      /\ \A o \in DOMAIN r.occ \ OccsOf(B) : x.occ[o] = r.occ[o]
      /\ \E vids, eids : Stored(x, sid, B, vids, eids)
      /\ \A t \in Skels(r) : t # sid => SameContents(r, x, t)
  BY <1>1, CommitStores
<1>3. IsEngine(x) /\ Owned(x)
  BY <1>1, CommitSkeletonSound
<1>4. /\ x.dirtySkel = r.dirtySkel \cup {sid}
      /\ x.dirtyOcc = r.dirtyOcc \cup OccsOf(B)
      /\ IsRecordOfEngine(x)
  BY DEF CommitSkeleton, IsRecordOfEngine
<1>. HIDE DEF x
<1>5. PICK vids, eids : Stored(x, sid, B, vids, eids)
  BY <1>2
<1>6. Consistent(x, sid) /\ SameOccs(r, x) /\ HostedOf(x, sid) = OccsOf(B)
  BY <1>2, <1>5, StoredIsConsistent
<1>7. ASSUME NEW o \in DOMAIN x.occ
      PROVE  x.occ[o].orig \in Vertex /\ x.occ[o].nbr \subseteq DOMAIN x.occ
  <2>1. x.occ[o].orig \in Vertex
    BY <1>2, <1>6 DEF Kept, SameOccs
  <2>2. CASE o \notin OccsOf(B)
    BY <1>2, <2>1, <2>2 DEF Kept
  <2>3. CASE o \in OccsOf(B)
    <3>1. PICK i \in CentersOf(B) : B.V[i].occ = o
      BY <2>3 DEF OccsOf
    <3>2. x.occ[o].nbr = IF o \in DOMAIN B.nbr THEN B.nbr[o] ELSE {}
      BY <1>1, <1>5, <3>1, StoredCenter
    <3>3. x.occ[o].nbr \subseteq DOMAIN r.occ
      BY <3>2 DEF GoodBuilder
    <3>. QED
      BY <1>2, <2>1, <3>3
  <2>. QED
    BY <2>2, <2>3
<1>8. Kept(x)
  BY <1>3, <1>4, <1>7 DEF Kept
<1>9. RealUnique(B) => Shows(x, sid, B)
  BY <1>1, <1>5, StoredShows
<1>. QED
  BY <1>2, <1>4, <1>6, <1>8, <1>9 DEF x

------------------------------------------------------------------------------
(* The three calls a primitive is a chain of: rewrite a skeleton, add one, *)
(* drop one.                                                               *)

\* x was reached from r: its skeletons in Z are consistent, and what it does not
\* report is as it was in r.
Partial(r, x, Z) ==
  /\ Kept(x) /\ SameOccs(r, x)
  /\ Z \subseteq Skels(x)
  /\ \A t \in Z : Consistent(x, t)
  /\ \A t \in Skels(x) \ x.dirtySkel : t \in Skels(r) /\ SameContents(r, x, t)
  /\ \A o \in DOMAIN r.occ \ x.dirtyOcc : x.occ[o] = r.occ[o]

LEMMA SameContentsTrans ==
  ASSUME NEW r, NEW x, NEW y, NEW t, SameContents(r, x, t), SameContents(x, y, t)
  PROVE  SameContents(r, y, t)
<1>1. VertsOf(x, t) = VertsOf(r, t) /\ EdgesOf(x, t) = EdgesOf(r, t)
  BY DEF SameContents, VertsOf, EdgesOf
<1>. QED
  BY <1>1 DEF SameContents

\* A sound engine is reached from itself.
LEMMA Starting ==
  ASSUME NEW r, Sound(r), NEW Z, Z \subseteq Skels(r)
  PROVE  Partial(r, r, Z)
  BY SoundIsKept DEF Partial, SameOccs, SameContents

\* The records of the occurrences other skeletons host are not rewritten.
LEMMA UntouchedRecords ==
  ASSUME NEW x, NEW y, NEW B, \A o \in DOMAIN x.occ \ OccsOf(B) : y.occ[o] = x.occ[o],
         NEW t, Consistent(x, t), HostedOf(x, t) \cap OccsOf(B) = {}
  PROVE  \A o \in HostedOf(x, t) : y.occ[o] = x.occ[o]
  BY DEF Consistent

LEMMA Rewriting ==
  ASSUME NEW r, NEW x, NEW Z, Partial(r, x, Z), NEW sid \in Skels(x) \ Z, NEW B, GoodBuilder(r, B),
         \A t \in Z : HostedOf(x, t) \cap OccsOf(B) = {}
  PROVE  LET y == CommitSkeleton(x, sid, B) IN
         /\ Partial(r, y, Z \cup {sid})
         /\ Skels(y) = Skels(x)
         /\ HostedOf(y, sid) = OccsOf(B)
         /\ \A t \in Z : HostedOf(y, t) = HostedOf(x, t)
         /\ \A t \in Skels(x) : t # sid => SameContents(x, y, t)
         /\ RealUnique(B) => Shows(y, sid, B)
<1>. DEFINE y == CommitSkeleton(x, sid, B)
<1>1. Kept(x) /\ SameOccs(r, x) /\ Z \subseteq Skels(x) /\ GoodBuilder(x, B)
  BY GoodBuilderFrame DEF Partial
<1>2. /\ Kept(y) /\ SameOccs(x, y)
      /\ Skels(y) = Skels(x)
      /\ Consistent(y, sid) /\ HostedOf(y, sid) = OccsOf(B)
      /\ \A t \in Skels(x) : t # sid => SameContents(x, y, t)
      /\ \A o \in DOMAIN x.occ \ OccsOf(B) : y.occ[o] = x.occ[o]
      /\ y.dirtySkel = x.dirtySkel \cup {sid}
      /\ y.dirtyOcc = x.dirtyOcc \cup OccsOf(B)
      /\ RealUnique(B) => Shows(y, sid, B)
  BY <1>1, CommitGood
<1>. HIDE DEF y
<1>3. SameOccs(r, y)
  BY <1>1, <1>2 DEF SameOccs
<1>4. ASSUME NEW t \in Z PROVE Consistent(y, t) /\ HostedOf(y, t) = HostedOf(x, t)
  <2>1. SameContents(x, y, t) /\ Consistent(x, t)
    BY <1>1, <1>2 DEF Partial
  <2>2. \A o \in HostedOf(x, t) : y.occ[o] = x.occ[o]
    BY <1>2, <2>1, UntouchedRecords
  <2>3. Consistent(y, t)
    BY <1>1, <1>2, <2>1, <2>2, ConsistentFrame
  <2>. QED
    BY <2>1, <2>3 DEF SameContents, HostedOf
<1>5. ASSUME NEW t \in Skels(y) \ y.dirtySkel PROVE t \in Skels(r) /\ SameContents(r, y, t)
  <2>1. t \in Skels(x) /\ t # sid /\ t \notin x.dirtySkel
    BY <1>2
  <2>2. t \in Skels(r) /\ SameContents(r, x, t)
    BY <2>1 DEF Partial
  <2>. QED
    BY <1>2, <2>1, <2>2, SameContentsTrans
<1>6. \A o \in DOMAIN r.occ \ y.dirtyOcc : y.occ[o] = r.occ[o]
  BY <1>1, <1>2 DEF Partial, SameOccs
<1>7. Z \cup {sid} \subseteq Skels(y)
  BY <1>1, <1>2
<1>8. Partial(r, y, Z \cup {sid})
  BY <1>2, <1>3, <1>4, <1>5, <1>6, <1>7 DEF Partial
<1>. QED
  BY <1>2, <1>4, <1>8 DEF y

\* skel.alloc.
LEMMA AllocGood ==
  ASSUME NEW x, Kept(x)
  PROVE  LET y == AllocSkeleton(x) IN
         /\ Kept(y)
         /\ Skels(y) = Skels(x) \cup {NextSkel(x)} /\ NextSkel(x) \notin Skels(x)
         /\ \A t \in Skels(x) : SameContents(x, y, t)
         /\ y.occ = x.occ /\ y.dirtySkel = x.dirtySkel /\ y.dirtyOcc = x.dirtyOcc
<1>. DEFINE y  == AllocSkeleton(x)
            xs == <<EmptySkeleton>>
            n  == 1
<1>1. IsEngine(x) /\ Owned(x)
  BY DEF Kept
<1>2. IsEngine(y) /\ Owned(y)
  BY <1>1, AllocSkeletonSound
<1>3. /\ y.V = x.V /\ y.E = x.E /\ y.occ = x.occ
      /\ y.dirtySkel = x.dirtySkel /\ y.dirtyOcc = x.dirtyOcc
      /\ y.skel = AllocAll(x.skel, xs)
      /\ IsRecordOfEngine(y)
  BY DEF AllocSkeleton, Stores, IsRecordOfEngine
<1>4. n \in Nat /\ Len(xs) = n /\ IsPool(x.skel)
  BY <1>1 DEF IsEngine
<1>. HIDE DEF y, xs, n
<1>5. /\ Live(AllocAll(x.skel, xs)) = Live(x.skel) \cup ToSet(NewIds(x.skel, n))
      /\ \A id \in Live(x.skel) : AllocAll(x.skel, xs).val[id] = x.skel.val[id]
  BY ONLY <1>4, AllocAllHolds
<1>6. DOMAIN NewIds(x.skel, n) = 1 .. n /\ \A i \in 1 .. n : NewIds(x.skel, n)[i] \notin Live(x.skel)
  BY ONLY <1>4, NewIdsFresh
<1>7. ToSet(NewIds(x.skel, n)) = {NextSkel(x)} /\ NextSkel(x) \notin Live(x.skel)
  BY <1>6 DEF n, NextSkel, ToSet
<1>8. Skels(y) = Skels(x) \cup {NextSkel(x)} /\ NextSkel(x) \notin Skels(x)
  BY <1>3, <1>5, <1>7 DEF Skels
<1>9. \A t \in Skels(x) : SameContents(x, y, t)
  BY <1>3, <1>5 DEF Skels, SameContents
<1>10. Kept(y)
  BY <1>2, <1>3 DEF Kept
<1>. QED
  BY <1>3, <1>8, <1>9, <1>10 DEF y

LEMMA Adding ==
  ASSUME NEW r, NEW x, NEW Z, Partial(r, x, Z), NEW B, GoodBuilder(r, B),
         \A t \in Z : HostedOf(x, t) \cap OccsOf(B) = {}
  PROVE  LET y == CommitSkeleton(AllocSkeleton(x), NextSkel(x), B) IN
         /\ Partial(r, y, Z \cup {NextSkel(x)})
         /\ Skels(y) = Skels(x) \cup {NextSkel(x)} /\ NextSkel(x) \notin Skels(x)
         /\ HostedOf(y, NextSkel(x)) = OccsOf(B)
         /\ \A t \in Z : HostedOf(y, t) = HostedOf(x, t)
         /\ \A t \in Skels(x) : SameContents(x, y, t)
         /\ RealUnique(B) => Shows(y, NextSkel(x), B)
<1>. DEFINE a   == AllocSkeleton(x)
            sid == NextSkel(x)
            y   == CommitSkeleton(a, sid, B)
<1>1. Kept(x) /\ SameOccs(r, x) /\ Z \subseteq Skels(x) /\ GoodBuilder(x, B)
  BY GoodBuilderFrame DEF Partial
<1>2. /\ Kept(a)
      /\ Skels(a) = Skels(x) \cup {sid} /\ sid \notin Skels(x)
      /\ \A t \in Skels(x) : SameContents(x, a, t)
      /\ a.occ = x.occ /\ a.dirtySkel = x.dirtySkel /\ a.dirtyOcc = x.dirtyOcc
  BY <1>1, AllocGood
<1>. HIDE DEF a, sid
<1>3. GoodBuilder(a, B)
  BY <1>1, <1>2, GoodBuilderFrame DEF SameOccs
<1>4. /\ Kept(y) /\ SameOccs(a, y)
      /\ Skels(y) = Skels(a)
      /\ Consistent(y, sid) /\ HostedOf(y, sid) = OccsOf(B)
      /\ \A t \in Skels(a) : t # sid => SameContents(a, y, t)
      /\ \A o \in DOMAIN a.occ \ OccsOf(B) : y.occ[o] = a.occ[o]
      /\ y.dirtySkel = a.dirtySkel \cup {sid}
      /\ y.dirtyOcc = a.dirtyOcc \cup OccsOf(B)
      /\ RealUnique(B) => Shows(y, sid, B)
  BY <1>2, <1>3, CommitGood
<1>. HIDE DEF y
<1>5. SameOccs(r, y) /\ SameOccs(x, y)
  BY <1>1, <1>2, <1>4 DEF SameOccs
<1>6. \A t \in Skels(x) : SameContents(x, y, t)
  BY <1>2, <1>4, SameContentsTrans
<1>7. ASSUME NEW t \in Z PROVE Consistent(y, t) /\ HostedOf(y, t) = HostedOf(x, t)
  <2>1. SameContents(x, y, t) /\ Consistent(x, t)
    BY <1>1, <1>6 DEF Partial
  <2>2. \A o \in DOMAIN x.occ \ OccsOf(B) : y.occ[o] = x.occ[o]
    BY <1>2, <1>4
  <2>3. \A o \in HostedOf(x, t) : y.occ[o] = x.occ[o]
    BY <2>1, <2>2, UntouchedRecords
  <2>4. Consistent(y, t)
    BY <1>1, <1>5, <2>1, <2>3, ConsistentFrame
  <2>. QED
    BY <2>1, <2>4 DEF SameContents, HostedOf
<1>8. ASSUME NEW t \in Skels(y) \ y.dirtySkel PROVE t \in Skels(r) /\ SameContents(r, y, t)
  <2>1. t \in Skels(x) /\ t \notin x.dirtySkel
    BY <1>2, <1>4
  <2>2. t \in Skels(r) /\ SameContents(r, x, t)
    BY <2>1 DEF Partial
  <2>. QED
    BY <1>6, <2>1, <2>2, SameContentsTrans
<1>9. \A o \in DOMAIN r.occ \ y.dirtyOcc : y.occ[o] = r.occ[o]
  BY <1>1, <1>2, <1>4 DEF Partial, SameOccs
<1>10. Z \cup {sid} \subseteq Skels(y)
  BY <1>1, <1>2, <1>4
<1>11. Partial(r, y, Z \cup {sid})
  BY <1>4, <1>5, <1>7, <1>8, <1>9, <1>10 DEF Partial
<1>. QED
  BY <1>2, <1>4, <1>6, <1>7, <1>11 DEF y, a, sid

\* retire_skeleton_contents and skel.retire.
LEMMA Dropping ==
  ASSUME NEW r, NEW x, NEW Z, Partial(r, x, Z), NEW sid \in Skels(x) \ Z
  PROVE  LET y == FreeSkeleton(RetireContents(x, sid), sid) IN
         /\ Partial(r, y, Z)
         /\ Skels(y) = Skels(x) \ {sid}
         /\ \A t \in Skels(y) : SameContents(x, y, t)
<1>. DEFINE a == RetireContents(x, sid)
            y == FreeSkeleton(a, sid)
<1>1. IsEngine(x) /\ Owned(x) /\ Kept(x) /\ SameOccs(r, x) /\ Z \subseteq Skels(x)
  BY DEF Partial, Kept
<1>2. IsEngine(a) /\ Owned(a) /\ Skels(a) = Skels(x) /\ a.skel.val[sid] = EmptySkeleton
  BY <1>1, RetireContentsSound
<1>3. \A t \in Skels(x) : t # sid => SameContents(x, a, t)
  BY <1>1, RetireContentsFrame
<1>4. a.occ = x.occ /\ a.dirtySkel = x.dirtySkel /\ a.dirtyOcc = x.dirtyOcc
  BY DEF RetireContents, Stores
<1>. HIDE DEF a
<1>5. IsEngine(y) /\ Owned(y)
  BY <1>2, FreeSkeletonSound DEF EmptySkeleton
<1>6. /\ y.V = a.V /\ y.E = a.E /\ y.occ = x.occ
      /\ y.dirtySkel = x.dirtySkel /\ y.dirtyOcc = x.dirtyOcc
      /\ y.skel = RetireAll(a.skel, <<sid>>)
      /\ IsRecordOfEngine(y)
  BY <1>4 DEF FreeSkeleton, Stores, IsRecordOfEngine
<1>. HIDE DEF y
<1>7. /\ Skels(y) = Skels(x) \ {sid}
      /\ \A t \in Skels(y) : y.skel.val[t] = a.skel.val[t]
  BY <1>2, <1>6 DEF Skels, Live, RetireAll, ToSet
<1>8. \A t \in Skels(y) : SameContents(x, y, t)
  BY <1>3, <1>6, <1>7 DEF SameContents
<1>9. Kept(y) /\ SameOccs(x, y) /\ SameOccs(r, y)
  BY <1>1, <1>5, <1>6 DEF Kept, SameOccs
<1>10. \A t \in Z : Consistent(y, t)
  BY <1>1, <1>6, <1>7, <1>8, <1>9, ConsistentFrame DEF Partial
<1>11. ASSUME NEW t \in Skels(y) \ y.dirtySkel PROVE t \in Skels(r) /\ SameContents(r, y, t)
  BY <1>6, <1>7, <1>8, SameContentsTrans DEF Partial
<1>12. \A o \in DOMAIN r.occ \ y.dirtyOcc : y.occ[o] = r.occ[o]
  BY <1>6 DEF Partial
<1>13. Partial(r, y, Z)
  BY <1>1, <1>7, <1>9, <1>10, <1>11, <1>12 DEF Partial
<1>. QED
  BY <1>7, <1>8, <1>13 DEF y, a

------------------------------------------------------------------------------
(* What a sound engine says of a skeleton. *)

\* A center and the occurrence it stands for belong to each other.
LEMMA Centered ==
  ASSUME NEW r, NEW s, Consistent(r, s),
         NEW v \in VertsOf(r, s), r.V.val[v].kind = "OCC_CENTER"
  PROVE  LET o == r.V.val[v].occ IN
         /\ o \in HostedOf(r, s) /\ o \in DOMAIN r.occ
         /\ r.occ[o].host = s /\ r.occ[o].center = v /\ r.occ[o].orig = r.V.val[v].orig
<1>1. r.V.val[v].occ \in HostedOf(r, s)
  BY DEF Consistent, Validated, IsGraph
<1>. QED
  BY <1>1 DEF Consistent, Validated

\* The record of a hosted occurrence.
LEMMA Recorded ==
  ASSUME NEW r, NEW s, Consistent(r, s), NEW o \in HostedOf(r, s)
  PROVE  /\ o \in DOMAIN r.occ /\ r.occ[o].host = s
         /\ r.occ[o].center \in VertsOf(r, s)
         /\ r.V.val[r.occ[o].center].kind = "OCC_CENTER"
         /\ r.V.val[r.occ[o].center].occ = o
         /\ r.occ[o].patch \subseteq EdgesOf(r, s)
         /\ \A n \in r.occ[o].nbr : n # o /\ r.occ[n].orig = r.occ[o].orig
<1>1. o \in DOMAIN r.occ /\ r.occ[o].host = s /\ IsCurrent(r, o)
  BY DEF Consistent, Validated
<1>. QED
  BY <1>1 DEF IsCurrent, Consistent, Validated

\* The types of the vertices a skeleton lists.
LEMMA Listed ==
  ASSUME NEW r, Sound(r), NEW s \in Skels(r)
  PROVE  /\ VertsOf(r, s) \subseteq Live(r.V) /\ EdgesOf(r, s) \subseteq Live(r.E)
         /\ \A v \in VertsOf(r, s) : /\ r.V.val[v].kind \in {"REAL", "OCC_CENTER"}
                                     /\ r.V.val[v].orig \in Vertex
                                     /\ r.V.val[v].occ \in Occ \cup {NoOcc}
         /\ HostedOf(r, s) \subseteq Occ
         /\ Verts(r, s) \in Seq(VertsOf(r, s)) /\ Edges(r, s) \in Seq(EdgesOf(r, s))
         /\ ToSet(Verts(r, s)) = VertsOf(r, s) /\ IsInjective(Verts(r, s))
         /\ Consistent(r, s) /\ IsGraph(r, s)
<1>1. VertsOf(r, s) \subseteq Live(r.V) /\ EdgesOf(r, s) \subseteq Live(r.E)
  BY ListedAreLive DEF Sound
<1>2. \A v \in VertsOf(r, s) : r.V.val[v] \in RawVertex
  BY <1>1 DEF Sound, IsEngine
<1>3. r.skel.val[s] \in RawSkeleton
  BY DEF Sound, IsEngine
<1>4. /\ Verts(r, s) \in Seq(Nat) /\ Edges(r, s) \in Seq(Nat) /\ HostedOf(r, s) \subseteq Occ
      /\ VertsOf(r, s) = ToSet(Verts(r, s)) /\ EdgesOf(r, s) = ToSet(Edges(r, s))
  BY <1>3 DEF RawSkeleton, Verts, Edges, HostedOf, VertsOf, EdgesOf
<1>5. Verts(r, s) \in Seq(VertsOf(r, s)) /\ Edges(r, s) \in Seq(EdgesOf(r, s))
  BY <1>4 DEF ToSet
<1>6. Consistent(r, s) /\ IsGraph(r, s)
  BY DEF Sound, Consistent, Validated
<1>7. IsInjective(Verts(r, s))
  <2>1. Partitioned(r.V, VertLists(r))
    BY DEF Sound, Owned, VertLists
  <2>2. s \in DOMAIN VertLists(r) /\ VertLists(r)[s] = Verts(r, s)
    BY DEF VertLists, Verts
  <2>. QED
    BY <2>1, <2>2 DEF Partitioned, IsInjective
<1>. QED
  BY <1>1, <1>2, <1>4, <1>5, <1>6, <1>7 DEF RawVertex

\* An edge ends in its skeleton, and a core edge at two REAL vertices.
LEMMA Ending ==
  ASSUME NEW r, Sound(r), NEW s \in Skels(r), NEW e \in EdgesOf(r, s), NEW v \in Ends(r, e)
  PROVE  /\ v \in VertsOf(r, s)
         /\ r.E.val[e].kind = "CORE_REAL" => r.V.val[v].kind = "REAL"
<1>1. IsGraph(r, s) /\ Consistent(r, s)
  BY Listed
<1>2. v \in VertsOf(r, s) /\ e \in r.V.val[v].adj
  BY <1>1 DEF IsGraph, Ends
<1>3. ASSUME r.V.val[v].kind = "OCC_CENTER" PROVE r.E.val[e].kind # "CORE_REAL"
  <2>1. r.V.val[v].occ \in HostedOf(r, s) /\ r.occ[r.V.val[v].occ].center = v
    BY <1>1, <1>2, <1>3, Centered
  <2>. QED
    BY <1>1, <1>2, <2>1 DEF Consistent, Validated
<1>4. r.V.val[v].kind \in {"REAL", "OCC_CENTER"}
  BY <1>2, Listed
<1>. QED
  BY <1>2, <1>3, <1>4

\* Two skeletons share neither an occurrence nor a vertex.
LEMMA Disjoint ==
  ASSUME NEW r, Sound(r), NEW s \in Skels(r), NEW t \in Skels(r), s # t
  PROVE  HostedOf(r, s) \cap HostedOf(r, t) = {} /\ VertsOf(r, s) \cap VertsOf(r, t) = {}
<1>1. \A o \in HostedOf(r, s) : r.occ[o].host = s
  BY Listed, Recorded
<1>2. \A o \in HostedOf(r, t) : r.occ[o].host = t
  BY Listed, Recorded
<1>3. ASSUME NEW v \in VertsOf(r, s) \cap VertsOf(r, t) PROVE FALSE
  <2>1. Partitioned(r.V, VertLists(r))
    BY DEF Sound, Owned, VertLists
  <2>2. /\ s \in DOMAIN VertLists(r) /\ VertLists(r)[s] = r.skel.val[s].verts
        /\ t \in DOMAIN VertLists(r) /\ VertLists(r)[t] = r.skel.val[t].verts
    BY DEF VertLists
  <2>3. PICK i \in DOMAIN r.skel.val[s].verts : r.skel.val[s].verts[i] = v
    BY DEF VertsOf, ToSet
  <2>4. PICK j \in DOMAIN r.skel.val[t].verts : r.skel.val[t].verts[j] = v
    BY DEF VertsOf, ToSet
  <2>. QED
    BY <2>1, <2>2, <2>3, <2>4 DEF Partitioned
<1>. QED
  BY <1>1, <1>2, <1>3

\* find_real_orig_in_skeleton finds a REAL vertex of that name.
LEMMA Found ==
  ASSUME NEW r, NEW s, NEW v, HasReal(r, s, v)
  PROVE  LET x == FindReal(r, s, v) IN
         x \in VertsOf(r, s) /\ r.V.val[x].kind = "REAL" /\ r.V.val[x].orig = v
<1>1. Cardinality(RealsNamed(r, s, v)) = 1
  BY DEF HasReal
<1>2. RealsNamed(r, s, v) # {}
  BY <1>1, FS_EmptySet
<1>3. FindReal(r, s, v) \in RealsNamed(r, s, v)
  BY <1>2 DEF FindReal
<1>. QED
  BY <1>3 DEF RealsNamed

------------------------------------------------------------------------------
(* Copies. *)

Glued(glue, v) == IF v \in DOMAIN glue THEN glue[v] ELSE v
PlaceOf(verts, glue, v) == CHOOSE i \in DOMAIN verts : verts[i] = Glued(glue, v)

\* A part of the skeletons T with the ends, after gluing, of the edges it holds.
IsPart(r, T, verts, edges, glue, occs) ==
  /\ T \subseteq Skels(r)
  /\ verts \in Seq(UNION {VertsOf(r, s) : s \in T})
  /\ edges \in Seq(UNION {EdgesOf(r, s) : s \in T})
  /\ occs \subseteq UNION {HostedOf(r, s) : s \in T}
  /\ \A e \in ToSet(edges) : \A v \in Ends(r, e) : Glued(glue, v) \in ToSet(verts)
  /\ \A v \in DOMAIN glue : r.V.val[glue[v]].kind = "REAL"

\* A copy of such a part is a good builder.
LEMMA CopyGood ==
  ASSUME NEW r, Sound(r), NEW T, NEW verts, NEW edges, NEW glue, NEW occs,
         IsPart(r, T, verts, edges, glue, occs),
         ValidBuilder(CopyBuilder(r, verts, edges, glue, occs))
  PROVE  /\ GoodBuilder(r, CopyBuilder(r, verts, edges, glue, occs))
         /\ OccsOf(CopyBuilder(r, verts, edges, glue, occs)) = OccsIn(r, ToSet(verts))
<1>. DEFINE B == CopyBuilder(r, verts, edges, glue, occs)
            P == UNION {VertsOf(r, s) : s \in T}
            Q == UNION {EdgesOf(r, s) : s \in T}
<1>0. /\ T \subseteq Skels(r) /\ verts \in Seq(P) /\ edges \in Seq(Q)
      /\ occs \subseteq UNION {HostedOf(r, s) : s \in T}
      /\ \A e \in ToSet(edges) : \A v \in Ends(r, e) : Glued(glue, v) \in ToSet(verts)
      /\ \A v \in DOMAIN glue : r.V.val[glue[v]].kind = "REAL"
  BY DEF IsPart
<1>1. /\ B.V = [i \in DOMAIN verts |->
                  [kind |-> r.V.val[verts[i]].kind, orig |-> r.V.val[verts[i]].orig,
                   occ |-> r.V.val[verts[i]].occ]]
      /\ B.E = [k \in DOMAIN edges |->
                  [a    |-> PlaceOf(verts, glue, r.E.val[edges[k]].a),
                   b    |-> PlaceOf(verts, glue, r.E.val[edges[k]].b),
                   kind |-> r.E.val[edges[k]].kind, br |-> r.E.val[edges[k]].br]]
      /\ B.nbr = [o \in occs |-> r.occ[o].nbr]
  BY DEF CopyBuilder, PlaceOf, Glued
<1>2. ValidBuilder(B)
  OBVIOUS
<1>. HIDE DEF B
<1>3. /\ DOMAIN B.V = DOMAIN verts /\ DOMAIN B.E = DOMAIN edges
      /\ \A i \in DOMAIN verts : /\ B.V[i].kind = r.V.val[verts[i]].kind
                                 /\ B.V[i].orig = r.V.val[verts[i]].orig
                                 /\ B.V[i].occ = r.V.val[verts[i]].occ
      /\ \A k \in DOMAIN edges : /\ B.E[k].a = PlaceOf(verts, glue, r.E.val[edges[k]].a)
                                 /\ B.E[k].b = PlaceOf(verts, glue, r.E.val[edges[k]].b)
                                 /\ B.E[k].kind = r.E.val[edges[k]].kind
      /\ DOMAIN B.nbr = occs /\ \A o \in occs : B.nbr[o] = r.occ[o].nbr
  <2>1. DOMAIN B.V = DOMAIN verts /\ DOMAIN B.E = DOMAIN edges
    BY <1>1
  <2>2. ASSUME NEW i \in DOMAIN verts
        PROVE  /\ B.V[i].kind = r.V.val[verts[i]].kind
               /\ B.V[i].orig = r.V.val[verts[i]].orig
               /\ B.V[i].occ = r.V.val[verts[i]].occ
    <3>1. B.V[i] = [kind |-> r.V.val[verts[i]].kind, orig |-> r.V.val[verts[i]].orig,
                    occ |-> r.V.val[verts[i]].occ]
      BY <1>1, Zenon
    <3>. QED
      BY ONLY <3>1
  <2>3. ASSUME NEW k \in DOMAIN edges
        PROVE  /\ B.E[k].a = PlaceOf(verts, glue, r.E.val[edges[k]].a)
               /\ B.E[k].b = PlaceOf(verts, glue, r.E.val[edges[k]].b)
               /\ B.E[k].kind = r.E.val[edges[k]].kind
    <3>1. B.E[k] = [a    |-> PlaceOf(verts, glue, r.E.val[edges[k]].a),
                    b    |-> PlaceOf(verts, glue, r.E.val[edges[k]].b),
                    kind |-> r.E.val[edges[k]].kind, br |-> r.E.val[edges[k]].br]
      BY <1>1, Zenon
    <3>. QED
      BY ONLY <3>1
  <2>4. DOMAIN B.nbr = occs /\ \A o \in occs : B.nbr[o] = r.occ[o].nbr
    BY <1>1
  <2>. QED
    BY <2>1, <2>2, <2>3, <2>4
<1>4. /\ DOMAIN verts = 1 .. Len(verts) /\ Len(verts) \in Nat
      /\ DOMAIN edges = 1 .. Len(edges) /\ Len(edges) \in Nat
      /\ \A i \in DOMAIN verts : verts[i] \in P
      /\ \A k \in DOMAIN edges : edges[k] \in Q
  <2>. HIDE DEF P, Q
  <2>. QED
    BY <1>0
<1>5. ASSUME NEW v \in P
      PROVE  /\ r.V.val[v].kind \in {"REAL", "OCC_CENTER"}
             /\ r.V.val[v].orig \in Vertex
             /\ r.V.val[v].occ \in Occ \cup {NoOcc}
             /\ r.V.val[v].kind = "OCC_CENTER" =>
                  /\ r.V.val[v].occ \in DOMAIN r.occ /\ r.V.val[v].occ \in Occ
                  /\ r.occ[r.V.val[v].occ].orig = r.V.val[v].orig
  <2>1. PICK s \in T : v \in VertsOf(r, s)
    OBVIOUS
  <2>2. s \in Skels(r) /\ Consistent(r, s)
    BY <1>0, Listed
  <2>3. /\ r.V.val[v].kind \in {"REAL", "OCC_CENTER"}
        /\ r.V.val[v].orig \in Vertex
        /\ r.V.val[v].occ \in Occ \cup {NoOcc}
    BY <2>1, <2>2, Listed
  <2>4. DOMAIN r.occ \subseteq Occ
    BY DEF Sound, IsEngine
  <2>. QED
    BY <2>1, <2>2, <2>3, <2>4, Centered
<1>6. \A i \in CentersOf(B) : /\ i \in DOMAIN verts /\ verts[i] \in P
                              /\ r.V.val[verts[i]].kind = "OCC_CENTER"
  BY <1>3, <1>4 DEF CentersOf
<1>7. OccsOf(B) = OccsIn(r, ToSet(verts))
  <2>1. ASSUME NEW o \in OccsOf(B) PROVE o \in OccsIn(r, ToSet(verts))
    BY <1>3, <1>6 DEF OccsOf, OccsIn, ToSet
  <2>2. ASSUME NEW o \in OccsIn(r, ToSet(verts)) PROVE o \in OccsOf(B)
    <3>1. PICK v \in ToSet(verts) : r.V.val[v].kind = "OCC_CENTER" /\ o = r.V.val[v].occ
      BY DEF OccsIn
    <3>2. PICK i \in DOMAIN verts : verts[i] = v
      BY DEF ToSet
    <3>3. i \in CentersOf(B) /\ B.V[i].occ = o
      BY <1>3, <3>1, <3>2 DEF CentersOf
    <3>. QED
      BY <3>3 DEF OccsOf
  <2>. QED
    BY <2>1, <2>2
<1>8. OccsOf(B) \subseteq DOMAIN r.occ /\ OccsOf(B) \subseteq Occ
  BY <1>3, <1>5, <1>6 DEF OccsOf
<1>9. TypedBuilder(B)
  <2>1. \A i \in 1 .. Len(verts) :
          [kind |-> r.V.val[verts[i]].kind, orig |-> r.V.val[verts[i]].orig,
           occ |-> r.V.val[verts[i]].occ] \in BuilderVertex
    BY <1>4, <1>5 DEF BuilderVertex
  <2>1a. DOMAIN B.V = 1 .. Len(verts)
    BY ONLY <1>3, <1>4
  <2>1b. \A i \in 1 .. Len(verts) : B.V[i] \in BuilderVertex
    <3>. TAKE i \in 1 .. Len(verts)
    <3>1. i \in DOMAIN verts
      BY ONLY <1>4, i \in 1 .. Len(verts)
    <3>2. B.V[i] = [kind |-> r.V.val[verts[i]].kind, orig |-> r.V.val[verts[i]].orig,
                    occ |-> r.V.val[verts[i]].occ]
      BY ONLY <1>1, <3>1
    <3>. QED
      BY ONLY <2>1, <3>2, i \in 1 .. Len(verts)
  <2>1c. B.V = [i \in DOMAIN B.V |-> B.V[i]]
    BY ONLY <1>1
  <2>2. B.V \in [1 .. Len(verts) -> BuilderVertex]
    BY ONLY <2>1a, <2>1b, <2>1c
  <2>2a. B.V \in Seq(BuilderVertex)
    BY <1>4, <2>2, SeqDef
  <2>3. DOMAIN B.E = 1 .. Len(B.E) /\ Len(B.E) \in Nat
    <3>. DEFINE bs == B.E
                m == Len(edges)
    <3>1. DOMAIN bs = 1 .. m /\ m \in Nat
      BY <1>3, <1>4
    <3>. HIDE DEF bs, m
    <3>2. Len(bs) = m
      BY <3>1
    <3>3. DOMAIN bs = 1 .. Len(bs) /\ Len(bs) \in Nat
      BY <3>1, <3>2
    <3>. QED
      BY <3>3 DEF bs
  <2>. QED
    BY <1>8, <2>2a, <2>3 DEF TypedBuilder
<1>10. \A i \in CentersOf(B) : B.V[i].orig = r.occ[B.V[i].occ].orig
  BY <1>3, <1>5, <1>6
<1>11. ASSUME NEW k \in DOMAIN B.E, B.E[k].kind = "CORE_REAL"
       PROVE  IsReal(B, B.E[k].a) /\ IsReal(B, B.E[k].b)
  <2>. DEFINE e == edges[k]
  <2>1. k \in DOMAIN edges /\ e \in Q /\ e \in ToSet(edges) /\ r.E.val[e].kind = "CORE_REAL"
    BY <1>3, <1>4, <1>11 DEF ToSet
  <2>2. PICK s \in T : e \in EdgesOf(r, s)
    BY <2>1
  <2>3. ASSUME NEW v \in Ends(r, e) PROVE IsReal(B, PlaceOf(verts, glue, v))
    <3>. DEFINE i == PlaceOf(verts, glue, v)
    <3>1. Glued(glue, v) \in ToSet(verts)
      BY <1>0, <2>1, <2>3
    <3>2. \E j \in DOMAIN verts : verts[j] = Glued(glue, v)
      BY <3>1 DEF ToSet
    <3>3. i \in DOMAIN verts /\ verts[i] = Glued(glue, v)
      BY <3>2 DEF PlaceOf
    <3>4. r.V.val[v].kind = "REAL"
      BY <1>0, <2>1, <2>2, Ending
    <3>5. r.V.val[Glued(glue, v)].kind = "REAL"
      BY <1>0, <3>4 DEF Glued
    <3>. HIDE DEF i
    <3>6. IsReal(B, i)
      BY <1>3, <3>3, <3>5 DEF IsReal
    <3>. QED
      BY <3>6 DEF i
  <2>4. r.E.val[e].a \in Ends(r, e) /\ r.E.val[e].b \in Ends(r, e)
    BY DEF Ends
  <2>. QED
    BY <1>3, <2>1, <2>3, <2>4
<1>12. ASSUME NEW o \in DOMAIN B.nbr, NEW n \in B.nbr[o]
       PROVE  n \in DOMAIN r.occ /\ n # o /\ r.occ[n].orig = r.occ[o].orig
  <2>1. o \in occs /\ n \in r.occ[o].nbr
    BY <1>3
  <2>2. PICK s \in T : o \in HostedOf(r, s)
    BY <1>0, <2>1
  <2>3. s \in Skels(r) /\ Consistent(r, s)
    BY <1>0, Listed
  <2>4. o \in DOMAIN r.occ /\ n # o /\ r.occ[n].orig = r.occ[o].orig
    BY <2>1, <2>2, <2>3, Recorded
  <2>5. r.occ[o].nbr \subseteq DOMAIN r.occ
    BY <2>4 DEF Sound
  <2>. QED
    BY <2>1, <2>4, <2>5
<1>13. GoodBuilder(r, B)
  BY <1>2, <1>8, <1>9, <1>10, <1>11, <1>12 DEF GoodBuilder
<1>. QED
  BY <1>7, <1>13 DEF B

LEMMA Catenated ==
  ASSUME NEW X, NEW s \in Seq(X), NEW t \in Seq(X)
  PROVE  /\ DOMAIN (s \o t) = 1 .. Len(s) + Len(t) /\ Len(s \o t) = Len(s) + Len(t)
         /\ \A k \in 1 .. Len(s) : (s \o t)[k] = s[k]
  OBVIOUS

LEMMA Joined ==
  ASSUME NEW X, NEW s \in Seq(X), NEW t \in Seq(X)
  PROVE  /\ s \o t \in Seq(X) /\ ToSet(s \o t) = ToSet(s) \cup ToSet(t)
         /\ IsInjective(s) /\ IsInjective(t) /\ ToSet(s) \cap ToSet(t) = {} => IsInjective(s \o t)
<1>1. /\ s \o t \in Seq(X) /\ Len(s \o t) = Len(s) + Len(t)
      /\ \A i \in 1 .. Len(s) + Len(t) : (s \o t)[i] = IF i <= Len(s) THEN s[i] ELSE t[i - Len(s)]
      /\ Len(s) \in Nat /\ Len(t) \in Nat
      /\ DOMAIN s = 1 .. Len(s) /\ DOMAIN t = 1 .. Len(t) /\ DOMAIN (s \o t) = 1 .. Len(s) + Len(t)
  OBVIOUS
<1>2. ASSUME NEW x \in ToSet(s \o t) PROVE x \in ToSet(s) \cup ToSet(t)
  BY <1>1 DEF ToSet
<1>3. ASSUME NEW x \in ToSet(s) PROVE x \in ToSet(s \o t)
  BY <1>1 DEF ToSet
<1>4. ASSUME NEW x \in ToSet(t) PROVE x \in ToSet(s \o t)
  <2>1. PICK j \in 1 .. Len(t) : t[j] = x
    BY <1>1 DEF ToSet
  <2>2. /\ Len(s) + j \in 1 .. Len(s) + Len(t)
        /\ (s \o t)[Len(s) + j] = IF Len(s) + j <= Len(s) THEN s[Len(s) + j]
                                                          ELSE t[Len(s) + j - Len(s)]
    BY <1>1
  <2>3. ~(Len(s) + j <= Len(s)) /\ Len(s) + j - Len(s) = j
    BY <1>1
  <2>4. (s \o t)[Len(s) + j] = x
    BY <2>1, <2>2, <2>3
  <2>. QED
    BY <1>1, <2>2, <2>4 DEF ToSet
<1>. DEFINE u == s \o t
<1>5. ASSUME IsInjective(s), IsInjective(t), ToSet(s) \cap ToSet(t) = {},
             NEW i \in DOMAIN u, NEW j \in DOMAIN u, u[i] = u[j]
      PROVE  i = j
  <2>1. ASSUME NEW k \in DOMAIN u
        PROVE  \/ k \in DOMAIN s /\ u[k] = s[k]
               \/ k - Len(s) \in DOMAIN t /\ u[k] = t[k - Len(s)]
    BY <1>1
  <2>2. i \in Int /\ j \in Int /\ Len(s) \in Int
    BY <1>1
  <2>. HIDE DEF u
  <2>3. \A k \in DOMAIN s, m \in DOMAIN t : s[k] # t[m]
    BY <1>5 DEF ToSet
  <2>4. CASE i \in DOMAIN s /\ u[i] = s[i] /\ j \in DOMAIN s /\ u[j] = s[j]
    BY <1>5, <2>4 DEF IsInjective
  <2>5. CASE i - Len(s) \in DOMAIN t /\ u[i] = t[i - Len(s)] /\ j - Len(s) \in DOMAIN t /\ u[j] = t[j - Len(s)]
    <3>1. i - Len(s) = j - Len(s)
      BY <1>5, <2>5 DEF IsInjective
    <3>. QED
      BY <2>2, <3>1
  <2>. QED
    BY <1>5, <2>1, <2>3, <2>4, <2>5
<1>. QED
  BY <1>1, <1>2, <1>3, <1>4, <1>5 DEF IsInjective

\* The occurrences of the centers among the vertices of some skeletons.
LEMMA OccsOfParts ==
  ASSUME NEW r, Sound(r), NEW T, T \subseteq Skels(r),
         NEW C, C \subseteq UNION {VertsOf(r, s) : s \in T}
  PROVE  OccsIn(r, C) \subseteq UNION {HostedOf(r, s) : s \in T}
<1>1. ASSUME NEW v \in C, r.V.val[v].kind = "OCC_CENTER"
      PROVE  r.V.val[v].occ \in UNION {HostedOf(r, s) : s \in T}
  <2>1. PICK s \in T : v \in VertsOf(r, s)
    OBVIOUS
  <2>2. Consistent(r, s)
    BY Listed
  <2>. QED
    BY <1>1, <2>1, <2>2, Centered
<1>. QED
  BY <1>1 DEF OccsIn

------------------------------------------------------------------------------
(* The calls that merge two skeletons. *)

\* What a merge leaves: t is gone, s is what the builder says, the others are as
\* they were.
Merged(r, s, t, B, y) ==
  /\ Skels(y) = Skels(r) \ {t}
  /\ \A u \in Skels(y) : u # s => SameContents(r, y, u)
  /\ RealUnique(B) => Shows(y, s, B)

\* A builder of two skeletons' occurrences is committed to one of them, and the
\* other one is dropped.
LEMMA Merging ==
  ASSUME NEW r, Sound(r), NEW s \in Skels(r), NEW t \in Skels(r), s # t,
         NEW B, GoodBuilder(r, B), OccsOf(B) \subseteq HostedOf(r, s) \cup HostedOf(r, t)
  PROVE  LET y == FreeSkeleton(RetireContents(CommitSkeleton(r, s, B), t), t) IN
         Partial(r, y, Skels(y)) /\ Merged(r, s, t, B, y)
<1>. DEFINE Z == Skels(r) \ {s, t}
            x == CommitSkeleton(r, s, B)
            y == FreeSkeleton(RetireContents(x, t), t)
<1>1. Partial(r, r, Z)
  BY Starting
<1>2. \A u \in Z : HostedOf(r, u) \cap OccsOf(B) = {}
  BY Disjoint
<1>3. s \in Skels(r) \ Z
  OBVIOUS
<1>. HIDE DEF Z
<1>4. /\ Partial(r, x, Z \cup {s}) /\ Skels(x) = Skels(r)
      /\ \A u \in Skels(r) : u # s => SameContents(r, x, u)
      /\ RealUnique(B) => Shows(x, s, B)
  <2>1. Partial(r, x, Z \cup {s}) /\ Skels(x) = Skels(r)
    BY <1>1, <1>2, <1>3, Rewriting
  <2>2. \A u \in Skels(r) : u # s => SameContents(r, x, u)
    BY <1>1, <1>2, <1>3, Rewriting
  <2>3. RealUnique(B) => Shows(x, s, B)
    BY <1>1, <1>2, <1>3, Rewriting
  <2>. QED
    BY <2>1, <2>2, <2>3
<1>. HIDE DEF x
<1>5. t \in Skels(x) \ (Z \cup {s})
  BY <1>4 DEF Z
<1>6. /\ Partial(r, y, Z \cup {s}) /\ Skels(y) = Skels(x) \ {t}
      /\ \A u \in Skels(y) : SameContents(x, y, u)
  BY <1>4, <1>5, Dropping
<1>7. Z \cup {s} = Skels(y)
  BY <1>4, <1>6 DEF Z
<1>. HIDE DEF y
<1>8. \A u \in Skels(y) : u # s => SameContents(r, y, u)
  BY <1>4, <1>6, SameContentsTrans
<1>9. RealUnique(B) => Shows(y, s, B)
  BY <1>4, <1>6, ShowsFrame
<1>10. Merged(r, s, t, B, y)
  BY <1>4, <1>6, <1>8, <1>9 DEF Merged
<1>. QED
  BY <1>6, <1>7, <1>10 DEF y, x

\* What the builders of join_separation_pair and integrate_skeleton have in
\* common: all of one skeleton, and of the other what is not glued to it.  bound is
\* what t shares with s, glue its copies there, verts what the builder lists.
IsGluing(r, s, t, bound, glue, verts) ==
  /\ bound \subseteq VertsOf(r, t) /\ DOMAIN glue = bound
  /\ \A v \in bound : glue[v] \in VertsOf(r, s) /\ r.V.val[glue[v]].kind = "REAL"
  /\ verts \in Seq(VertsOf(r, s) \cup VertsOf(r, t))
  /\ ToSet(verts) = VertsOf(r, s) \cup (VertsOf(r, t) \ bound)
  /\ IsInjective(verts)

GluedBuilder(r, s, t, glue, verts) ==
  CopyBuilder(r, verts, Edges(r, s) \o Edges(r, t), glue, HostedOf(r, s) \cup HostedOf(r, t))

\* What they copy is a part of the two skeletons.
LEMMA GluedPart ==
  ASSUME NEW r, Sound(r), NEW s \in Skels(r), NEW t \in Skels(r), s # t,
         NEW bound, NEW glue, NEW verts, IsGluing(r, s, t, bound, glue, verts)
  PROVE  IsPart(r, {s, t}, verts, Edges(r, s) \o Edges(r, t), glue, HostedOf(r, s) \cup HostedOf(r, t))
<1>. DEFINE T == {s, t}
            P == VertsOf(r, s) \cup VertsOf(r, t)
            Q == EdgesOf(r, s) \cup EdgesOf(r, t)
            edges == Edges(r, s) \o Edges(r, t)
            occs == HostedOf(r, s) \cup HostedOf(r, t)
<1>0. /\ DOMAIN glue = bound /\ bound \subseteq VertsOf(r, t)
      /\ \A v \in bound : glue[v] \in VertsOf(r, s) /\ r.V.val[glue[v]].kind = "REAL"
      /\ verts \in Seq(P) /\ ToSet(verts) = VertsOf(r, s) \cup (VertsOf(r, t) \ bound)
  BY DEF IsGluing
<1>1. /\ P = UNION {VertsOf(r, u) : u \in T} /\ Q = UNION {EdgesOf(r, u) : u \in T}
      /\ occs = UNION {HostedOf(r, u) : u \in T} /\ T \subseteq Skels(r)
  OBVIOUS
<1>2. Edges(r, s) \in Seq(Q) /\ Edges(r, t) \in Seq(Q)
  <2>1. Edges(r, s) \in Seq(EdgesOf(r, s)) /\ Edges(r, t) \in Seq(EdgesOf(r, t))
    BY Listed
  <2>. QED
    BY <2>1
<1>3. edges \in Seq(Q) /\ ToSet(edges) = Q
  <2>1. ToSet(Edges(r, s)) = EdgesOf(r, s) /\ ToSet(Edges(r, t)) = EdgesOf(r, t)
    BY DEF Edges, EdgesOf
  <2>. HIDE DEF Q
  <2>2. edges \in Seq(Q) /\ ToSet(edges) = ToSet(Edges(r, s)) \cup ToSet(Edges(r, t))
    BY <1>2, Joined
  <2>. QED
    BY <2>1, <2>2 DEF Q
<1>4. ASSUME NEW e \in ToSet(edges), NEW v \in Ends(r, e) PROVE Glued(glue, v) \in ToSet(verts)
  <2>1. CASE e \in EdgesOf(r, s)
    <3>1. v \in VertsOf(r, s)
      BY <2>1, Ending
    <3>2. v \notin bound
      BY <1>0, <3>1, Disjoint
    <3>. QED
      BY <1>0, <3>1, <3>2 DEF Glued
  <2>2. CASE e \in EdgesOf(r, t)
    <3>1. v \in VertsOf(r, t)
      BY <2>2, Ending
    <3>. QED
      BY <1>0, <3>1 DEF Glued
  <2>. QED
    BY <1>3, <2>1, <2>2
<1>5. verts \in Seq(P) /\ \A v \in DOMAIN glue : r.V.val[glue[v]].kind = "REAL"
  BY <1>0
<1>. HIDE DEF T, P, Q, edges, occs
<1>6. IsPart(r, T, verts, edges, glue, occs)
  BY <1>1, <1>3, <1>4, <1>5 DEF IsPart
<1>. QED
  BY <1>6 DEF T, edges, occs

\* If the builder is valid it is good, and has the occurrences of both.
LEMMA GluedCopy ==
  ASSUME NEW r, Sound(r), NEW s \in Skels(r), NEW t \in Skels(r), s # t,
         NEW bound, NEW glue, NEW verts, IsGluing(r, s, t, bound, glue, verts),
         NEW B, B = GluedBuilder(r, s, t, glue, verts), ValidBuilder(B)
  PROVE  GoodBuilder(r, B) /\ OccsOf(B) = HostedOf(r, s) \cup HostedOf(r, t)
<1>. DEFINE T == {s, t}
            edges == Edges(r, s) \o Edges(r, t)
            occs == HostedOf(r, s) \cup HostedOf(r, t)
<1>1. B = CopyBuilder(r, verts, edges, glue, occs)
  BY DEF GluedBuilder
<1>2. IsPart(r, T, verts, edges, glue, occs)
  BY GluedPart
<1>3. occs = UNION {HostedOf(r, u) : u \in T} /\ T \subseteq Skels(r)
  OBVIOUS
<1>. HIDE DEF T, edges, occs
<1>4. DOMAIN B.nbr = occs
  <2>1. CopyBuilder(r, verts, edges, glue, occs).nbr = [o \in occs |-> r.occ[o].nbr]
    BY DEF CopyBuilder
  <2>. QED
    BY <1>1, <2>1
<1>5. GoodBuilder(r, B) /\ OccsOf(B) = OccsIn(r, ToSet(verts))
  BY <1>1, <1>2, CopyGood
<1>6. ToSet(verts) \subseteq UNION {VertsOf(r, u) : u \in T}
  BY <1>2 DEF IsPart, ToSet
<1>7. OccsIn(r, ToSet(verts)) \subseteq occs
  BY <1>3, <1>6, OccsOfParts
<1>8. occs \subseteq OccsOf(B)
  BY <1>4 DEF ValidBuilder
<1>. QED
  BY <1>5, <1>7, <1>8 DEF occs

\* build_merged_after_sep_join glues the two copies of a and of b.
LEMMA JoinGlues ==
  ASSUME NEW r, Sound(r), NEW left \in Skels(r), NEW right \in Skels(r), left # right,
         NEW a, NEW b, a # b, \A s \in {left, right}, v \in {a, b} : HasReal(r, s, v)
  PROVE  \E bound, glue, verts :
           /\ JoinBuilder(r, left, right, a, b) = GluedBuilder(r, left, right, glue, verts)
           /\ IsGluing(r, left, right, bound, glue, verts)
           /\ bound = {FindReal(r, right, a), FindReal(r, right, b)}
           /\ \A v \in bound : r.V.val[glue[v]].orig = r.V.val[v].orig
<1>. DEFINE lA == FindReal(r, left, a)
            lB == FindReal(r, left, b)
            rA == FindReal(r, right, a)
            rB == FindReal(r, right, b)
            bound == {rA, rB}
            glue == [v \in {rA, rB} |-> IF v = rA THEN lA ELSE lB]
            X == VertsOf(r, left) \cup VertsOf(r, right)
            v1 == <<lA, lB>>
            v2 == Keep(Verts(r, left), VertsOf(r, left) \ {lA, lB})
            v3 == Keep(Verts(r, right), VertsOf(r, right) \ {rA, rB})
            verts == v1 \o v2 \o v3
<1>1. /\ lA \in VertsOf(r, left) /\ r.V.val[lA].kind = "REAL" /\ r.V.val[lA].orig = a
      /\ lB \in VertsOf(r, left) /\ r.V.val[lB].kind = "REAL" /\ r.V.val[lB].orig = b
      /\ rA \in VertsOf(r, right) /\ r.V.val[rA].orig = a
      /\ rB \in VertsOf(r, right) /\ r.V.val[rB].orig = b
  BY Found
<1>2. JoinBuilder(r, left, right, a, b) = GluedBuilder(r, left, right, glue, verts)
  BY DEF JoinBuilder, GluedBuilder
<1>. HIDE DEF lA, lB, rA, rB
<1>3. /\ Verts(r, left) \in Seq(VertsOf(r, left)) /\ Verts(r, right) \in Seq(VertsOf(r, right))
      /\ ToSet(Verts(r, left)) = VertsOf(r, left) /\ ToSet(Verts(r, right)) = VertsOf(r, right)
      /\ IsInjective(Verts(r, left)) /\ IsInjective(Verts(r, right))
  BY Listed
<1>4. Verts(r, left) \in Seq(X) /\ Verts(r, right) \in Seq(X)
  BY <1>3
<1>5. v1 \in Seq(X) /\ ToSet(v1) = {lA, lB} /\ IsInjective(v1)
  <2>1. lA # lB /\ lA \in X /\ lB \in X
    BY <1>1
  <2>. HIDE DEF X
  <2>2. v1 \in Seq(X) /\ DOMAIN v1 = {1, 2} /\ v1[1] = lA /\ v1[2] = lB
    BY <2>1
  <2>. HIDE DEF v1
  <2>. QED
    BY <2>1, <2>2 DEF ToSet, IsInjective
<1>. HIDE DEF X
<1>6. v2 \in Seq(X) /\ ToSet(v2) = VertsOf(r, left) \ {lA, lB} /\ IsInjective(v2)
  <2>1. /\ v2 \in Seq(X) /\ ToSet(v2) = ToSet(Verts(r, left)) \cap (VertsOf(r, left) \ {lA, lB})
        /\ IsInjective(v2)
    BY <1>3, <1>4, KeepFacts
  <2>. QED
    BY <1>3, <2>1
<1>7. v3 \in Seq(X) /\ ToSet(v3) = VertsOf(r, right) \ {rA, rB} /\ IsInjective(v3)
  <2>1. /\ v3 \in Seq(X) /\ ToSet(v3) = ToSet(Verts(r, right)) \cap (VertsOf(r, right) \ {rA, rB})
        /\ IsInjective(v3)
    BY <1>3, <1>4, KeepFacts
  <2>. QED
    BY <1>3, <2>1
<1>. HIDE DEF v1, v2, v3
<1>8. /\ verts \in Seq(X) /\ IsInjective(verts)
      /\ ToSet(verts) = VertsOf(r, left) \cup (VertsOf(r, right) \ bound)
  <2>. DEFINE v12 == v1 \o v2
  <2>1. ToSet(v1) \cap ToSet(v2) = {}
    BY <1>5, <1>6
  <2>2. v12 \in Seq(X) /\ ToSet(v12) = ToSet(v1) \cup ToSet(v2) /\ IsInjective(v12)
    BY <1>5, <1>6, <2>1, Joined
  <2>. HIDE DEF v12
  <2>3. ToSet(v12) = VertsOf(r, left)
    BY <1>1, <1>5, <1>6, <2>2
  <2>4. VertsOf(r, left) \cap VertsOf(r, right) = {}
    BY Disjoint
  <2>5. ToSet(v12) \cap ToSet(v3) = {}
    BY <1>7, <2>3, <2>4
  <2>6. v12 \o v3 \in Seq(X) /\ ToSet(v12 \o v3) = ToSet(v12) \cup ToSet(v3) /\ IsInjective(v12 \o v3)
    BY <1>7, <2>2, <2>5, Joined
  <2>7. verts = v12 \o v3
    BY DEF v12
  <2>. QED
    BY <1>7, <2>3, <2>6, <2>7
<1>9. /\ bound \subseteq VertsOf(r, right) /\ DOMAIN glue = bound
      /\ \A v \in bound : /\ glue[v] \in VertsOf(r, left) /\ r.V.val[glue[v]].kind = "REAL"
                          /\ r.V.val[glue[v]].orig = r.V.val[v].orig
  BY <1>1
<1>10. IsGluing(r, left, right, bound, glue, verts)
  BY <1>8, <1>9 DEF IsGluing, X
<1>. QED
  BY <1>2, <1>9, <1>10 DEF rA, rB

\* integrate_skeleton glues the boundary by the names the map gives it.
Boundary(r, child, bm) == {FindReal(r, child, x) : x \in DOMAIN bm}

LEMMA IntegrateGlues ==
  ASSUME NEW r, Sound(r), NEW parent \in Skels(r), NEW child \in Skels(r), parent # child,
         NEW bm, \A x \in DOMAIN bm : HasReal(r, child, x) /\ HasReal(r, parent, bm[x])
  PROVE  \E bound, glue, verts :
           /\ IntegrateBuilder(r, parent, child, bm) = GluedBuilder(r, parent, child, glue, verts)
           /\ IsGluing(r, parent, child, bound, glue, verts)
           /\ bound = Boundary(r, child, bm)
           /\ \A v \in bound : r.V.val[glue[v]].orig = bm[r.V.val[v].orig]
<1>. DEFINE bound == {FindReal(r, child, x) : x \in DOMAIN bm}
            glue == [v \in bound |-> FindReal(r, parent, bm[r.V.val[v].orig])]
            X == VertsOf(r, parent) \cup VertsOf(r, child)
            v1 == Verts(r, parent)
            v2 == Keep(Verts(r, child), VertsOf(r, child) \ bound)
            verts == v1 \o v2
<1>1. \A x \in DOMAIN bm :
        /\ FindReal(r, child, x) \in VertsOf(r, child)
        /\ r.V.val[FindReal(r, child, x)].orig = x
        /\ FindReal(r, parent, bm[x]) \in VertsOf(r, parent)
        /\ r.V.val[FindReal(r, parent, bm[x])].kind = "REAL"
        /\ r.V.val[FindReal(r, parent, bm[x])].orig = bm[x]
  BY Found
<1>2. IntegrateBuilder(r, parent, child, bm) = GluedBuilder(r, parent, child, glue, verts)
  BY DEF IntegrateBuilder, GluedBuilder
<1>3. /\ v1 \in Seq(VertsOf(r, parent)) /\ Verts(r, child) \in Seq(VertsOf(r, child))
      /\ ToSet(v1) = VertsOf(r, parent) /\ ToSet(Verts(r, child)) = VertsOf(r, child)
      /\ IsInjective(v1) /\ IsInjective(Verts(r, child))
  BY Listed
<1>4. v1 \in Seq(X) /\ Verts(r, child) \in Seq(X)
  BY <1>3
<1>5. bound \subseteq VertsOf(r, child) /\ DOMAIN glue = bound
  BY <1>1
<1>6. ASSUME NEW v \in bound
      PROVE  /\ glue[v] \in VertsOf(r, parent) /\ r.V.val[glue[v]].kind = "REAL"
             /\ r.V.val[glue[v]].orig = bm[r.V.val[v].orig]
  <2>1. PICK x \in DOMAIN bm : v = FindReal(r, child, x)
    OBVIOUS
  <2>2. glue[v] = FindReal(r, parent, bm[x]) /\ r.V.val[v].orig = x
    BY <1>1, <2>1
  <2>. QED
    BY <1>1, <2>2
<1>. HIDE DEF bound, glue, X
<1>7. /\ v2 \in Seq(X) /\ ToSet(v2) = ToSet(Verts(r, child)) \cap (VertsOf(r, child) \ bound)
      /\ IsInjective(v2)
  BY <1>3, <1>4, KeepFacts
<1>8. VertsOf(r, parent) \cap VertsOf(r, child) = {}
  BY Disjoint
<1>. HIDE DEF v1, v2
<1>9. ToSet(v1) \cap ToSet(v2) = {}
  BY <1>3, <1>7, <1>8
<1>10. verts \in Seq(X) /\ ToSet(verts) = ToSet(v1) \cup ToSet(v2) /\ IsInjective(verts)
  BY <1>3, <1>4, <1>7, <1>9, Joined
<1>. HIDE DEF verts
<1>11. IsGluing(r, parent, child, bound, glue, verts)
  BY <1>3, <1>5, <1>6, <1>7, <1>10 DEF IsGluing, X
<1>. QED
  BY <1>2, <1>6, <1>11 DEF bound, Boundary

LEMMA JoinKeeps ==
  ASSUME NEW r, Sound(r), NEW left, NEW right, NEW a, NEW b, JoinReady(r, left, right, a, b),
         NEW y, y = JoinPair(r, left, right, a, b)
  PROVE  /\ Partial(r, y, Skels(y)) /\ Merged(r, left, right, JoinBuilder(r, left, right, a, b), y)
         /\ OccsOf(JoinBuilder(r, left, right, a, b)) = HostedOf(r, left) \cup HostedOf(r, right)
<1>. DEFINE B == JoinBuilder(r, left, right, a, b)
<1>1. /\ left \in Skels(r) /\ right \in Skels(r) /\ left # right /\ a # b
      /\ \A s \in {left, right}, v \in {a, b} : HasReal(r, s, v)
      /\ ValidBuilder(B)
  BY DEF JoinReady
<1>. HIDE DEF B
<1>2. PICK bound, glue, verts :
        /\ B = GluedBuilder(r, left, right, glue, verts)
        /\ IsGluing(r, left, right, bound, glue, verts)
  BY <1>1, JoinGlues DEF B
<1>3. GoodBuilder(r, B) /\ OccsOf(B) = HostedOf(r, left) \cup HostedOf(r, right)
  BY <1>1, <1>2, GluedCopy
<1>4. y = FreeSkeleton(RetireContents(CommitSkeleton(r, left, B), right), right)
  BY DEF JoinPair, B
<1>5. Partial(r, y, Skels(y)) /\ Merged(r, left, right, B, y)
  BY <1>1, <1>3, <1>4, Merging
<1>. QED
  BY <1>3, <1>5 DEF B

LEMMA IntegrateKeeps ==
  ASSUME NEW r, Sound(r), NEW parent, NEW child, NEW bm, IntegrateReady(r, parent, child, bm),
         NEW y, y = IntegrateSkeleton(r, parent, child, bm)
  PROVE  /\ Partial(r, y, Skels(y))
         /\ Merged(r, parent, child, IntegrateBuilder(r, parent, child, bm), y)
         /\ OccsOf(IntegrateBuilder(r, parent, child, bm))
              = HostedOf(r, parent) \cup HostedOf(r, child)
<1>. DEFINE B == IntegrateBuilder(r, parent, child, bm)
<1>1. /\ parent \in Skels(r) /\ child \in Skels(r) /\ parent # child
      /\ \A x \in DOMAIN bm : HasReal(r, child, x) /\ HasReal(r, parent, bm[x])
      /\ ValidBuilder(B)
  BY DEF IntegrateReady
<1>. HIDE DEF B
<1>2. PICK bound, glue, verts :
        /\ B = GluedBuilder(r, parent, child, glue, verts)
        /\ IsGluing(r, parent, child, bound, glue, verts)
  BY <1>1, IntegrateGlues DEF B
<1>3. GoodBuilder(r, B) /\ OccsOf(B) = HostedOf(r, parent) \cup HostedOf(r, child)
  BY <1>1, <1>2, GluedCopy
<1>4. y = FreeSkeleton(RetireContents(CommitSkeleton(r, parent, B), child), child)
  BY DEF IntegrateSkeleton, B
<1>5. Partial(r, y, Skels(y)) /\ Merged(r, parent, child, B, y)
  BY <1>1, <1>3, <1>4, Merging
<1>. QED
  BY <1>3, <1>5 DEF B

------------------------------------------------------------------------------
(* isolate_vertex. *)

PortOf(r, c, e) ==
  [attach |-> r.V.val[OtherEnd(r, e, c)].orig,
   kind   |-> r.E.val[e].kind,
   br     |-> IF r.E.val[e].kind = "REAL_PORT" THEN NoBridge ELSE r.E.val[e].br]

\* Each port comes from an edge at the center.
LEMMA PortsFacts ==
  ASSUME NEW r, Sound(r), NEW sid \in Skels(r), NEW o, NEW c, c = r.occ[o].center,
         NEW X, X = {PortOf(r, c, e) : e \in EdgesOf(r, sid) \cap r.V.val[c].adj}
  PROVE  Ports(r, sid, o) \in Seq(X)
<1>. DEFINE incident == Keep(Edges(r, sid), r.V.val[c].adj)
            n == Len(incident)
            Next1(ps, p) == IF \E q \in ToSet(ps) : PortKey(q) = PortKey(p) THEN ps ELSE Append(ps, p)
            found[k \in 0 .. n] ==
              IF k = 0 THEN <<>> ELSE Next1(found[k - 1], PortOf(r, c, incident[k]))
            Is(f) == f = [k \in 0 .. n |->
                            IF k = 0 THEN <<>> ELSE Next1(f[k - 1], PortOf(r, c, incident[k]))]
            D == Seq(X)
            step == [p \in D \X (1 .. n) |-> Next1(p[1], PortOf(r, c, incident[p[2]]))]
<1>1. Ports(r, sid, o) = found[n]
  BY DEF Ports, PortOf
<1>2. found = CHOOSE f : Is(f)
  OBVIOUS
<1>. HIDE DEF found
<1>3. n \in Nat /\ \A i \in 1 .. n : PortOf(r, c, incident[i]) \in X
  <2>1. Edges(r, sid) \in Seq(EdgesOf(r, sid))
    BY Listed
  <2>2. /\ incident \in Seq(EdgesOf(r, sid))
        /\ ToSet(incident) = ToSet(Edges(r, sid)) \cap r.V.val[c].adj
    BY <2>1, KeepFacts
  <2>. HIDE DEF incident
  <2>3. ASSUME NEW i \in 1 .. n PROVE incident[i] \in EdgesOf(r, sid) \cap r.V.val[c].adj
    <3>1. incident[i] \in EdgesOf(r, sid) /\ i \in DOMAIN incident
      BY <2>2
    <3>2. incident[i] \in ToSet(incident)
      BY <3>1 DEF ToSet
    <3>. QED
      BY <2>2, <3>1, <3>2
  <2>. QED
    BY <2>2, <2>3
<1>. HIDE DEF incident, n
<1>4. \A ps \in D, p \in X : Next1(ps, p) \in D
  <2>. SUFFICES ASSUME NEW ps \in D, NEW p \in X PROVE Next1(ps, p) \in D
    OBVIOUS
  <2>1. ps \in Seq(X)
    OBVIOUS
  <2>2. Append(ps, p) \in Seq(X)
    BY <2>1, AppendProperties, Zenon
  <2>. QED
    BY <2>1, <2>2, Zenon
<1>5. <<>> \in D
  OBVIOUS
<1>. HIDE DEF D, Next1
<1>6. step \in [D \X (1 .. n) -> D]
  BY <1>3, <1>4
<1>7. \A ps \in D, i \in 1 .. n : step[<<ps, i>>] = Next1(ps, PortOf(r, c, incident[i]))
  OBVIOUS
<1>. HIDE DEF step
<1>8. PICK f : Iterates(f, D, <<>>, n, step)
  BY <1>3, <1>5, <1>6, Iterated
<1>9. /\ f \in [0 .. n -> D] /\ f[0] = <<>>
      /\ \A i \in 1 .. n : f[i] = step[<<f[i - 1], i>>]
  BY <1>8 DEF Iterates
<1>10. ASSUME NEW k \in 0 .. n
       PROVE  f[k] = IF k = 0 THEN <<>> ELSE Next1(f[k - 1], PortOf(r, c, incident[k]))
  <2>1. CASE k = 0
    BY <1>9, <2>1
  <2>2. CASE k # 0
    <3>1. k \in 1 .. n /\ k - 1 \in 0 .. n
      BY <1>3, <2>2
    <3>2. f[k] = step[<<f[k - 1], k>>] /\ f[k - 1] \in D
      BY <1>9, <3>1
    <3>. QED
      BY <1>7, <2>2, <3>1, <3>2
  <2>. QED
    BY <2>1, <2>2
<1>11. Is(f)
  BY <1>9, <1>10
<1>. HIDE DEF Is
<1>12. Is(found)
  BY <1>2, <1>11
<1>. USE DEF Is
<1>. DEFINE Good == {k \in 0 .. n : found[k] \in D}
<1>13. 0 \in Good
  BY <1>3, <1>5, <1>12
<1>14. ASSUME NEW k \in 1 .. n, k - 1 \in Good PROVE k \in Good
  <2>1. k \in 0 .. n /\ k # 0 /\ found[k - 1] \in D
    BY <1>3, <1>14
  <2>2. found[k] = Next1(found[k - 1], PortOf(r, c, incident[k]))
    BY <1>12, <2>1
  <2>. QED
    BY <1>3, <1>4, <2>1, <2>2
<1>. HIDE DEF Good
<1>15. \A k \in 0 .. n : k \in Good
  BY <1>3, <1>13, <1>14, Upwards
<1>16. n \in Good
  BY <1>3, <1>15
<1>. QED
  BY <1>1, <1>16 DEF Good, D

\* What the other occurrences keep is a good builder without the one that moves.
LEMMA ResidualGood ==
  ASSUME NEW r, Sound(r), NEW sid \in Skels(r), NEW o \in HostedOf(r, sid),
         ValidBuilder(ResidualBuilder(r, sid, o))
  PROVE  /\ GoodBuilder(r, ResidualBuilder(r, sid, o))
         /\ OccsOf(ResidualBuilder(r, sid, o)) = HostedOf(r, sid) \ {o}
<1>. DEFINE survivors == HostedOf(r, sid) \ {o}
            centers == {r.occ[x].center : x \in survivors}
            ke == {e \in EdgesOf(r, sid) :
                     /\ r.occ[o].center \notin Ends(r, e)
                     /\ Ends(r, e) \cap centers # {} \/ \E x \in survivors : e \in r.occ[x].patch}
            kv == centers \cup UNION {Ends(r, e) : e \in ke}
            verts == Keep(Verts(r, sid), kv)
            edges == Keep(Edges(r, sid), ke)
            B == CopyBuilder(r, verts, edges, NoGlue, survivors)
<1>1. B = ResidualBuilder(r, sid, o)
  BY DEF ResidualBuilder
<1>2. Verts(r, sid) \in Seq(VertsOf(r, sid)) /\ Edges(r, sid) \in Seq(EdgesOf(r, sid))
  BY Listed
<1>3. ToSet(Verts(r, sid)) = VertsOf(r, sid) /\ ToSet(Edges(r, sid)) = EdgesOf(r, sid)
  BY DEF Verts, VertsOf, Edges, EdgesOf
<1>4. ASSUME NEW e \in ke, NEW v \in Ends(r, e) PROVE v \in VertsOf(r, sid) \cap kv
  <2>1. e \in EdgesOf(r, sid)
    OBVIOUS
  <2>. HIDE DEF ke
  <2>. QED
    BY <2>1, Ending
<1>5. r.occ[o].center \notin kv
  <2>1. ASSUME NEW x \in survivors PROVE r.occ[x].center # r.occ[o].center
    BY Listed, Recorded
  <2>. QED
    BY <2>1
<1>. HIDE DEF kv, ke, centers
<1>6. verts \in Seq(VertsOf(r, sid)) /\ ToSet(verts) = VertsOf(r, sid) \cap kv
  BY <1>2, <1>3, KeepFacts
<1>7. edges \in Seq(EdgesOf(r, sid)) /\ ToSet(edges) = EdgesOf(r, sid) \cap ke
  BY <1>2, <1>3, KeepFacts
<1>. HIDE DEF verts, edges
<1>8. IsPart(r, {sid}, verts, edges, NoGlue, survivors)
  <2>1. /\ UNION {VertsOf(r, s) : s \in {sid}} = VertsOf(r, sid)
        /\ UNION {EdgesOf(r, s) : s \in {sid}} = EdgesOf(r, sid)
        /\ UNION {HostedOf(r, s) : s \in {sid}} = HostedOf(r, sid)
    OBVIOUS
  <2>2. \A e \in ToSet(edges) : \A v \in Ends(r, e) : Glued(NoGlue, v) \in ToSet(verts)
    BY <1>4, <1>6, <1>7 DEF Glued, NoGlue
  <2>. QED
    BY <1>6, <1>7, <2>1, <2>2 DEF IsPart, NoGlue
<1>9. GoodBuilder(r, B) /\ OccsOf(B) = OccsIn(r, ToSet(verts))
  BY <1>1, <1>8, CopyGood
<1>. HIDE DEF B
<1>10. ASSUME NEW v \in ToSet(verts), r.V.val[v].kind = "OCC_CENTER"
       PROVE  r.V.val[v].occ \in HostedOf(r, sid) \ {o}
  <2>1. v \in VertsOf(r, sid) /\ v # r.occ[o].center
    BY <1>5, <1>6
  <2>2. r.V.val[v].occ \in HostedOf(r, sid) /\ r.occ[r.V.val[v].occ].center = v
    BY <1>10, <2>1, Listed, Centered
  <2>. QED
    BY <2>1, <2>2
<1>11. OccsOf(B) \subseteq HostedOf(r, sid) \ {o}
  BY <1>9, <1>10 DEF OccsIn
<1>12. survivors \subseteq OccsOf(B)
  <2>1. DOMAIN B.nbr = survivors
    BY DEF B, CopyBuilder
  <2>. QED
    BY <1>1, <2>1 DEF ValidBuilder
<1>. QED
  BY <1>1, <1>9, <1>11, <1>12

\* The occurrence that moves, on its own, is a good builder.
LEMMA IsolatedGood ==
  ASSUME NEW r, Sound(r), NEW sid \in Skels(r), NEW o \in HostedOf(r, sid), IsolateReady(r, sid, o)
  PROVE  /\ GoodBuilder(r, IsolatedBuilder(r, sid, o))
         /\ OccsOf(IsolatedBuilder(r, sid, o)) = {o}
         /\ RealUnique(IsolatedBuilder(r, sid, o))
<1>. DEFINE R == r.occ[o]
            c == R.center
            ports == Ports(r, sid, o)
            np == Len(ports)
            orig(v) == r.V.val[v].orig
            core == Keep(Edges(r, sid), {e \in R.patch : orig(r.E.val[e].a) # orig(r.E.val[e].b)})
            nc == Len(core)
            ends == [i \in 1 .. 2 * Len(core) |->
                       LET e == r.E.val[core[(i + 1) \div 2]] IN orig(IF i % 2 = 1 THEN e.a ELSE e.b)]
            attached == [i \in DOMAIN ports |-> ports[i].attach]
            names == Distinct(<<R.orig>> \o attached \o ends)
            at(n) == CHOOSE i \in DOMAIN names : names[i] = n
            portE == [k \in DOMAIN ports |->
                       [a |-> 1, b |-> at(ports[k].attach), kind |-> ports[k].kind, br |-> ports[k].br]]
            coreE == [k \in DOMAIN core |->
                       [a |-> at(orig(r.E.val[core[k]].a)), b |-> at(orig(r.E.val[core[k]].b)),
                        kind |-> "CORE_REAL", br |-> NoBridge]]
            item(i) == IF i = 1 THEN [kind |-> "OCC_CENTER", orig |-> R.orig, occ |-> o]
                       ELSE [kind |-> "REAL", orig |-> names[i], occ |-> NoOcc]
            B == IsolatedBuilder(r, sid, o)
<1>1. /\ B.V = [i \in DOMAIN names |-> item(i)]
      /\ B.E = portE \o coreE
      /\ B.nbr = [x \in {o} |-> R.nbr]
      /\ B.patch = [x \in {o} |-> np + 1 .. np + nc]
  BY DEF IsolatedBuilder
<1>2. ValidBuilder(B)
  BY DEF IsolateReady
<1>. HIDE DEF B
<1>3. /\ Consistent(r, sid) /\ IsGraph(r, sid) /\ Edges(r, sid) \in Seq(EdgesOf(r, sid))
      /\ o \in DOMAIN r.occ /\ o \in Occ /\ c \in VertsOf(r, sid)
      /\ R.orig \in Vertex /\ R.nbr \subseteq DOMAIN r.occ
      /\ \A n \in R.nbr : n # o /\ r.occ[n].orig = R.orig
  <2>1. Consistent(r, sid) /\ IsGraph(r, sid) /\ Edges(r, sid) \in Seq(EdgesOf(r, sid)) /\ o \in Occ
    BY Listed
  <2>2. /\ o \in DOMAIN r.occ /\ c \in VertsOf(r, sid)
        /\ \A n \in R.nbr : n # o /\ r.occ[n].orig = R.orig
    BY <2>1, Recorded
  <2>. QED
    BY <2>1, <2>2 DEF Sound
<1>4. \A e \in r.V.val[c].adj : r.E.val[e].kind # "CORE_REAL"
  BY DEF IsolateReady
<1>5. \A e \in EdgesOf(r, sid) : orig(r.E.val[e].a) \in Vertex /\ orig(r.E.val[e].b) \in Vertex
  <2>1. \A e \in EdgesOf(r, sid) : r.E.val[e].a \in VertsOf(r, sid) /\ r.E.val[e].b \in VertsOf(r, sid)
    BY <1>3 DEF IsGraph
  <2>. QED
    BY <2>1, Listed
<1>. DEFINE X == {PortOf(r, c, e) : e \in EdgesOf(r, sid) \cap r.V.val[c].adj}
<1>6. ports \in Seq(X)
  BY PortsFacts
<1>7. \A p \in X : p.attach \in Vertex /\ p.kind # "CORE_REAL"
  <2>1. ASSUME NEW e \in EdgesOf(r, sid) \cap r.V.val[c].adj
        PROVE  PortOf(r, c, e).attach \in Vertex /\ PortOf(r, c, e).kind # "CORE_REAL"
    <3>1. c \in Ends(r, e) /\ r.E.val[e].a # r.E.val[e].b
      BY <1>3 DEF IsGraph, Ends
    <3>2. \E w \in Ends(r, e) : w # c
      BY <3>1 DEF Ends
    <3>3. OtherEnd(r, e, c) \in Ends(r, e)
      BY <3>2 DEF OtherEnd
    <3>4. OtherEnd(r, e, c) \in VertsOf(r, sid)
      BY <3>3, Ending
    <3>5. r.V.val[OtherEnd(r, e, c)].orig \in Vertex
      BY <3>4, Listed
    <3>. QED
      BY <1>4, <3>5 DEF PortOf
  <2>. QED
    BY <2>1
<1>. HIDE DEF X, ports
<1>8. np \in Nat /\ DOMAIN ports = 1 .. np /\ \A k \in 1 .. np : ports[k] \in X
  BY <1>6
<1>9. core \in Seq(EdgesOf(r, sid))
  BY <1>3, KeepFacts
<1>. HIDE DEF core
<1>10. nc \in Nat /\ DOMAIN core = 1 .. nc /\ \A k \in 1 .. nc : core[k] \in EdgesOf(r, sid)
  BY <1>9
<1>11. names \in Seq(Vertex) /\ IsInjective(names)
  <2>1. attached \in [1 .. np -> Vertex]
    BY <1>7, <1>8
  <2>2. attached \in Seq(Vertex)
    BY <1>8, <2>1, SeqDef
  <2>3. ASSUME NEW i \in 1 .. 2 * nc PROVE ends[i] \in Vertex
    <3>1. (i + 1) \div 2 \in 1 .. nc
      BY <1>10
    <3>. DEFINE e == core[(i + 1) \div 2]
    <3>2. e \in EdgesOf(r, sid)
      BY <1>10, <3>1
    <3>3. ends[i] = orig(IF i % 2 = 1 THEN r.E.val[e].a ELSE r.E.val[e].b)
      OBVIOUS
    <3>. HIDE DEF e
    <3>. QED
      BY <1>5, <3>2, <3>3
  <2>4. DOMAIN ends = 1 .. 2 * nc /\ ends = [i \in 1 .. 2 * nc |-> ends[i]] /\ 2 * nc \in Nat
    <3>1. 2 * nc \in Nat
      BY <1>10
    <3>2. DOMAIN ends = 1 .. 2 * nc /\ ends = [i \in 1 .. 2 * nc |-> ends[i]]
      OBVIOUS
    <3>. QED
      BY <3>1, <3>2, Zenon
  <2>. HIDE DEF ends, attached
  <2>5. ends \in [1 .. 2 * nc -> Vertex]
    BY <2>3, <2>4
  <2>6. ends \in Seq(Vertex)
    BY <2>4, <2>5, SeqDef
  <2>7. <<R.orig>> \o attached \o ends \in Seq(Vertex)
    BY <1>3, <2>2, <2>6
  <2>. QED
    BY <2>7, DistinctFacts
<1>. HIDE DEF names
<1>12. \A i \in DOMAIN names : i \in 1 .. Len(names) /\ names[i] \in Vertex
  BY <1>11
<1>12a. \A i \in DOMAIN names :
          /\ item(i) \in BuilderVertex
          /\ item(i).kind = "OCC_CENTER" => item(i).occ = o /\ item(i).orig = R.orig
  BY <1>3, <1>12 DEF BuilderVertex
<1>12b. \A i \in DOMAIN names : item(i).kind = "REAL" => item(i).orig = names[i]
  OBVIOUS
<1>. HIDE DEF item
<1>12c. RealUnique(B)
  <2>1. DOMAIN B.V = DOMAIN names /\ \A i \in DOMAIN names : B.V[i] = item(i)
    BY <1>1
  <2>. QED
    BY <1>11, <1>12b, <2>1 DEF RealUnique, IsReal, IsInjective
<1>13. \A i \in CentersOf(B) : B.V[i].occ = o /\ B.V[i].orig = R.orig
  <2>1. DOMAIN B.V = DOMAIN names /\ \A i \in DOMAIN names : B.V[i] = item(i)
    BY <1>1
  <2>. QED
    BY <1>12a, <2>1 DEF CentersOf
<1>14. OccsOf(B) = {o}
  <2>1. DOMAIN B.nbr = {o}
    BY <1>1
  <2>. QED
    BY <1>2, <1>13, <2>1 DEF OccsOf, ValidBuilder
<1>15. B.V \in Seq(BuilderVertex)
  <2>1. DOMAIN names = 1 .. Len(names) /\ Len(names) \in Nat
    BY <1>11
  <2>2. B.V \in [1 .. Len(names) -> BuilderVertex]
    BY <1>1, <1>12a, <2>1
  <2>. QED
    BY <2>1, <2>2, SeqDef
<1>16. /\ Len(portE) = np /\ Len(coreE) = nc
       /\ portE \in Seq(ToSet(portE)) /\ coreE \in Seq(ToSet(coreE))
  <2>1. DOMAIN portE = 1 .. np /\ DOMAIN coreE = 1 .. nc
    BY <1>8, <1>10
  <2>2. portE = [k \in 1 .. np |-> portE[k]] /\ coreE = [k \in 1 .. nc |-> coreE[k]]
    BY <2>1
  <2>. HIDE DEF portE, coreE
  <2>3. portE \in [1 .. np -> ToSet(portE)] /\ coreE \in [1 .. nc -> ToSet(coreE)]
    BY <2>1, <2>2 DEF ToSet
  <2>4. portE \in Seq(ToSet(portE)) /\ coreE \in Seq(ToSet(coreE))
    BY <1>8, <1>10, <2>3, SeqDef
  <2>. QED
    BY <1>8, <1>10, <2>1, <2>4
<1>17. \A k \in 1 .. np : portE[k].kind # "CORE_REAL"
  BY <1>7, <1>8
<1>. HIDE DEF portE, coreE
<1>18. /\ DOMAIN B.E = 1 .. np + nc /\ Len(B.E) = np + nc
       /\ \A k \in 1 .. np : B.E[k] = portE[k]
  <2>. DEFINE Y == ToSet(portE) \cup ToSet(coreE)
  <2>1. portE \in Seq(Y) /\ coreE \in Seq(Y)
    BY <1>16
  <2>. HIDE DEF Y
  <2>2. /\ DOMAIN (portE \o coreE) = 1 .. Len(portE) + Len(coreE)
        /\ Len(portE \o coreE) = Len(portE) + Len(coreE)
        /\ \A k \in 1 .. Len(portE) : (portE \o coreE)[k] = portE[k]
    BY <2>1, Catenated
  <2>. HIDE DEF np, nc
  <2>. QED
    BY <1>1, <1>16, <2>2
<1>19. ASSUME NEW k \in DOMAIN B.E, B.E[k].kind = "CORE_REAL"
       PROVE  IsReal(B, B.E[k].a) /\ IsReal(B, B.E[k].b)
  <2>1. k \in np + 1 .. np + nc
    BY <1>8, <1>10, <1>17, <1>18, <1>19
  <2>2. o \in DOMAIN B.patch /\ k \in B.patch[o]
    BY <1>1, <2>1
  <2>. QED
    BY <1>2, <2>2 DEF ValidBuilder
<1>20. \A x \in DOMAIN B.nbr : \A n \in B.nbr[x] :
         n \in DOMAIN r.occ /\ n # x /\ r.occ[n].orig = r.occ[x].orig
  BY <1>1, <1>3
<1>21. TypedBuilder(B)
  BY <1>3, <1>8, <1>10, <1>14, <1>15, <1>18 DEF TypedBuilder
<1>22. OccsOf(B) \subseteq DOMAIN r.occ /\ \A i \in CentersOf(B) : B.V[i].orig = r.occ[B.V[i].occ].orig
  BY <1>3, <1>13, <1>14
<1>23. GoodBuilder(r, B)
  BY <1>2, <1>19, <1>20, <1>21, <1>22 DEF GoodBuilder
<1>. QED
  BY <1>12c, <1>14, <1>23 DEF B

\* What an isolation leaves: the occurrence in a new skeleton, the others in theirs.
LeavesIsolated(r, sid, o, n, y) ==
  /\ Skels(y) = Skels(r) \cup {n} /\ n \notin Skels(r)
  /\ \A t \in Skels(r) : t # sid => SameContents(r, y, t)
  /\ UniqueNames(y, n) /\ HostedOf(y, n) = {o}
  /\ UniqueNames(y, sid) /\ HostedOf(y, sid) = HostedOf(r, sid) \ {o}

LEMMA IsolateKeeps ==
  ASSUME NEW r, Sound(r), NEW sid \in Skels(r), NEW o \in HostedOf(r, sid), IsolateReady(r, sid, o)
  PROVE  LET y == IsolateVertex(r, sid, o) IN
         Partial(r, y, Skels(y)) /\ LeavesIsolated(r, sid, o, NextSkel(r), y)
<1>. DEFINE I == IsolatedBuilder(r, sid, o)
            Res == ResidualBuilder(r, sid, o)
            n == NextSkel(r)
            Z == Skels(r) \ {sid}
            x == CommitSkeleton(AllocSkeleton(r), n, I)
            y == CommitSkeleton(x, sid, Res)
<1>1. GoodBuilder(r, I) /\ OccsOf(I) = {o} /\ RealUnique(I)
  BY IsolatedGood
<1>2. ValidBuilder(Res) /\ RealUnique(Res)
  BY DEF IsolateReady
<1>3. GoodBuilder(r, Res) /\ OccsOf(Res) = HostedOf(r, sid) \ {o}
  BY <1>2, ResidualGood
<1>. HIDE DEF I, Res
<1>4. Partial(r, r, Z)
  BY Starting
<1>5. \A t \in Z : HostedOf(r, t) \cap HostedOf(r, sid) = {}
  BY Disjoint
<1>6. \A t \in Z : HostedOf(r, t) \cap OccsOf(I) = {}
  BY <1>1, <1>5
<1>. HIDE DEF Z
<1>7. /\ Partial(r, x, Z \cup {n})
      /\ Skels(x) = Skels(r) \cup {n} /\ n \notin Skels(r)
      /\ HostedOf(x, n) = OccsOf(I)
      /\ \A t \in Z : HostedOf(x, t) = HostedOf(r, t)
      /\ \A t \in Skels(r) : SameContents(r, x, t)
      /\ Shows(x, n, I)
  BY <1>1, <1>4, <1>6, Adding
<1>. HIDE DEF x, n
<1>. DEFINE W == Z \cup {n}
<1>8. \A t \in W : HostedOf(x, t) \cap OccsOf(Res) = {}
  BY <1>1, <1>3, <1>5, <1>7
<1>9. sid \in Skels(x) \ W
  BY <1>7 DEF Z
<1>10. Partial(r, x, W)
  BY <1>7
<1>. HIDE DEF W
<1>11. /\ Partial(r, y, W \cup {sid}) /\ Skels(y) = Skels(x)
       /\ \A t \in Skels(x) : t # sid => SameContents(x, y, t)
       /\ Shows(y, sid, Res)
  BY <1>2, <1>3, <1>8, <1>9, <1>10, Rewriting
<1>. HIDE DEF y
<1>12. W \cup {sid} = Skels(y)
  BY <1>7, <1>11 DEF W, Z
<1>13. \A t \in Skels(r) : t # sid => SameContents(r, y, t)
  BY <1>7, <1>11, SameContentsTrans
<1>14. Shows(y, n, I)
  <2>1. n \in Skels(x) /\ n # sid
    BY <1>7
  <2>. QED
    BY <1>7, <1>11, <2>1, ShowsFrame
<1>15. LeavesIsolated(r, sid, o, n, y)
  BY <1>1, <1>3, <1>7, <1>11, <1>13, <1>14 DEF LeavesIsolated, Shows
<1>. QED
  BY <1>11, <1>12, <1>15 DEF IsolateVertex, y, x, I, Res, n

------------------------------------------------------------------------------
(* The components of a skeleton. *)

\* No edge leads out of S but to a blocked vertex.
Closed(r, sid, blocked, S) ==
  \A e \in EdgesOf(r, sid) : Ends(r, e) \cap S # {} => Ends(r, e) \subseteq S \cup blocked

\* One round of the search.
Grown(r, sid, blocked, S) ==
  S \cup ((UNION {Ends(r, e) : e \in {d \in EdgesOf(r, sid) : Ends(r, d) \cap S # {}}}) \ blocked)

\* The rounds that lead to a component.
Rounds(r, sid, blocked, start, f) ==
  /\ f \in [0 .. Len(Verts(r, sid)) -> SUBSET (VertsOf(r, sid) \ blocked)]
  /\ f[0] = {start}
  /\ \A k \in 1 .. Len(Verts(r, sid)) : f[k] = Grown(r, sid, blocked, f[k - 1])

LEMMA GrownMembers ==
  ASSUME NEW r, NEW sid, NEW blocked, NEW S, NEW w
  PROVE  w \in Grown(r, sid, blocked, S) <=>
           \/ w \in S
           \/ w \notin blocked /\ \E e \in EdgesOf(r, sid) : w \in Ends(r, e) /\ Ends(r, e) \cap S # {}
<1>1. ASSUME w \in Grown(r, sid, blocked, S), w \notin S
      PROVE  w \notin blocked /\ \E e \in EdgesOf(r, sid) : w \in Ends(r, e) /\ Ends(r, e) \cap S # {}
  BY <1>1 DEF Grown
<1>2. ASSUME w \notin blocked, NEW e \in EdgesOf(r, sid), w \in Ends(r, e), Ends(r, e) \cap S # {}
      PROVE  w \in Grown(r, sid, blocked, S)
  BY <1>2 DEF Grown
<1>3. w \in S => w \in Grown(r, sid, blocked, S)
  BY DEF Grown
<1>. QED
  BY <1>1, <1>2, <1>3

LEMMA GrownFacts ==
  ASSUME NEW r, Sound(r), NEW sid \in Skels(r), NEW blocked,
         NEW S, S \subseteq VertsOf(r, sid) \ blocked
  PROVE  /\ Grown(r, sid, blocked, S) \subseteq VertsOf(r, sid) \ blocked
         /\ Closed(r, sid, blocked, S) => Grown(r, sid, blocked, S) = S
         /\ \A U : Closed(r, sid, blocked, U) /\ S \cap U = {}
                   => Grown(r, sid, blocked, S) \cap U = {}
<1>1. \A e \in EdgesOf(r, sid) : Ends(r, e) \subseteq VertsOf(r, sid)
  BY Ending
<1>. DEFINE G == Grown(r, sid, blocked, S)
<1>2. \A w \in G : \/ w \in S
                   \/ /\ w \notin blocked
                      /\ \E e \in EdgesOf(r, sid) : w \in Ends(r, e) /\ Ends(r, e) \cap S # {}
  BY GrownMembers
<1>3. S \subseteq G
  BY GrownMembers
<1>. HIDE DEF G
<1>4. G \subseteq VertsOf(r, sid) \ blocked
  BY <1>1, <1>2
<1>5. ASSUME Closed(r, sid, blocked, S) PROVE G = S
  BY <1>2, <1>3, <1>5 DEF Closed
<1>6. ASSUME NEW U, Closed(r, sid, blocked, U), S \cap U = {}, NEW w \in G, w \in U PROVE FALSE
  <2>1. w \notin S
    BY <1>6
  <2>2. PICK e \in EdgesOf(r, sid) : w \in Ends(r, e) /\ Ends(r, e) \cap S # {}
    BY <1>2, <2>1
  <2>3. PICK v \in Ends(r, e) : v \in S
    BY <2>2
  <2>4. Ends(r, e) \cap U # {}
    BY <1>6, <2>2
  <2>5. Ends(r, e) \subseteq U \cup blocked
    BY <1>6, <2>4 DEF Closed
  <2>6. v \in U
    BY <2>3, <2>5
  <2>. QED
    BY <1>6, <2>3, <2>6
<1>. QED
  BY <1>4, <1>5, <1>6 DEF G

LEMMA ComponentRounds ==
  ASSUME NEW r, Sound(r), NEW sid \in Skels(r), NEW blocked, NEW start \in VertsOf(r, sid) \ blocked
  PROVE  \E f : /\ Rounds(r, sid, blocked, start, f)
                /\ Component(r, sid, blocked, start) = f[Len(Verts(r, sid))]
<1>. DEFINE n == Len(Verts(r, sid))
            D == SUBSET (VertsOf(r, sid) \ blocked)
            reached[k \in 0 .. n] == IF k = 0 THEN {start} ELSE Grown(r, sid, blocked, reached[k - 1])
            Is(f) == f = [k \in 0 .. n |->
                            IF k = 0 THEN {start} ELSE Grown(r, sid, blocked, f[k - 1])]
            step == [p \in D \X (1 .. n) |-> Grown(r, sid, blocked, p[1])]
            base == {start}
<1>1. Component(r, sid, blocked, start) = reached[n]
  BY DEF Component, Grown
<1>2. reached = CHOOSE f : Is(f)
  OBVIOUS
<1>. HIDE DEF reached
<1>3. n \in Nat
  BY Listed
<1>4. \A S \in D : Grown(r, sid, blocked, S) \in D
  BY GrownFacts
<1>5. base \in D
  OBVIOUS
<1>. HIDE DEF D, n, base
<1>6. step \in [D \X (1 .. n) -> D]
  BY <1>4
<1>7. \A S \in D, i \in 1 .. n : step[<<S, i>>] = Grown(r, sid, blocked, S)
  OBVIOUS
<1>. HIDE DEF step
<1>8. PICK f : Iterates(f, D, base, n, step)
  BY <1>3, <1>5, <1>6, Iterated
<1>9. /\ f \in [0 .. n -> D] /\ f[0] = base
      /\ \A i \in 1 .. n : f[i] = step[<<f[i - 1], i>>]
  BY <1>8 DEF Iterates
<1>10. ASSUME NEW k \in 0 .. n
       PROVE  f[k] = IF k = 0 THEN {start} ELSE Grown(r, sid, blocked, f[k - 1])
  <2>1. CASE k = 0
    BY <1>9, <2>1 DEF base
  <2>2. CASE k # 0
    <3>1. k \in 1 .. n /\ k - 1 \in 0 .. n
      BY <1>3, <2>2
    <3>2. f[k] = step[<<f[k - 1], k>>] /\ f[k - 1] \in D
      BY <1>9, <3>1
    <3>. QED
      BY <1>7, <2>2, <3>1, <3>2
  <2>. QED
    BY <2>1, <2>2
<1>11. Is(f)
  BY <1>9, <1>10
<1>. HIDE DEF Is
<1>12. Is(reached)
  BY <1>2, <1>11
<1>. USE DEF Is
<1>13. /\ 0 \in 0 .. n /\ reached[0] = base
       /\ \A k \in 1 .. n : reached[k] = Grown(r, sid, blocked, reached[k - 1])
  <2>1. 0 \in 0 .. n /\ reached[0] = base
    BY <1>3, <1>12 DEF base
  <2>2. ASSUME NEW k \in 1 .. n PROVE reached[k] = Grown(r, sid, blocked, reached[k - 1])
    <3>1. k \in 0 .. n /\ k # 0
      BY <1>3
    <3>. QED
      BY <1>12, <3>1
  <2>. QED
    BY <2>1, <2>2
<1>. DEFINE Good == {k \in 0 .. n : reached[k] \in D}
<1>14. 0 \in Good
  BY <1>5, <1>13
<1>15. ASSUME NEW k \in 1 .. n, k - 1 \in Good PROVE k \in Good
  BY <1>3, <1>4, <1>13, <1>15
<1>. HIDE DEF Good
<1>16. \A k \in 0 .. n : k \in Good
  BY <1>3, <1>14, <1>15, Upwards
<1>17. reached \in [0 .. n -> D]
  BY <1>12, <1>16 DEF Good
<1>18. Rounds(r, sid, blocked, start, reached)
  BY <1>13, <1>17 DEF Rounds, n, D, base
<1>. QED
  BY <1>1, <1>18 DEF n

\* As many vertices as the list has places at the most.
LEMMA FewVertices ==
  ASSUME NEW X, NEW s \in Seq(X)
  PROVE  IsFiniteSet(ToSet(s)) /\ Cardinality(ToSet(s)) <= Len(s)
<1>. DEFINE n == Len(s)
            I == 1 .. n
            T == ToSet(s)
<1>1. n \in Nat /\ DOMAIN s = I /\ s = [i \in I |-> s[i]]
  OBVIOUS
<1>2. s \in [I -> T] /\ \A t \in T : \E i \in I : s[i] = t
  BY <1>1 DEF ToSet
<1>3. s \in Surjection(I, T)
  BY <1>2 DEF Surjection
<1>4. IsFiniteSet(I) /\ Cardinality(I) = n
  <2>. DEFINE one == 1
  <2>1. one \in Int /\ n \in Int
    BY <1>1
  <2>2. IsFiniteSet(one .. n) /\ Cardinality(one .. n) = IF one > n THEN 0 ELSE n - one + 1
    <3>. HIDE DEF one, n
    <3>. QED
      BY <2>1, FS_Interval
  <2>. QED
    BY <1>1, <2>2
<1>. HIDE DEF I, T
<1>5. IsFiniteSet(T) /\ Cardinality(T) <= Cardinality(I)
  BY <1>3, <1>4, FS_Surjection
<1>. QED
  BY <1>4, <1>5 DEF T

\* A component is closed: each round before the last either adds a vertex or has
\* nothing left to add, and there are as many rounds as vertices.
LEMMA ComponentFacts ==
  ASSUME NEW r, Sound(r), NEW sid \in Skels(r), NEW blocked, NEW start \in VertsOf(r, sid) \ blocked
  PROVE  LET C == Component(r, sid, blocked, start) IN
         /\ C \subseteq VertsOf(r, sid) \ blocked
         /\ Closed(r, sid, blocked, C)
         /\ \A U : Closed(r, sid, blocked, U) /\ start \notin U => C \cap U = {}
         /\ start \in C
<1>. DEFINE n == Len(Verts(r, sid))
            D == SUBSET (VertsOf(r, sid) \ blocked)
            C == Component(r, sid, blocked, start)
<1>1. PICK f : Rounds(r, sid, blocked, start, f) /\ C = f[n]
  BY ComponentRounds
<1>. HIDE DEF C
<1>2. /\ f \in [0 .. n -> D] /\ f[0] = {start}
      /\ \A k \in 1 .. n : f[k] = Grown(r, sid, blocked, f[k - 1])
  BY <1>1 DEF Rounds
<1>3. n \in Nat /\ IsFiniteSet(VertsOf(r, sid)) /\ Cardinality(VertsOf(r, sid)) <= n
  <2>1. Verts(r, sid) \in Seq(VertsOf(r, sid)) /\ ToSet(Verts(r, sid)) = VertsOf(r, sid)
    BY Listed DEF Verts, VertsOf
  <2>2. IsFiniteSet(ToSet(Verts(r, sid))) /\ Cardinality(ToSet(Verts(r, sid))) <= n
    BY <2>1, FewVertices
  <2>. QED
    BY <2>1, <2>2
<1>. HIDE DEF n
<1>4. \A k \in 0 .. n : IsFiniteSet(f[k]) /\ Cardinality(f[k]) \in Nat
  <2>1. ASSUME NEW k \in 0 .. n PROVE IsFiniteSet(f[k]) /\ Cardinality(f[k]) \in Nat
    <3>1. f[k] \in SUBSET VertsOf(r, sid)
      BY <1>2
    <3>2. IsFiniteSet(f[k])
      BY <1>3, <3>1, FS_Subset
    <3>. QED
      BY <3>2, FS_CardinalityType
  <2>. QED
    BY <2>1
<1>. DEFINE Good == {k \in 0 .. n : Closed(r, sid, blocked, f[k]) \/ Cardinality(f[k]) >= k + 1}
<1>5. 0 \in Good
  <2>1. Cardinality(f[0]) = 1
    BY <1>2, FS_Singleton
  <2>. QED
    BY <1>3, <2>1
<1>6. ASSUME NEW k \in 1 .. n, k - 1 \in Good PROVE k \in Good
  <2>. DEFINE S == f[k - 1]
  <2>1. k - 1 \in 0 .. n /\ k \in 0 .. n /\ S \subseteq VertsOf(r, sid) \ blocked
    BY <1>2, <1>3
  <2>2. f[k] = Grown(r, sid, blocked, S)
    BY <1>2
  <2>3. CASE Closed(r, sid, blocked, S)
    <3>1. f[k] = S
      BY <2>1, <2>2, <2>3, GrownFacts
    <3>. QED
      BY <2>1, <2>3, <3>1
  <2>4. CASE ~Closed(r, sid, blocked, S)
    <3>1. PICK e \in EdgesOf(r, sid) : Ends(r, e) \cap S # {} /\ ~(Ends(r, e) \subseteq S \cup blocked)
      BY <2>4 DEF Closed
    <3>2. PICK v \in Ends(r, e) : v \notin S /\ v \notin blocked
      BY <3>1
    <3>3. S \cup {v} \subseteq f[k]
      BY <2>2, <3>1, <3>2, GrownMembers
    <3>4. IsFiniteSet(S) /\ Cardinality(S) \in Nat /\ IsFiniteSet(f[k]) /\ Cardinality(f[k]) \in Nat
      BY <1>4, <2>1
    <3>5. Cardinality(S) >= k
      BY <1>6, <2>1, <2>4
    <3>. HIDE DEF S
    <3>6. Cardinality(S \cup {v}) = Cardinality(S) + 1
      BY <3>2, <3>4, FS_AddElement
    <3>. DEFINE W == S \cup {v}
    <3>7. W \in SUBSET f[k]
      BY <3>3
    <3>. HIDE DEF W
    <3>8. Cardinality(W) <= Cardinality(f[k])
      BY <3>4, <3>7, FS_Subset
    <3>9. Cardinality(f[k]) >= k + 1
      BY <1>3, <3>4, <3>5, <3>6, <3>8 DEF W
    <3>. QED
      BY <2>1, <3>9
  <2>. QED
    BY <2>3, <2>4
<1>. HIDE DEF Good
<1>7. \A k \in 0 .. n : k \in Good
  BY <1>3, <1>5, <1>6, Upwards
<1>8. n \in 0 .. n
  BY <1>3
<1>9. Closed(r, sid, blocked, f[n])
  <2>1. f[n] \in SUBSET VertsOf(r, sid)
    BY <1>2, <1>8
  <2>2. Cardinality(f[n]) <= Cardinality(VertsOf(r, sid))
    BY <1>3, <2>1, FS_Subset
  <2>3. Cardinality(VertsOf(r, sid)) \in Nat
    BY <1>3, FS_CardinalityType
  <2>4. ~(Cardinality(f[n]) >= n + 1)
    BY <1>3, <1>4, <1>8, <2>2, <2>3
  <2>. QED
    BY <1>7, <1>8, <2>4 DEF Good
<1>10. ASSUME NEW U, Closed(r, sid, blocked, U), start \notin U PROVE f[n] \cap U = {}
  <2>. DEFINE Apart == {k \in 0 .. n : f[k] \cap U = {}}
  <2>1. 0 \in Apart
    BY <1>2, <1>3, <1>10
  <2>2. ASSUME NEW k \in 1 .. n, k - 1 \in Apart PROVE k \in Apart
    <3>. DEFINE S == f[k - 1]
    <3>1. k - 1 \in 0 .. n /\ k \in 0 .. n /\ S \subseteq VertsOf(r, sid) \ blocked
      BY <1>2, <1>3
    <3>2. f[k] = Grown(r, sid, blocked, S) /\ S \cap U = {}
      BY <1>2, <2>2
    <3>. HIDE DEF S
    <3>3. Grown(r, sid, blocked, S) \cap U = {}
      BY <1>10, <3>1, <3>2, GrownFacts
    <3>. QED
      BY <3>1, <3>2, <3>3
  <2>. HIDE DEF Apart
  <2>3. \A k \in 0 .. n : k \in Apart
    BY <1>3, <2>1, <2>2, Upwards
  <2>. QED
    BY <1>8, <2>3 DEF Apart
<1>11. f[n] \in D
  BY <1>2, <1>8
<1>12. start \in f[n]
  <2>. DEFINE Has == {k \in 0 .. n : start \in f[k]}
  <2>1. 0 \in Has
    BY <1>2, <1>3
  <2>2. ASSUME NEW k \in 1 .. n, k - 1 \in Has PROVE k \in Has
    <3>1. k \in 0 .. n /\ f[k] = Grown(r, sid, blocked, f[k - 1])
      BY <1>2, <1>3
    <3>2. start \in f[k - 1]
      BY <2>2
    <3>. QED
      BY <3>1, <3>2, GrownMembers
  <2>. HIDE DEF Has
  <2>3. \A k \in 0 .. n : k \in Has
    BY <1>3, <2>1, <2>2, Upwards
  <2>. QED
    BY <1>8, <2>3 DEF Has
<1>. QED
  BY <1>1, <1>9, <1>10, <1>11, <1>12 DEF C

\* The components that are closed and avoid the blocked vertices, and the lists of
\* such that do not overlap.
Islands(r, sid, blocked) == {S \in SUBSET (VertsOf(r, sid) \ blocked) : Closed(r, sid, blocked, S)}
Apart(cs) == \A i, j \in DOMAIN cs : i # j => cs[i] \cap cs[j] = {}

LEMMA ComponentsFacts ==
  ASSUME NEW r, Sound(r), NEW sid \in Skels(r), NEW blocked
  PROVE  /\ Components(r, sid, blocked) \in Seq(Islands(r, sid, blocked))
         /\ Apart(Components(r, sid, blocked))
         /\ \A v \in VertsOf(r, sid) \ blocked : \E C \in ToSet(Components(r, sid, blocked)) : v \in C
<1>. DEFINE n == Len(Verts(r, sid))
            V(k) == Verts(r, sid)[k]
            Next1(cs, v) == IF v \in blocked \/ \E C \in ToSet(cs) : v \in C THEN cs
                            ELSE Append(cs, Component(r, sid, blocked, v))
            found[k \in 0 .. n] == IF k = 0 THEN <<>> ELSE Next1(found[k - 1], V(k))
            Is(f) == f = [k \in 0 .. n |-> IF k = 0 THEN <<>> ELSE Next1(f[k - 1], V(k))]
            D == {cs \in Seq(Islands(r, sid, blocked)) : Apart(cs)}
            step == [p \in D \X (1 .. n) |-> Next1(p[1], V(p[2]))]
<1>1. Components(r, sid, blocked) = found[n]
  BY DEF Components
<1>2. found = CHOOSE f : Is(f)
  OBVIOUS
<1>. HIDE DEF found
<1>3. n \in Nat /\ \A k \in 1 .. n : V(k) \in VertsOf(r, sid)
  <2>1. Verts(r, sid) \in Seq(VertsOf(r, sid))
    BY Listed
  <2>. QED
    BY <2>1
<1>. HIDE DEF n, V
<1>4. ASSUME NEW cs \in D, NEW v \in VertsOf(r, sid) PROVE Next1(cs, v) \in D
  <2>1. CASE v \in blocked \/ \E C \in ToSet(cs) : v \in C
    BY <2>1
  <2>2. CASE ~(v \in blocked \/ \E C \in ToSet(cs) : v \in C)
    <3>. DEFINE K == Component(r, sid, blocked, v)
                S == Islands(r, sid, blocked)
                ds == Append(cs, K)
    <3>1. v \in VertsOf(r, sid) \ blocked /\ cs \in Seq(S) /\ Apart(cs)
      BY <2>2
    <3>2. /\ K \in S
          /\ \A U : Closed(r, sid, blocked, U) /\ v \notin U => K \cap U = {}
      BY <3>1, ComponentFacts DEF Islands
    <3>3. \A i \in DOMAIN cs : Closed(r, sid, blocked, cs[i]) /\ v \notin cs[i]
      BY <2>2, <3>1 DEF Islands, ToSet
    <3>. HIDE DEF S, K
    <3>4. \A i \in DOMAIN cs : K \cap cs[i] = {}
      BY <3>2, <3>3
    <3>5. /\ ds \in Seq(S) /\ DOMAIN cs = 1 .. Len(cs) /\ DOMAIN ds = 1 .. Len(cs) + 1
          /\ Len(cs) \in Nat /\ ds[Len(cs) + 1] = K
          /\ \A i \in 1 .. Len(cs) : ds[i] = cs[i]
      BY <3>1, <3>2
    <3>. HIDE DEF ds
    <3>6. ASSUME NEW i \in DOMAIN ds, NEW j \in DOMAIN ds, i # j PROVE ds[i] \cap ds[j] = {}
      <4>1. CASE i \in DOMAIN cs /\ j \in DOMAIN cs
        BY <3>1, <3>5, <3>6, <4>1 DEF Apart
      <4>2. CASE i = Len(cs) + 1 /\ j \in DOMAIN cs
        BY <3>4, <3>5, <4>2
      <4>3. CASE j = Len(cs) + 1 /\ i \in DOMAIN cs
        BY <3>4, <3>5, <4>3
      <4>. QED
        BY <3>5, <3>6, <4>1, <4>2, <4>3
    <3>7. Apart(ds)
      BY <3>6 DEF Apart
    <3>8. Next1(cs, v) = ds
      BY <2>2 DEF ds, K
    <3>. QED
      BY <3>5, <3>7, <3>8 DEF S
  <2>. QED
    BY <2>1, <2>2
<1>4a. ASSUME NEW cs \in D, NEW v \in VertsOf(r, sid)
       PROVE  /\ \A C \in ToSet(cs) : C \in ToSet(Next1(cs, v))
              /\ v \in blocked \/ \E C \in ToSet(Next1(cs, v)) : v \in C
  <2>1. CASE v \in blocked \/ \E C \in ToSet(cs) : v \in C
    BY <2>1
  <2>2. CASE ~(v \in blocked \/ \E C \in ToSet(cs) : v \in C)
    <3>. DEFINE K == Component(r, sid, blocked, v)
                S == Islands(r, sid, blocked)
                ds == Append(cs, K)
    <3>1. v \in VertsOf(r, sid) \ blocked /\ cs \in Seq(S)
      BY <2>2
    <3>2. K \in S /\ v \in K
      BY <3>1, ComponentFacts DEF Islands
    <3>3. Next1(cs, v) = ds
      BY <2>2
    <3>. HIDE DEF S, K
    <3>4. ToSet(ds) = ToSet(cs) \cup {K}
      BY <3>1, <3>2, Appended
    <3>. HIDE DEF ds, Next1
    <3>. QED
      BY <3>2, <3>3, <3>4
  <2>. QED
    BY <2>1, <2>2
<1>5. <<>> \in D
  BY DEF Apart
<1>. HIDE DEF D, Next1
<1>6. step \in [D \X (1 .. n) -> D]
  BY <1>3, <1>4
<1>7. \A cs \in D, i \in 1 .. n : step[<<cs, i>>] = Next1(cs, V(i))
  OBVIOUS
<1>. HIDE DEF step
<1>8. PICK f : Iterates(f, D, <<>>, n, step)
  BY <1>3, <1>5, <1>6, Iterated
<1>9. /\ f \in [0 .. n -> D] /\ f[0] = <<>>
      /\ \A i \in 1 .. n : f[i] = step[<<f[i - 1], i>>]
  BY <1>8 DEF Iterates
<1>10. ASSUME NEW k \in 0 .. n PROVE f[k] = IF k = 0 THEN <<>> ELSE Next1(f[k - 1], V(k))
  <2>1. CASE k = 0
    BY <1>9, <2>1
  <2>2. CASE k # 0
    <3>1. k \in 1 .. n /\ k - 1 \in 0 .. n
      BY <1>3, <2>2
    <3>2. f[k] = step[<<f[k - 1], k>>] /\ f[k - 1] \in D
      BY <1>9, <3>1
    <3>. QED
      BY <1>7, <2>2, <3>1, <3>2
  <2>. QED
    BY <2>1, <2>2
<1>11. Is(f)
  BY <1>9, <1>10
<1>. HIDE DEF Is
<1>12. Is(found)
  BY <1>2, <1>11
<1>. USE DEF Is
<1>. DEFINE Held(cs, v) == v \in blocked \/ \E C \in ToSet(cs) : v \in C
            Good == {k \in 0 .. n : found[k] \in D /\ \A i \in 1 .. k : Held(found[k], V(i))}
<1>13. 0 \in Good
  <2>1. 0 \in 0 .. n /\ found[0] = <<>>
    BY <1>3, <1>12
  <2>2. found[0] \in D
    BY <1>5, <2>1
  <2>. HIDE DEF Held
  <2>. QED
    BY <2>1, <2>2
<1>14. ASSUME NEW k \in 1 .. n, k - 1 \in Good PROVE k \in Good
  <2>1. k \in 0 .. n /\ k # 0 /\ found[k - 1] \in D /\ V(k) \in VertsOf(r, sid)
    BY <1>3, <1>14
  <2>2. found[k] = Next1(found[k - 1], V(k))
    BY <1>12, <2>1
  <2>. DEFINE cs == found[k - 1]
  <2>3. /\ \A C \in ToSet(cs) : C \in ToSet(Next1(cs, V(k)))
        /\ V(k) \in blocked \/ \E C \in ToSet(Next1(cs, V(k))) : V(k) \in C
    <3>. HIDE DEF cs
    <3>1. cs \in D
      BY <2>1 DEF cs
    <3>. QED
      BY <1>4a, <2>1, <3>1
  <2>4. found[k] \in D
    BY <1>4, <2>1, <2>2
  <2>5. ASSUME NEW i \in 1 .. k PROVE Held(found[k], V(i))
    <3>1. CASE i = k
      BY <2>2, <2>3, <3>1
    <3>2. CASE i # k
      <4>1. i \in 1 .. k - 1
        BY <3>2
      <4>2. Held(cs, V(i))
        BY <1>14, <4>1
      <4>. QED
        BY <2>2, <2>3, <4>2
    <3>. QED
      BY <3>1, <3>2
  <2>. HIDE DEF Held, cs
  <2>. QED
    BY <2>1, <2>4, <2>5
<1>. HIDE DEF Good
<1>15. \A k \in 0 .. n : k \in Good
  BY <1>3, <1>13, <1>14, Upwards
<1>16. found[n] \in D /\ \A i \in 1 .. n : Held(found[n], V(i))
  BY <1>3, <1>15 DEF Good
<1>17. \A v \in VertsOf(r, sid) \ blocked : \E C \in ToSet(found[n]) : v \in C
  <2>1. \A v \in VertsOf(r, sid) : \E i \in 1 .. n : V(i) = v
    <3>1. Verts(r, sid) \in Seq(VertsOf(r, sid)) /\ VertsOf(r, sid) = ToSet(Verts(r, sid))
      BY Listed DEF VertsOf, Verts
    <3>. QED
      BY <3>1 DEF ToSet, V, n
  <2>. QED
    BY <1>16, <2>1
<1>. QED
  BY <1>1, <1>16, <1>17 DEF D

------------------------------------------------------------------------------
(* split_separation_pair. *)

\* A side of the cut: its edges lead nowhere but to the two vertices cut at.
IsSide(r, sid, sep, side) ==
  /\ side.inner \subseteq VertsOf(r, sid) \ sep
  /\ side.edges \subseteq EdgesOf(r, sid)
  /\ \A e \in side.edges : Ends(r, e) \subseteq side.inner \cup sep

LEMMA SidesFacts ==
  ASSUME NEW r, Sound(r), NEW sid \in Skels(r), NEW a, NEW b,
         NEW sep, sep = {FindReal(r, sid, a), FindReal(r, sid, b)}
  PROVE  LET sides == Sides(r, sid, a, b) IN
         /\ DOMAIN sides = 1 .. Len(sides) /\ Len(sides) \in Nat
         /\ \A i \in DOMAIN sides : IsSide(r, sid, sep, sides[i])
         /\ \A i, j \in DOMAIN sides : i # j => sides[i].inner \cap sides[j].inner = {}
         /\ \A v \in VertsOf(r, sid) \ sep : \E i \in DOMAIN sides : v \in sides[i].inner
         /\ Components(r, sid, sep) # <<>> => sides # <<>>
<1>. DEFINE cs == Components(r, sid, sep)
            nc == Len(cs)
            direct == {e \in EdgesOf(r, sid) : Ends(r, e) = sep}
            side(i) == [inner |-> cs[i],
                        edges |-> {e \in EdgesOf(r, sid) : Ends(r, e) \cap cs[i] # {}}]
            s1 == [i \in DOMAIN cs |-> side(i)]
            rest == [inner |-> {}, edges |-> direct]
            s2 == IF direct = {} THEN <<>> ELSE <<rest>>
            sides == Sides(r, sid, a, b)
<1>1. sides = s1 \o s2
  BY DEF Sides
<1>. HIDE DEF sides
<1>2. cs \in Seq(Islands(r, sid, sep)) /\ Apart(cs)
  BY ComponentsFacts
<1>2a. \A v \in VertsOf(r, sid) \ sep : \E i \in DOMAIN cs : v \in cs[i]
  BY ComponentsFacts DEF ToSet
<1>. HIDE DEF cs
<1>3. /\ nc \in Nat /\ DOMAIN cs = 1 .. nc
      /\ \A i \in 1 .. nc : /\ cs[i] \subseteq VertsOf(r, sid) \ sep
                            /\ Closed(r, sid, sep, cs[i])
      /\ \A i, j \in 1 .. nc : i # j => cs[i] \cap cs[j] = {}
  <2>1. nc \in Nat /\ DOMAIN cs = 1 .. nc /\ \A i \in 1 .. nc : cs[i] \in Islands(r, sid, sep)
    BY <1>2
  <2>. QED
    BY <1>2, <2>1 DEF Islands, Apart
<1>. HIDE DEF nc
<1>4. \A i \in 1 .. nc : IsSide(r, sid, sep, side(i))
  BY <1>3 DEF IsSide, Closed
<1>5. IsSide(r, sid, sep, rest)
  BY DEF IsSide
<1>6. \A i \in 1 .. nc : side(i).inner = cs[i]
  OBVIOUS
<1>7. rest.inner = {}
  OBVIOUS
<1>. DEFINE Y == {side(i) : i \in 1 .. nc} \cup {rest}
<1>. HIDE DEF side, rest
<1>8. s1 \in [1 .. nc -> Y]
  BY <1>3
<1>9. s1 \in Seq(Y) /\ Len(s1) = nc /\ \A i \in 1 .. nc : s1[i] = side(i)
  <2>1. s1 \in Seq(Y)
    BY <1>3, <1>8, SeqDef
  <2>2. DOMAIN s1 = 1 .. nc /\ \A i \in 1 .. nc : s1[i] = side(i)
    BY <1>3
  <2>. QED
    BY <1>3, <2>1, <2>2
<1>10. /\ s2 \in Seq(Y) /\ Len(s2) \in {0, 1}
       /\ Len(s2) = 1 => s2[1] = rest
  <2>1. CASE direct = {}
    <3>1. s2 = <<>>
      BY <2>1
    <3>. HIDE DEF s2
    <3>. QED
      BY <3>1
  <2>2. CASE direct # {}
    <3>1. s2 = <<rest>> /\ rest \in Y
      BY <2>2
    <3>. HIDE DEF s2, Y
    <3>. QED
      BY <3>1
  <2>. QED
    BY <2>1, <2>2
<1>. HIDE DEF s1, s2, Y, direct
<1>11. /\ Len(sides) = nc + Len(s2) /\ DOMAIN sides = 1 .. Len(sides) /\ Len(sides) \in Nat
       /\ \A i \in 1 .. nc : sides[i] = side(i)
       /\ \A i \in DOMAIN sides : i \notin 1 .. nc => i = nc + 1 /\ sides[i] = rest
  BY <1>1, <1>3, <1>9, <1>10
<1>12. \A i \in DOMAIN sides : IsSide(r, sid, sep, sides[i])
  BY <1>4, <1>5, <1>11
<1>13. ASSUME NEW i \in DOMAIN sides, NEW j \in DOMAIN sides, i # j
       PROVE  sides[i].inner \cap sides[j].inner = {}
  <2>1. CASE i \in 1 .. nc /\ j \in 1 .. nc
    BY <1>3, <1>6, <1>11, <1>13, <2>1
  <2>2. CASE i \notin 1 .. nc \/ j \notin 1 .. nc
    BY <1>7, <1>11, <2>2
  <2>. QED
    BY <2>1, <2>2
<1>14. \A v \in VertsOf(r, sid) \ sep : \E i \in DOMAIN sides : v \in sides[i].inner
  <2>1. \A i \in 1 .. nc : i \in DOMAIN sides /\ sides[i].inner = cs[i]
    BY <1>3, <1>6, <1>10, <1>11
  <2>. QED
    BY <1>2a, <1>3, <2>1
<1>15. cs # <<>> => sides # <<>>
  <2>1. ASSUME cs # <<>> PROVE nc # 0
    BY <1>2, <2>1 DEF nc
  <2>2. ASSUME nc # 0 PROVE Len(sides) # 0
    BY <1>3, <1>10, <1>11, <2>2
  <2>3. ASSUME Len(sides) # 0 PROVE sides # <<>>
    BY <2>3
  <2>. QED
    BY <2>1, <2>2, <2>3
<1>. QED
  BY <1>11, <1>12, <1>13, <1>14, <1>15 DEF sides, cs

\* The child of a side is a good builder and holds the occurrences of that side.
LEMMA ChildGood ==
  ASSUME NEW r, Sound(r), NEW sid \in Skels(r), NEW a, NEW b,
         HasReal(r, sid, a), HasReal(r, sid, b),
         NEW side, IsSide(r, sid, {FindReal(r, sid, a), FindReal(r, sid, b)}, side),
         ValidBuilder(ChildBuilder(r, sid, a, b, side))
  PROVE  /\ GoodBuilder(r, ChildBuilder(r, sid, a, b, side))
         /\ OccsOf(ChildBuilder(r, sid, a, b, side)) \subseteq OccsIn(r, side.inner)
         /\ OccsIn(r, side.inner) \subseteq HostedOf(r, sid)
<1>. DEFINE A == FindReal(r, sid, a)
            Z == FindReal(r, sid, b)
            inner == {e \in side.edges : Ends(r, e) \subseteq side.inner}
            outer == side.edges \ inner
            v1 == <<A, Z>>
            v2 == Keep(Verts(r, sid), side.inner)
            verts == v1 \o v2
            e1 == Keep(Edges(r, sid), inner)
            e2 == Keep(Edges(r, sid), outer)
            edges == e1 \o e2
            occs == OccsIn(r, side.inner)
            B == CopyBuilder(r, verts, edges, NoGlue, occs)
<1>1. B = ChildBuilder(r, sid, a, b, side)
  BY DEF ChildBuilder
<1>2. /\ A \in VertsOf(r, sid) /\ r.V.val[A].kind = "REAL"
      /\ Z \in VertsOf(r, sid) /\ r.V.val[Z].kind = "REAL"
  BY Found
<1>3. /\ side.inner \subseteq VertsOf(r, sid)
      /\ side.edges \subseteq EdgesOf(r, sid)
      /\ \A e \in side.edges : Ends(r, e) \subseteq side.inner \cup {A, Z}
  BY DEF IsSide
<1>. HIDE DEF A, Z
<1>4. Verts(r, sid) \in Seq(VertsOf(r, sid)) /\ Edges(r, sid) \in Seq(EdgesOf(r, sid))
  BY Listed
<1>5. ToSet(Verts(r, sid)) = VertsOf(r, sid) /\ ToSet(Edges(r, sid)) = EdgesOf(r, sid)
  BY DEF Verts, VertsOf, Edges, EdgesOf
<1>6. v1 \in Seq(VertsOf(r, sid)) /\ ToSet(v1) = {A, Z}
  BY <1>2 DEF ToSet
<1>7. v2 \in Seq(VertsOf(r, sid)) /\ ToSet(v2) = side.inner
  <2>1. v2 \in Seq(VertsOf(r, sid)) /\ ToSet(v2) = ToSet(Verts(r, sid)) \cap side.inner
    BY <1>4, KeepFacts
  <2>. QED
    BY <1>3, <1>5, <2>1
<1>. HIDE DEF v1, v2
<1>8. verts \in Seq(VertsOf(r, sid)) /\ ToSet(verts) = ToSet(v1) \cup ToSet(v2)
  BY <1>6, <1>7, Joined
<1>9. e1 \in Seq(EdgesOf(r, sid)) /\ ToSet(e1) = EdgesOf(r, sid) \cap inner
  <2>. HIDE DEF inner
  <2>. QED
    BY <1>4, <1>5, KeepFacts
<1>10. e2 \in Seq(EdgesOf(r, sid)) /\ ToSet(e2) = EdgesOf(r, sid) \cap outer
  <2>. HIDE DEF outer
  <2>. QED
    BY <1>4, <1>5, KeepFacts
<1>. HIDE DEF e1, e2
<1>11. edges \in Seq(EdgesOf(r, sid)) /\ ToSet(edges) = ToSet(e1) \cup ToSet(e2)
  BY <1>9, <1>10, Joined
<1>. HIDE DEF verts, edges
<1>12. occs \subseteq HostedOf(r, sid)
  <2>. DEFINE C == side.inner
              T == {sid}
  <2>1. C \subseteq UNION {VertsOf(r, s) : s \in T} /\ T \subseteq Skels(r)
    BY <1>3
  <2>2. HostedOf(r, sid) = UNION {HostedOf(r, s) : s \in T}
    OBVIOUS
  <2>. HIDE DEF C, T
  <2>3. OccsIn(r, C) \subseteq UNION {HostedOf(r, s) : s \in T}
    BY <2>1, OccsOfParts
  <2>. QED
    BY <2>2, <2>3 DEF C
<1>13. IsPart(r, {sid}, verts, edges, NoGlue, occs)
  <2>1. /\ UNION {VertsOf(r, s) : s \in {sid}} = VertsOf(r, sid)
        /\ UNION {EdgesOf(r, s) : s \in {sid}} = EdgesOf(r, sid)
        /\ UNION {HostedOf(r, s) : s \in {sid}} = HostedOf(r, sid)
    OBVIOUS
  <2>2. \A e \in ToSet(edges) : e \in side.edges
    BY <1>9, <1>10, <1>11
  <2>3. \A e \in ToSet(edges) : \A v \in Ends(r, e) : v \in ToSet(verts)
    BY <1>3, <1>6, <1>7, <1>8, <2>2
  <2>4. \A e \in ToSet(edges) : \A v \in Ends(r, e) : Glued(NoGlue, v) \in ToSet(verts)
    BY <2>3 DEF Glued, NoGlue
  <2>5. \A v \in DOMAIN NoGlue : r.V.val[NoGlue[v]].kind = "REAL"
    BY DEF NoGlue
  <2>. HIDE DEF occs
  <2>. QED
    BY <1>8, <1>11, <1>12, <2>1, <2>4, <2>5 DEF IsPart
<1>14. GoodBuilder(r, B) /\ OccsOf(B) = OccsIn(r, ToSet(verts))
  BY <1>1, <1>13, CopyGood
<1>. HIDE DEF B
<1>15. OccsIn(r, ToSet(verts)) \subseteq OccsIn(r, side.inner)
  BY <1>2, <1>6, <1>7, <1>8 DEF OccsIn
<1>. QED
  BY <1>1, <1>12, <1>14, <1>15

\* Two disjoint sets of vertices hold the centers of different occurrences.
LEMMA OccsApart ==
  ASSUME NEW r, Sound(r), NEW sid \in Skels(r),
         NEW C, C \subseteq VertsOf(r, sid), NEW D, D \subseteq VertsOf(r, sid), C \cap D = {}
  PROVE  OccsIn(r, C) \cap OccsIn(r, D) = {}
<1>1. ASSUME NEW o \in OccsIn(r, C), o \in OccsIn(r, D) PROVE FALSE
  <2>1. PICK v \in C : r.V.val[v].kind = "OCC_CENTER" /\ o = r.V.val[v].occ
    BY DEF OccsIn
  <2>2. PICK w \in D : r.V.val[w].kind = "OCC_CENTER" /\ o = r.V.val[w].occ
    BY <1>1 DEF OccsIn
  <2>3. Consistent(r, sid) /\ v \in VertsOf(r, sid) /\ w \in VertsOf(r, sid)
    BY Listed
  <2>4. r.occ[r.V.val[v].occ].center = v
    BY <2>1, <2>3, Centered
  <2>4a. r.occ[r.V.val[w].occ].center = w
    BY <2>2, <2>3, Centered
  <2>5. v = w
    BY <2>1, <2>2, <2>4, <2>4a
  <2>. QED
    BY <2>5
<1>. QED
  BY <1>1

\* f[i] is the engine after the first i sides of a split are committed.
SplitChain(f, r, sid, n, Bs) ==
  f = [i \in 1 .. n |->
         IF i = 1 THEN CommitSkeleton(r, sid, Bs[1])
         ELSE CommitSkeleton(AllocSkeleton(f[i - 1]), NextSkel(f[i - 1]), Bs[i])]

\* The stages of a split, one for each side.
LEMMA SplitStages ==
  ASSUME NEW r, NEW sid, NEW n \in Nat, NEW Bs, NEW stage,
         stage = CHOOSE f : SplitChain(f, r, sid, n, Bs)
  PROVE  /\ n >= 1 => stage[1] = CommitSkeleton(r, sid, Bs[1])
         /\ \A i \in 2 .. n :
              stage[i] = CommitSkeleton(AllocSkeleton(stage[i - 1]), NextSkel(stage[i - 1]), Bs[i])
<1>. DEFINE first == CommitSkeleton(r, sid, Bs[1])
            next(x, i) == CommitSkeleton(AllocSkeleton(x), NextSkel(x), Bs[i])
            To(f, k) == f = [i \in 1 .. k |-> IF i = 1 THEN first ELSE next(f[i - 1], i)]
            Good == {k \in 0 .. n : \E f : To(f, k)}
<1>1. stage = CHOOSE f : To(f, n)
  BY DEF SplitChain
<1>. HIDE DEF first, next
<1>2. 0 \in Good
  <2>. DEFINE f == [i \in 1 .. 0 |-> first]
  <2>1. f = [i \in 1 .. 0 |-> IF i = 1 THEN first ELSE next(f[i - 1], i)]
    OBVIOUS
  <2>. HIDE DEF f
  <2>2. To(f, 0)
    BY <2>1
  <2>. HIDE DEF To
  <2>. QED
    BY <2>2
<1>3. ASSUME NEW k \in 1 .. n, k - 1 \in Good PROVE k \in Good
  <2>1. PICK f : To(f, k - 1)
    BY <1>3
  <2>. DEFINE g == [i \in 1 .. k |-> IF i = k THEN IF i = 1 THEN first ELSE next(f[i - 1], i)
                                     ELSE f[i]]
              h == [i \in 1 .. k |-> IF i = 1 THEN first ELSE next(g[i - 1], i)]
  <2>2. \A i \in 1 .. k - 1 : g[i] = f[i]
    OBVIOUS
  <2>3. \A i \in 1 .. k : g[i] = IF i = k THEN IF i = 1 THEN first ELSE next(f[i - 1], i) ELSE f[i]
    OBVIOUS
  <2>4. \A i \in 1 .. k - 1 : f[i] = IF i = 1 THEN first ELSE next(f[i - 1], i)
    BY <2>1
  <2>5. g = [i \in 1 .. k |-> g[i]] /\ h = [i \in 1 .. k |-> h[i]]
    OBVIOUS
  <2>6. \A i \in 1 .. k : h[i] = IF i = 1 THEN first ELSE next(g[i - 1], i)
    OBVIOUS
  <2>. HIDE DEF g, h
  <2>7. ASSUME NEW i \in 1 .. k PROVE g[i] = h[i]
    <3>1. i # 1 => i - 1 \in 1 .. k - 1 /\ g[i - 1] = f[i - 1]
      BY <2>2
    <3>2. CASE i = k
      BY <2>3, <2>6, <3>1, <3>2
    <3>3. CASE i # k
      BY <2>3, <2>4, <2>6, <3>1, <3>3
    <3>. QED
      BY <3>2, <3>3
  <2>8. g = h
    BY <2>5, <2>7
  <2>9. To(g, k)
    BY <2>8 DEF h
  <2>. HIDE DEF To
  <2>. QED
    BY <2>9
<1>. HIDE DEF Good
<1>4. \A k \in 0 .. n : k \in Good
  BY <1>2, <1>3, Upwards
<1>5. n \in Good
  BY <1>4
<1>6. \E f : To(f, n)
  BY <1>5 DEF Good
<1>. HIDE DEF To
<1>7. To(stage, n)
  BY <1>1, <1>6
<1>8. \A i \in 1 .. n : stage[i] = IF i = 1 THEN first ELSE next(stage[i - 1], i)
  BY <1>7 DEF To
<1>9. n >= 1 => stage[1] = first
  BY <1>8
<1>10. \A i \in 2 .. n : stage[i] = next(stage[i - 1], i)
  BY <1>8
<1>. QED
  BY <1>9, <1>10 DEF first, next

\* A skeleton without an edge or a vertex but the two it is cut at is emptied.
LEMMA EmptyingKeeps ==
  ASSUME NEW r, Sound(r), NEW sid \in Skels(r), NEW y,
         y = [RetireContents(r, sid) EXCEPT !.dirtySkel = @ \cup {sid}]
  PROVE  Partial(r, y, Skels(y))
<1>. DEFINE x == RetireContents(r, sid)
<1>1. Kept(r) /\ IsEngine(r) /\ Owned(r)
  BY SoundIsKept DEF Sound
<1>2. IsEngine(x) /\ Owned(x) /\ Skels(x) = Skels(r) /\ x.skel.val[sid] = EmptySkeleton
  BY <1>1, RetireContentsSound
<1>3. \A t \in Skels(r) : t # sid => SameContents(r, x, t)
  BY <1>1, RetireContentsFrame
<1>4. /\ x = [V |-> x.V, E |-> x.E, skel |-> x.skel,
              occ |-> r.occ, dirtySkel |-> r.dirtySkel, dirtyOcc |-> r.dirtyOcc]
  BY DEF RetireContents, Stores
<1>. HIDE DEF x
<1>5. /\ y.V = x.V /\ y.E = x.E /\ y.skel = x.skel /\ y.occ = r.occ
      /\ y.dirtySkel = r.dirtySkel \cup {sid} /\ y.dirtyOcc = r.dirtyOcc
      /\ IsRecordOfEngine(y)
  BY <1>4 DEF x, IsRecordOfEngine
<1>6. IsEngine(y) /\ Owned(y) /\ Skels(y) = Skels(r)
  BY <1>2, <1>4, <1>5 DEF IsEngine, Owned, Skels
<1>7. Kept(y) /\ SameOccs(r, y)
  BY <1>1, <1>5, <1>6 DEF Kept, SameOccs
<1>8. \A t \in Skels(r) : t # sid => SameContents(r, y, t)
  BY <1>3, <1>5 DEF SameContents
<1>9. ASSUME NEW t \in Skels(r) PROVE Consistent(y, t)
  <2>1. CASE t = sid
    <3>1. y.skel.val[t] = EmptySkeleton
      BY <1>2, <1>5, <2>1
    <3>2. IsGraph(y, t) /\ HostedOf(y, t) = {}
      BY <3>1, EmptyIsGraph
    <3>3. VertsOf(y, t) = {}
      BY <3>1 DEF VertsOf, EmptySkeleton, ToSet
    <3>. QED
      BY <3>2, <3>3 DEF Consistent, Validated
  <2>2. CASE t # sid
    <3>1. Consistent(r, t) /\ SameContents(r, y, t)
      BY <1>8, <2>2, Listed
    <3>. QED
      BY <1>1, <1>5, <1>7, <3>1, ConsistentFrame
  <2>. QED
    BY <2>1, <2>2
<1>. QED
  BY <1>5, <1>6, <1>7, <1>8, <1>9 DEF Partial

\* The identifiers a split gives to its children, which the pool hands out one by
\* one while the children are committed.
Nth(p, i) == IF i <= Len(p.free) THEN p.free[i] ELSE p.size + i - Len(p.free) - 1
Kid(r, sid, i) == IF i = 1 THEN sid ELSE Nth(r.skel, i - 1)

LEMMA NewIdsAreNth ==
  ASSUME NEW p, NEW n \in Nat
  PROVE  DOMAIN NewIds(p, n) = 1 .. n /\ \A i \in 1 .. n : NewIds(p, n)[i] = Nth(p, i)
  BY DEF NewIds, Nth

LEMMA NextIsNth ==
  ASSUME NEW x
  PROVE  NextSkel(x) = Nth(x.skel, 1)
<1>. DEFINE n == 1
<1>1. n \in Nat /\ 1 \in 1 .. n /\ NextSkel(x) = NewIds(x.skel, n)[1]
  BY DEF NextSkel
<1>. HIDE DEF n
<1>. QED
  BY <1>1, NewIdsAreNth

LEMMA NthRewritten ==
  ASSUME NEW x, NEW sid, NEW B, NEW i
  PROVE  Nth(CommitSkeleton(x, sid, B).skel, i) = Nth(x.skel, i)
<1>. DEFINE y == CommitSkeleton(x, sid, B)
<1>1. y.skel.free = x.skel.free /\ y.skel.size = x.skel.size
  BY DEF CommitSkeleton, RetireContents, Stores, Put
<1>. HIDE DEF y
<1>2. Nth(y.skel, i) = Nth(x.skel, i)
  BY <1>1 DEF Nth
<1>. QED
  BY <1>2 DEF y

LEMMA NthAdded ==
  ASSUME NEW x, IsPool(x.skel), NEW B, NEW i \in Nat \ {0}
  PROVE  Nth(CommitSkeleton(AllocSkeleton(x), NextSkel(x), B).skel, i) = Nth(x.skel, i + 1)
<1>. DEFINE p == x.skel
            q == AllocSkeleton(x).skel
            k == Len(p.free)
            n == 1
<1>1. q = AllocAll(p, <<EmptySkeleton>>) /\ Len(<<EmptySkeleton>>) = n
  BY DEF AllocSkeleton, Stores
<1>2. q.free = SubSeq(p.free, n + 1, k) /\ q.size = IF n <= k THEN p.size ELSE p.size + n - k
  BY <1>1 DEF AllocAll
<1>3. p.free \in Seq(Nat) /\ k \in Nat /\ p.size \in Nat
  BY DEF IsPool
<1>4. /\ Len(q.free) = IF n <= k THEN k - 1 ELSE 0
      /\ \A j \in 1 .. k - 1 : q.free[j] = p.free[j + 1]
  BY <1>2, <1>3
<1>. HIDE DEF p, q
<1>5. Nth(q, i) = Nth(p, i + 1)
  <2>1. CASE i + 1 <= k
    <3>1. i <= Len(q.free) /\ i \in 1 .. k - 1
      BY <1>3, <1>4, <2>1
    <3>2. Nth(q, i) = q.free[i] /\ Nth(p, i + 1) = p.free[i + 1]
      BY <2>1, <3>1 DEF Nth
    <3>. QED
      BY <1>4, <3>1, <3>2
  <2>2. CASE ~(i + 1 <= k)
    <3>1. ~(i <= Len(q.free))
      BY <1>3, <1>4, <2>2
    <3>2. Nth(q, i) = q.size + i - Len(q.free) - 1 /\ Nth(p, i + 1) = p.size + (i + 1) - k - 1
      BY <2>2, <3>1 DEF Nth
    <3>. DEFINE u == p.size
    <3>3. u \in Nat /\ q.size = (IF 1 <= k THEN u ELSE u + 1 - k)
          /\ Len(q.free) = IF 1 <= k THEN k - 1 ELSE 0
      BY <1>2, <1>3, <1>4
    <3>. HIDE DEF k, u
    <3>4. q.size + i - Len(q.free) - 1 = u + (i + 1) - k - 1
      <4>1. k \in Nat /\ i \in Nat
        BY <1>3 DEF k
      <4>2. CASE 1 <= k
        <5>1. q.size = u /\ Len(q.free) = k - 1
          BY <3>3, <4>2
        <5>2. u + i - (k - 1) - 1 = u + (i + 1) - k - 1
          BY <3>3, <4>1
        <5>. QED
          BY <5>1, <5>2
      <4>3. CASE ~(1 <= k)
        <5>1. q.size = u + 1 - k /\ Len(q.free) = 0
          BY <3>3, <4>3
        <5>2. (u + 1 - k) + i - 0 - 1 = u + (i + 1) - k - 1
          BY <3>3, <4>1
        <5>. QED
          BY <5>1, <5>2
      <4>. QED
        BY <4>2, <4>3
    <3>. QED
      BY <3>2, <3>4 DEF k, u
  <2>. QED
    BY <2>1, <2>2
<1>. QED
  BY <1>5, NthRewritten DEF p, q

\* What a split leaves: the first side in its own skeleton, the others in new ones,
\* each as its builder says.
LeavesSides(r, sid, a, b, y) ==
  LET sides == Sides(r, sid, a, b) IN
  /\ Skels(y) = Skels(r) \cup {Kid(r, sid, i) : i \in 1 .. Len(sides)}
  /\ \A t \in Skels(r) : t # sid => SameContents(r, y, t)
  /\ \A i \in 1 .. Len(sides) : Shows(y, Kid(r, sid, i), ChildBuilder(r, sid, a, b, sides[i]))

LEMMA SplitKeeps ==
  ASSUME NEW r, Sound(r), NEW sid \in Skels(r), NEW a, NEW b, SplitReady(r, sid, a, b)
  PROVE  LET y == SplitPair(r, sid, a, b) IN
         /\ Partial(r, y, Skels(y))
         /\ Sides(r, sid, a, b) # <<>> => LeavesSides(r, sid, a, b, y)
<1>. DEFINE sides == Sides(r, sid, a, b)
            n == Len(sides)
            sep == {FindReal(r, sid, a), FindReal(r, sid, b)}
            B(i) == ChildBuilder(r, sid, a, b, sides[i])
            Bs == [i \in 1 .. n |-> B(i)]
            y == SplitPair(r, sid, a, b)
            stage[i \in DOMAIN sides] ==
              IF i = 1 THEN CommitSkeleton(r, sid, B(1))
              ELSE LET x == stage[i - 1] IN CommitSkeleton(AllocSkeleton(x), NextSkel(x), B(i))
<1>1. y = IF sides = <<>>
          THEN [RetireContents(r, sid) EXCEPT !.dirtySkel = @ \cup {sid}]
          ELSE stage[n]
  BY DEF SplitPair
<1>2. /\ HasReal(r, sid, a) /\ HasReal(r, sid, b)
      /\ \A i \in DOMAIN sides : ValidBuilder(B(i)) /\ RealUnique(B(i))
  <2>1. \A side \in ToSet(sides) : /\ ValidBuilder(ChildBuilder(r, sid, a, b, side))
                                   /\ RealUnique(ChildBuilder(r, sid, a, b, side))
    BY DEF SplitReady
  <2>2. \A i \in DOMAIN sides : sides[i] \in ToSet(sides)
    BY DEF ToSet
  <2>3. HasReal(r, sid, a) /\ HasReal(r, sid, b)
    BY DEF SplitReady
  <2>. QED
    BY <2>1, <2>2, <2>3
<1>3. /\ DOMAIN sides = 1 .. n /\ n \in Nat
      /\ \A i \in 1 .. n : IsSide(r, sid, sep, sides[i])
      /\ \A i, j \in 1 .. n : i # j => sides[i].inner \cap sides[j].inner = {}
  <2>1. /\ DOMAIN sides = 1 .. n /\ n \in Nat
        /\ \A i \in DOMAIN sides : IsSide(r, sid, sep, sides[i])
        /\ \A i, j \in DOMAIN sides : i # j => sides[i].inner \cap sides[j].inner = {}
    BY SidesFacts
  <2>. HIDE DEF sides, n, sep
  <2>. QED
    BY <2>1
<1>4. sides = <<>> \/ n >= 1
  <2>. HIDE DEF sides
  <2>1. ASSUME n = 0 PROVE sides = <<>>
    BY <1>3, <2>1
  <2>. QED
    BY <1>3, <2>1
<1>. HIDE DEF y
<1>5. CASE sides = <<>>
  BY <1>1, <1>5, EmptyingKeeps DEF y
<1>6. CASE sides # <<>>
  <2>1. stage = CHOOSE f : SplitChain(f, r, sid, n, Bs)
    <3>1. stage = CHOOSE f : f = [i \in 1 .. n |->
                   IF i = 1 THEN CommitSkeleton(r, sid, B(1))
                   ELSE CommitSkeleton(AllocSkeleton(f[i - 1]), NextSkel(f[i - 1]), B(i))]
      BY <1>3
    <3>2. \A i \in 1 .. n : Bs[i] = B(i)
      OBVIOUS
    <3>. HIDE DEF stage, Bs, B, sides, n
    <3>3. \A f : [i \in 1 .. n |->
                   IF i = 1 THEN CommitSkeleton(r, sid, B(1))
                   ELSE CommitSkeleton(AllocSkeleton(f[i - 1]), NextSkel(f[i - 1]), B(i))]
               = [i \in 1 .. n |->
                   IF i = 1 THEN CommitSkeleton(r, sid, Bs[1])
                   ELSE CommitSkeleton(AllocSkeleton(f[i - 1]), NextSkel(f[i - 1]), Bs[i])]
      BY <3>2
    <3>. QED
      BY <3>1, <3>3 DEF SplitChain
  <2>. HIDE DEF stage
  <2>2. n >= 1 /\ y = stage[n]
    BY <1>1, <1>4, <1>6
  <2>3. \A i \in 1 .. n : Bs[i] = B(i)
    OBVIOUS
  <2>4. ASSUME NEW i \in 1 .. n
        PROVE  /\ GoodBuilder(r, Bs[i]) /\ RealUnique(Bs[i])
               /\ OccsOf(Bs[i]) \subseteq OccsIn(r, sides[i].inner)
               /\ OccsIn(r, sides[i].inner) \subseteq HostedOf(r, sid)
    <3>. DEFINE side == sides[i]
    <3>1. /\ IsSide(r, sid, sep, side) /\ ValidBuilder(ChildBuilder(r, sid, a, b, side))
          /\ RealUnique(ChildBuilder(r, sid, a, b, side))
      BY <1>2, <1>3
    <3>2. Bs[i] = ChildBuilder(r, sid, a, b, side)
      OBVIOUS
    <3>. HIDE DEF side, Bs
    <3>3. /\ GoodBuilder(r, Bs[i])
          /\ OccsOf(Bs[i]) \subseteq OccsIn(r, side.inner)
          /\ OccsIn(r, side.inner) \subseteq HostedOf(r, sid)
      BY <1>2, <3>1, <3>2, ChildGood
    <3>. QED
      BY <3>1, <3>2, <3>3 DEF side
  <2>5. ASSUME NEW i \in 1 .. n, NEW j \in 1 .. n, i # j
        PROVE  OccsOf(Bs[i]) \cap OccsOf(Bs[j]) = {}
    <3>. DEFINE C == sides[i].inner
                D == sides[j].inner
    <3>1. C \subseteq VertsOf(r, sid) /\ D \subseteq VertsOf(r, sid) /\ C \cap D = {}
      BY <1>3, <2>5 DEF IsSide
    <3>2. OccsOf(Bs[i]) \subseteq OccsIn(r, C) /\ OccsOf(Bs[j]) \subseteq OccsIn(r, D)
      BY <2>4
    <3>. HIDE DEF C, D, Bs
    <3>3. OccsIn(r, C) \cap OccsIn(r, D) = {}
      BY <3>1, OccsApart
    <3>. QED
      BY <3>2, <3>3
  <2>. HIDE DEF Bs, n, sides
  <2>6. /\ stage[1] = CommitSkeleton(r, sid, Bs[1])
        /\ \A i \in 2 .. n :
             stage[i] = CommitSkeleton(AllocSkeleton(stage[i - 1]), NextSkel(stage[i - 1]), Bs[i])
    BY <1>3, <2>1, <2>2, SplitStages
  <2>. DEFINE Shape(x, k) == /\ Skels(x) = Skels(r) \cup {Kid(r, sid, i) : i \in 1 .. k}
                             /\ \A i \in Nat \ {0} : Nth(x.skel, i) = Nth(r.skel, i + k - 1)
                             /\ \A t \in Skels(r) : t # sid => SameContents(r, x, t)
                             /\ \A i \in 1 .. k : Shows(x, Kid(r, sid, i), Bs[i])
              Inv(k) == /\ Partial(r, stage[k], Skels(stage[k]))
                        /\ \A t \in Skels(stage[k]), j \in k + 1 .. n :
                             HostedOf(stage[k], t) \cap OccsOf(Bs[j]) = {}
                        /\ Shape(stage[k], k)
              Good == {k \in 0 .. n : k = 0 \/ Inv(k)}
  <2>7. Inv(1)
    <3>. DEFINE Z == Skels(r) \ {sid}
                x == CommitSkeleton(r, sid, Bs[1])
    <3>1. 1 \in 1 .. n
      BY <1>3, <2>2
    <3>2. GoodBuilder(r, Bs[1]) /\ OccsOf(Bs[1]) \subseteq HostedOf(r, sid)
      BY <2>4, <3>1
    <3>3. Partial(r, r, Z)
      BY Starting
    <3>4. \A t \in Z : HostedOf(r, t) \cap HostedOf(r, sid) = {}
      BY Disjoint
    <3>5. \A t \in Z : HostedOf(r, t) \cap OccsOf(Bs[1]) = {}
      BY <3>2, <3>4
    <3>6. sid \in Skels(r) \ Z
      OBVIOUS
    <3>. HIDE DEF Z
    <3>7. /\ Partial(r, x, Z \cup {sid})
          /\ Skels(x) = Skels(r)
          /\ HostedOf(x, sid) = OccsOf(Bs[1])
          /\ \A t \in Z : HostedOf(x, t) = HostedOf(r, t)
          /\ \A t \in Skels(r) : t # sid => SameContents(r, x, t)
          /\ RealUnique(Bs[1]) => Shows(x, sid, Bs[1])
      BY <3>2, <3>3, <3>5, <3>6, Rewriting
    <3>8. x = stage[1]
      BY <2>6
    <3>8a. \A i : Nth(x.skel, i) = Nth(r.skel, i)
      BY NthRewritten
    <3>. HIDE DEF x
    <3>8b. Shape(x, 1)
      <4>1. Kid(r, sid, 1) = sid /\ 1 .. 1 = {1}
        BY DEF Kid
      <4>2. {Kid(r, sid, i) : i \in 1 .. 1} = {sid}
        BY <4>1
      <4>3. Skels(x) = Skels(r) \cup {Kid(r, sid, i) : i \in 1 .. 1}
        BY <3>7, <4>2
      <4>4. \A i \in Nat \ {0} : Nth(x.skel, i) = Nth(r.skel, i + 1 - 1)
        BY <3>8a
      <4>5. \A i \in 1 .. 1 : Shows(x, Kid(r, sid, i), Bs[i])
        BY <2>4, <3>1, <3>7, <4>1
      <4>. QED
        BY <3>7, <4>3, <4>4, <4>5
    <3>. HIDE DEF Shape
    <3>9. ASSUME NEW t \in Skels(x), NEW j \in 2 .. n PROVE HostedOf(x, t) \cap OccsOf(Bs[j]) = {}
      <4>1. j \in 1 .. n /\ j # 1 /\ OccsOf(Bs[j]) \subseteq HostedOf(r, sid)
        BY <2>4, <1>3
      <4>2. CASE t = sid
        BY <2>5, <3>1, <3>7, <4>1, <4>2
      <4>3. CASE t # sid
        BY <3>4, <3>7, <4>1, <4>3 DEF Z
      <4>. QED
        BY <4>2, <4>3
    <3>10. Z \cup {sid} = Skels(x)
      BY <3>7 DEF Z
    <3>11. 1 + 1 .. n = 2 .. n
      OBVIOUS
    <3>. QED
      BY <3>7, <3>8, <3>8b, <3>9, <3>10, <3>11
  <2>8. ASSUME NEW k \in 2 .. n, Inv(k - 1) PROVE Inv(k)
    <3>. DEFINE x == stage[k - 1]
                Z == Skels(x)
                z == CommitSkeleton(AllocSkeleton(x), NextSkel(x), Bs[k])
    <3>1. /\ k \in 1 .. n /\ k - 1 \in 1 .. n /\ k \in (k - 1) + 1 .. n
          /\ \A j \in k + 1 .. n : j \in 1 .. n /\ j # k /\ j \in (k - 1) + 1 .. n
      BY <1>3
    <3>2. GoodBuilder(r, Bs[k]) /\ RealUnique(Bs[k])
      BY <2>4, <3>1
    <3>2a. Shape(x, k - 1)
      BY <2>8
    <3>. HIDE DEF Shape
    <3>3. /\ Partial(r, x, Z)
          /\ \A t \in Z, j \in (k - 1) + 1 .. n : HostedOf(x, t) \cap OccsOf(Bs[j]) = {}
      BY <2>8
    <3>4. z = stage[k]
      BY <2>6
    <3>. HIDE DEF x, Z, Inv
    <3>5. \A t \in Z : HostedOf(x, t) \cap OccsOf(Bs[k]) = {}
      BY <3>1, <3>3
    <3>6. /\ Partial(r, z, Z \cup {NextSkel(x)})
          /\ Skels(z) = Skels(x) \cup {NextSkel(x)}
          /\ HostedOf(z, NextSkel(x)) = OccsOf(Bs[k])
          /\ \A t \in Z : HostedOf(z, t) = HostedOf(x, t)
          /\ \A t \in Skels(x) : SameContents(x, z, t)
          /\ Shows(z, NextSkel(x), Bs[k])
      <4>. DEFINE Bk == Bs[k]
      <4>1. GoodBuilder(r, Bk) /\ RealUnique(Bk) /\ (\A t \in Z : HostedOf(x, t) \cap OccsOf(Bk) = {}) /\ Partial(r, x, Z)
        BY <3>2, <3>3, <3>5
      <4>2. z = CommitSkeleton(AllocSkeleton(x), NextSkel(x), Bk)
        OBVIOUS
      <4>3. Bk = Bs[k]
        OBVIOUS
      <4>. HIDE DEF Bk, z
      <4>. SUFFICES /\ Partial(r, z, Z \cup {NextSkel(x)})
                    /\ Skels(z) = Skels(x) \cup {NextSkel(x)}
                    /\ HostedOf(z, NextSkel(x)) = OccsOf(Bk)
                    /\ \A t \in Z : HostedOf(z, t) = HostedOf(x, t)
                    /\ \A t \in Skels(x) : SameContents(x, z, t)
                    /\ Shows(z, NextSkel(x), Bk)
        BY <4>3
      <4>. QED
        BY <4>1, <4>2, Adding
    <3>6a. \A i \in Nat \ {0} : Nth(z.skel, i) = Nth(x.skel, i + 1)
      <4>1. IsPool(x.skel)
        BY <3>3 DEF Partial, Kept, IsEngine
      <4>. QED
        BY <4>1, NthAdded
    <3>. HIDE DEF z
    <3>6b. Shape(z, k)
      <4>0. /\ Skels(x) = Skels(r) \cup {Kid(r, sid, i) : i \in 1 .. k - 1}
            /\ \A i \in Nat \ {0} : Nth(x.skel, i) = Nth(r.skel, i + (k - 1) - 1)
            /\ \A t \in Skels(r) : t # sid => SameContents(r, x, t)
            /\ \A i \in 1 .. k - 1 : Shows(x, Kid(r, sid, i), Bs[i])
        BY <3>2a DEF Shape
      <4>1. NextSkel(x) = Kid(r, sid, k)
        <5>1. NextSkel(x) = Nth(x.skel, 1)
          BY NextIsNth
        <5>2. Nth(x.skel, 1) = Nth(r.skel, 1 + (k - 1) - 1)
          BY <4>0
        <5>3. 1 + (k - 1) - 1 = k - 1 /\ k # 1
          OBVIOUS
        <5>. QED
          BY <5>1, <5>2, <5>3 DEF Kid
      <4>2. 1 .. k = (1 .. k - 1) \cup {k}
        OBVIOUS
      <4>3. Skels(z) = Skels(r) \cup {Kid(r, sid, i) : i \in 1 .. k}
        BY <3>6, <4>0, <4>1, <4>2
      <4>4. ASSUME NEW i \in Nat \ {0} PROVE Nth(z.skel, i) = Nth(r.skel, i + k - 1)
        <5>1. i + 1 \in Nat \ {0} /\ (i + 1) + (k - 1) - 1 = i + k - 1
          OBVIOUS
        <5>2. Nth(z.skel, i) = Nth(x.skel, i + 1)
          BY <3>6a
        <5>3. Nth(x.skel, i + 1) = Nth(r.skel, (i + 1) + (k - 1) - 1)
          BY <4>0, <5>1
        <5>. QED
          BY <5>1, <5>2, <5>3
      <4>5. ASSUME NEW t \in Skels(r), t # sid PROVE SameContents(r, z, t)
        <5>1. t \in Skels(x) /\ SameContents(r, x, t)
          BY <4>0, <4>5
        <5>2. SameContents(x, z, t)
          BY <3>6, <5>1
        <5>. QED
          BY <5>1, <5>2, SameContentsTrans
      <4>6. ASSUME NEW i \in 1 .. k PROVE Shows(z, Kid(r, sid, i), Bs[i])
        <5>1. CASE i = k
          BY <3>6, <4>1, <5>1
        <5>2. CASE i # k
          <6>1. i \in 1 .. k - 1
            BY <5>2
          <6>2. Kid(r, sid, i) \in Skels(x) /\ Shows(x, Kid(r, sid, i), Bs[i])
            BY <4>0, <6>1
          <6>3. SameContents(x, z, Kid(r, sid, i))
            BY <3>6, <6>2
          <6>. QED
            BY <6>2, <6>3, ShowsFrame
        <5>. QED
          BY <5>1, <5>2
      <4>. QED
        BY <4>3, <4>4, <4>5, <4>6 DEF Shape
    <3>7. ASSUME NEW t \in Skels(z), NEW j \in k + 1 .. n PROVE HostedOf(z, t) \cap OccsOf(Bs[j]) = {}
      <4>1. CASE t = NextSkel(x)
        BY <2>5, <3>1, <3>6, <4>1
      <4>2. CASE t # NextSkel(x)
        BY <3>1, <3>3, <3>6, <4>2 DEF Z
      <4>. QED
        BY <4>1, <4>2
    <3>8. Z \cup {NextSkel(x)} = Skels(z)
      BY <3>6 DEF Z
    <3>. QED
      BY <3>4, <3>6, <3>6b, <3>7, <3>8 DEF Inv
  <2>. HIDE DEF Inv
  <2>9. 0 \in Good
    BY <1>3
  <2>10. ASSUME NEW k \in 1 .. n, k - 1 \in Good PROVE k \in Good
    <3>1. CASE k = 1
      BY <1>3, <2>7, <3>1
    <3>2. CASE k # 1
      <4>1. k \in 2 .. n /\ k - 1 # 0 /\ k \in 0 .. n
        BY <1>3, <3>2
      <4>2. Inv(k - 1)
        BY <2>10, <4>1
      <4>. QED
        BY <2>8, <4>1, <4>2
    <3>. QED
      BY <3>1, <3>2
  <2>. HIDE DEF Good
  <2>11. \A k \in 0 .. n : k \in Good
    BY <1>3, <2>9, <2>10, Upwards
  <2>12. Inv(n)
    BY <1>3, <2>2, <2>11 DEF Good
  <2>13. Partial(r, y, Skels(y)) /\ Shape(y, n)
    BY <2>2, <2>12 DEF Inv
  <2>14. LeavesSides(r, sid, a, b, y)
    <3>1. \A i \in 1 .. n : Bs[i] = ChildBuilder(r, sid, a, b, sides[i])
      BY <2>3
    <3>. QED
      BY <2>13, <3>1 DEF Shape, LeavesSides, n, sides
  <2>. QED
    BY <2>13, <2>14 DEF y
<1>. QED
  BY <1>5, <1>6
==============================================================================
