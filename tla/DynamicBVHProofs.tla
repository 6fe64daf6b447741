-------------------------- MODULE DynamicBVHProofs --------------------------
(***************************************************************************)
(* The tree over any objects, with what was built before, moved and        *)
(* updated: it covers the objects, findCollisions reports no pair that     *)
(* does not collide and none on one level is left out, and updating both   *)
(* of two objects is enough.                                               *)
(***************************************************************************)
EXTENDS DynamicBVH, FiniteSetTheorems, WellFoundedInduction, TLAPS

-----------------------------------------------------------------------------
(* Induction, and the functions defined by it.                             *)

\* Induction: a set with 0, and with n + 1 for every n in it, has all of Nat.
LEMMA SetInduction ==
  ASSUME NEW S, 0 \in S, \A n \in Nat : n \in S => n + 1 \in S
  PROVE  Nat \subseteq S
<1>. SUFFICES ASSUME Nat \ S # {} PROVE FALSE
  OBVIOUS
<1>. DEFINE R == OpToRel(<, Nat)
<1>1. IsWellFoundedOn(R, Nat)
  BY NatLessThanWellFounded, Zenon
<1>2. \A x, y \in Nat : y < x => <<y, x>> \in R
  BY DEF OpToRel
<1>. HIDE DEF R
<1>3. PICK x \in Nat \ S : \A y \in Nat \ S : ~ (<<y, x>> \in R)
  BY <1>1, WFMin
<1>4. x # 0 /\ x - 1 \in Nat /\ x - 1 < x
  OBVIOUS
<1>5. x - 1 \in S
  BY <1>2, <1>3, <1>4
<1>. QED
  BY <1>4, <1>5

\* f starts from init at a, and takes each further value from an earlier one.
IsRecursive(f, V, init, step, prev, a, b) ==
  /\ f \in [a .. b -> V]
  /\ \A k \in a .. b : f[k] = IF k = a THEN init ELSE step[<<k, f[prev[k]]>>]

\* There is such a function.
LEMMA Recursion ==
  ASSUME NEW V, NEW init \in V, NEW step \in [Nat \X V -> V], NEW prev, NEW a \in Nat,
         \A k \in Nat : k > a => prev[k] \in a .. k - 1, NEW n \in Nat
  PROVE  \E f : IsRecursive(f, V, init, step, prev, a, a + n)
<1>. DEFINE S == {m \in Nat : \E f : IsRecursive(f, V, init, step, prev, a, a + m)}
<1>1. 0 \in S
  <2>. DEFINE f == [k \in a .. a + 0 |-> init]
  <2>1. IsRecursive(f, V, init, step, prev, a, a + 0)
    BY DEF IsRecursive
  <2>. QED
    BY <2>1
<1>2. ASSUME NEW m \in Nat, m \in S PROVE m + 1 \in S
  <2>. DEFINE top == a + (m + 1)
  <2>1. PICK f : IsRecursive(f, V, init, step, prev, a, a + m)
    BY <1>2
  <2>2. top \in Nat /\ top > a /\ prev[top] \in a .. a + m
    <3>1. top \in Nat /\ top > a /\ top - 1 = a + m
      OBVIOUS
    <3>. QED
      BY <3>1
  <2>3. step[<<top, f[prev[top]]>>] \in V
    BY <2>1, <2>2 DEF IsRecursive
  <2>. HIDE DEF top
  <2>. DEFINE g == [k \in a .. a + (m + 1) |->
                      IF k = top THEN step[<<top, f[prev[top]]>>] ELSE f[k]]
  <2>4. \A k \in a .. a + (m + 1) : k # top => k \in a .. a + m
    BY DEF top
  <2>5. g \in [a .. a + (m + 1) -> V]
    BY <2>1, <2>3, <2>4 DEF IsRecursive
  <2>6. ASSUME NEW k \in a .. a + (m + 1)
        PROVE  g[k] = IF k = a THEN init ELSE step[<<k, g[prev[k]]>>]
    <3>1. CASE k = top
      <4>1. prev[top] \in a .. a + (m + 1) /\ prev[top] # top
        BY <2>2 DEF top
      <4>2. g[prev[top]] = f[prev[top]]
        BY <4>1
      <4>3. g[top] = step[<<top, f[prev[top]]>>] /\ top # a
        BY <2>2, <3>1
      <4>. HIDE DEF g
      <4>. QED
        BY <3>1, <4>2, <4>3
    <3>2. CASE k # top
      <4>1. k \in a .. a + m /\ g[k] = f[k]
        BY <2>4, <3>2
      <4>2. k # a => /\ prev[k] \in a .. k - 1
                     /\ prev[k] \in a .. a + (m + 1) /\ prev[k] # top
        BY <4>1 DEF top
      <4>3. k # a => g[prev[k]] = f[prev[k]]
        BY <4>2
      <4>. QED
        BY <2>1, <4>1, <4>3 DEF IsRecursive
    <3>. QED
      BY <3>1, <3>2
  <2>. HIDE DEF g
  <2>7. IsRecursive(g, V, init, step, prev, a, a + (m + 1))
    BY <2>5, <2>6 DEF IsRecursive
  <2>. QED
    BY <2>7
<1>. HIDE DEF S
<1>3. n \in S
  BY <1>1, <1>2, SetInduction
<1>. QED
  BY <1>3 DEF S

-----------------------------------------------------------------------------
(* Levels.                                                                 *)

Halved == [k \in Nat |-> k \div 2]

LEMMA HalvedFacts ==
  /\ \A k \in Nat : k > 1 => Halved[k] \in 1 .. k - 1
  /\ \A k \in Nodes : k # 1 => k \div 2 \in Nodes /\ k \div 2 < k
BY BVHAssumption DEF Halved, Nodes

LEMMA LevelFacts ==
  /\ Level \in [Nodes -> Nat]
  /\ \A k \in Nodes : Level[k] = IF k = 1 THEN 0 ELSE Level[k \div 2] + 1
<1>. DEFINE step == [p \in Nat \X Nat |-> p[2] + 1]
            IsLevel(f) == f = [k \in Nodes |-> IF k = 1 THEN 0 ELSE f[k \div 2] + 1]
<1>1. step \in [Nat \X Nat -> Nat]
  OBVIOUS
<1>2. 4 * MaxObjects \in Nat /\ Nodes = 1 .. 1 + 4 * MaxObjects
  BY BVHAssumption DEF Nodes
<1>3. PICK f : IsRecursive(f, Nat, 0, step, Halved, 1, 1 + 4 * MaxObjects)
  <2>. HIDE DEF step
  <2>. QED
    BY <1>1, <1>2, HalvedFacts, Recursion
<1>4. ASSUME NEW k \in Nodes, k # 1 PROVE f[k] = f[k \div 2] + 1
  <2>0. k \in Nat /\ k \div 2 \in Nodes
    BY <1>4, HalvedFacts DEF Nodes
  <2>1. k \in Nat /\ Halved[k] = k \div 2 /\ f[k \div 2] \in Nat
    BY <1>2, <1>3, <2>0 DEF IsRecursive, Halved
  <2>2. f[k] = step[<<k, f[k \div 2]>>]
    BY <1>2, <1>3, <1>4, <2>1 DEF IsRecursive
  <2>. QED
    BY <2>1, <2>2
<1>5. IsLevel(f)
  BY <1>2, <1>3, <1>4 DEF IsRecursive
<1>6. Level = CHOOSE g : IsLevel(g)
  BY DEF Level
<1>7. IsLevel(Level)
  BY <1>5, <1>6
<1>8. \A k \in Nodes : Level[k] = IF k = 1 THEN 0 ELSE Level[k \div 2] + 1
  BY <1>7
<1>. DEFINE S == {m \in Nat : \A k \in Nodes : k <= m => Level[k] \in Nat}
<1>9. 0 \in S
  BY DEF Nodes
<1>10. ASSUME NEW m \in Nat, m \in S PROVE m + 1 \in S
  <2>1. ASSUME NEW k \in Nodes, k <= m + 1 PROVE Level[k] \in Nat
    <3>1. CASE k = 1
      BY <1>8, <3>1
    <3>2. CASE k # 1
      <4>1. k \div 2 \in Nodes /\ k \div 2 <= m
        BY <2>1, <3>2, HalvedFacts DEF Nodes
      <4>2. Level[k \div 2] \in Nat
        BY <1>10, <4>1
      <4>. QED
        BY <1>8, <3>2, <4>2
    <3>. QED
      BY <3>1, <3>2
  <2>. QED
    BY <2>1
<1>. HIDE DEF S
<1>11. Nat \subseteq S
  BY <1>9, <1>10, SetInduction
<1>12. \A k \in Nodes : Level[k] \in Nat
  BY <1>11 DEF S, Nodes
<1>. QED
  BY <1>7, <1>8, <1>12
-----------------------------------------------------------------------------
(* The stretches of indices the nodes are over.                            *)

Stretches == {<<>>} \cup (Int \X Int)

\* What a node is over, when this is what its parent is over.
Part(above, k) == IF above = <<>> \/ IsOneObject(above) THEN <<>> ELSE Half(above, k)

IsSpans(f, n) == f = [k \in Nodes |-> IF k = 1 THEN <<1, n>> ELSE Part(f[k \div 2], k)]

LEMMA PartIsStretch ==
  ASSUME NEW above \in Stretches, NEW k \in Nat
  PROVE  Part(above, k) \in Stretches
<1>1. CASE above = <<>>
  BY <1>1 DEF Part, Stretches
<1>2. CASE above \in Int \X Int
  <2>1. PICK a \in Int, b \in Int : above = <<a, b>>
    BY <1>2
  <2>2. Half(above, k) \in Int \X Int
    BY <2>1 DEF Half
  <2>. QED
    BY <2>2 DEF Part, Stretches
<1>. QED
  BY <1>1, <1>2 DEF Stretches

LEMMA SpansFacts ==
  ASSUME NEW n \in Nat
  PROVE  /\ Spans(n) = [k \in Nodes |-> Spans(n)[k]]
         /\ Spans(n)[1] = <<1, n>>
         /\ \A k \in Nodes : k # 1 => Spans(n)[k] = Part(Spans(n)[k \div 2], k)
<1>. DEFINE step == [p \in Nat \X Stretches |-> Part(p[2], p[1])]
<1>1. step \in [Nat \X Stretches -> Stretches]
  BY PartIsStretch
<1>2. 4 * MaxObjects \in Nat /\ Nodes = 1 .. 1 + 4 * MaxObjects /\ 1 \in Nodes
  BY BVHAssumption DEF Nodes
<1>3. <<1, n>> \in Stretches
  BY DEF Stretches
<1>4. PICK f : IsRecursive(f, Stretches, <<1, n>>, step, Halved, 1, 1 + 4 * MaxObjects)
  <2>. HIDE DEF step
  <2>. QED
    BY <1>1, <1>2, <1>3, HalvedFacts, Recursion
<1>5. ASSUME NEW k \in Nodes, k # 1 PROVE f[k] = Part(f[k \div 2], k)
  <2>0. k \in Nat /\ k \div 2 \in Nodes
    BY <1>5, HalvedFacts DEF Nodes
  <2>1. Halved[k] = k \div 2 /\ f[k \div 2] \in Stretches
    BY <1>2, <1>4, <2>0 DEF IsRecursive, Halved
  <2>2. f[k] = step[<<k, f[k \div 2]>>]
    BY <1>2, <1>4, <1>5, <2>1 DEF IsRecursive
  <2>. QED
    BY <2>0, <2>1, <2>2
<1>6. IsSpans(f, n)
  BY <1>2, <1>4, <1>5 DEF IsRecursive, IsSpans
<1>7. Spans(n) = CHOOSE g : IsSpans(g, n)
  BY DEF Spans, IsSpans, Part
<1>8. IsSpans(Spans(n), n)
  BY <1>6, <1>7
<1>. QED
  BY <1>2, <1>8 DEF IsSpans

\* A node's number times the width of its stretch has a bound.
LEMMA ProductBound ==
  ASSUME NEW p \in Nat, NEW d \in Nat, NEW q \in Nat, NEW e \in Nat, NEW c \in Nat,
         p * d <= c, q <= 2 * p, 2 * e <= d
  PROVE  q * e <= c
<1>1. q * e <= (2 * p) * e
  BY Z3
<1>2. (2 * p) * e = p * (2 * e)
  BY Z3
<1>3. p * (2 * e) <= p * d
  BY Z3
<1>4. q * e \in Nat /\ (2 * p) * e \in Nat /\ p * (2 * e) \in Nat /\ p * d \in Nat
  OBVIOUS
<1>. QED
  BY <1>1, <1>2, <1>3, <1>4

\* Node k is over the indices from a to b of n, and has a number the nodes allow.
IsOver(span, n, k, a, b) ==
  /\ span[k] = <<a, b>> /\ a \in 1 .. n /\ b \in 1 .. n /\ a <= b
  /\ (k + 1) * (b - a) <= 2 * (n - 1)

\* What is true of the two parts of a stretch of more than one index.
LEMMA Halves ==
  ASSUME NEW n \in Nat, n <= MaxObjects, NEW span,
         \A j \in Nodes : j # 1 => span[j] = Part(span[j \div 2], j),
         NEW k \in Nodes, NEW a, NEW b, IsOver(span, n, k, a, b), a # b
  PROVE  /\ 2 * k \in Nodes /\ 2 * k + 1 \in Nodes
         /\ \E m \in a .. b - 1 :
              IsOver(span, n, 2 * k, a, m) /\ IsOver(span, n, 2 * k + 1, m + 1, b)
<1>. DEFINE half == (b - a + 1) \div 2
            m == a + half - 1
            c == 2 * (n - 1)
<1>0. /\ span[k] = <<a, b>> /\ a \in Nat /\ b \in Nat /\ 1 <= a /\ a < b /\ b <= n
      /\ k \in Nat /\ k >= 1 /\ (k + 1) * (b - a) <= c
  BY DEF IsOver, Nodes
<1>1. c \in Nat /\ k + 1 \in Nat /\ b - a \in Nat /\ b - a >= 1
  BY <1>0
<1>2. /\ half \in Nat /\ half >= 1 /\ 2 * half <= b - a + 1 /\ 2 * half >= b - a
  BY <1>1
<1>. HIDE DEF half
<1>3. /\ m \in Nat /\ a <= m /\ m < b /\ m + 1 <= b
      /\ m - a \in Nat /\ 2 * (m - a) <= b - a
      /\ b - (m + 1) \in Nat /\ 2 * (b - (m + 1)) <= b - a
  BY <1>0, <1>2
<1>4. k + 1 <= c
  <2>1. k + 1 <= (k + 1) * (b - a)
    BY <1>1, Z3
  <2>2. (k + 1) * (b - a) \in Nat
    BY <1>1
  <2>. QED
    BY <1>0, <1>1, <2>1, <2>2
<1>5. 2 * k \in Nodes /\ 2 * k + 1 \in Nodes /\ 2 * k # 1 /\ 2 * k + 1 # 1
  BY <1>0, <1>4, BVHAssumption DEF Nodes
<1>6. (2 * k) \div 2 = k /\ (2 * k + 1) \div 2 = k /\ (2 * k) % 2 = 0 /\ (2 * k + 1) % 2 # 0
  BY <1>0
<1>7. span[2 * k] = Part(<<a, b>>, 2 * k) /\ span[2 * k + 1] = Part(<<a, b>>, 2 * k + 1)
  BY <1>0, <1>5, <1>6
<1>8. ~IsOneObject(<<a, b>>) /\ <<a, b>> # <<>>
  BY DEF IsOneObject
<1>9. span[2 * k] = Half(<<a, b>>, 2 * k) /\ span[2 * k + 1] = Half(<<a, b>>, 2 * k + 1)
  BY <1>7, <1>8 DEF Part
<1>10. span[2 * k] = <<a, m>> /\ span[2 * k + 1] = <<m + 1, b>>
  <2>1. a + half = m + 1 /\ (a + half) - 1 = m
    BY <1>0, <1>2
  <2>2. half = (b - a + 1) \div 2
    BY DEF half
  <2>. QED
    BY <1>6, <1>9, <2>1, <2>2 DEF Half
<1>. HIDE DEF m, c
<1>11. (2 * k + 1) * (m - a) <= c /\ (2 * k + 1 + 1) * (b - (m + 1)) <= c
  <2>1. 2 * k + 1 \in Nat /\ 2 * k + 1 <= 2 * (k + 1)
        /\ 2 * k + 1 + 1 \in Nat /\ 2 * k + 1 + 1 <= 2 * (k + 1)
    BY <1>0
  <2>2. (2 * k + 1) * (m - a) <= c
    BY <1>0, <1>1, <1>3, <2>1, ProductBound
  <2>3. (2 * k + 1 + 1) * (b - (m + 1)) <= c
    BY <1>0, <1>1, <1>3, <2>1, ProductBound
  <2>. QED
    BY <2>2, <2>3
<1>12. IsOver(span, n, 2 * k, a, m) /\ IsOver(span, n, 2 * k + 1, m + 1, b)
  BY <1>0, <1>3, <1>10, <1>11 DEF IsOver, c
<1>13. m \in a .. b - 1
  BY <1>0, <1>3
<1>. QED
  BY <1>5, <1>12, <1>13

\* Every node's stretch is one of the indices, or it is no node.
LEMMA SpanBounds ==
  ASSUME NEW n \in Nat, 1 <= n, n <= MaxObjects
  PROVE  \A k \in Nodes : Spans(n)[k] = <<>> \/ \E a, b : IsOver(Spans(n), n, k, a, b)
<1>. DEFINE span == Spans(n)
            S == {m \in Nat : \A k \in Nodes :
                    k <= m => span[k] = <<>> \/ \E a, b : IsOver(span, n, k, a, b)}
<1>0. /\ span[1] = <<1, n>>
      /\ \A k \in Nodes : k # 1 => span[k] = Part(span[k \div 2], k)
  BY SpansFacts
<1>. HIDE DEF span
<1>1. 0 \in S
  BY DEF Nodes
<1>2. ASSUME NEW m \in Nat, m \in S PROVE m + 1 \in S
  <2>1. ASSUME NEW k \in Nodes, k <= m + 1, span[k] # <<>>
        PROVE  \E a, b : IsOver(span, n, k, a, b)
    <3>1. CASE k = 1
      <4>1. IsOver(span, n, 1, 1, n)
        BY <1>0 DEF IsOver
      <4>. QED
        BY <3>1, <4>1
    <3>2. CASE k # 1
      <4>. DEFINE up == k \div 2
      <4>1. up \in Nodes /\ up <= m /\ (k = 2 * up \/ k = 2 * up + 1)
        BY <2>1, <3>2, HalvedFacts DEF Nodes
      <4>2. span[k] = Part(span[up], k)
        BY <1>0, <3>2
      <4>. HIDE DEF up
      <4>3. span[up] # <<>> /\ ~IsOneObject(span[up])
        BY <2>1, <4>2 DEF Part
      <4>4. PICK a, b : IsOver(span, n, up, a, b)
        BY <1>2, <4>1, <4>3
      <4>5. a # b
        BY <4>3, <4>4 DEF IsOver, IsOneObject
      <4>6. PICK c \in a .. b - 1 :
              IsOver(span, n, 2 * up, a, c) /\ IsOver(span, n, 2 * up + 1, c + 1, b)
        BY <1>0, <4>1, <4>4, <4>5, Halves
      <4>. QED
        BY <4>1, <4>6
    <3>. QED
      BY <3>1, <3>2
  <2>. QED
    BY <2>1
<1>. HIDE DEF S
<1>3. Nat \subseteq S
  BY <1>1, <1>2, SetInduction
<1>4. ASSUME NEW k \in Nodes PROVE span[k] = <<>> \/ \E a, b : IsOver(span, n, k, a, b)
  <2>1. k \in Nat /\ k <= k
    BY DEF Nodes
  <2>. QED
    BY <1>3, <2>1 DEF S
<1>. QED
  BY <1>4 DEF span

\* Every index is one of a stretch's, and in the end its only one.
LEMMA SpansReach ==
  ASSUME NEW n \in Nat, 1 <= n, n <= MaxObjects, NEW i \in 1 .. n
  PROVE  \E k \in Nodes : Spans(n)[k] = <<i, i>>
<1>. DEFINE span == Spans(n)
            S == {d \in Nat : \A k \in Nodes : \A a, b :
                    IsOver(span, n, k, a, b) /\ b - a <= d /\ a <= i /\ i <= b
                      => \E j \in Nodes : span[j] = <<i, i>>}
<1>0. /\ span[1] = <<1, n>>
      /\ \A k \in Nodes : k # 1 => span[k] = Part(span[k \div 2], k)
  BY SpansFacts
<1>. HIDE DEF span
<1>1. ASSUME NEW d, NEW k \in Nodes, NEW a, NEW b, IsOver(span, n, k, a, b), a <= i, i <= b, a = b
      PROVE  \E j \in Nodes : span[j] = <<i, i>>
  <2>1. a = i /\ b = i
    BY <1>1 DEF IsOver
  <2>. QED
    BY <1>1, <2>1 DEF IsOver
<1>2. 0 \in S
  <2>1. \A a \in 1 .. n, b \in 1 .. n : a <= b /\ b - a <= 0 => a = b
    OBVIOUS
  <2>. QED
    BY <1>1, <2>1 DEF IsOver
<1>3. ASSUME NEW d \in Nat, d \in S PROVE d + 1 \in S
  <2>1. ASSUME NEW k \in Nodes, NEW a, NEW b,
               IsOver(span, n, k, a, b), b - a <= d + 1, a <= i, i <= b
        PROVE  \E j \in Nodes : span[j] = <<i, i>>
    <3>1. CASE a = b
      BY <1>1, <2>1, <3>1
    <3>2. CASE a # b
      <4>0. a \in Nat /\ b \in Nat /\ i \in Nat
        BY <2>1 DEF IsOver
      <4>1. 2 * k \in Nodes /\ 2 * k + 1 \in Nodes
        BY <1>0, <2>1, <3>2, Halves
      <4>2. PICK m \in a .. b - 1 :
              IsOver(span, n, 2 * k, a, m) /\ IsOver(span, n, 2 * k + 1, m + 1, b)
        BY <1>0, <2>1, <3>2, Halves
      <4>3. m - a <= d /\ b - (m + 1) <= d /\ (i <= m \/ m + 1 <= i)
        BY <2>1, <4>0, <4>2
      <4>. QED
        BY <1>3, <2>1, <4>1, <4>2, <4>3
    <3>. QED
      BY <3>1, <3>2
  <2>. QED
    BY <2>1
<1>. HIDE DEF S
<1>4. n - 1 \in S
  BY <1>2, <1>3, SetInduction
<1>5. 1 \in Nodes /\ IsOver(span, n, 1, 1, n)
  BY <1>0, BVHAssumption DEF Nodes, IsOver
<1>6. 1 <= i /\ i <= n /\ n - 1 <= n - 1
  OBVIOUS
<1>. QED
  BY <1>4, <1>5, <1>6 DEF S, span
-----------------------------------------------------------------------------
(* The nodes of a new tree.                                                *)

SpanNodes(n) == {j \in Nodes : Spans(n)[j] # <<>>}

\* A node is over one index and has no children, or over more and has two.
LEMMA SpanTree ==
  ASSUME NEW n \in Nat, 1 <= n, n <= MaxObjects
  PROVE  /\ 1 \in SpanNodes(n)
         /\ \A k \in SpanNodes(n) : IsOneObject(Spans(n)[k]) =>
              /\ \E i \in 1 .. n : Spans(n)[k] = <<i, i>>
              /\ 2 * k \notin SpanNodes(n) /\ 2 * k + 1 \notin SpanNodes(n)
         /\ \A k \in SpanNodes(n) : ~IsOneObject(Spans(n)[k]) =>
              2 * k \in SpanNodes(n) /\ 2 * k + 1 \in SpanNodes(n)
         /\ \A k \in SpanNodes(n) : k # 1 =>
              k \div 2 \in SpanNodes(n) /\ ~IsOneObject(Spans(n)[k \div 2])
         /\ \A i \in 1 .. n : \E k \in SpanNodes(n) : Spans(n)[k] = <<i, i>>
         /\ IsOneObject(Spans(n)[1]) => n = 1
         /\ n = 1 => SpanNodes(n) = {1}
         /\ n # 1 => 2 \in SpanNodes(n)
         /\ n = 2 => SpanNodes(n) = {1, 2, 3}
<1>. DEFINE span == Spans(n)
            D == SpanNodes(n)
<1>0. /\ span[1] = <<1, n>>
      /\ \A k \in Nodes : k # 1 => span[k] = Part(span[k \div 2], k)
  BY SpansFacts
<1>1. \A k \in Nodes : span[k] = <<>> \/ \E a, b : IsOver(span, n, k, a, b)
  BY SpanBounds
<1>2. \A i \in 1 .. n : \E k \in Nodes : span[k] = <<i, i>>
  BY SpansReach
<1>3. D \subseteq Nodes /\ \A k \in Nodes : k \in D <=> span[k] # <<>>
  BY DEF SpanNodes
<1>. HIDE DEF span, D
<1>4. 1 \in D
  <2>1. <<1, n>> # <<>>
    OBVIOUS
  <2>. QED
    BY <1>0, <1>3, <2>1, BVHAssumption DEF Nodes
<1>5. ASSUME NEW k \in D, IsOneObject(span[k])
      PROVE  /\ \E i \in 1 .. n : span[k] = <<i, i>>
             /\ 2 * k \notin D /\ 2 * k + 1 \notin D
  <2>1. PICK a, b : IsOver(span, n, k, a, b)
    BY <1>1, <1>3
  <2>2. a \in 1 .. n /\ span[k] = <<a, a>>
    BY <1>5, <2>1 DEF IsOver, IsOneObject
  <2>3. ASSUME NEW j \in D, j = 2 * k \/ j = 2 * k + 1 PROVE FALSE
    <3>1. k \in Nodes /\ j \in Nodes /\ j # 1 /\ j \div 2 = k
      BY <1>3, <2>3 DEF Nodes
    <3>2. span[j] = <<>>
      BY <1>0, <1>5, <3>1 DEF Part
    <3>. QED
      BY <1>3, <3>1, <3>2
  <2>. QED
    BY <2>2, <2>3
<1>6. ASSUME NEW k \in D, ~IsOneObject(span[k]) PROVE 2 * k \in D /\ 2 * k + 1 \in D
  <2>1. PICK a, b : IsOver(span, n, k, a, b)
    BY <1>1, <1>3
  <2>2. a # b
    BY <1>6, <2>1 DEF IsOver, IsOneObject
  <2>3. /\ 2 * k \in Nodes /\ 2 * k + 1 \in Nodes
        /\ \E m \in a .. b - 1 :
             IsOver(span, n, 2 * k, a, m) /\ IsOver(span, n, 2 * k + 1, m + 1, b)
    BY <1>0, <1>3, <2>1, <2>2, Halves
  <2>4. \A j, c, d : IsOver(span, n, j, c, d) => span[j] # <<>>
    BY DEF IsOver
  <2>. QED
    BY <1>3, <2>3, <2>4
<1>7. ASSUME NEW k \in D, k # 1 PROVE k \div 2 \in D /\ ~IsOneObject(span[k \div 2])
  <2>1. k \div 2 \in Nodes /\ span[k] # <<>> /\ span[k] = Part(span[k \div 2], k)
    BY <1>0, <1>3, <1>7, HalvedFacts
  <2>. QED
    BY <1>3, <2>1 DEF Part
<1>8. ASSUME NEW i \in 1 .. n PROVE \E k \in D : span[k] = <<i, i>>
  <2>1. <<i, i>> # <<>>
    OBVIOUS
  <2>. QED
    BY <1>2, <1>3, <2>1
<1>9. IsOneObject(span[1]) => n = 1
  BY <1>0 DEF IsOneObject
\* A node that is not the root has a parent over two indices or more.
<1>10. ASSUME NEW k \in D, k # 1
       PROVE  k \div 2 + 1 <= 2 * (n - 1) /\ n # 1
  <2>1. PICK a, b : IsOver(span, n, k \div 2, a, b)
    BY <1>1, <1>3, <1>7, <1>10
  <2>2. a # b
    BY <1>7, <1>10, <2>1 DEF IsOver, IsOneObject
  <2>. DEFINE up == k \div 2
  <2>3. up \in Nat
    BY <1>3, <1>10, HalvedFacts DEF Nodes
  <2>. HIDE DEF up
  <2>4. /\ a \in Nat /\ b \in Nat /\ 1 <= a /\ b <= n /\ b - a \in Nat /\ b - a >= 1
        /\ (up + 1) * (b - a) <= 2 * (n - 1)
    BY <2>1, <2>2 DEF IsOver, up
  <2>5. up + 1 <= (up + 1) * (b - a)
    BY <2>3, <2>4, Z3
  <2>6. (up + 1) * (b - a) \in Nat
    BY <2>3, <2>4
  <2>7. up + 1 <= 2 * (n - 1) /\ n # 1
    BY <2>3, <2>4, <2>5, <2>6
  <2>. QED
    BY <2>7 DEF up
<1>11. n = 1 => D = {1}
  BY <1>4, <1>10
<1>12. n # 1 => 2 \in D /\ 3 \in D
  <2>1. 2 * 1 = 2 /\ 2 * 1 + 1 = 3
    OBVIOUS
  <2>. QED
    BY <1>4, <1>6, <1>9, <2>1
<1>13. n = 2 => D = {1, 2, 3}
  <2>. SUFFICES ASSUME n = 2 PROVE D = {1, 2, 3}
    OBVIOUS
  <2>1. ASSUME NEW k \in D PROVE k \in {1, 2, 3}
    <3>1. k \in Nat /\ (k # 1 => k \div 2 + 1 <= 2 /\ k >= 1)
      BY <1>3, <1>10 DEF Nodes
    <3>. QED
      BY <1>3, <3>1 DEF Nodes
  <2>. QED
    BY <1>4, <1>12, <2>1
<1>. QED
  BY <1>4, <1>5, <1>6, <1>7, <1>8, <1>9, <1>11, <1>12, <1>13 DEF span, D

\* What a build makes of the objects' indices, but for the boxes.
LEMMA NewTreeShape ==
  ASSUME NEW n \in Nat, 1 <= n, n <= MaxObjects, Len(objects) = n,
         NEW order \in [1 .. n -> 1 .. n], NEW new, new = NewTree(order)
  PROVE  /\ DOMAIN new = SpanNodes(n)
         /\ \A k \in SpanNodes(n) :
              /\ new[k] = [box    |-> Boxes(Spans(n), order)[k],
                           isLeaf |-> new[k].isLeaf,
                           index  |-> new[k].index]
              /\ new[k].isLeaf \in BOOLEAN /\ (new[k].isLeaf <=> IsOneObject(Spans(n)[k]))
              /\ new[k].index \in 0 .. n
              /\ \A i \in 1 .. n : Spans(n)[k] = <<i, i>> => new[k].index = order[i]
<1>. DEFINE span == Spans(n)
            D == SpanNodes(n)
            one(k) == IsOneObject(span[k])
<1>1. new = [k \in D |-> [box    |-> Boxes(span, order)[k],
                          isLeaf |-> one(k),
                          index  |-> IF one(k) THEN order[span[k][1]] ELSE 0]]
  BY DEF NewTree, SpanNodes
<1>2. \A k \in D : one(k) => \E i \in 1 .. n : span[k] = <<i, i>>
  BY SpanTree
<1>3. \A k : one(k) \in BOOLEAN
  BY DEF IsOneObject
<1>4. \A k, i : span[k] = <<i, i>> => one(k) /\ span[k][1] = i
  BY DEF IsOneObject
<1>. HIDE DEF span, D, one
<1>5. DOMAIN new = D
  BY <1>1
<1>6. ASSUME NEW k \in D
      PROVE  /\ new[k] = [box    |-> Boxes(span, order)[k],
                          isLeaf |-> new[k].isLeaf,
                          index  |-> new[k].index]
             /\ new[k].isLeaf = one(k)
             /\ new[k].index = IF one(k) THEN order[span[k][1]] ELSE 0
  BY <1>1
<1>7. ASSUME NEW k \in D
      PROVE  /\ new[k].isLeaf \in BOOLEAN /\ (new[k].isLeaf <=> one(k))
             /\ new[k].index \in 0 .. n
             /\ \A i \in 1 .. n : span[k] = <<i, i>> => new[k].index = order[i]
  <2>1. new[k].isLeaf \in BOOLEAN /\ (new[k].isLeaf <=> one(k))
    BY <1>3, <1>6, Zenon
  <2>2. \A i \in 1 .. n : span[k] = <<i, i>> => new[k].index = order[i]
    <3>1. ASSUME NEW i \in 1 .. n, span[k] = <<i, i>> PROVE new[k].index = order[i]
      <4>1. one(k) /\ span[k][1] = i
        BY <1>4, <3>1
      <4>2. new[k].index = order[span[k][1]]
        BY <1>6, <4>1, Zenon
      <4>. QED
        BY <4>1, <4>2
    <3>. QED
      BY <3>1
  <2>3. one(k) => new[k].index \in 1 .. n
    BY <1>2, <2>2
  <2>4. ~one(k) => new[k].index = 0
    BY <1>6
  <2>. QED
    BY <2>1, <2>2, <2>3, <2>4
<1>. QED
  BY <1>5, <1>6, <1>7 DEF span, D, one
-----------------------------------------------------------------------------
(* Boxes.                                                                  *)

BoxSpace == [min : [{1, 2} -> Int], max : [{1, 2} -> Int]]

Proper(box) == box \in BoxSpace /\ \A d \in {1, 2} : box.min[d] < box.max[d]

LEMMA BoxIsProper ==
  ASSUME NEW rect \in [x : Int, y : Int, h : Nat \ {0}]
  PROVE  Proper(Box(rect))
<1>1. rect.x \in Int /\ rect.y \in Int /\ rect.h \in Nat /\ rect.h > 0
  OBVIOUS
<1>2. /\ Box(rect).min = <<rect.x - rect.h, rect.y - rect.h>>
      /\ Box(rect).max = <<rect.x + rect.h, rect.y + rect.h>>
      /\ Box(rect) = [min |-> Box(rect).min, max |-> Box(rect).max]
  BY DEF Box
<1>3. \A u \in Int, v \in Int : <<u, v>> \in [{1, 2} -> Int]
  <2>1. {1, 2} = 1 .. 2
    OBVIOUS
  <2>. QED
    BY <2>1
<1>4. Box(rect).min \in [{1, 2} -> Int] /\ Box(rect).max \in [{1, 2} -> Int]
  BY <1>1, <1>2, <1>3
<1>5. Box(rect) \in BoxSpace
  BY <1>2, <1>4 DEF BoxSpace
<1>6. \A d \in {1, 2} : Box(rect).min[d] < Box(rect).max[d]
  BY <1>1, <1>2
<1>. QED
  BY <1>5, <1>6 DEF Proper

LEMMA MergeIsProper ==
  ASSUME NEW a, Proper(a), NEW b, Proper(b)
  PROVE  Proper(Merge(a, b)) /\ Encloses(Merge(a, b), a) /\ Encloses(Merge(a, b), b)
<1>. DEFINE box == Merge(a, b)
<1>1. \A d \in {1, 2} : /\ a.min[d] \in Int /\ a.max[d] \in Int /\ a.min[d] < a.max[d]
                        /\ b.min[d] \in Int /\ b.max[d] \in Int /\ b.min[d] < b.max[d]
  BY DEF Proper, BoxSpace
<1>2. /\ box.min = [d \in {1, 2} |-> IF a.min[d] <= b.min[d] THEN a.min[d] ELSE b.min[d]]
      /\ box.max = [d \in {1, 2} |-> IF a.max[d] >= b.max[d] THEN a.max[d] ELSE b.max[d]]
      /\ box = [min |-> box.min, max |-> box.max]
  BY DEF Merge
<1>. HIDE DEF box
<1>3. box \in BoxSpace
  BY <1>1, <1>2 DEF BoxSpace
<1>4. \A d \in {1, 2} : /\ box.min[d] <= a.min[d] /\ box.min[d] <= b.min[d]
                        /\ a.max[d] <= box.max[d] /\ b.max[d] <= box.max[d]
                        /\ box.min[d] \in Int /\ box.max[d] \in Int
  BY <1>1, <1>2
<1>5. \A d \in {1, 2} : box.min[d] < box.max[d]
  BY <1>1, <1>4
<1>. QED
  BY <1>3, <1>4, <1>5 DEF Proper, Encloses, box

\* Boxes around boxes that intersect do too.
LEMMA AroundIntersects ==
  ASSUME NEW a \in BoxSpace, NEW b \in BoxSpace, NEW c \in BoxSpace, NEW e \in BoxSpace,
         Encloses(a, c), Encloses(b, e), Intersects(c, e)
  PROVE  Intersects(a, b)
<1>1. \A d \in {1, 2} : /\ a.min[d] \in Int /\ a.max[d] \in Int
                        /\ b.min[d] \in Int /\ b.max[d] \in Int
                        /\ c.min[d] \in Int /\ c.max[d] \in Int
                        /\ e.min[d] \in Int /\ e.max[d] \in Int
  BY DEF BoxSpace
<1>2. \A d \in {1, 2} : /\ a.min[d] <= c.min[d] /\ c.max[d] <= a.max[d]
                        /\ b.min[d] <= e.min[d] /\ e.max[d] <= b.max[d]
                        /\ c.min[d] < e.max[d] /\ e.min[d] < c.max[d]
  BY DEF Encloses, Intersects
<1>3. \A d \in {1, 2} : a.min[d] < b.max[d] /\ b.min[d] < a.max[d]
  BY <1>1, <1>2
<1>. QED
  BY <1>3 DEF Intersects

\* The boxes of two objects intersect when the objects collide.
LEMMA CollideIsIntersect ==
  ASSUME NEW r \in [x : Int, y : Int, h : Nat \ {0}], NEW s \in [x : Int, y : Int, h : Nat \ {0}]
  PROVE  Intersects(Box(r), Box(s)) <=>
           Closer(r.x, s.x, r.h + s.h) /\ Closer(r.y, s.y, r.h + s.h)
<1>1. /\ r.x \in Int /\ r.y \in Int /\ r.h \in Int
      /\ s.x \in Int /\ s.y \in Int /\ s.h \in Int
  OBVIOUS
<1>2. /\ Box(r).min[1] = r.x - r.h /\ Box(r).max[1] = r.x + r.h
      /\ Box(r).min[2] = r.y - r.h /\ Box(r).max[2] = r.y + r.h
      /\ Box(s).min[1] = s.x - s.h /\ Box(s).max[1] = s.x + s.h
      /\ Box(s).min[2] = s.y - s.h /\ Box(s).max[2] = s.y + s.h
  BY DEF Box
<1>3. Intersects(Box(r), Box(s)) <=>
        /\ Box(r).min[1] < Box(s).max[1] /\ Box(s).min[1] < Box(r).max[1]
        /\ Box(r).min[2] < Box(s).max[2] /\ Box(s).min[2] < Box(r).max[2]
  BY DEF Intersects
<1>4. r.x - r.h < s.x + s.h <=> r.x - s.x < r.h + s.h
  BY <1>1
<1>5. s.x - s.h < r.x + r.h <=> s.x - r.x < r.h + s.h
  BY <1>1
<1>6. r.y - r.h < s.y + s.h <=> r.y - s.y < r.h + s.h
  BY <1>1
<1>7. s.y - s.h < r.y + r.h <=> s.y - r.y < r.h + s.h
  BY <1>1
<1>. QED
  BY <1>2, <1>3, <1>4, <1>5, <1>6, <1>7 DEF Closer

\* What a node's box is made of.
BoxFrom(box, span, order, k) ==
  IF IsOneObject(span[k]) THEN Box(objects[order[span[k][1]]].rect)
                          ELSE Merge(box[2 * k], box[2 * k + 1])

\* Every node of a new tree has its box: there are such boxes, from the last
\* node's to the first's.
LEMMA BoxesAre ==
  ASSUME NEW n \in Nat, 1 <= n, n <= MaxObjects, NEW order,
         NEW box, box = Boxes(Spans(n), order), NEW k \in SpanNodes(n)
  PROVE  box[k] = BoxFrom(box, Spans(n), order, k)
<1>. DEFINE span == Spans(n)
            D == SpanNodes(n)
            last == 4 * MaxObjects + 1
            From(f, j) == BoxFrom(f, span, order, j)
            S == {m \in Nat : \E f : /\ f = [j \in D |-> f[j]]
                                     /\ \A j \in D : j > last - m => f[j] = From(f, j)}
<1>1. /\ \A j \in D : j \in Nat /\ 1 <= j /\ j <= last
      /\ \A j \in D : ~IsOneObject(span[j]) => 2 * j \in D /\ 2 * j + 1 \in D
      /\ last \in Nat
  BY SpanTree, BVHAssumption DEF SpanNodes, Nodes
<1>2. D = {j \in Nodes : span[j] # <<>>}
  BY DEF SpanNodes
<1>3. Boxes(span, order) = CHOOSE f : f = [j \in D |-> From(f, j)]
  BY <1>2 DEF Boxes, BoxFrom
<1>. HIDE DEF span, D, last
<1>4. 0 \in S
  <2>. DEFINE f == [j \in D |-> 0]
  <2>1. f = [j \in D |-> f[j]]
    OBVIOUS
  <2>2. \A j \in D : ~(j > last - 0)
    BY <1>1
  <2>. HIDE DEF f
  <2>. QED
    BY <2>1, <2>2
<1>5. ASSUME NEW m \in Nat, m \in S PROVE m + 1 \in S
  <2>1. PICK f : f = [j \in D |-> f[j]] /\ \A j \in D : j > last - m => f[j] = From(f, j)
    BY <1>5
  <2>. DEFINE g == [j \in D |-> IF j = last - m THEN From(f, j) ELSE f[j]]
  <2>2. g = [j \in D |-> g[j]] /\ \A j \in D : j # last - m => g[j] = f[j]
    OBVIOUS
  <2>3. \A j \in D : j = last - m => g[j] = From(f, j)
    OBVIOUS
  <2>. HIDE DEF g
  <2>4. ASSUME NEW j \in D, j > last - (m + 1) PROVE g[j] = From(g, j)
    <3>1. j \in Nat /\ j >= last - m /\ last - m \in Int /\ 1 <= j
      BY <1>1, <2>4
    <3>2. g[j] = From(f, j)
      <4>1. CASE j = last - m
        BY <2>3, <4>1
      <4>2. CASE j # last - m
        <5>1. j > last - m
          BY <3>1, <4>2
        <5>. QED
          BY <2>1, <2>2, <4>2, <5>1
      <4>. QED
        BY <4>1, <4>2
    <3>3. CASE IsOneObject(span[j])
      <4>1. From(f, j) = From(g, j)
        BY <3>3 DEF BoxFrom
      <4>. QED
        BY <3>2, <4>1
    <3>4. CASE ~IsOneObject(span[j])
      <4>1. /\ 2 * j \in D /\ 2 * j # last - m
            /\ 2 * j + 1 \in D /\ 2 * j + 1 # last - m
        BY <1>1, <3>1, <3>4
      <4>2. g[2 * j] = f[2 * j] /\ g[2 * j + 1] = f[2 * j + 1]
        BY <2>2, <4>1
      <4>3. From(f, j) = From(g, j)
        BY <4>2, <3>4 DEF BoxFrom
      <4>. QED
        BY <3>2, <4>3
    <3>. QED
      BY <3>3, <3>4
  <2>. QED
    BY <2>2, <2>4
<1>. HIDE DEF S
<1>6. last \in S
  BY <1>1, <1>4, <1>5, SetInduction
<1>7. PICK f : f = [j \in D |-> f[j]] /\ \A j \in D : j > last - last => f[j] = From(f, j)
  BY <1>6 DEF S
<1>8. \A j \in D : j > last - last
  BY <1>1
<1>9. f = [j \in D |-> From(f, j)]
  BY <1>7, <1>8
<1>10. box = [j \in D |-> From(box, j)]
  BY <1>3, <1>9 DEF span
<1>11. k \in D
  BY DEF D
<1>. QED
  BY <1>10, <1>11 DEF span
-----------------------------------------------------------------------------
(* What a build leaves, as conditions on a tree, its objects and leaves.   *)

TreeNode == [box : BoxSpace, isLeaf : BOOLEAN, index : 0 .. MaxObjects]

TreeType(nodes) ==
  /\ 1 \in DOMAIN nodes /\ DOMAIN nodes \subseteq Nodes
  /\ nodes \in [DOMAIN nodes -> TreeNode]

ObjectsType(objs) ==
  /\ objs \in Seq(Objects) /\ Len(objs) <= MaxObjects
  /\ \A i, j \in DOMAIN objs : objs[i].entity = objs[j].entity => i = j

\* The box of a leaf is its object's.
RightBox(nodes, objs, k) ==
  /\ nodes[k].index \in DOMAIN objs
  /\ nodes[k].box = Box(objs[nodes[k].index].rect)

\* Every box is inside the box above, and what has no children is a right leaf.
Covers(nodes, objs) ==
  /\ \A k \in DOMAIN nodes : k # 1 =>
       k \div 2 \in DOMAIN nodes /\ Encloses(nodes[k \div 2].box, nodes[k].box)
  /\ \A k \in DOMAIN nodes : k # 1 /\ nodes[k].isLeaf =>
       /\ RightBox(nodes, objs, k)
       /\ 2 * k \notin DOMAIN nodes /\ 2 * k + 1 \notin DOMAIN nodes

LEMMA ObjectFacts ==
  ASSUME NEW objs, ObjectsType(objs)
  PROVE  /\ Len(objs) \in Nat /\ Len(objs) <= MaxObjects /\ DOMAIN objs = 1 .. Len(objs)
         /\ \A i \in DOMAIN objs : /\ objs[i] \in Objects /\ objs[i].entity \in Entities
                                   /\ objs[i].rect \in [x : Int, y : Int, h : Nat \ {0}]
                                   /\ Proper(Box(objs[i].rect))
<1>1. Len(objs) \in Nat /\ DOMAIN objs = 1 .. Len(objs) /\ \A i \in DOMAIN objs : objs[i] \in Objects
  BY DEF ObjectsType
<1>2. ASSUME NEW i \in DOMAIN objs
      PROVE  objs[i].entity \in Entities /\ objs[i].rect \in [x : Int, y : Int, h : Nat \ {0}]
  <2>1. objs[i] \in Objects
    BY <1>1
  <2>2. objs[i].entity \in Entities /\ objs[i].rect \in Rects
    BY <2>1 DEF Objects
  <2>. QED
    BY <2>2, BVHAssumption
<1>. QED
  BY <1>1, <1>2, BoxIsProper DEF ObjectsType

\* What a build makes of the objects' indices.
LEMMA NewTreeFacts ==
  ASSUME ObjectsType(objects), NEW n, n = Len(objects), 1 <= n,
         NEW order \in [1 .. n -> 1 .. n], NEW new, new = NewTree(order)
  PROVE  /\ TreeType(new) /\ DOMAIN new = SpanNodes(n)
         /\ \A k \in DOMAIN new : Proper(new[k].box)
         /\ \A k \in DOMAIN new : new[k].isLeaf => RightBox(new, objects, k)
         /\ Covers(new, objects)
         /\ new[1].isLeaf <=> n = 1
         /\ \A k \in DOMAIN new, i \in 1 .. n :
              Spans(n)[k] = <<i, i>> => new[k].isLeaf /\ new[k].index = order[i]
<1>. DEFINE span == Spans(n)
            D == SpanNodes(n)
            box == Boxes(span, order)
<1>0. n \in Nat /\ n <= MaxObjects /\ DOMAIN objects = 1 .. n
  BY ObjectFacts
<1>1. /\ DOMAIN new = D
      /\ \A k \in D :
           /\ new[k] = [box |-> box[k], isLeaf |-> new[k].isLeaf, index |-> new[k].index]
           /\ new[k].isLeaf \in BOOLEAN /\ (new[k].isLeaf <=> IsOneObject(span[k]))
           /\ new[k].index \in 0 .. n
           /\ \A i \in 1 .. n : span[k] = <<i, i>> => new[k].index = order[i]
  BY <1>0, NewTreeShape
<1>2. /\ 1 \in D
      /\ \A k \in D : IsOneObject(span[k]) =>
           /\ \E i \in 1 .. n : span[k] = <<i, i>>
           /\ 2 * k \notin D /\ 2 * k + 1 \notin D
      /\ \A k \in D : ~IsOneObject(span[k]) => 2 * k \in D /\ 2 * k + 1 \in D
      /\ \A k \in D : k # 1 => k \div 2 \in D /\ ~IsOneObject(span[k \div 2])
  BY <1>0, SpanTree
<1>3. (IsOneObject(span[1]) => n = 1) /\ (n = 1 => IsOneObject(span[1]))
  <2>1. n = 1 => span[1] = <<1, 1>>
    BY SpansFacts
  <2>2. IsOneObject(<<1, 1>>)
    BY DEF IsOneObject
  <2>. QED
    BY <1>0, <2>1, <2>2, SpanTree
<1>4. \A k \in D : box[k] = BoxFrom(box, span, order, k)
  BY <1>0, BoxesAre
<1>5. D \subseteq Nodes /\ \A k \in D : k \in Nat /\ 1 <= k /\ k <= 4 * MaxObjects + 1
  BY DEF SpanNodes, Nodes
<1>. HIDE DEF span, D, box
\* Leaves have their objects' boxes, the others what encloses their children's.
<1>6. ASSUME NEW k \in D, IsOneObject(span[k])
      PROVE  /\ new[k].index \in 1 .. n
             /\ new[k].box = Box(objects[new[k].index].rect)
             /\ Proper(box[k])
  <2>1. PICK i \in 1 .. n : span[k] = <<i, i>>
    BY <1>2, <1>6
  <2>2. new[k].index = order[i] /\ order[i] \in 1 .. n
    BY <1>1, <2>1
  <2>3. box[k] = Box(objects[order[i]].rect)
    BY <1>4, <1>6, <2>1 DEF BoxFrom
  <2>4. new[k].box = box[k]
    BY <1>1
  <2>. QED
    BY <1>0, <2>2, <2>3, <2>4, ObjectFacts
<1>7. ASSUME NEW k \in D, ~IsOneObject(span[k])
      PROVE  box[k] = Merge(box[2 * k], box[2 * k + 1])
  BY <1>4, <1>7 DEF BoxFrom
<1>. DEFINE last == 4 * MaxObjects + 1
            S == {m \in Nat : \A k \in D : k > last - m => Proper(box[k])}
<1>8. 0 \in S
  <2>1. \A k \in D : ~(k > last - 0)
    BY <1>5, BVHAssumption
  <2>. QED
    BY <2>1
<1>9. ASSUME NEW m \in Nat, m \in S PROVE m + 1 \in S
  <2>1. ASSUME NEW k \in D, k > last - (m + 1) PROVE Proper(box[k])
    <3>1. CASE IsOneObject(span[k])
      BY <1>6, <3>1
    <3>2. CASE ~IsOneObject(span[k])
      <4>1. 2 * k > last - m /\ 2 * k + 1 > last - m
        BY <1>5, <2>1, BVHAssumption
      <4>2. Proper(box[2 * k]) /\ Proper(box[2 * k + 1])
        BY <1>2, <1>9, <3>2, <4>1
      <4>. QED
        BY <1>7, <3>2, <4>2, MergeIsProper
    <3>. QED
      BY <3>1, <3>2
  <2>. QED
    BY <2>1
<1>10. last \in Nat /\ last \in S
  <2>1. last \in Nat
    BY BVHAssumption
  <2>. HIDE DEF last, S
  <2>. QED
    BY <1>8, <1>9, <2>1, SetInduction
<1>11. ASSUME NEW k \in D PROVE Proper(box[k])
  BY <1>5, <1>10
<1>. HIDE DEF last, S
<1>12. ASSUME NEW k \in D
       PROVE  Proper(new[k].box) /\ new[k] \in TreeNode
  <2>1. new[k].box = box[k]
    BY <1>1
  <2>2. new[k].box \in BoxSpace /\ new[k].isLeaf \in BOOLEAN /\ new[k].index \in 0 .. MaxObjects
    BY <1>0, <1>1, <1>11, <2>1, BVHAssumption DEF Proper
  <2>3. new[k] = [box |-> new[k].box, isLeaf |-> new[k].isLeaf, index |-> new[k].index]
    BY <1>1, <2>1
  <2>. QED
    BY <1>11, <2>1, <2>2, <2>3 DEF TreeNode
<1>13. TreeType(new)
  <2>1. new = [k \in DOMAIN new |-> new[k]]
    BY DEF NewTree
  <2>. QED
    BY <1>1, <1>2, <1>5, <1>12, <2>1 DEF TreeType
<1>14. Covers(new, objects) /\ \A k \in D : new[k].isLeaf => RightBox(new, objects, k)
  <2>1. ASSUME NEW k \in D, k # 1
        PROVE  k \div 2 \in D /\ Encloses(new[k \div 2].box, new[k].box)
    <3>. DEFINE up == k \div 2
    <3>1. up \in D /\ ~IsOneObject(span[up])
      BY <1>2, <2>1
    <3>2. k = 2 * up \/ k = 2 * up + 1
      BY <1>5, <2>1
    <3>3. new[up].box = box[up] /\ new[k].box = box[k]
      BY <1>1, <3>1
    <3>. HIDE DEF up
    <3>4. 2 * up \in D /\ 2 * up + 1 \in D
      BY <1>2, <3>1
    <3>5. Encloses(box[up], box[2 * up]) /\ Encloses(box[up], box[2 * up + 1])
      BY <1>7, <1>11, <3>1, <3>4, MergeIsProper
    <3>6. Encloses(new[up].box, new[k].box)
      BY <3>2, <3>3, <3>5
    <3>. QED
      BY <3>1, <3>6 DEF up
  <2>2. ASSUME NEW k \in D, new[k].isLeaf
        PROVE  /\ RightBox(new, objects, k)
               /\ 2 * k \notin D /\ 2 * k + 1 \notin D
    <3>1. IsOneObject(span[k])
      BY <1>1, <2>2
    <3>. QED
      BY <1>0, <1>2, <1>6, <3>1 DEF RightBox
  <2>. QED
    BY <1>1, <2>1, <2>2 DEF Covers
<1>15. ASSUME NEW k \in D, NEW i \in 1 .. n, span[k] = <<i, i>>
       PROVE  new[k].isLeaf /\ new[k].index = order[i]
  <2>1. IsOneObject(span[k])
    BY <1>15 DEF IsOneObject
  <2>. QED
    BY <1>1, <1>15, <2>1
<1>16. new[1].isLeaf <=> n = 1
  BY <1>1, <1>2, <1>3
<1>. QED
  BY <1>1, <1>12, <1>13, <1>14, <1>15, <1>16 DEF span, D
-----------------------------------------------------------------------------
(* The invariant.                                                          *)

\* Every object has its leaf, and none of several is the root.
LeavesRight(lvs, nodes, objs) ==
  /\ lvs \in [DOMAIN objs -> DOMAIN nodes]
  /\ \A l \in DOMAIN objs : nodes[lvs[l]].isLeaf /\ nodes[lvs[l]].index \in DOMAIN objs
  /\ \A i \in DOMAIN objs : \E l \in DOMAIN objs : nodes[lvs[l]].index = i
  /\ Len(objs) # 1 => \A l \in DOMAIN objs : lvs[l] # 1

\* Over two objects there are a root, whose box is not empty, and two leaves.
TwoLeaves(lvs, nodes) ==
  /\ DOMAIN nodes = {1, 2, 3}
  /\ Proper(nodes[1].box)
  /\ {lvs[1], lvs[2]} = {2, 3}
  /\ {nodes[2].index, nodes[3].index} = {1, 2}

\* update refits the leaf of each object whose turn it was.
Refitted(lvs, nodes, objs, upd) ==
  \A l \in DOMAIN objs : objs[l].entity \in upd => RightBox(nodes, objs, lvs[l])

TypeInv ==
  /\ ObjectsType(objects)
  /\ TreeType(tree)
  /\ leaves \in Seq(DOMAIN tree)
  /\ single \in BOOLEAN
  /\ phase \in {"set", "built", "moved"}
  /\ updated \subseteq Entities
  /\ moves \in 0 .. MaxMoves
  /\ fills \in 0 .. MaxFills

RootInv == tree[1].isLeaf => single

BuiltInv ==
  phase = "built" =>
    /\ Len(objects) >= 2 => Covers(tree, objects)
    /\ \A i \in DOMAIN objects : objects[i].entity \in updated

LeavesInv ==
  phase # "set" =>
    /\ LeavesRight(leaves, tree, objects)
    /\ Refitted(leaves, tree, objects, updated)
    /\ Len(objects) = 2 => TwoLeaves(leaves, tree)

BVHInv == TypeInv /\ RootInv /\ BuiltInv /\ LeavesInv
-----------------------------------------------------------------------------
(* build.                                                                  *)

\* The root a tree keeps, and the nodes it gets.
LEMMA RootedFacts ==
  ASSUME TreeType(tree), NEW new, TreeType(new)
  PROVE  /\ TreeType(Rooted(new))
         /\ DOMAIN new = {1} =>
              /\ DOMAIN Rooted(new) = DOMAIN tree
              /\ Rooted(new)[1] = new[1]
         /\ DOMAIN new # {1} =>
              /\ DOMAIN Rooted(new) = DOMAIN new
              /\ \A k \in DOMAIN new : k # 1 => Rooted(new)[k] = new[k]
              /\ Rooted(new)[1].box = new[1].box
              /\ Rooted(new)[1].isLeaf = tree[1].isLeaf
<1>. DEFINE nodes == Rooted(new)
            root == [tree[1] EXCEPT !.box = new[1].box]
<1>1. /\ 1 \in DOMAIN tree /\ DOMAIN tree \subseteq Nodes /\ tree \in [DOMAIN tree -> TreeNode]
      /\ 1 \in DOMAIN new /\ DOMAIN new \subseteq Nodes /\ new \in [DOMAIN new -> TreeNode]
  BY DEF TreeType
<1>2. CASE DOMAIN new = {1}
  <2>1. nodes = [k \in DOMAIN tree |-> IF k = 1 THEN new[1] ELSE tree[k]]
    BY <1>2 DEF Rooted
  <2>. HIDE DEF nodes
  <2>2. DOMAIN nodes = DOMAIN tree /\ nodes[1] = new[1] /\ nodes \in [DOMAIN tree -> TreeNode]
    BY <1>1, <2>1
  <2>3. TreeType(nodes)
    BY <1>1, <2>2 DEF TreeType
  <2>. QED
    BY <1>2, <2>2, <2>3 DEF nodes
<1>3. CASE DOMAIN new # {1}
  <2>1. nodes = [new EXCEPT ![1] = root]
    BY <1>3 DEF Rooted
  <2>. HIDE DEF nodes
  <2>2. root \in TreeNode /\ root.box = new[1].box /\ root.isLeaf = tree[1].isLeaf
    BY <1>1 DEF TreeNode
  <2>. HIDE DEF root
  <2>3. /\ DOMAIN nodes = DOMAIN new /\ nodes[1] = root
        /\ \A k \in DOMAIN new : k # 1 => nodes[k] = new[k]
        /\ nodes \in [DOMAIN new -> TreeNode]
    BY <1>1, <2>1, <2>2
  <2>4. TreeType(nodes)
    BY <1>1, <2>3 DEF TreeType
  <2>. QED
    BY <1>3, <2>2, <2>3, <2>4 DEF nodes
<1>. QED
  BY <1>2, <1>3

LEMMA OrdersPermute ==
  ASSUME ObjectsType(objects), NEW order \in Orders
  PROVE  /\ order \in [1 .. Len(objects) -> 1 .. Len(objects)]
         /\ \A i \in DOMAIN objects : \E j \in DOMAIN objects : order[j] = i
BY ObjectFacts DEF Orders

\* What build over some objects leaves.
LEMMA BuildLeaves ==
  ASSUME TypeInv, objects # <<>>, NEW n, n = Len(objects), NEW order \in Orders,
         NEW new, new = NewTree(order), NEW nodes, nodes = Rooted(new),
         NEW lvs, lvs = NewLeaves(new)
  PROVE  /\ TreeType(nodes)
         /\ n >= 2 => Covers(nodes, objects)
         /\ n # 1 => nodes[1].isLeaf = tree[1].isLeaf
         /\ LeavesRight(lvs, nodes, objects)
         /\ \A l \in DOMAIN objects : RightBox(nodes, objects, lvs[l])
         /\ n = 2 => TwoLeaves(lvs, nodes)
<1>. DEFINE span == Spans(n)
<1>0. /\ n = Len(objects)
      /\ ObjectsType(objects) /\ TreeType(tree)
      /\ n \in Nat /\ 1 <= n /\ n <= MaxObjects /\ DOMAIN objects = 1 .. n
  <2>1. n # 0
    BY DEF TypeInv, ObjectsType
  <2>. QED
    BY <2>1, ObjectFacts DEF TypeInv
<1>1. /\ order \in [1 .. n -> 1 .. n]
      /\ \A i \in DOMAIN objects : \E j \in DOMAIN objects : order[j] = i
  BY <1>0, OrdersPermute
<1>2. /\ TreeType(new) /\ DOMAIN new = SpanNodes(n)
      /\ \A k \in DOMAIN new : Proper(new[k].box)
      /\ \A k \in DOMAIN new : new[k].isLeaf => RightBox(new, objects, k)
      /\ Covers(new, objects)
      /\ new[1].isLeaf <=> n = 1
      /\ \A k \in DOMAIN new, i \in 1 .. n :
           span[k] = <<i, i>> => new[k].isLeaf /\ new[k].index = order[i]
  <2>. HIDE DEF span
  <2>1. order \in [1 .. n -> 1 .. n] /\ n = Len(objects) /\ 1 <= n /\ new = NewTree(order)
    BY <1>0, <1>1
  <2>2. ObjectsType(objects)
    BY <1>0
  <2>. QED
    BY <2>1, <2>2, NewTreeFacts DEF span
<1>3. DOMAIN new = SpanNodes(n)
  BY <1>2
<1>4. /\ \A i \in 1 .. n : \E k \in DOMAIN new : span[k] = <<i, i>>
      /\ n = 1 => DOMAIN new = {1}
      /\ n # 1 => DOMAIN new # {1}
      /\ n = 2 => DOMAIN new = {1, 2, 3}
      /\ span[1] = <<1, n>>
      /\ \A k \in DOMAIN new : k # 1 => k \div 2 \in DOMAIN new
  <2>1. /\ \A i \in 1 .. n : \E k \in SpanNodes(n) : span[k] = <<i, i>>
        /\ \A k \in SpanNodes(n) : k # 1 => k \div 2 \in SpanNodes(n)
        /\ n = 1 => SpanNodes(n) = {1}
        /\ n # 1 => 2 \in SpanNodes(n)
        /\ n = 2 => SpanNodes(n) = {1, 2, 3}
    BY <1>0, SpanTree
  <2>2. span[1] = <<1, n>>
    BY <1>0, SpansFacts
  <2>3. n # 1 => SpanNodes(n) # {1}
    BY <2>1
  <2>. HIDE DEF span
  <2>. QED
    BY <1>3, <2>1, <2>2, <2>3, Zenon
<1>5. /\ TreeType(nodes)
      /\ DOMAIN new = {1} => DOMAIN nodes = DOMAIN tree /\ nodes[1] = new[1]
      /\ DOMAIN new # {1} =>
           /\ DOMAIN nodes = DOMAIN new
           /\ \A k \in DOMAIN new : k # 1 => nodes[k] = new[k]
           /\ nodes[1].box = new[1].box
           /\ nodes[1].isLeaf = tree[1].isLeaf
  BY <1>0, <1>2, RootedFacts
<1>6. lvs = [i \in 1 .. n |-> CHOOSE k \in DOMAIN new : span[k] = <<i, i>>]
  BY <1>0 DEF NewLeaves
<1>. HIDE DEF span
<1>7. ASSUME NEW i \in 1 .. n
      PROVE  /\ lvs[i] \in DOMAIN new /\ span[lvs[i]] = <<i, i>>
             /\ new[lvs[i]].isLeaf /\ new[lvs[i]].index = order[i]
             /\ lvs[i] \in DOMAIN nodes /\ nodes[lvs[i]] = new[lvs[i]]
             /\ n # 1 => lvs[i] # 1
  <2>1. lvs[i] \in DOMAIN new /\ span[lvs[i]] = <<i, i>>
    BY <1>4, <1>6
  <2>2. n # 1 => lvs[i] # 1
    BY <1>4, <2>1
  <2>3. lvs[i] \in DOMAIN nodes /\ nodes[lvs[i]] = new[lvs[i]]
    <3>1. CASE n = 1
      BY <1>4, <1>5, <2>1, <3>1 DEF TreeType
    <3>2. CASE n # 1
      BY <1>4, <1>5, <2>1, <2>2, <3>2
    <3>. QED
      BY <3>1, <3>2
  <2>. QED
    BY <1>2, <2>1, <2>2, <2>3
<1>8. ASSUME NEW i \in 1 .. n PROVE RightBox(nodes, objects, lvs[i])
  <2>1. RightBox(new, objects, lvs[i])
    BY <1>2, <1>7
  <2>. QED
    BY <1>7, <2>1 DEF RightBox
<1>9. LeavesRight(lvs, nodes, objects)
  <2>1. lvs \in [DOMAIN objects -> DOMAIN nodes]
    BY <1>0, <1>6, <1>7
  <2>2. \A l \in DOMAIN objects : nodes[lvs[l]].isLeaf /\ nodes[lvs[l]].index \in DOMAIN objects
    <3>1. ASSUME NEW l \in 1 .. n PROVE nodes[lvs[l]].isLeaf /\ nodes[lvs[l]].index = order[l]
      BY <1>7
    <3>2. \A l \in 1 .. n : order[l] \in 1 .. n
      BY <1>1
    <3>. QED
      BY <1>0, <3>1, <3>2
  <2>3. \A i \in DOMAIN objects : \E l \in DOMAIN objects : nodes[lvs[l]].index = i
    BY <1>0, <1>1, <1>7
  <2>. QED
    BY <1>0, <1>7, <2>1, <2>2, <2>3 DEF LeavesRight
<1>10. ASSUME n >= 2 PROVE Covers(nodes, objects)
  <2>1. n # 1 /\ DOMAIN new # {1}
    BY <1>0, <1>4, <1>10
  <2>2. DOMAIN nodes = DOMAIN new /\ \A k \in DOMAIN new : nodes[k].box = new[k].box
    BY <1>5, <2>1
  <2>. QED
    BY <1>2, <1>5, <2>1, <2>2 DEF Covers, RightBox
<1>11. ASSUME n = 2 PROVE TwoLeaves(lvs, nodes)
  <2>1. DOMAIN new = {1, 2, 3} /\ DOMAIN nodes = {1, 2, 3}
    BY <1>4, <1>5, <1>11
  <2>2. Proper(nodes[1].box)
    BY <1>2, <1>4, <1>5, <1>11, <2>1
  <2>3. 1 \in 1 .. n /\ 2 \in 1 .. n
    BY <1>11
  <2>4. lvs[1] \in {2, 3} /\ lvs[2] \in {2, 3} /\ span[lvs[1]] # span[lvs[2]]
    BY <1>7, <1>11, <2>1, <2>3
  <2>5. nodes[lvs[1]].index = order[1] /\ nodes[lvs[2]].index = order[2]
    BY <1>7, <2>3
  <2>6. {order[1], order[2]} = {1, 2}
    <3>1. order[1] \in {1, 2} /\ order[2] \in {1, 2} /\ DOMAIN objects = {1, 2}
      BY <1>0, <1>1, <1>11
    <3>. QED
      BY <1>0, <1>1, <3>1
  <2>7. (lvs[1] = 2 /\ lvs[2] = 3) \/ (lvs[1] = 3 /\ lvs[2] = 2)
    BY <2>4
  <2>8. {nodes[2].index, nodes[3].index} = {1, 2}
    BY <2>5, <2>6, <2>7
  <2>9. {lvs[1], lvs[2]} = {2, 3}
    BY <2>7
  <2>. QED
    BY <2>1, <2>2, <2>8, <2>9 DEF TwoLeaves
<1>. QED
  BY <1>0, <1>4, <1>5, <1>8, <1>9, <1>10, <1>11
LEMMA EmptyLeaves ==
  ASSUME NEW nodes, NEW upd
  PROVE  /\ LeavesRight(<<>>, nodes, <<>>)
         /\ Refitted(<<>>, nodes, <<>>, upd)
         /\ ~(Len(<<>>) >= 2) /\ Len(<<>>) = 0
BY DEF LeavesRight, Refitted

LEMMA BuildStep ==
  ASSUME BVHInv, Build
  PROVE  BVHInv'
<1>0. /\ TypeInv /\ RootInv
      /\ UNCHANGED <<objects, moves, fills>> /\ phase' = "built"
      /\ updated' = {objects[i].entity : i \in DOMAIN objects}
      /\ single' = (single \/ Len(objects) = 1)
  BY DEF BVHInv, Build
<1>1. updated' \subseteq Entities
  <2>1. \A i \in DOMAIN objects : objects[i].entity \in Entities
    BY <1>0, ObjectFacts DEF TypeInv
  <2>. QED
    BY <1>0, <2>1
<1>2. single' \in BOOLEAN
  BY <1>0, Zenon
<1>3. CASE objects = <<>>
  <2>1. leaves' = <<>> /\ UNCHANGED tree
    BY <1>3 DEF Build, Cleared
  <2>2. TypeInv'
    BY <1>0, <1>1, <1>2, <2>1 DEF TypeInv
  <2>3. RootInv'
    BY <1>0, <2>1 DEF RootInv
  <2>4. LeavesInv' /\ BuiltInv'
    BY <1>0, <1>3, <2>1, EmptyLeaves DEF LeavesInv, BuiltInv
  <2>. QED
    BY <2>2, <2>3, <2>4 DEF BVHInv
<1>4. CASE objects # <<>>
  <2>1. PICK order \in Orders :
          /\ tree' = Rooted(NewTree(order))
          /\ leaves' = <<>> \o NewLeaves(NewTree(order))
    BY <1>4 DEF Build, Cleared
  <2>2. PICK n : n = Len(objects)
    OBVIOUS
  <2>. DEFINE new == NewTree(order)
              nodes == Rooted(new)
              lvs == NewLeaves(new)
  <2>3. /\ TreeType(nodes)
        /\ n >= 2 => Covers(nodes, objects)
        /\ n # 1 => nodes[1].isLeaf = tree[1].isLeaf
        /\ LeavesRight(lvs, nodes, objects)
        /\ \A l \in DOMAIN objects : RightBox(nodes, objects, lvs[l])
        /\ n = 2 => TwoLeaves(lvs, nodes)
    BY <1>0, <1>4, <2>2, BuildLeaves
  <2>4. lvs \in Seq(DOMAIN nodes)
    <3>1. lvs \in [DOMAIN objects -> DOMAIN nodes]
      BY <2>3 DEF LeavesRight
    <3>2. Len(objects) \in Nat /\ DOMAIN objects = 1 .. Len(objects)
      BY <1>0, ObjectFacts DEF TypeInv
    <3>. HIDE DEF lvs, nodes
    <3>. QED
      BY <3>1, <3>2
  <2>5. tree' = nodes
    BY <2>1
  <2>6. leaves' = <<>> \o lvs
    BY <2>1
  <2>. HIDE DEF lvs, nodes, new
  <2>7. leaves' = lvs
    BY <2>4, <2>6
  <2>8. TypeInv'
    BY <1>0, <1>1, <1>2, <2>3, <2>4, <2>5, <2>7 DEF TypeInv
  <2>9. RootInv'
    <3>1. CASE n = 1
      <4>1. single'
        BY <1>0, <2>2, <3>1
      <4>. QED
        BY <4>1 DEF RootInv
    <3>2. CASE n # 1
      <4>1. tree'[1].isLeaf = tree[1].isLeaf
        BY <2>3, <2>5, <3>2
      <4>2. tree'[1].isLeaf => single
        BY <1>0, <4>1, Zenon DEF RootInv
      <4>. QED
        BY <1>0, <4>2, Zenon DEF RootInv
    <3>. QED
      BY <3>1, <3>2
  <2>10. BuiltInv'
    BY <1>0, <2>2, <2>3, <2>5 DEF BuiltInv
  <2>11. LeavesInv'
    BY <1>0, <2>2, <2>3, <2>5, <2>7 DEF LeavesInv, Refitted
  <2>. QED
    BY <2>8, <2>9, <2>10, <2>11 DEF BVHInv
<1>. QED
  BY <1>3, <1>4

-----------------------------------------------------------------------------
(* What happens between two builds.                                        *)

\* Refitting a leaf gives it its object's box, and changes nothing else.
LEMMA RefitFacts ==
  ASSUME TypeInv, NEW leaf \in DOMAIN tree, tree[leaf].index \in DOMAIN objects,
         NEW nodes, nodes = RefitNode(leaf)
  PROVE  /\ TreeType(nodes) /\ DOMAIN nodes = DOMAIN tree
         /\ RightBox(nodes, objects, leaf)
         /\ \A k \in DOMAIN tree :
              /\ nodes[k].isLeaf = tree[k].isLeaf /\ nodes[k].index = tree[k].index
              /\ k # leaf => nodes[k] = tree[k]
         /\ RightBox(tree, objects, leaf) => nodes = tree
<1>. DEFINE box == Box(objects[tree[leaf].index].rect)
<1>1. tree \in [DOMAIN tree -> TreeNode] /\ 1 \in DOMAIN tree /\ DOMAIN tree \subseteq Nodes
  BY DEF TypeInv, TreeType
<1>2. box \in BoxSpace
  BY ObjectFacts DEF TypeInv, Proper
<1>3. nodes = [tree EXCEPT ![leaf] = [tree[leaf] EXCEPT !.box = box]]
  BY DEF RefitNode
<1>. DEFINE node == [tree[leaf] EXCEPT !.box = box]
<1>4. tree[leaf].box = box => node = tree[leaf]
  BY <1>1 DEF TreeNode
<1>. HIDE DEF box
<1>5. /\ node \in TreeNode /\ node.box = box
      /\ node.isLeaf = tree[leaf].isLeaf /\ node.index = tree[leaf].index
  BY <1>1, <1>2 DEF TreeNode
<1>. HIDE DEF node
<1>6. nodes = [tree EXCEPT ![leaf] = node]
  BY <1>3 DEF node
<1>7. /\ nodes \in [DOMAIN tree -> TreeNode] /\ DOMAIN nodes = DOMAIN tree /\ nodes[leaf] = node
      /\ \A k \in DOMAIN tree : k # leaf => nodes[k] = tree[k]
  BY <1>1, <1>5, <1>6
<1>8. TreeType(nodes)
  BY <1>1, <1>7 DEF TreeType
<1>9. RightBox(nodes, objects, leaf)
  BY <1>5, <1>7 DEF RightBox, box
<1>10. \A k \in DOMAIN tree : nodes[k].isLeaf = tree[k].isLeaf /\ nodes[k].index = tree[k].index
  BY <1>5, <1>7
<1>11. RightBox(tree, objects, leaf) => nodes = tree
  <2>. SUFFICES ASSUME RightBox(tree, objects, leaf) PROVE nodes = tree
    OBVIOUS
  <2>1. node = tree[leaf]
    BY <1>4 DEF RightBox, box
  <2>. QED
    BY <1>1, <1>6, <2>1
<1>. QED
  BY <1>7, <1>8, <1>9, <1>10, <1>11

LEMMA UpdateStep ==
  ASSUME BVHInv, NEW entity \in Entities, Update(entity)
  PROVE  BVHInv'
<1>0. /\ TypeInv /\ RootInv /\ phase # "set"
      /\ UNCHANGED <<objects, leaves, single, phase, moves, fills>>
      /\ updated' = updated \cup {entity}
      /\ LeavesRight(leaves, tree, objects)
      /\ Refitted(leaves, tree, objects, updated)
      /\ Len(objects) = 2 => TwoLeaves(leaves, tree)
  BY DEF BVHInv, Update, LeavesInv
<1>1. PICK index \in DOMAIN objects :
        objects[index].entity = entity /\ tree' = RefitNode(leaves[index])
  BY DEF Update, LeafToRefit
<1>. DEFINE leaf == leaves[index]
<1>2. leaf \in DOMAIN tree /\ tree[leaf].isLeaf /\ tree[leaf].index \in DOMAIN objects
  BY <1>0 DEF LeavesRight
<1>3. PICK nodes : nodes = RefitNode(leaf)
  OBVIOUS
<1>4. /\ TreeType(nodes) /\ DOMAIN nodes = DOMAIN tree
      /\ RightBox(nodes, objects, leaf)
      /\ \A k \in DOMAIN tree :
           /\ nodes[k].isLeaf = tree[k].isLeaf /\ nodes[k].index = tree[k].index
           /\ k # leaf => nodes[k] = tree[k]
      /\ RightBox(tree, objects, leaf) => nodes = tree
  BY <1>0, <1>2, <1>3, RefitFacts
<1>5. tree' = nodes
  BY <1>1, <1>3
<1>6. TypeInv'
  BY <1>0, <1>4, <1>5 DEF TypeInv
<1>7. RootInv'
  <2>1. tree'[1].isLeaf = tree[1].isLeaf
    BY <1>0, <1>4, <1>5 DEF TypeInv, TreeType
  <2>. QED
    BY <1>0, <2>1, Zenon DEF RootInv
<1>8. BuiltInv'
  <2>. SUFFICES ASSUME phase = "built" PROVE BuiltInv'
    BY <1>0 DEF BuiltInv
  <2>1. /\ Len(objects) >= 2 => Covers(tree, objects)
        /\ \A i \in DOMAIN objects : objects[i].entity \in updated
    BY DEF BVHInv, BuiltInv
  <2>2. RightBox(tree, objects, leaf)
    BY <1>0, <1>1, <2>1 DEF Refitted
  <2>3. tree' = tree
    BY <1>4, <1>5, <2>2
  <2>. QED
    BY <1>0, <2>1, <2>3 DEF BuiltInv
<1>9. LeavesRight(leaves, nodes, objects)
  <2>1. /\ leaves \in [DOMAIN objects -> DOMAIN tree]
        /\ \A l \in DOMAIN objects : tree[leaves[l]].isLeaf
        /\ \A l \in DOMAIN objects : tree[leaves[l]].index \in DOMAIN objects
        /\ \A i \in DOMAIN objects : \E l \in DOMAIN objects : tree[leaves[l]].index = i
        /\ Len(objects) # 1 => \A l \in DOMAIN objects : leaves[l] # 1
    BY <1>0 DEF LeavesRight
  <2>2. ASSUME NEW l \in DOMAIN objects
        PROVE  /\ nodes[leaves[l]].isLeaf
               /\ nodes[leaves[l]].index = tree[leaves[l]].index
    <3>1. leaves[l] \in DOMAIN tree /\ tree[leaves[l]].isLeaf
      BY <2>1
    <3>2. nodes[leaves[l]].isLeaf = tree[leaves[l]].isLeaf
      BY <1>4, <3>1
    <3>3. nodes[leaves[l]].isLeaf
      BY <3>1, <3>2, Zenon
    <3>. QED
      BY <1>4, <3>1, <3>3
  <2>3. leaves \in [DOMAIN objects -> DOMAIN nodes]
    BY <1>4, <2>1
  <2>4. \A i \in DOMAIN objects : \E l \in DOMAIN objects : nodes[leaves[l]].index = i
    BY <2>1, <2>2
  <2>5. \A l \in DOMAIN objects : nodes[leaves[l]].index \in DOMAIN objects
    BY <2>1, <2>2
  <2>. QED
    BY <2>1, <2>2, <2>3, <2>4, <2>5 DEF LeavesRight
<1>10. Refitted(leaves, nodes, objects, updated \cup {entity})
  <2>1. ASSUME NEW l \in DOMAIN objects, objects[l].entity \in updated \cup {entity}
        PROVE  RightBox(nodes, objects, leaves[l])
    <3>1. CASE leaves[l] = leaf
      BY <1>4, <3>1
    <3>2. CASE leaves[l] # leaf
      <4>1. objects[l].entity # entity
        <5>1. objects[l].entity = objects[index].entity => l = index
          BY <1>0, <1>1 DEF TypeInv, ObjectsType
        <5>. QED
          BY <1>1, <3>2, <5>1
      <4>2. RightBox(tree, objects, leaves[l])
        BY <1>0, <2>1, <4>1 DEF Refitted
      <4>3. nodes[leaves[l]] = tree[leaves[l]]
        BY <1>0, <1>4, <3>2 DEF LeavesRight
      <4>. QED
        BY <4>2, <4>3 DEF RightBox
    <3>. QED
      BY <3>1, <3>2
  <2>. QED
    BY <2>1 DEF Refitted
<1>11. Len(objects) = 2 => TwoLeaves(leaves, nodes)
  <2>. SUFFICES ASSUME Len(objects) = 2 PROVE TwoLeaves(leaves, nodes)
    OBVIOUS
  <2>1. TwoLeaves(leaves, tree) /\ leaf # 1
    BY <1>0 DEF LeavesRight
  <2>2. DOMAIN tree = {1, 2, 3} /\ nodes[1] = tree[1]
        /\ nodes[2].index = tree[2].index /\ nodes[3].index = tree[3].index
    BY <1>4, <2>1 DEF TwoLeaves
  <2>. QED
    BY <1>4, <2>1, <2>2 DEF TwoLeaves
<1>12. LeavesInv'
  BY <1>0, <1>5, <1>9, <1>10, <1>11 DEF LeavesInv
<1>. QED
  BY <1>6, <1>7, <1>8, <1>12 DEF BVHInv

LEMMA MoveStep ==
  ASSUME BVHInv, NEW i \in 1 .. MaxObjects, NEW rect \in Rects, Move(i, rect)
  PROVE  BVHInv'
<1>0. /\ TypeInv /\ RootInv /\ LeavesInv /\ phase # "set" /\ i \in DOMAIN objects
      /\ moves < MaxMoves /\ moves' = moves + 1
      /\ objects' = [objects EXCEPT ![i].rect = rect]
      /\ updated' = {} /\ phase' = "moved"
      /\ UNCHANGED <<tree, leaves, single, fills>>
  BY DEF BVHInv, Move
<1>1. objects \in Seq(Objects) /\ objects[i] \in Objects
  BY <1>0 DEF TypeInv, ObjectsType
<1>. DEFINE moved == [objects[i] EXCEPT !.rect = rect]
<1>2. moved \in Objects /\ moved.entity = objects[i].entity
  BY <1>1 DEF Objects
<1>3. objects' = [objects EXCEPT ![i] = moved]
  BY <1>0
<1>. HIDE DEF moved
<1>4. /\ objects' \in Seq(Objects) /\ Len(objects') = Len(objects)
      /\ DOMAIN objects' = DOMAIN objects
      /\ \A j \in DOMAIN objects : objects'[j].entity = objects[j].entity
  BY <1>0, <1>1, <1>2, <1>3
<1>5. ObjectsType(objects')
  BY <1>0, <1>4 DEF TypeInv, ObjectsType
<1>6. moves' \in 0 .. MaxMoves
  BY <1>0, BVHAssumption DEF TypeInv
<1>7. TypeInv'
  BY <1>0, <1>5, <1>6 DEF TypeInv
<1>8. LeavesRight(leaves, tree, objects') /\ Refitted(leaves, tree, objects', {})
  BY <1>0, <1>4 DEF LeavesInv, LeavesRight, Refitted
<1>9. LeavesInv' /\ BuiltInv' /\ RootInv'
  BY <1>0, <1>4, <1>8 DEF LeavesInv, BuiltInv, RootInv
<1>. QED
  BY <1>7, <1>9 DEF BVHInv

LEMMA SetObjectsStep ==
  ASSUME BVHInv, NEW scene \in Scenes, SetObjects(scene)
  PROVE  BVHInv'
<1>0. /\ TypeInv /\ RootInv
      /\ objects' = scene /\ phase' = "set" /\ updated' = {} /\ moves' = 0
      /\ fills' = fills + (IF scene = <<>> THEN 0 ELSE 1) /\ fills' <= MaxFills
      /\ UNCHANGED <<tree, leaves, single>>
  BY DEF BVHInv, SetObjects
<1>1. ObjectsType(scene)
  BY BVHAssumption DEF ObjectsType
<1>2. fills' \in 0 .. MaxFills /\ moves' \in 0 .. MaxMoves
  BY <1>0, BVHAssumption DEF TypeInv
<1>3. TypeInv'
  BY <1>0, <1>1, <1>2 DEF TypeInv
<1>4. RootInv' /\ BuiltInv' /\ LeavesInv'
  BY <1>0 DEF RootInv, BuiltInv, LeavesInv
<1>. QED
  BY <1>3, <1>4 DEF BVHInv

LEMMA BVHInvInductive ==
  /\ Init => BVHInv
  /\ BVHInv /\ [Next]_vars => BVHInv'
<1>1. ASSUME Init PROVE BVHInv
  <2>. DEFINE box == [min |-> <<0, 0>>, max |-> <<0, 0>>]
              root == [box |-> box, isLeaf |-> FALSE, index |-> 0]
  <2>1. /\ objects = <<>> /\ leaves = <<>> /\ phase = "set" /\ updated = {} /\ single = FALSE
        /\ moves = 0 /\ fills = 0 /\ tree = [k \in {1} |-> root]
    BY <1>1 DEF Init
  <2>2. box \in BoxSpace
    <3>1. {1, 2} = 1 .. 2
      OBVIOUS
    <3>2. <<0, 0>> \in [{1, 2} -> Int]
      BY <3>1
    <3>. QED
      BY <3>2 DEF BoxSpace
  <2>. HIDE DEF box
  <2>3. root \in TreeNode /\ ~root.isLeaf
    BY <2>2, BVHAssumption DEF TreeNode
  <2>. HIDE DEF root
  <2>4. 1 \in Nodes
    BY BVHAssumption DEF Nodes
  <2>5. TreeType(tree) /\ tree[1] = root
    BY <2>1, <2>3, <2>4 DEF TreeType
  <2>6. ObjectsType(objects) /\ leaves \in Seq(DOMAIN tree)
    BY <2>1, BVHAssumption DEF ObjectsType
  <2>7. single \in BOOLEAN
    BY <2>1, Zenon
  <2>8. TypeInv
    BY <2>1, <2>7, <2>5, <2>6, BVHAssumption DEF TypeInv
  <2>9. RootInv
    BY <2>3, <2>5 DEF RootInv
  <2>10. BuiltInv /\ LeavesInv
    BY <2>1 DEF BuiltInv, LeavesInv
  <2>. QED
    BY <2>8, <2>9, <2>10 DEF BVHInv
<1>2. ASSUME BVHInv, [Next]_vars PROVE BVHInv'
  <2>1. CASE Build
    BY <1>2, <2>1, BuildStep
  <2>2. ASSUME NEW entity \in Entities, Update(entity) PROVE BVHInv'
    BY <1>2, <2>2, UpdateStep
  <2>3. ASSUME NEW i \in 1 .. MaxObjects, NEW rect \in Rects, Move(i, rect) PROVE BVHInv'
    BY <1>2, <2>3, MoveStep
  <2>4. ASSUME NEW scene \in Scenes, SetObjects(scene) PROVE BVHInv'
    BY <1>2, <2>4, SetObjectsStep
  <2>5. CASE UNCHANGED vars
    BY <1>2, <2>5 DEF vars, BVHInv, TypeInv, RootInv, BuiltInv, LeavesInv
  <2>. QED
    BY <1>2, <2>1, <2>2, <2>3, <2>4, <2>5 DEF Next
<1>. QED
  BY <1>1, <1>2

-----------------------------------------------------------------------------
(* The theorems.                                                           *)

\* An object's leaf is a leaf with its index.
LEMMA LeafOfFacts ==
  ASSUME NEW i \in DOMAIN objects, LeavesRight(leaves, tree, objects)
  PROVE  \E l \in DOMAIN objects :
           /\ LeafOf(i) = leaves[l] /\ tree[leaves[l]].index = i
           /\ leaves[l] \in DOMAIN tree /\ tree[leaves[l]].isLeaf
<1>1. DOMAIN leaves = DOMAIN objects /\ \E l \in DOMAIN objects : tree[leaves[l]].index = i
  BY DEF LeavesRight
<1>2. LeafOf(i) \in {leaves[l] : l \in DOMAIN leaves} /\ tree[LeafOf(i)].index = i
  BY <1>1 DEF LeafOf
<1>3. PICK l \in DOMAIN objects : LeafOf(i) = leaves[l] /\ tree[leaves[l]].index = i
  BY <1>1, <1>2
<1>. QED
  BY <1>3 DEF LeavesRight

\* Every reachable tree is one of the nodes there can be, with a leaf for every
\* leaf kept, whose index is an object's.
THEOREM TypeCorrect == Spec => []TypeOK
<1>1. BVHInv => TypeOK
  <2>. SUFFICES ASSUME BVHInv PROVE TypeOK
    OBVIOUS
  <2>1. TypeInv /\ LeavesInv
    BY DEF BVHInv
  <2>2. \A k \in DOMAIN tree : tree[k].isLeaf \in BOOLEAN /\ tree[k].index \in 0 .. MaxObjects
    BY <2>1 DEF TypeInv, TreeType, TreeNode
  <2>3. phase # "set" =>
          \A l \in DOMAIN leaves :
            tree[leaves[l]].isLeaf /\ tree[leaves[l]].index \in DOMAIN objects
    BY <2>1 DEF LeavesInv, LeavesRight
  <2>. QED
    BY <2>1, <2>2, <2>3 DEF TypeInv, TreeType, ObjectsType, TypeOK
<1>. QED
  BY <1>1, BVHInvInductive, PTL DEF Spec
\* Over two objects or more every object's leaf has its box, and every node's box
\* encloses those below it: whatever was built, moved and updated before.
THEOREM TreeCovers == Spec => []TreeCoversObjects
<1>1. BVHInv => TreeCoversObjects
  <2>. SUFFICES ASSUME BVHInv, phase = "built", Len(objects) >= 2
                PROVE  /\ Len(leaves) = Len(objects)
                       /\ \A i \in DOMAIN objects : tree[LeafOf(i)].box = Box(objects[i].rect)
                       /\ \A k \in DOMAIN tree : \A j \in Below(k) : Encloses(tree[k].box, tree[j].box)
    BY DEF TreeCoversObjects
  <2>1. /\ TypeInv /\ LeavesRight(leaves, tree, objects) /\ Covers(tree, objects)
        /\ \A i \in DOMAIN objects : objects[i].entity \in updated
        /\ Refitted(leaves, tree, objects, updated)
    BY DEF BVHInv, BuiltInv, LeavesInv
  <2>2. Len(leaves) = Len(objects)
    <3>1. DOMAIN leaves = DOMAIN objects
      BY <2>1 DEF LeavesRight
    <3>. QED
      BY <2>1, <3>1 DEF TypeInv, ObjectsType
  <2>3. ASSUME NEW i \in DOMAIN objects PROVE tree[LeafOf(i)].box = Box(objects[i].rect)
    <3>1. PICK l \in DOMAIN objects : LeafOf(i) = leaves[l] /\ tree[leaves[l]].index = i
      BY <2>1, LeafOfFacts
    <3>2. RightBox(tree, objects, leaves[l])
      BY <2>1 DEF Refitted
    <3>. QED
      BY <3>1, <3>2 DEF RightBox
  <2>4. ASSUME NEW k \in DOMAIN tree, NEW j \in Below(k)
        PROVE  Encloses(tree[k].box, tree[j].box)
    <3>1. j \in DOMAIN tree /\ j \div 2 = k /\ k \in Nodes /\ j \in Nodes
      BY <2>1 DEF Below, TypeInv, TreeType
    <3>2. j # 1
      BY <3>1 DEF Nodes
    <3>. QED
      BY <2>1, <3>1, <3>2 DEF Covers
  <2>. QED
    BY <2>2, <2>3, <2>4
<1>. QED
  BY <1>1, BVHInvInductive, PTL DEF Spec

-----------------------------------------------------------------------------
(* findCollisions.                                                         *)

Pairs == (DOMAIN tree) \X (DOMAIN tree)

LEMMA PairsAre ==
  /\ \A a \in DOMAIN tree, b \in DOMAIN tree : <<a, b>> \in Pairs
  /\ \A p \in Pairs : p[1] \in DOMAIN tree /\ p[2] \in DOMAIN tree /\ p = <<p[1], p[2]>>
  /\ \A A, B : A \subseteq DOMAIN tree /\ B \subseteq DOMAIN tree => A \X B \subseteq Pairs
BY DEF Pairs

LEMMA PushedPairs ==
  ASSUME NEW p \in Pairs
  PROVE  Pushed(p) \subseteq Pairs
<1>1. p[1] \in DOMAIN tree /\ p[2] \in DOMAIN tree
  BY PairsAre
<1>. DEFINE a == p[1]
            b == p[2]
<1>. HIDE DEF a, b
<1>2. Children(a) \subseteq DOMAIN tree /\ Children(b) \subseteq DOMAIN tree
  BY DEF Children
<1>3. Descend(a, b) \subseteq Pairs
  <2>1. a \in DOMAIN tree /\ b \in DOMAIN tree
    BY <1>1 DEF a, b
  <2>2. {a} \X Children(a) \subseteq Pairs
    BY <1>2, <2>1, PairsAre
  <2>3. Children(b) \X {b} \subseteq Pairs
    BY <1>2, <2>1, PairsAre
  <2>4. Children(a) \X Children(b) \subseteq Pairs
    BY <1>2, PairsAre
  <2>. QED
    BY <2>2, <2>3, <2>4 DEF Descend
<1>. QED
  BY <1>3 DEF Pushed, a, b

\* What popping these pairs adds.
After(pairs) == UNION {{p} \cup Pushed(p) : p \in pairs}

\* The pairs popped after so many levels: from the root's on, each with those it
\* pushes, and none is left out in the end.
LEMMA PoppedFacts ==
  ASSUME 1 \in DOMAIN tree, DOMAIN tree \subseteq Nodes,
         NEW last, last = Cardinality(DOMAIN tree)
  PROVE  /\ last \in Nat
         /\ \E f : /\ f[0] = {<<1, 1>>}
                   /\ \A m \in 1 .. last : f[m] = After(f[m - 1])
                   /\ \A m \in 0 .. last : f[m] \subseteq Pairs /\ f[m] \subseteq Popped
                   /\ f[last] = Popped
<1>. DEFINE V == SUBSET Pairs
            step == [q \in Nat \X V |-> After(q[2])]
            prev == [m \in Nat |-> m - 1]
            IsPopped(f) == f = [m \in 0 .. last |-> IF m = 0 THEN {<<1, 1>>} ELSE After(f[m - 1])]
<1>1. last \in Nat
  <2>1. IsFiniteSet(Nodes)
    BY BVHAssumption, FS_Interval DEF Nodes
  <2>. QED
    BY <2>1, FS_Subset, FS_CardinalityType
<1>2. \A pairs \in V : After(pairs) \in V
  BY PushedPairs DEF After
<1>3. {<<1, 1>>} \in V /\ step \in [Nat \X V -> V]
  <2>1. {<<1, 1>>} \in V
    BY PairsAre
  <2>2. \A q \in Nat \X V : q[2] \in V
    OBVIOUS
  <2>. HIDE DEF V
  <2>. QED
    BY <1>2, <2>1, <2>2
<1>4. \A m \in Nat : m > 0 => prev[m] \in 0 .. m - 1
  OBVIOUS
<1>. HIDE DEF step, V, prev
<1>5. PICK f : IsRecursive(f, V, {<<1, 1>>}, step, prev, 0, 0 + last)
  BY <1>1, <1>3, <1>4, Recursion
<1>6. 0 .. 0 + last = 0 .. last
  BY <1>1
<1>7. f \in [0 .. last -> V] /\ f[0] = {<<1, 1>>}
  <2>1. 0 \in 0 .. last
    BY <1>1
  <2>. QED
    BY <1>5, <1>6, <2>1 DEF IsRecursive
<1>8. ASSUME NEW m \in 1 .. last PROVE f[m] = After(f[m - 1])
  <2>1. m \in 0 .. last /\ m # 0 /\ m - 1 \in 0 .. last /\ m \in Nat
    BY <1>1
  <2>2. prev[m] = m - 1 /\ f[m - 1] \in V
    BY <1>7, <2>1 DEF prev
  <2>3. f[m] = step[<<m, f[m - 1]>>]
    BY <1>5, <1>6, <2>1, <2>2 DEF IsRecursive
  <2>. QED
    BY <2>1, <2>2, <2>3 DEF step
<1>9. IsPopped(f)
  BY <1>7, <1>8
<1>. DEFINE F == CHOOSE g : IsPopped(g)
<1>10. Popped = F[last]
  BY DEF Popped, After
<1>11. IsPopped(F)
  BY <1>9
<1>. HIDE DEF F
<1>12. F[0] = {<<1, 1>>} /\ \A m \in 1 .. last : F[m] = After(F[m - 1])
  <2>1. 0 \in 0 .. last /\ \A m \in 1 .. last : m \in 0 .. last /\ m # 0
    BY <1>1
  <2>2. \A m \in 0 .. last : F[m] = IF m = 0 THEN {<<1, 1>>} ELSE After(F[m - 1])
    BY <1>11
  <2>. QED
    BY <2>1, <2>2
<1>. HIDE DEF IsPopped
<1>. DEFINE S == {m \in Nat : m <= last => F[m] \in V /\ F[last - m] \subseteq Popped}
<1>13. 0 \in S
  <2>1. F[0] \in V
    BY <1>3, <1>12
  <2>2. last - 0 = last
    BY <1>1
  <2>. QED
    BY <1>10, <2>1, <2>2
<1>14. ASSUME NEW m \in Nat, m \in S PROVE m + 1 \in S
  <2>. SUFFICES ASSUME m + 1 <= last
                PROVE  F[m + 1] \in V /\ F[last - (m + 1)] \subseteq Popped
    OBVIOUS
  <2>1. F[m] \in V /\ F[last - m] \subseteq Popped
    BY <1>1, <1>14
  <2>2. F[m + 1] = After(F[m])
    <3>1. m + 1 \in 1 .. last /\ (m + 1) - 1 = m
      BY <1>1
    <3>. QED
      BY <1>12, <3>1
  <2>3. F[last - m] = After(F[last - (m + 1)])
    <3>1. last - m \in 1 .. last /\ (last - m) - 1 = last - (m + 1)
      BY <1>1
    <3>. QED
      BY <1>12, <3>1
  <2>4. F[last - (m + 1)] \subseteq F[last - m]
    BY <2>3 DEF After
  <2>. QED
    BY <1>2, <2>1, <2>2, <2>4
<1>. HIDE DEF S
<1>15. Nat \subseteq S
  BY <1>13, <1>14, SetInduction
<1>16. ASSUME NEW m \in 0 .. last PROVE F[m] \subseteq Pairs /\ F[m] \subseteq Popped
  <2>1. m \in Nat /\ m <= last /\ last - m \in Nat /\ last - m <= last /\ last - (last - m) = m
    BY <1>1
  <2>2. m \in S /\ last - m \in S
    BY <1>15, <2>1
  <2>. QED
    BY <2>1, <2>2 DEF S, V
<1>. QED
  BY <1>1, <1>10, <1>12, <1>16

\* The leaves of two objects are met when they are popped and intersect.
Meets(p) ==
  /\ AreLeaves(p) /\ tree[p[1]].index # tree[p[2]].index
  /\ Intersects(tree[p[1]].box, tree[p[2]].box)

LEMMA SearchFacts ==
  /\ Search.met = {{tree[p[1]].index, tree[p[2]].index} : p \in {q \in Popped : Meets(q)}}
  /\ Search.endless <=> \E p \in Popped : p \in Pushed(p)
<1>1. Search = [met |-> {{tree[p[1]].index, tree[p[2]].index} : p \in {q \in Popped : Meets(q)}},
                endless |-> \E p \in Popped : p \in Pushed(p)]
  BY DEF Search, Meets
<1>. QED
  BY <1>1, Zenon
-----------------------------------------------------------------------------
(* What is met collides, and what collides on one level is met.            *)

LEMMA CollidingFacts ==
  ASSUME TypeInv, NEW pair
  PROVE  pair \in Colliding <=>
           \E i, j \in DOMAIN objects :
             /\ i # j /\ pair = {objects[i].entity, objects[j].entity}
             /\ Intersects(Box(objects[i].rect), Box(objects[j].rect))
<1>. DEFINE Collide(r, s) == Closer(r.x, s.x, r.h + s.h) /\ Closer(r.y, s.y, r.h + s.h)
            Both(i, j) == i # j /\ Collide(objects[i].rect, objects[j].rect)
            D == DOMAIN objects
<1>1. \A i, j \in D : Collide(objects[i].rect, objects[j].rect) <=>
                        Intersects(Box(objects[i].rect), Box(objects[j].rect))
  BY ObjectFacts, CollideIsIntersect DEF TypeInv
<1>2. Colliding = {{objects[p[1]].entity, objects[p[2]].entity} :
                     p \in {q \in D \X D : Both(q[1], q[2])}}
  BY DEF Colliding
<1>. HIDE DEF Collide, D
<1>3. ASSUME NEW i \in D, NEW j \in D, Both(i, j)
      PROVE  {objects[i].entity, objects[j].entity} \in Colliding
  <2>1. <<i, j>> \in {q \in D \X D : Both(q[1], q[2])}
    BY <1>3
  <2>. QED
    BY <1>2, <2>1
<1>4. ASSUME pair \in Colliding
      PROVE  \E i, j \in D : Both(i, j) /\ pair = {objects[i].entity, objects[j].entity}
  <2>1. PICK p \in D \X D : Both(p[1], p[2]) /\ pair = {objects[p[1]].entity, objects[p[2]].entity}
    BY <1>2, <1>4
  <2>. QED
    BY <2>1
<1>. QED
  BY <1>1, <1>3, <1>4 DEF D

LEMMA FindFacts ==
  ASSUME NEW pair
  PROVE  pair \in FindCollisions <=>
           \E p \in Popped : /\ Meets(p)
                             /\ pair = {EntityAt(tree[p[1]].index), EntityAt(tree[p[2]].index)}
<1>1. FindCollisions = {{EntityAt(index) : index \in met} : met \in Search.met}
  BY DEF FindCollisions
<1>2. \A x, y : {EntityAt(index) : index \in {x, y}} = {EntityAt(x), EntityAt(y)}
  OBVIOUS
<1>3. ASSUME pair \in FindCollisions
      PROVE  \E p \in Popped : /\ Meets(p)
                               /\ pair = {EntityAt(tree[p[1]].index), EntityAt(tree[p[2]].index)}
  <2>1. PICK met \in Search.met : pair = {EntityAt(index) : index \in met}
    BY <1>1, <1>3
  <2>2. PICK p \in Popped : Meets(p) /\ met = {tree[p[1]].index, tree[p[2]].index}
    BY <2>1, SearchFacts
  <2>. QED
    BY <1>2, <2>1, <2>2
<1>4. ASSUME NEW p \in Popped, Meets(p),
             pair = {EntityAt(tree[p[1]].index), EntityAt(tree[p[2]].index)}
      PROVE  pair \in FindCollisions
  <2>1. {tree[p[1]].index, tree[p[2]].index} \in Search.met
    BY <1>4, SearchFacts
  <2>. QED
    BY <1>1, <1>2, <1>4, <2>1
<1>. QED
  BY <1>3, <1>4

RightLeaves == \A k \in DOMAIN tree : tree[k].isLeaf => RightBox(tree, objects, k)

LEMMA PoppedPairs ==
  ASSUME TypeInv
  PROVE  Popped \subseteq Pairs
<1>1. PICK last : last = Cardinality(DOMAIN tree)
  OBVIOUS
<1>2. 1 \in DOMAIN tree /\ DOMAIN tree \subseteq Nodes
  BY DEF TypeInv, TreeType
<1>3. last \in Nat /\ \E f : /\ \A m \in 0 .. last : f[m] \subseteq Pairs
                             /\ f[last] = Popped
  BY <1>1, <1>2, PoppedFacts
<1>. QED
  BY <1>3

\* When every leaf has its object's box, what is reported collides.
LEMMA FoundCollide ==
  ASSUME TypeInv, RightLeaves
  PROVE  FindCollisions \subseteq Colliding
<1>1. ASSUME NEW pair \in FindCollisions PROVE pair \in Colliding
  <2>1. PICK p \in Popped : /\ Meets(p)
                            /\ pair = {EntityAt(tree[p[1]].index), EntityAt(tree[p[2]].index)}
    BY FindFacts
  <2>2. p[1] \in DOMAIN tree /\ p[2] \in DOMAIN tree
    BY PoppedPairs DEF Pairs
  <2>3. tree[p[1]].isLeaf /\ tree[p[2]].isLeaf
    BY <2>1 DEF Meets, AreLeaves
  <2>4. RightBox(tree, objects, p[1]) /\ RightBox(tree, objects, p[2])
    BY <2>2, <2>3 DEF RightLeaves
  <2>. DEFINE i == tree[p[1]].index
              j == tree[p[2]].index
  <2>5. /\ i \in DOMAIN objects /\ j \in DOMAIN objects /\ i # j
        /\ Intersects(Box(objects[i].rect), Box(objects[j].rect))
    BY <2>1, <2>4 DEF Meets, RightBox
  <2>6. pair = {objects[i].entity, objects[j].entity}
    BY <2>1, <2>5 DEF EntityAt
  <2>. HIDE DEF i, j
  <2>. QED
    BY <2>5, <2>6, CollidingFacts
<1>. QED
  BY <1>1

\* Leaves that are popped together are met when they intersect.
LEMMA PoppedFound ==
  ASSUME NEW a, NEW b, <<a, b>> \in Popped,
         tree[a].isLeaf, tree[b].isLeaf, tree[a].index \in DOMAIN objects,
         tree[b].index \in DOMAIN objects, tree[a].index # tree[b].index,
         Intersects(tree[a].box, tree[b].box)
  PROVE  {objects[tree[a].index].entity, objects[tree[b].index].entity} \in FindCollisions
<1>1. a # b
  OBVIOUS
<1>. DEFINE p == <<a, b>>
<1>2. p[1] = a /\ p[2] = b /\ p \in Popped
  OBVIOUS
<1>. HIDE DEF p
<1>3. Meets(p)
  BY <1>1, <1>2 DEF Meets, AreLeaves
<1>4. /\ EntityAt(tree[p[1]].index) = objects[tree[a].index].entity
      /\ EntityAt(tree[p[2]].index) = objects[tree[b].index].entity
  BY <1>2 DEF EntityAt
<1>. QED
  BY <1>2, <1>3, <1>4, FindFacts

\* No node is further down than there are nodes.
LEMMA LevelBound ==
  ASSUME TypeInv, Covers(tree, objects), NEW k \in DOMAIN tree
  PROVE  Level[k] + 1 <= Cardinality(DOMAIN tree)
<1>. DEFINE D == DOMAIN tree
            Upto(j) == {i \in D : i <= j}
            S == {m \in Nat : \A j \in D : j <= m => Level[j] + 1 <= Cardinality(Upto(j))}
<1>1. D \subseteq Nodes /\ 1 \in D /\ IsFiniteSet(D) /\ \A j \in D : j \in Nat /\ 1 <= j
  <2>1. IsFiniteSet(Nodes)
    BY BVHAssumption, FS_Interval DEF Nodes
  <2>2. D \subseteq Nodes /\ 1 \in D
    BY DEF TypeInv, TreeType
  <2>. HIDE DEF D
  <2>3. IsFiniteSet(D)
    BY <2>1, <2>2, FS_Subset
  <2>4. \A j \in D : j \in Nat /\ 1 <= j
    BY <2>2 DEF Nodes
  <2>. QED
    BY <2>2, <2>3, <2>4
<1>2. \A j \in D : j # 1 => j \div 2 \in D
  BY DEF Covers
<1>. HIDE DEF D
<1>3. \A j : IsFiniteSet(Upto(j)) /\ Cardinality(Upto(j)) \in Nat
  BY <1>1, FS_Subset, FS_CardinalityType
<1>4. 0 \in S
  BY <1>1
<1>5. ASSUME NEW m \in Nat, m \in S PROVE m + 1 \in S
  <2>1. ASSUME NEW j \in D, j <= m + 1 PROVE Level[j] + 1 <= Cardinality(Upto(j))
    <3>1. CASE j = 1
      <4>1. Level[j] = 0
        BY <1>1, <3>1, LevelFacts
      <4>2. Upto(j) # {}
        BY <1>1, <3>1
      <4>3. Cardinality(Upto(j)) # 0
        BY <1>3, <4>2, FS_EmptySet
      <4>. QED
        BY <1>3, <4>1, <4>3
    <3>2. CASE j # 1
      <4>. DEFINE up == j \div 2
      <4>1. up \in D /\ up < j /\ up <= m /\ j \in Nat /\ up \in Nat
        BY <1>1, <1>2, <2>1, <3>2
      <4>2. Level[j] = Level[up] + 1 /\ Level[up] \in Nat
        BY <1>1, <3>2, <4>1, LevelFacts
      <4>. HIDE DEF up
      <4>3. Level[up] + 1 <= Cardinality(Upto(up))
        BY <1>5, <4>1
      <4>4. Upto(up) \subseteq Upto(j) \ {j}
        <5>1. ASSUME NEW i \in D, i <= up PROVE i <= j /\ i # j
          BY <1>1, <4>1, <5>1
        <5>. QED
          BY <5>1
      <4>5. j \in Upto(j)
        BY <4>1
      <4>. HIDE DEF Upto
      <4>6. /\ IsFiniteSet(Upto(j) \ {j})
            /\ Cardinality(Upto(j) \ {j}) = Cardinality(Upto(j)) - 1
        BY <1>3, <4>5, FS_RemoveElement
      <4>7. Cardinality(Upto(up)) <= Cardinality(Upto(j) \ {j})
        BY <4>4, <4>6, FS_Subset
      <4>. QED
        BY <1>3, <4>2, <4>3, <4>6, <4>7
    <3>. QED
      BY <3>1, <3>2
  <2>. QED
    BY <2>1
<1>6. k \in Nat /\ k \in D
  BY <1>1 DEF D
<1>. HIDE DEF S
<1>7. k \in S
  BY <1>4, <1>5, <1>6, SetInduction
<1>8. Level[k] + 1 <= Cardinality(Upto(k))
  BY <1>6, <1>7 DEF S
<1>9. Cardinality(Upto(k)) <= Cardinality(D) /\ Cardinality(D) \in Nat
  BY <1>1, FS_Subset, FS_CardinalityType
<1>10. Level[k] \in Nat
  BY <1>1, <1>6, LevelFacts
<1>11. Level[k] + 1 <= Cardinality(D)
  <2>. DEFINE c == Cardinality(Upto(k))
  <2>1. c \in Nat
    BY <1>3
  <2>2. Level[k] + 1 <= c /\ c <= Cardinality(D)
    BY <1>8, <1>9
  <2>. HIDE DEF c
  <2>. QED
    BY <1>9, <1>10, <2>1, <2>2
<1>. QED
  BY <1>11 DEF D

\* What pairs push: with no leaf but below, all the pairs of their children.
LEMMA PushedBelow ==
  ASSUME NEW a, NEW b, ~tree[a].isLeaf, ~tree[b].isLeaf,
         Intersects(tree[a].box, tree[b].box), NEW c \in Children(a), NEW d \in Children(b)
  PROVE  <<c, d>> \in Pushed(<<a, b>>)
<1>. DEFINE p == <<a, b>>
<1>1. p[1] = a /\ p[2] = b
  OBVIOUS
<1>. HIDE DEF p
<1>2. ~AreLeaves(p)
  BY <1>1 DEF AreLeaves
<1>3. Pushed(p) = Descend(a, b)
  BY <1>1, <1>2 DEF Pushed
<1>4. Descend(a, b) = Children(a) \X Children(b)
  BY DEF Descend
<1>. QED
  BY <1>3, <1>4 DEF p

\* Two nodes on one level whose boxes intersect are popped together: so do those
\* above them, up to the root.
LEMMA SameLevelPopped ==
  ASSUME TypeInv, Covers(tree, objects), ~tree[1].isLeaf,
         NEW a \in DOMAIN tree, NEW b \in DOMAIN tree,
         Level[a] = Level[b], Intersects(tree[a].box, tree[b].box)
  PROVE  <<a, b>> \in Popped
<1>1. PICK last : last = Cardinality(DOMAIN tree)
  OBVIOUS
<1>2. 1 \in DOMAIN tree /\ DOMAIN tree \subseteq Nodes /\ tree \in [DOMAIN tree -> TreeNode]
  BY DEF TypeInv, TreeType
<1>3. last \in Nat
  BY <1>1, <1>2, PoppedFacts
<1>4. PICK f : /\ f[0] = {<<1, 1>>}
               /\ \A m \in 1 .. last : f[m] = After(f[m - 1])
               /\ \A m \in 0 .. last : f[m] \subseteq Pairs /\ f[m] \subseteq Popped
               /\ f[last] = Popped
  BY <1>1, <1>2, PoppedFacts
<1>. DEFINE S == {m \in Nat : m <= last =>
                    \A c, d \in DOMAIN tree :
                      Level[c] = m /\ Level[d] = m /\ Intersects(tree[c].box, tree[d].box)
                        => <<c, d>> \in f[m]}
<1>5. \A k \in DOMAIN tree : Level[k] \in Nat /\ (Level[k] = 0 => k = 1)
  <2>1. ASSUME NEW k \in DOMAIN tree PROVE Level[k] \in Nat /\ (Level[k] = 0 => k = 1)
    <3>1. k \in Nodes /\ Level[k] \in Nat
      BY <1>2, LevelFacts
    <3>2. k # 1 => Level[k] = Level[k \div 2] + 1 /\ Level[k \div 2] \in Nat
      BY <3>1, LevelFacts, HalvedFacts
    <3>. QED
      BY <3>1, <3>2
  <2>. QED
    BY <2>1
<1>6. 0 \in S
  BY <1>4, <1>5
\* The node above has no child that is a leaf's: it is no leaf.
<1>7. ASSUME NEW k \in DOMAIN tree, k # 1
      PROVE  /\ k \div 2 \in DOMAIN tree /\ ~tree[k \div 2].isLeaf
             /\ k \in Children(k \div 2) /\ Level[k] = Level[k \div 2] + 1
             /\ Encloses(tree[k \div 2].box, tree[k].box)
  <2>. DEFINE up == k \div 2
  <2>1. up \in DOMAIN tree /\ Encloses(tree[up].box, tree[k].box)
    BY <1>7 DEF Covers
  <2>2. k \in Nodes /\ Level[k] = Level[up] + 1 /\ (k = 2 * up \/ k = 2 * up + 1)
    <3>1. k \in Nodes /\ k \in Nat
      BY <1>2 DEF Nodes
    <3>. QED
      BY <1>7, <3>1, LevelFacts
  <2>. HIDE DEF up
  <2>3. ~tree[up].isLeaf
    <3>1. CASE up = 1
      BY <3>1
    <3>2. CASE up # 1
      BY <2>1, <2>2, <3>2 DEF Covers
    <3>. QED
      BY <3>1, <3>2
  <2>4. k \in Children(up)
    BY <2>2 DEF Children
  <2>. QED
    BY <2>1, <2>2, <2>3, <2>4 DEF up
<1>8. ASSUME NEW m \in Nat, m \in S PROVE m + 1 \in S
  <2>1. ASSUME m + 1 <= last, NEW c \in DOMAIN tree, NEW d \in DOMAIN tree,
               Level[c] = m + 1, Level[d] = m + 1, Intersects(tree[c].box, tree[d].box)
        PROVE  <<c, d>> \in f[m + 1]
    <3>. DEFINE u == c \div 2
                v == d \div 2
    <3>1. c # 1 /\ d # 1
      BY <1>2, <2>1, LevelFacts
    <3>2. /\ u \in DOMAIN tree /\ ~tree[u].isLeaf /\ c \in Children(u)
          /\ Level[c] = Level[u] + 1 /\ Encloses(tree[u].box, tree[c].box)
      BY <1>7, <3>1
    <3>3. /\ v \in DOMAIN tree /\ ~tree[v].isLeaf /\ d \in Children(v)
          /\ Level[d] = Level[v] + 1 /\ Encloses(tree[v].box, tree[d].box)
      BY <1>7, <3>1
    <3>. HIDE DEF u, v
    <3>4. \A k \in DOMAIN tree : tree[k].box \in BoxSpace
      BY <1>2 DEF TreeNode
    <3>5. Intersects(tree[u].box, tree[v].box)
      BY <2>1, <3>2, <3>3, <3>4, AroundIntersects
    <3>6. Level[u] = m /\ Level[v] = m /\ m <= last
      BY <1>3, <1>5, <2>1, <3>2, <3>3
    <3>7. <<u, v>> \in f[m]
      BY <1>8, <3>2, <3>3, <3>5, <3>6
    <3>8. <<c, d>> \in Pushed(<<u, v>>)
      BY <3>2, <3>3, <3>5, PushedBelow
    <3>9. f[m + 1] = After(f[m])
      <4>1. m + 1 \in 1 .. last /\ (m + 1) - 1 = m
        BY <1>3, <2>1
      <4>. QED
        BY <1>4, <4>1
    <3>. QED
      BY <3>7, <3>8, <3>9 DEF After
  <2>. QED
    BY <2>1
<1>. HIDE DEF S
<1>9. Level[a] \in S
  BY <1>5, <1>6, <1>8, SetInduction
<1>10. Level[a] \in Nat /\ Level[a] <= last
  BY <1>1, <1>3, <1>5, LevelBound
<1>11. <<a, b>> \in f[Level[a]]
  BY <1>9, <1>10 DEF S
<1>. QED
  BY <1>3, <1>4, <1>10, <1>11
\* The same two objects collide whichever is named first.
LEMMA CollidingTwo ==
  ASSUME TypeInv, NEW i \in DOMAIN objects, NEW j \in DOMAIN objects,
         {objects[i].entity, objects[j].entity} \in Colliding
  PROVE  i # j /\ Intersects(Box(objects[i].rect), Box(objects[j].rect))
<1>1. PICK x \in DOMAIN objects, y \in DOMAIN objects :
        /\ x # y /\ {objects[i].entity, objects[j].entity} = {objects[x].entity, objects[y].entity}
        /\ Intersects(Box(objects[x].rect), Box(objects[y].rect))
  BY CollidingFacts
<1>2. \A k, l \in DOMAIN objects : objects[k].entity = objects[l].entity => k = l
  BY DEF TypeInv, ObjectsType
<1>3. (i = x /\ j = y) \/ (i = y /\ j = x)
  BY <1>1, <1>2
<1>4. \A a, b : Intersects(a, b) => Intersects(b, a)
  BY DEF Intersects
<1>. QED
  BY <1>1, <1>3, <1>4

\* A pair without a leaf above anything is not pushed by itself.
LEMMA NeverPushedAgain ==
  ASSUME TypeInv, \A k \in DOMAIN tree : tree[k].isLeaf => Children(k) = {},
         NEW p \in Pairs
  PROVE  p \notin Pushed(p)
<1>1. PICK a \in DOMAIN tree, b \in DOMAIN tree : p = <<a, b>>
  BY DEF Pairs
<1>2. a \notin Children(a)
  BY DEF Children, TypeInv, TreeType, Nodes
<1>3. <<a, b>> \notin Descend(a, b)
  BY <1>2 DEF Descend
<1>4. p[1] = a /\ p[2] = b
  BY <1>1
<1>. QED
  BY <1>1, <1>3, <1>4 DEF Pushed

\* After build, unless an earlier one was over one object, what findCollisions
\* reports collides, what collides on one level is reported, and the search ends:
\* for any number of objects, wherever they stand.
THEOREM CollisionsAreReported == Spec => []CollisionsReported
<1>1. BVHInv => CollisionsReported
  <2>. SUFFICES ASSUME BVHInv, phase = "built", ~single, Len(objects) >= 2
                PROVE  /\ FindCollisions \subseteq Colliding
                       /\ \A i, j \in DOMAIN objects :
                            LET pair == {objects[i].entity, objects[j].entity} IN
                            Level[LeafOf(i)] = Level[LeafOf(j)] /\ pair \in Colliding
                              => pair \in FindCollisions
                       /\ ~Search.endless
    BY DEF CollisionsReported, Fresh
  <2>1. /\ TypeInv /\ ~tree[1].isLeaf
        /\ LeavesRight(leaves, tree, objects) /\ Covers(tree, objects)
    BY DEF BVHInv, BuiltInv, LeavesInv, RootInv
  <2>2. \A k \in DOMAIN tree : tree[k].isLeaf => RightBox(tree, objects, k) /\ Children(k) = {}
    BY <2>1 DEF Covers, Children
  <2>3. FindCollisions \subseteq Colliding
    BY <2>1, <2>2, FoundCollide DEF RightLeaves
  <2>4. ASSUME NEW i \in DOMAIN objects, NEW j \in DOMAIN objects,
               Level[LeafOf(i)] = Level[LeafOf(j)],
               {objects[i].entity, objects[j].entity} \in Colliding
        PROVE  {objects[i].entity, objects[j].entity} \in FindCollisions
    <3>. DEFINE a == LeafOf(i)
                b == LeafOf(j)
    <3>1. a \in DOMAIN tree /\ tree[a].isLeaf /\ tree[a].index = i
      BY <2>1, LeafOfFacts
    <3>2. b \in DOMAIN tree /\ tree[b].isLeaf /\ tree[b].index = j
      BY <2>1, LeafOfFacts
    <3>3. i # j /\ Intersects(Box(objects[i].rect), Box(objects[j].rect))
      BY <2>1, <2>4, CollidingTwo
    <3>. HIDE DEF a, b
    <3>4. tree[a].box = Box(objects[i].rect) /\ tree[b].box = Box(objects[j].rect)
      BY <2>2, <3>1, <3>2 DEF RightBox
    <3>5. Level[a] = Level[b]
      BY <2>4 DEF a, b
    <3>6. <<a, b>> \in Popped
      BY <2>1, <3>1, <3>2, <3>3, <3>4, <3>5, SameLevelPopped
    <3>. QED
      BY <3>1, <3>2, <3>3, <3>4, <3>6, PoppedFound
  <2>5. ~Search.endless
    BY <2>1, <2>2, PoppedPairs, NeverPushedAgain, SearchFacts
  <2>. QED
    BY <2>3, <2>4, <2>5
<1>. QED
  BY <1>1, BVHInvInductive, PTL DEF Spec

\* Two objects that moved, updated in any order: findCollisions is exact, whatever
\* boxes the root and the leaves had before.
THEOREM UpdatesAreEnough == Spec => []UpdatingBothIsExact
<1>1. BVHInv => UpdatingBothIsExact
  <2>. SUFFICES ASSUME BVHInv, phase # "set", ~single, Len(objects) = 2,
                       updated = {objects[1].entity, objects[2].entity}
                PROVE  FindCollisions = Colliding
    BY DEF UpdatingBothIsExact
  <2>1. /\ TypeInv /\ ~tree[1].isLeaf
        /\ LeavesRight(leaves, tree, objects) /\ TwoLeaves(leaves, tree)
        /\ Refitted(leaves, tree, objects, updated)
    BY DEF BVHInv, LeavesInv, RootInv
  <2>2. DOMAIN objects = {1, 2}
    BY <2>1, ObjectFacts DEF TypeInv
  <2>3. /\ DOMAIN tree = {1, 2, 3} /\ {leaves[1], leaves[2]} = {2, 3}
        /\ {tree[2].index, tree[3].index} = {1, 2} /\ Proper(tree[1].box)
    BY <2>1 DEF TwoLeaves
  <2>4. ASSUME NEW k \in {2, 3} PROVE tree[k].isLeaf /\ RightBox(tree, objects, k)
    <3>1. PICK l \in {1, 2} : k = leaves[l]
      BY <2>3
    <3>. QED
      BY <2>1, <2>2, <3>1 DEF LeavesRight, Refitted
  <2>5. FindCollisions \subseteq Colliding
    BY <2>1, <2>3, <2>4, FoundCollide DEF RightLeaves
  <2>6. <<2, 3>> \in Popped
    <3>1. PICK last : last = Cardinality(DOMAIN tree)
      OBVIOUS
    <3>2. 1 \in DOMAIN tree /\ DOMAIN tree \subseteq Nodes
      BY <2>1 DEF TypeInv, TreeType
    <3>3. last \in Nat
      BY <3>1, <3>2, PoppedFacts
    <3>4. PICK f : /\ f[0] = {<<1, 1>>}
                   /\ \A m \in 1 .. last : f[m] = After(f[m - 1])
                   /\ \A m \in 0 .. last : f[m] \subseteq Popped
      BY <3>1, <3>2, PoppedFacts
    <3>5. 1 <= last
      <4>1. IsFiniteSet(Nodes)
        BY BVHAssumption, FS_Interval DEF Nodes
      <4>2. last # 0
        BY <3>1, <3>2, <4>1, FS_Subset, FS_EmptySet
      <4>. QED
        BY <3>3, <4>2
    <3>6. Intersects(tree[1].box, tree[1].box)
      BY <2>3 DEF Intersects, Proper
    <3>7. 2 \in Children(1) /\ 3 \in Children(1)
      BY <2>3 DEF Children
    <3>8. <<2, 3>> \in Pushed(<<1, 1>>)
      BY <2>1, <3>6, <3>7, PushedBelow
    <3>9. f[1] = After({<<1, 1>>})
      <4>1. 1 \in 1 .. last /\ 1 - 1 = 0
        BY <3>3, <3>5
      <4>. QED
        BY <3>4, <4>1
    <3>10. <<2, 3>> \in f[1]
      BY <3>8, <3>9 DEF After
    <3>11. 1 \in 0 .. last
      BY <3>3, <3>5
    <3>. QED
      BY <3>4, <3>10, <3>11
  <2>7. ASSUME NEW pair \in Colliding PROVE pair \in FindCollisions
    <3>. DEFINE x == tree[2].index
                y == tree[3].index
    <3>1. x \in DOMAIN objects /\ y \in DOMAIN objects /\ x # y
      BY <2>2, <2>3
    <3>2. PICK i \in DOMAIN objects, j \in DOMAIN objects :
            i # j /\ pair = {objects[i].entity, objects[j].entity}
      BY <2>1, CollidingFacts
    <3>3. (i = x /\ j = y) \/ (i = y /\ j = x)
      BY <2>2, <3>1, <3>2
    <3>4. pair = {objects[x].entity, objects[y].entity}
      BY <3>2, <3>3
    <3>5. Intersects(Box(objects[x].rect), Box(objects[y].rect))
      BY <2>1, <2>7, <3>1, <3>4, CollidingTwo
    <3>6. /\ tree[2].isLeaf /\ tree[2].box = Box(objects[x].rect)
          /\ tree[3].isLeaf /\ tree[3].box = Box(objects[y].rect)
      BY <2>4 DEF RightBox
    <3>. QED
      BY <2>6, <3>1, <3>4, <3>5, <3>6, PoppedFound
  <2>. QED
    BY <2>5, <2>7
<1>. QED
  BY <1>1, BVHInvInductive, PTL DEF Spec

-----------------------------------------------------------------------------
(* Any tree that builds over any objects may leave, boxes and stale nodes  *)
(* aside, and what a search of it meets: for those who own such a tree.    *)

\* A node without children is a leaf, but for the root perhaps; leaves have the
\* indices of objects, a root that is one the first.
IsShape(nodes) ==
  /\ 1 \in DOMAIN nodes /\ DOMAIN nodes \subseteq Nodes
  /\ \A k \in DOMAIN nodes : {"isLeaf", "index"} \subseteq DOMAIN nodes[k]
  /\ \A k \in DOMAIN nodes \ {1} :
       /\ nodes[k].isLeaf \/ 2 * k \in DOMAIN nodes
       /\ nodes[k].isLeaf => nodes[k].index \in 1 .. MaxObjects
  /\ nodes[1].isLeaf => nodes[1].index = 1

\* Build keeps the shape.  It makes a leaf of the root, or leaves no index behind
\* the end.
LEMMA BuildKeepsShape ==
  ASSUME IsShape(tree), NEW n, n = Len(objects), n \in Nat, 1 <= n, n <= MaxObjects,
         NEW order \in [1 .. n -> 1 .. n], NEW new, new = NewTree(order),
         NEW nodes, nodes = Rooted(new)
  PROVE  /\ IsShape(nodes)
         /\ \/ nodes[1].isLeaf
            \/ \A k \in DOMAIN nodes \ {1} : nodes[k].isLeaf => nodes[k].index \in 1 .. n
<1>1. n \in Nat /\ 1 <= n /\ n <= MaxObjects /\ Len(objects) = n
  OBVIOUS
<1>2. /\ DOMAIN new = SpanNodes(n)
      /\ \A k \in SpanNodes(n) :
           /\ new[k] = [box    |-> Boxes(Spans(n), order)[k],
                        isLeaf |-> new[k].isLeaf,
                        index  |-> new[k].index]
           /\ new[k].isLeaf \in BOOLEAN /\ (new[k].isLeaf <=> IsOneObject(Spans(n)[k]))
           /\ new[k].index \in 0 .. n
           /\ \A i \in 1 .. n : Spans(n)[k] = <<i, i>> => new[k].index = order[i]
  BY <1>1, NewTreeShape
<1>3. ASSUME NEW k \in DOMAIN new
      PROVE  /\ {"isLeaf", "index"} \subseteq DOMAIN new[k]
             /\ new[k].isLeaf => new[k].index \in 1 .. n
             /\ ~new[k].isLeaf => 2 * k \in DOMAIN new
  <2>1. IsOneObject(Spans(n)[k]) => \E i \in 1 .. n : Spans(n)[k] = <<i, i>>
    BY <1>2, SpanTree
  <2>2. new[k].isLeaf => new[k].index \in 1 .. n
    BY <1>2, <2>1
  <2>3. ~new[k].isLeaf => 2 * k \in DOMAIN new
    BY <1>2, SpanTree
  <2>4. {"isLeaf", "index"} \subseteq DOMAIN new[k]
    <3>1. new[k] = [box    |-> Boxes(Spans(n), order)[k],
                    isLeaf |-> new[k].isLeaf,
                    index  |-> new[k].index]
      BY <1>2
    <3>2. DOMAIN [box |-> Boxes(Spans(n), order)[k], isLeaf |-> new[k].isLeaf, index |-> new[k].index]
            = {"box", "isLeaf", "index"}
      OBVIOUS
    <3>. QED
      BY <3>1, <3>2
  <2>. QED
    BY <2>2, <2>3, <2>4
<1>4. 1 \in DOMAIN new /\ DOMAIN new \subseteq Nodes /\ (DOMAIN new = {1} => n = 1)
  BY <1>2, SpanTree DEF SpanNodes
<1>5. CASE DOMAIN new = {1}
  <2>1. nodes = [k \in DOMAIN tree |-> IF k = 1 THEN new[1] ELSE tree[k]]
    BY <1>5 DEF Rooted
  <2>2. DOMAIN nodes = DOMAIN tree /\ nodes[1] = new[1] /\ \A k \in DOMAIN tree : k # 1 => nodes[k] = tree[k]
    BY <2>1 DEF IsShape
  <2>3. new[1].isLeaf /\ new[1].index = 1
    <3>0. n = 1
      BY <1>4, <1>5, Zenon
    <3>1. 1 \in DOMAIN new /\ 2 * 1 \notin DOMAIN new
      BY <1>5
    <3>2. new[1].isLeaf /\ new[1].index \in 1 .. n
      BY <1>3, <3>1, Zenon
    <3>. QED
      BY <3>0, <3>2
  <2>. QED
    BY <1>3, <1>4, <2>2, <2>3 DEF IsShape
<1>6. CASE DOMAIN new # {1}
  <2>. DEFINE root == [tree[1] EXCEPT !.box = new[1].box]
  <2>1. nodes = [new EXCEPT ![1] = root]
    BY <1>6 DEF Rooted
  <2>2. DOMAIN root = DOMAIN tree[1] /\ root.isLeaf = tree[1].isLeaf /\ root.index = tree[1].index
    BY DEF IsShape
  <2>. HIDE DEF root
  <2>3. DOMAIN nodes = DOMAIN new /\ nodes[1] = root /\ \A k \in DOMAIN new : k # 1 => nodes[k] = new[k]
    BY <1>2, <1>4, <2>1
  <2>4. 1 .. n \subseteq 1 .. MaxObjects
    BY BVHAssumption
  <2>. QED
    BY <1>3, <1>4, <2>2, <2>3, <2>4 DEF IsShape
<1>. QED
  BY <1>5, <1>6

\* A search pops pairs of nodes only, and under a root that is a leaf only pairs
\* with the root.
LEMMA ShapePopped ==
  ASSUME IsShape(tree)
  PROVE  /\ Popped \subseteq Pairs
         /\ tree[1].isLeaf => \A p \in Popped : p[1] = 1
<1>1. PICK last : last = Cardinality(DOMAIN tree)
  OBVIOUS
<1>2. 1 \in DOMAIN tree /\ DOMAIN tree \subseteq Nodes
  BY DEF IsShape
<1>3. last \in Nat
  BY <1>1, <1>2, PoppedFacts
<1>4. PICK f : /\ f[0] = {<<1, 1>>}
               /\ \A m \in 1 .. last : f[m] = After(f[m - 1])
               /\ \A m \in 0 .. last : f[m] \subseteq Pairs
               /\ f[last] = Popped
  BY <1>1, <1>2, PoppedFacts
<1>5. Popped \subseteq Pairs
  BY <1>3, <1>4
<1>6. ASSUME tree[1].isLeaf PROVE \A p \in Popped : p[1] = 1
  <2>. DEFINE S == {m \in Nat : m <= last => \A p \in f[m] : p[1] = 1}
  <2>1. 0 \in S
    BY <1>4
  <2>2. ASSUME NEW p, p[1] = 1, NEW q \in Pushed(p) PROVE q[1] = 1
    <3>1. q \in Descend(1, p[2])
      BY <2>2 DEF Pushed
    <3>2. q \in {1} \X Children(1)
      BY <1>6, <3>1 DEF Descend
    <3>. QED
      BY <3>2
  <2>3. ASSUME NEW m \in Nat, m \in S PROVE m + 1 \in S
    <3>. SUFFICES ASSUME m + 1 <= last, NEW q \in f[m + 1] PROVE q[1] = 1
      OBVIOUS
    <3>1. f[m + 1] = After(f[m])
      <4>1. m + 1 \in 1 .. last /\ (m + 1) - 1 = m
        BY <1>3
      <4>. QED
        BY <1>4, <4>1
    <3>2. \A p \in f[m] : p[1] = 1
      BY <1>3, <2>3
    <3>. QED
      BY <2>2, <3>1, <3>2 DEF After
  <2>. HIDE DEF S
  <2>4. last \in S
    BY <1>3, <2>1, <2>3, SetInduction
  <2>. QED
    BY <1>3, <1>4, <2>4 DEF S
<1>. QED
  BY <1>5, <1>6

\* What is met are two indices of leaves, one of them the root's if that is a
\* leaf; and a search without end needs more than a root and its children.
SearchBounded ==
  /\ \A pair \in Search.met : \E i \in 1 .. MaxObjects, j \in 1 .. MaxObjects : i # j /\ pair = {i, j}
  /\ tree[1].isLeaf => \A pair \in Search.met : 1 \in pair
  /\ \A n \in Nat :
       ~tree[1].isLeaf /\ (\A k \in DOMAIN tree \ {1} : tree[k].isLeaf => tree[k].index \in 1 .. n)
         => \A pair \in Search.met : pair \subseteq 1 .. n
  /\ Search.endless => \E node \in DOMAIN tree : node > 3

LEMMA ShapeBoundsSearch == MaxObjects # 0 /\ IsShape(tree) => SearchBounded
<1>. SUFFICES ASSUME MaxObjects # 0, IsShape(tree) PROVE SearchBounded
  OBVIOUS
<1>0. /\ \A k \in DOMAIN tree \ {1} : tree[k].isLeaf \/ 2 * k \in DOMAIN tree
      /\ \A k \in DOMAIN tree : tree[k].isLeaf => tree[k].index \in 1 .. MaxObjects
      /\ tree[1].isLeaf => tree[1].index = 1
      /\ 1 \in DOMAIN tree /\ DOMAIN tree \subseteq Nodes
  <2>1. 1 \in 1 .. MaxObjects
    BY BVHAssumption
  <2>. QED
    BY <2>1 DEF IsShape
<1>1. ASSUME NEW pair \in Search.met
      PROVE  \E p \in Popped : /\ tree[p[1]].isLeaf /\ tree[p[2]].isLeaf
                               /\ p[1] \in DOMAIN tree /\ p[2] \in DOMAIN tree
                               /\ tree[p[1]].index # tree[p[2]].index
                               /\ pair = {tree[p[1]].index, tree[p[2]].index}
  <2>1. PICK p \in Popped : Meets(p) /\ pair = {tree[p[1]].index, tree[p[2]].index}
    BY SearchFacts
  <2>2. p[1] \in DOMAIN tree /\ p[2] \in DOMAIN tree
    BY ShapePopped, PairsAre
  <2>. QED
    BY <2>1, <2>2 DEF Meets, AreLeaves
<1>2. ASSUME Search.endless PROVE \E node \in DOMAIN tree : node > 3
  <2>1. PICK p \in Popped : p \in Pushed(p)
    BY <1>2, SearchFacts
  <2>2. PICK a \in DOMAIN tree, b \in DOMAIN tree : p = <<a, b>>
    BY ShapePopped DEF Pairs
  <2>3. p[1] = a /\ p[2] = b /\ a \in Nat /\ b \in Nat /\ a >= 1 /\ b >= 1
    BY <1>0, <2>2 DEF Nodes
  <2>4. <<a, b>> \in Descend(a, b) /\ ~(tree[a].isLeaf /\ tree[b].isLeaf /\ a # b)
    BY <2>1, <2>2, <2>3 DEF Pushed, AreLeaves
  <2>5. a \notin Children(a)
    BY <2>3 DEF Children
  <2>6. CASE tree[a].isLeaf
    <3>1. b \in Children(a)
      BY <2>4, <2>6 DEF Descend
    <3>2. b # a /\ b > 1
      BY <2>3, <3>1 DEF Children
    <3>3. 2 * b \in DOMAIN tree
      BY <1>0, <2>4, <2>6, <3>2
    <3>. QED
      BY <2>3, <3>2, <3>3
  <2>7. CASE ~tree[a].isLeaf
    <3>1. tree[b].isLeaf /\ a \in Children(b)
      BY <2>4, <2>5, <2>7 DEF Descend
    <3>2. a > 1
      BY <2>3, <3>1 DEF Children
    <3>3. 2 * a \in DOMAIN tree
      BY <1>0, <2>7, <3>2
    <3>. QED
      BY <2>3, <3>2, <3>3
  <2>. QED
    BY <2>6, <2>7
<1>3. ASSUME NEW pair \in Search.met
      PROVE  \E i \in 1 .. MaxObjects, j \in 1 .. MaxObjects : i # j /\ pair = {i, j}
  BY <1>0, <1>1
<1>4. ASSUME tree[1].isLeaf, NEW pair \in Search.met PROVE 1 \in pair
  <2>1. PICK p \in Popped : pair = {tree[p[1]].index, tree[p[2]].index}
    BY <1>1
  <2>2. p[1] = 1
    BY <1>4, ShapePopped
  <2>. QED
    BY <1>0, <1>4, <2>1, <2>2
<1>5. ASSUME NEW n \in Nat, ~tree[1].isLeaf,
             \A k \in DOMAIN tree \ {1} : tree[k].isLeaf => tree[k].index \in 1 .. n,
             NEW pair \in Search.met
      PROVE  pair \subseteq 1 .. n
  <2>1. PICK p \in Popped : /\ tree[p[1]].isLeaf /\ tree[p[2]].isLeaf
                            /\ p[1] \in DOMAIN tree /\ p[2] \in DOMAIN tree
                            /\ pair = {tree[p[1]].index, tree[p[2]].index}
    BY <1>1
  <2>2. p[1] # 1 /\ p[2] # 1
    BY <1>5, <2>1
  <2>. QED
    BY <1>5, <2>1, <2>2
<1>. QED
  BY <1>2, <1>3, <1>4, <1>5 DEF SearchBounded
=============================================================================
