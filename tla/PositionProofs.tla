--------------------------- MODULE PositionProofs ---------------------------
(***************************************************************************)
(* What PositionSnapshots guarantees for every set of securities, owners   *)
(* and accounts, for every number of ledger facts, fills, corrections and  *)
(* snapshots, and whatever the feed gets wrong: what is published rests on *)
(* established facts, the reconciled books of one cutoff are one book, and *)
(* a true snapshot reconciles.                                             *)
(***************************************************************************)
EXTENDS PositionSnapshots, FiniteSetTheorems, WellFoundedInduction, TLAPS

-----------------------------------------------------------------------------
(* Sums.  The community modules add a function's values up along a choice  *)
(* of elements; that the order does not matter is shown by smallest        *)
(* counterexample.                                                         *)

\* A set of numbers has a smallest member.
LEMMA SmallestIsThere ==
    ASSUME NEW S, S \subseteq Nat, S # {}
    PROVE  \E x \in S : \A y \in S : x <= y
<1>1. PICK x \in S : \A y \in S : ~(<<y, x>> \in OpToRel(<, Nat))
  BY NatLessThanWellFounded, WFMin, Zenon
<1>2. \A y \in S : x <= y
  <2> TAKE y \in S
  <2>1. ~(y < x)
    BY <1>1 DEF OpToRel
  <2> QED
    BY <2>1
<1> QED
  BY <1>2

\* Of the finite subsets with a property one is smallest.
LEMMA SmallestSubset ==
    ASSUME NEW D, IsFiniteSet(D), NEW B, B \subseteq SUBSET D, B # {}
    PROVE  \E s \in B : \A t \in B : ~(t \subseteq s /\ t # s)
<1>1. \A s \in SUBSET D : IsFiniteSet(s) /\ Cardinality(s) \in Nat
  BY FS_Subset, FS_CardinalityType
<1>2. PICK N : N = {Cardinality(s) : s \in B}
  OBVIOUS
<1>3. N \subseteq Nat /\ N # {}
  BY <1>1, <1>2
<1>4. PICK n \in N : \A m \in N : n <= m
  BY <1>3, SmallestIsThere
<1>5. PICK s \in B : n = Cardinality(s)
  BY <1>2, <1>4
<1>6. ASSUME NEW t \in B, t \subseteq s, t # s PROVE FALSE
  <2>0. IsFiniteSet(s) /\ t \in SUBSET s
    BY <1>1, <1>6
  <2>1. Cardinality(t) <= Cardinality(s) /\ Cardinality(s) # Cardinality(t)
    BY ONLY <1>6, <2>0, FS_Subset
  <2>2. n <= Cardinality(t)
    BY <1>2, <1>4, <1>6
  <2> QED
    BY <1>1, <1>5, <1>6, <2>1, <2>2
<1> QED
  BY <1>6

Pick(s) == CHOOSE x \in s : TRUE
Body(g, S, h) == [s \in SUBSET S |-> IF s = {} THEN 0 ELSE g[Pick(s)] + h[s \ {Pick(s)}]]
Adds(g, S, h) == h = Body(g, S, h)
SumTo(g, S) == (CHOOSE h : Adds(g, S, h))[S]

\* A sum is a value of a function that adds one element after the other.
LEMMA SumIsSumTo == ASSUME NEW g PROVE SumFunction(g) = SumTo(g, DOMAIN g)
BY DEF SumFunction, SumFunctionOnSet, FoldFunctionOnSet, MapThenFoldSet, SumTo, Adds, Body, Pick

LEMMA Picked == ASSUME NEW s, s # {} PROVE Pick(s) \in s
BY DEF Pick

\* There is one such function at most.
LEMMA AddsOnce ==
    ASSUME NEW D, IsFiniteSet(D), NEW g, NEW f, NEW h, NEW k, Adds(f, D, h), Adds(g, D, k),
           \A x \in D : f[x] = g[x]
    PROVE  h = k
<1>1. h = Body(f, D, h) /\ k = Body(g, D, k)
  BY DEF Adds
<1>2. PICK B : B = {s \in SUBSET D : h[s] # k[s]}
  OBVIOUS
<1>3. SUFFICES ASSUME B # {} PROVE FALSE
  <2>1. ASSUME B = {} PROVE h = k
    <3>1. \A s \in SUBSET D : h[s] = k[s]
      BY <1>2, <2>1
    <3>2. DOMAIN h = SUBSET D /\ DOMAIN k = SUBSET D /\ h = [s \in SUBSET D |-> h[s]]
          /\ k = [s \in SUBSET D |-> k[s]]
      BY <1>1 DEF Body
    <3> QED
      BY <3>1, <3>2
  <2> QED
    BY <2>1
<1>4. PICK s \in B : \A t \in B : ~(t \subseteq s /\ t # s)
  BY <1>2, <1>3, SmallestSubset
<1>5. s \in SUBSET D /\ h[s] # k[s]
  BY <1>2
<1>6. h[s] = (IF s = {} THEN 0 ELSE f[Pick(s)] + h[s \ {Pick(s)}])
      /\ k[s] = (IF s = {} THEN 0 ELSE g[Pick(s)] + k[s \ {Pick(s)}])
  BY <1>1, <1>5 DEF Body
<1>7. s # {}
  BY <1>5, <1>6
<1>8. PICK t : t = s \ {Pick(s)}
  OBVIOUS
<1>9. Pick(s) \in s /\ t \subseteq s /\ t # s /\ t \in SUBSET D
  BY <1>5, <1>7, <1>8, Picked
<1>10. h[t] = k[t]
  BY <1>2, <1>4, <1>9
<1>11. f[Pick(s)] = g[Pick(s)]
  BY <1>5, <1>9
<1> QED
  BY <1>5, <1>6, <1>7, <1>8, <1>10, <1>11

\* There is one such function at least.
LEMMA AddsAtAll ==
    ASSUME NEW D, IsFiniteSet(D), NEW g
    PROVE  \E h : Adds(g, D, h)
<1>1. PICK B : B = {s \in SUBSET D : ~\E h : Adds(g, s, h)}
  OBVIOUS
<1>2. SUFFICES ASSUME B # {} PROVE FALSE
  BY <1>1
<1>0. B \subseteq SUBSET D
  BY <1>1
<1>3. PICK s \in B : \A t \in B : ~(t \subseteq s /\ t # s)
  BY ONLY <1>0, <1>2, IsFiniteSet(D), SmallestSubset
<1>4. s \in SUBSET D /\ ~\E h : Adds(g, s, h)
  BY <1>1
<1>5. \A t \in SUBSET s : t # s => Adds(g, t, CHOOSE h : Adds(g, t, h))
  BY <1>1, <1>3, <1>4
<1>6. PICK V : V = [t \in SUBSET s |-> SumTo(g, t)]
  OBVIOUS
<1>7. PICK h : h = Body(g, s, V)
  OBVIOUS
<1>8. \A t \in SUBSET s : t # s => h[t] = V[t]
  <2> SUFFICES ASSUME NEW t \in SUBSET s, t # s
               PROVE  h[t] = V[t]
    OBVIOUS
  <2>1. PICK k : k = CHOOSE x : Adds(g, t, x)
    OBVIOUS
  <2>2. Adds(g, t, k) /\ V[t] = k[t]
    BY <1>5, <1>6, <2>1 DEF SumTo
  <2>3. h[t] = (IF t = {} THEN 0 ELSE g[Pick(t)] + V[t \ {Pick(t)}])
    BY <1>7 DEF Body
  <2>4. k[t] = (IF t = {} THEN 0 ELSE g[Pick(t)] + k[t \ {Pick(t)}])
    BY <2>2 DEF Adds, Body
  <2>5. CASE t = {}
    BY <2>2, <2>3, <2>4, <2>5
  <2>6. CASE t # {}
    <3>1. PICK u : u = t \ {Pick(t)}
      OBVIOUS
    <3>2. u \in SUBSET t /\ u \in SUBSET s /\ u # s /\ u # t
      BY <2>6, <3>1, Picked
    <3>3. PICK m : m = CHOOSE x : Adds(g, u, x)
      OBVIOUS
    <3>4. Adds(g, u, m) /\ V[u] = m[u]
      BY <1>5, <1>6, <3>2, <3>3 DEF SumTo
    <3>5. PICK n : n = [x \in SUBSET u |-> k[x]]
      OBVIOUS
    <3>6. Adds(g, u, n)
      <4>1. k = Body(g, t, k)
        BY <2>2 DEF Adds
      <4>2. \A x \in SUBSET u : x \in SUBSET t /\ x \ {Pick(x)} \in SUBSET u
        BY <3>2
      <4>3. \A x \in SUBSET u : k[x] = IF x = {} THEN 0 ELSE g[Pick(x)] + k[x \ {Pick(x)}]
        BY <4>1, <4>2 DEF Body
      <4>4. \A x \in SUBSET u : n[x] = IF x = {} THEN 0 ELSE g[Pick(x)] + n[x \ {Pick(x)}]
        BY <3>5, <4>2, <4>3
      <4>5. n = [x \in SUBSET u |-> n[x]]
        BY <3>5
      <4> QED
        BY <4>4, <4>5 DEF Adds, Body
    <3>7. IsFiniteSet(u)
      BY <1>4, <3>2, FS_Subset
    <3>8. m = n
      BY <3>4, <3>6, <3>7, AddsOnce
    <3> QED
      BY <2>2, <2>3, <2>4, <2>6, <3>1, <3>4, <3>5, <3>8
  <2> QED
    BY <2>5, <2>6
<1>9. Adds(g, s, h)
  <2>1. \A t \in SUBSET s : h[t] = IF t = {} THEN 0 ELSE g[Pick(t)] + h[t \ {Pick(t)}]
    <3> SUFFICES ASSUME NEW t \in SUBSET s
                 PROVE  h[t] = IF t = {} THEN 0 ELSE g[Pick(t)] + h[t \ {Pick(t)}]
      OBVIOUS
    <3>1. h[t] = IF t = {} THEN 0 ELSE g[Pick(t)] + V[t \ {Pick(t)}]
      BY <1>7 DEF Body
    <3>2. ASSUME t # {} PROVE h[t \ {Pick(t)}] = V[t \ {Pick(t)}]
      <4>1. PICK u : u = t \ {Pick(t)}
        OBVIOUS
      <4>2. u \in SUBSET s /\ u # s
        BY <3>2, <4>1, Picked
      <4> QED
        BY <1>8, <4>1, <4>2
    <3> QED
      BY <3>1, <3>2
  <2>2. h = [t \in SUBSET s |-> h[t]]
    BY <1>7 DEF Body
  <2> QED
    BY <2>1, <2>2 DEF Adds, Body
<1> QED
  BY <1>4, <1>9

\* Sums along the choice: nothing adds up to zero, and the chosen element
\* comes on top of the rest.
LEMMA SumAlong ==
    ASSUME NEW D, IsFiniteSet(D), NEW g
    PROVE  SumTo(g, D) = IF D = {} THEN 0 ELSE g[Pick(D)] + SumTo(g, D \ {Pick(D)})
<1>1. PICK k : k = CHOOSE x : Adds(g, D, x)
  OBVIOUS
<1>2. Adds(g, D, k) /\ SumTo(g, D) = k[D]
  BY <1>1, AddsAtAll DEF SumTo
<1>3. k[D] = IF D = {} THEN 0 ELSE g[Pick(D)] + k[D \ {Pick(D)}]
  BY <1>2 DEF Adds, Body
<1>4. ASSUME D # {} PROVE k[D \ {Pick(D)}] = SumTo(g, D \ {Pick(D)})
  <2>1. PICK u : u = D \ {Pick(D)}
    OBVIOUS
  <2>2. u \in SUBSET D /\ IsFiniteSet(u)
    BY <2>1, FS_Subset
  <2>3. PICK m : m = CHOOSE x : Adds(g, u, x)
    OBVIOUS
  <2>4. Adds(g, u, m) /\ SumTo(g, u) = m[u]
    BY <2>2, <2>3, AddsAtAll DEF SumTo
  <2>5. PICK n : n = [x \in SUBSET u |-> k[x]]
    OBVIOUS
  <2>6. Adds(g, u, n)
    <3>1. k = Body(g, D, k)
      BY <1>2 DEF Adds
    <3>2. \A x \in SUBSET u : x \in SUBSET D /\ x \ {Pick(x)} \in SUBSET u
      BY <2>2
    <3>3. \A x \in SUBSET u : k[x] = IF x = {} THEN 0 ELSE g[Pick(x)] + k[x \ {Pick(x)}]
      BY <3>1, <3>2 DEF Body
    <3>4. \A x \in SUBSET u : n[x] = IF x = {} THEN 0 ELSE g[Pick(x)] + n[x \ {Pick(x)}]
      BY <2>5, <3>2, <3>3
    <3>5. n = [x \in SUBSET u |-> n[x]]
      BY <2>5
    <3> QED
      BY <3>4, <3>5 DEF Adds, Body
  <2>7. m = n
    BY <2>2, <2>4, <2>6, AddsOnce
  <2> QED
    BY <2>1, <2>4, <2>5, <2>7
<1> QED
  BY <1>2, <1>3, <1>4

\* Sums of equal functions are equal.
LEMMA SumSame ==
    ASSUME NEW D, IsFiniteSet(D), NEW f, NEW g, \A x \in D : f[x] = g[x]
    PROVE  SumTo(f, D) = SumTo(g, D)
<1>1. PICK h : h = CHOOSE x : Adds(f, D, x)
  OBVIOUS
<1>2. PICK k : k = CHOOSE x : Adds(g, D, x)
  OBVIOUS
<1>3. Adds(f, D, h) /\ Adds(g, D, k)
  BY <1>1, <1>2, AddsAtAll
<1>4. h = k
  BY <1>3, AddsOnce
<1> QED
  BY <1>1, <1>2, <1>4 DEF SumTo

\* A sum of integers is an integer, of naturals a natural.
LEMMA SumType ==
    ASSUME NEW D, IsFiniteSet(D), NEW g
    PROVE  /\ (\A x \in D : g[x] \in Int) => SumTo(g, D) \in Int
           /\ (\A x \in D : g[x] \in Nat) => SumTo(g, D) \in Nat
<1>1. ASSUME NEW T, T = Int \/ T = Nat, \A x \in D : g[x] \in T PROVE SumTo(g, D) \in T
  <2>1. PICK B : B = {s \in SUBSET D : SumTo(g, s) \notin T}
    OBVIOUS
  <2>2. SUFFICES ASSUME B # {} PROVE FALSE
    BY <2>1
  <2>3. PICK s \in B : \A t \in B : ~(t \subseteq s /\ t # s)
    BY <2>1, <2>2, SmallestSubset
  <2>4. s \in SUBSET D /\ SumTo(g, s) \notin T /\ IsFiniteSet(s)
    BY <2>1, FS_Subset
  <2>5. SumTo(g, s) = IF s = {} THEN 0 ELSE g[Pick(s)] + SumTo(g, s \ {Pick(s)})
    BY <2>4, SumAlong
  <2>6. s # {}
    BY <1>1, <2>4, <2>5
  <2>7. PICK t : t = s \ {Pick(s)}
    OBVIOUS
  <2>8. Pick(s) \in s /\ t \subseteq s /\ t # s /\ t \in SUBSET D
    BY <2>4, <2>6, <2>7, Picked
  <2>9. SumTo(g, t) \in T /\ g[Pick(s)] \in T
    BY <1>1, <2>1, <2>3, <2>4, <2>8
  <2> QED
    BY <1>1, <2>4, <2>5, <2>6, <2>7, <2>9
<1> QED
  BY <1>1

\* Any element may be added last.
LEMMA SumAny ==
    ASSUME NEW D, IsFiniteSet(D), NEW g, \A x \in D : g[x] \in Int, NEW e \in D
    PROVE  SumTo(g, D) = g[e] + SumTo(g, D \ {e})
<1>1. PICK B : B = {s \in SUBSET D : \E x \in s : SumTo(g, s) # g[x] + SumTo(g, s \ {x})}
  OBVIOUS
<1>2. SUFFICES ASSUME B # {} PROVE FALSE
  BY <1>1
<1>0. B \subseteq SUBSET D
  BY <1>1
<1>3. PICK s \in B : \A t \in B : ~(t \subseteq s /\ t # s)
  BY ONLY <1>0, <1>2, IsFiniteSet(D), SmallestSubset
<1>4. PICK x \in s : s \in SUBSET D /\ SumTo(g, s) # g[x] + SumTo(g, s \ {x})
  BY <1>1
<1>5. PICK c : c = Pick(s)
  OBVIOUS
<1>6. c \in s
  BY <1>4, <1>5, Picked
<1>7. IsFiniteSet(s)
  BY <1>4, FS_Subset
<1>8. SumTo(g, s) = g[c] + SumTo(g, s \ {c})
  BY <1>4, <1>5, <1>7, SumAlong
<1>9. c # x
  BY <1>4, <1>8
<1>10. PICK t, u, v : t = s \ {c} /\ u = s \ {x} /\ v = (s \ {c}) \ {x}
  OBVIOUS
<1>11. /\ t \in SUBSET D /\ u \in SUBSET D /\ v \in SUBSET D /\ v = u \ {c}
       /\ t \subseteq s /\ t # s /\ u \subseteq s /\ u # s /\ x \in t /\ c \in u
  BY <1>4, <1>6, <1>9, <1>10
<1>12. SumTo(g, t) = g[x] + SumTo(g, v) /\ SumTo(g, u) = g[c] + SumTo(g, v)
  <2>1. t \notin B /\ u \notin B
    BY <1>3, <1>11
  <2> QED
    BY <1>1, <1>10, <1>11, <2>1
<1>13. SumTo(g, v) \in Int /\ g[x] \in Int /\ g[c] \in Int
  <2>1. IsFiniteSet(v)
    BY <1>11, FS_Subset
  <2>2. \A y \in v : g[y] \in Int
    BY <1>11
  <2> QED
    BY <1>4, <1>6, <2>1, <2>2, SumType
<1> QED
  BY <1>4, <1>8, <1>10, <1>12, <1>13

-----------------------------------------------------------------------------
(* Sums of functions.                                                      *)

\* The sum of a function on some of its arguments.
LEMMA SumOf ==
    ASSUME NEW D, IsFiniteSet(D), NEW f, DOMAIN f = D, NEW g, \A x \in D : f[x] = g[x]
    PROVE  SumFunction(f) = SumTo(g, D)
BY SumIsSumTo, SumSame

\* Larger values make a larger sum.
LEMMA SumGrows ==
    ASSUME NEW D, IsFiniteSet(D), NEW f, NEW g,
           \A x \in D : f[x] \in Int /\ g[x] \in Int /\ f[x] <= g[x]
    PROVE  SumTo(f, D) <= SumTo(g, D)
<1>1. PICK B : B = {s \in SUBSET D : ~(SumTo(f, s) <= SumTo(g, s))}
  OBVIOUS
<1>2. SUFFICES ASSUME B # {} PROVE FALSE
  BY <1>1
<1>0. B \subseteq SUBSET D
  BY <1>1
<1>3. PICK s \in B : \A t \in B : ~(t \subseteq s /\ t # s)
  BY ONLY <1>0, <1>2, IsFiniteSet(D), SmallestSubset
<1>4. s \in SUBSET D /\ ~(SumTo(f, s) <= SumTo(g, s)) /\ IsFiniteSet(s)
  BY <1>1, FS_Subset
<1>5. /\ SumTo(f, s) = IF s = {} THEN 0 ELSE f[Pick(s)] + SumTo(f, s \ {Pick(s)})
      /\ SumTo(g, s) = IF s = {} THEN 0 ELSE g[Pick(s)] + SumTo(g, s \ {Pick(s)})
  BY <1>4, SumAlong
<1>6. s # {}
  BY <1>4, <1>5
<1>7. PICK t : t = s \ {Pick(s)}
  OBVIOUS
<1>8. Pick(s) \in s /\ t \subseteq s /\ t # s /\ t \in SUBSET D /\ IsFiniteSet(t)
  BY <1>4, <1>6, <1>7, Picked, FS_Subset
<1>9. SumTo(f, t) <= SumTo(g, t)
  BY <1>1, <1>3, <1>8
<1>10. SumTo(f, t) \in Int /\ SumTo(g, t) \in Int
  BY <1>8, SumType
<1>11. f[Pick(s)] \in Int /\ g[Pick(s)] \in Int /\ f[Pick(s)] <= g[Pick(s)]
  BY <1>4, <1>8
<1> QED
  BY <1>4, <1>5, <1>6, <1>7, <1>9, <1>10, <1>11

\* More elements with natural values make no smaller a sum, and two sets
\* together no larger a sum than both.
LEMMA SumJoins ==
    ASSUME NEW D, IsFiniteSet(D), NEW g, \A x \in D : g[x] \in Nat, NEW A \in SUBSET D
    PROVE  SumTo(g, A) <= SumTo(g, D)
           /\ \A E \in SUBSET D : SumTo(g, A \cup E) <= SumTo(g, A) + SumTo(g, E)
<1>0. \A s \in SUBSET D : IsFiniteSet(s) /\ SumTo(g, s) \in Nat
  <2> TAKE s \in SUBSET D
  <2>1. IsFiniteSet(s)
    BY FS_Subset
  <2> QED
    BY <2>1, SumType
<1>1. ASSUME NEW E \in SUBSET D
      PROVE  SumTo(g, A) <= SumTo(g, A \cup E)
             /\ SumTo(g, A \cup E) <= SumTo(g, A) + SumTo(g, E)
  <2>1. PICK B : B = {s \in SUBSET E : ~(/\ SumTo(g, A) <= SumTo(g, A \cup s)
                                         /\ SumTo(g, A \cup s) <= SumTo(g, A) + SumTo(g, s))}
    OBVIOUS
  <2>2. SUFFICES ASSUME B # {} PROVE FALSE
    BY <2>1
  <2>3. B \subseteq SUBSET E /\ IsFiniteSet(E)
    BY <1>0, <2>1
  <2>4. PICK s \in B : \A t \in B : ~(t \subseteq s /\ t # s)
    BY ONLY <2>2, <2>3, SmallestSubset
  <2>5. s \in SUBSET E /\ ~(/\ SumTo(g, A) <= SumTo(g, A \cup s)
                            /\ SumTo(g, A \cup s) <= SumTo(g, A) + SumTo(g, s))
    BY <2>1
  <2>6. SumTo(g, {}) = 0
    BY SumAlong, FS_EmptySet
  <2>7. s # {}
    <3>1. ASSUME s = {} PROVE FALSE
      <4>1. A \cup s = A
        BY <3>1
      <4>2. SumTo(g, A) \in Nat
        BY <1>0
      <4> QED
        BY <2>5, <2>6, <3>1, <4>1, <4>2
    <3> QED
      BY <3>1
  <2>8. PICK e \in s : TRUE
    BY <2>7
  <2>9. PICK t, u, v : t = s \ {e} /\ u = A \cup t /\ v = A \cup s
    OBVIOUS
  <2>10. t \in SUBSET E /\ t \subseteq s /\ t # s /\ t \in SUBSET D /\ u \in SUBSET D
         /\ v \in SUBSET D /\ s \in SUBSET D /\ e \in D
    BY <2>5, <2>9
  <2>11. SumTo(g, A) <= SumTo(g, u) /\ SumTo(g, u) <= SumTo(g, A) + SumTo(g, t)
    <3>1. t \notin B
      BY <2>4, <2>10
    <3> QED
      BY <2>1, <2>9, <2>10, <3>1
  <2>12. SumTo(g, s) = g[e] + SumTo(g, t)
    <3>1. \A x \in s : g[x] \in Int
      BY <2>10
    <3> QED
      BY <1>0, <2>8, <2>9, <2>10, <3>1, SumAny
  <2>13. SumTo(g, v) = SumTo(g, u) \/ SumTo(g, v) = g[e] + SumTo(g, u)
    <3>1. CASE e \in A
      <4>1. v = u
        BY <2>8, <2>9, <3>1
      <4> QED
        BY <4>1
    <3>2. CASE e \notin A
      <4>1. u = v \ {e} /\ e \in v
        BY <2>8, <2>9, <3>2
      <4>2. \A x \in v : g[x] \in Int
        BY <2>10
      <4> QED
        BY <1>0, <2>10, <4>1, <4>2, SumAny
    <3> QED
      BY <3>1, <3>2
  <2>14. /\ SumTo(g, A) \in Nat /\ SumTo(g, s) \in Nat /\ SumTo(g, t) \in Nat
         /\ SumTo(g, u) \in Nat /\ SumTo(g, v) \in Nat /\ g[e] \in Nat
    BY <1>0, <2>10
  <2> QED
    BY <2>5, <2>9, <2>11, <2>12, <2>13, <2>14
<1>2. SumTo(g, A) <= SumTo(g, D)
  <2>1. A \cup D = D
    OBVIOUS
  <2> QED
    BY <1>1, <2>1
<1> QED
  BY <1>1, <1>2

\* No value is larger than the sum of natural values.
LEMMA SumHolds ==
    ASSUME NEW D, IsFiniteSet(D), NEW g, \A x \in D : g[x] \in Nat, NEW e \in D
    PROVE  g[e] <= SumTo(g, D)
<1>1. SumTo(g, D) = g[e] + SumTo(g, D \ {e})
  BY SumAny
<1>2. PICK u : u = D \ {e}
  OBVIOUS
<1>3. u \in SUBSET D /\ IsFiniteSet(u)
  BY <1>2, FS_Subset
<1>4. SumTo(g, u) \in Nat
  BY <1>3, SumType
<1> QED
  BY <1>1, <1>2, <1>4

\* The values of a function on a finite set.
LEMMA ImageIsFinite ==
    ASSUME NEW D, IsFiniteSet(D), NEW p
    PROVE  IsFiniteSet({p[x] : x \in D})
<1>1. PICK P : P = {p[x] : x \in D}
  OBVIOUS
<1>2. PICK f : f = [x \in D |-> p[x]]
  OBVIOUS
<1>3. f \in Surjection(D, P)
  BY <1>1, <1>2 DEF Surjection
<1> QED
  BY <1>1, <1>3, FS_Surjection

\* A sum over nothing is nothing.
LEMMA SumNone == ASSUME NEW g PROVE SumTo(g, {}) = 0
<1>1. IsFiniteSet({})
  BY FS_EmptySet
<1> QED
  BY <1>1, SumAlong

\* Parts add up to the whole.
LEMMA SumSplits ==
    ASSUME NEW D, IsFiniteSet(D), NEW g, \A x \in D : g[x] \in Int, NEW A \in SUBSET D
    PROVE  SumTo(g, D) = SumTo(g, A) + SumTo(g, D \ A)
<1>0. \A s \in SUBSET D : IsFiniteSet(s) /\ SumTo(g, s) \in Int
  <2> TAKE s \in SUBSET D
  <2>1. IsFiniteSet(s)
    BY FS_Subset
  <2> QED
    BY <2>1, SumType
<1>1. PICK B : B = {s \in SUBSET D : SumTo(g, s) # SumTo(g, s \cap A) + SumTo(g, s \ A)}
  OBVIOUS
<1>2. SUFFICES ASSUME B # {} PROVE FALSE
  <2>1. D \in SUBSET D /\ D \cap A = A
    OBVIOUS
  <2> QED
    BY <1>1, <1>2, <2>1
<1>3. B \subseteq SUBSET D
  BY <1>1
<1>4. PICK s \in B : \A t \in B : ~(t \subseteq s /\ t # s)
  BY ONLY <1>2, <1>3, IsFiniteSet(D), SmallestSubset
<1>5. s \in SUBSET D /\ SumTo(g, s) # SumTo(g, s \cap A) + SumTo(g, s \ A)
  BY <1>1
<1>6. s # {}
  <2>1. ASSUME s = {} PROVE FALSE
    <3>1. s \cap A = {} /\ s \ A = {}
      BY <2>1
    <3>2. SumTo(g, {}) = 0
      BY SumNone
    <3> QED
      BY <1>5, <2>1, <3>1, <3>2
  <2> QED
    BY <2>1
<1>7. PICK x : x \in s
  BY <1>6
<1>8. PICK t : t = s \ {x}
  OBVIOUS
<1>9. t \in SUBSET D /\ t \subseteq s /\ t # s
  BY <1>5, <1>7, <1>8
<1>10. SumTo(g, t) = SumTo(g, t \cap A) + SumTo(g, t \ A)
  BY <1>1, <1>4, <1>9
<1>11. SumTo(g, s) = g[x] + SumTo(g, t)
  BY <1>0, <1>5, <1>7, <1>8, SumAny
<1>12. g[x] \in Int /\ SumTo(g, t \cap A) \in Int /\ SumTo(g, t \ A) \in Int
       /\ s \cap A \in SUBSET D /\ s \ A \in SUBSET D
  <2>1. t \cap A \in SUBSET D /\ t \ A \in SUBSET D /\ x \in D
        /\ s \cap A \in SUBSET D /\ s \ A \in SUBSET D
    BY <1>5, <1>7, <1>9
  <2> QED
    BY <1>0, <2>1
<1>13. CASE x \in A
  <2>1. x \in s \cap A /\ (s \cap A) \ {x} = t \cap A /\ s \ A = t \ A
    BY <1>7, <1>8, <1>13
  <2>2. IsFiniteSet(s \cap A) /\ \A y \in s \cap A : g[y] \in Int
    BY <1>0, <1>12
  <2>3. SumTo(g, s \cap A) = g[x] + SumTo(g, t \cap A)
    BY <2>1, <2>2, SumAny
  <2>4. SumTo(g, s \ A) = SumTo(g, t \ A)
    BY <2>1
  <2> QED
    BY <1>5, <1>10, <1>11, <1>12, <2>3, <2>4
<1>14. CASE x \notin A
  <2>1. x \in s \ A /\ (s \ A) \ {x} = t \ A /\ s \cap A = t \cap A
    BY <1>7, <1>8, <1>14
  <2>2. IsFiniteSet(s \ A) /\ \A y \in s \ A : g[y] \in Int
    BY <1>0, <1>12
  <2>3. SumTo(g, s \ A) = g[x] + SumTo(g, t \ A)
    BY <2>1, <2>2, SumAny
  <2>4. SumTo(g, s \cap A) = SumTo(g, t \cap A)
    BY <2>1
  <2> QED
    BY <1>5, <1>10, <1>11, <1>12, <2>3, <2>4
<1> QED
  BY <1>13, <1>14

\* Zeros add nothing.
LEMMA SumOfZeros ==
    ASSUME NEW D, IsFiniteSet(D), NEW g, \A x \in D : g[x] = 0
    PROVE  SumTo(g, D) = 0
<1>1. PICK h : h = [x \in D |-> 0]
  OBVIOUS
<1>2. PICK B : B = {s \in SUBSET D : SumTo(g, s) # 0}
  OBVIOUS
<1>3. SUFFICES ASSUME B # {} PROVE FALSE
  BY <1>2
<1>4. B \subseteq SUBSET D
  BY <1>2
<1>5. PICK s \in B : \A t \in B : ~(t \subseteq s /\ t # s)
  BY ONLY <1>3, <1>4, IsFiniteSet(D), SmallestSubset
<1>6. s \in SUBSET D /\ SumTo(g, s) # 0
  BY <1>2
<1>7. s # {}
  BY <1>6, SumNone
<1>8. PICK x : x \in s
  BY <1>7
<1>9. PICK t : t = s \ {x}
  OBVIOUS
<1>10. t \in SUBSET D /\ t \subseteq s /\ t # s /\ IsFiniteSet(s)
  BY <1>6, <1>8, <1>9, FS_Subset
<1>11. SumTo(g, t) = 0
  BY <1>2, <1>5, <1>10
<1>12. SumTo(g, s) = g[x] + SumTo(g, t)
  BY <1>6, <1>8, <1>9, <1>10, SumAny
<1> QED
  BY <1>6, <1>8, <1>11, <1>12

\* What is zero may be left out.
LEMMA SumWithoutZeros ==
    ASSUME NEW D, IsFiniteSet(D), NEW g, \A x \in D : g[x] \in Int, NEW A \in SUBSET D,
           \A x \in D \ A : g[x] = 0
    PROVE  SumTo(g, A) = SumTo(g, D)
<1>1. IsFiniteSet(D \ A) /\ IsFiniteSet(A)
  BY FS_Subset
<1>2. SumTo(g, D \ A) = 0
  BY <1>1, SumOfZeros
<1>3. SumTo(g, A) \in Int
  BY <1>1, SumType
<1> QED
  BY <1>2, <1>3, SumSplits

\* A sum over the values of a one-to-one function is a sum over its arguments.
LEMMA SumOnto ==
    ASSUME NEW D, IsFiniteSet(D), NEW g, \A x \in D : g[x] \in Int, NEW p, NEW h,
           \A x, y \in D : p[x] = p[y] => x = y, \A x \in D : h[p[x]] = g[x]
    PROVE  SumTo(h, {p[x] : x \in D}) = SumTo(g, D)
<1>1. PICK B : B = {s \in SUBSET D : SumTo(h, {p[x] : x \in s}) # SumTo(g, s)}
  OBVIOUS
<1>2. SUFFICES ASSUME B # {} PROVE FALSE
  <2>1. D \in SUBSET D
    OBVIOUS
  <2> QED
    BY <1>1, <1>2, <2>1
<1>3. B \subseteq SUBSET D
  BY <1>1
<1>4. PICK s \in B : \A t \in B : ~(t \subseteq s /\ t # s)
  BY ONLY <1>2, <1>3, IsFiniteSet(D), SmallestSubset
<1>5. s \in SUBSET D /\ SumTo(h, {p[x] : x \in s}) # SumTo(g, s)
  BY <1>1
<1>6. s # {}
  <2>1. ASSUME s = {} PROVE FALSE
    <3>1. {p[x] : x \in s} = {}
      BY <2>1
    <3>2. SumTo(h, {p[x] : x \in s}) = SumTo(g, s)
      BY <2>1, <3>1, SumNone
    <3> QED
      BY <1>5, <3>2
  <2> QED
    BY <2>1
<1>7. PICK x : x \in s
  BY <1>6
<1>8. PICK t : t = s \ {x}
  OBVIOUS
<1>9. t \in SUBSET D /\ t \subseteq s /\ t # s /\ IsFiniteSet(s)
  BY <1>5, <1>7, <1>8, FS_Subset
<1>10. PICK P : P = {p[y] : y \in s}
  OBVIOUS
<1>11. P \ {p[x]} = {p[y] : y \in t} /\ p[x] \in P
  BY <1>5, <1>7, <1>8, <1>10
<1>12. SumTo(h, {p[y] : y \in t}) = SumTo(g, t)
  BY <1>1, <1>4, <1>9
<1>13. SumTo(g, s) = g[x] + SumTo(g, t)
  BY <1>5, <1>7, <1>8, <1>9, SumAny
<1>14. IsFiniteSet(P) /\ \A y \in P : h[y] \in Int
  <2>1. IsFiniteSet({p[y] : y \in s})
    BY <1>9, ImageIsFinite
  <2>2. \A y \in s : h[p[y]] \in Int
    BY <1>5
  <2> QED
    BY <1>10, <2>1, <2>2
<1>15. SumTo(h, P) = h[p[x]] + SumTo(h, P \ {p[x]})
  BY <1>11, <1>14, SumAny
<1>16. h[p[x]] = g[x]
  BY <1>5, <1>7
<1> QED
  BY <1>5, <1>10, <1>11, <1>12, <1>13, <1>15, <1>16

Class(D, q, k) == {x \in D : q[x] = k}

\* Classes add up to the whole.
LEMMA SumByClass ==
    ASSUME NEW D, IsFiniteSet(D), NEW g, \A x \in D : g[x] \in Int,
           NEW K, IsFiniteSet(K), NEW q, \A x \in D : q[x] \in K,
           NEW f, \A k \in K : f[k] = SumTo(g, Class(D, q, k))
    PROVE  SumTo(f, K) = SumTo(g, D)
<1>0. \A s \in SUBSET D : IsFiniteSet(s) /\ SumTo(g, s) \in Int
  <2> TAKE s \in SUBSET D
  <2>1. IsFiniteSet(s)
    BY FS_Subset
  <2> QED
    BY <2>1, SumType
<1>a. \A k \in K : f[k] \in Int
  <2> TAKE k \in K
  <2>1. Class(D, q, k) \in SUBSET D
    BY DEF Class
  <2> QED
    BY <1>0, <2>1
<1>1. PICK B : B = {s \in SUBSET K : SumTo(f, s) # SumTo(g, {x \in D : q[x] \in s})}
  OBVIOUS
<1>2. SUFFICES ASSUME B # {} PROVE FALSE
  <2>1. K \in SUBSET K /\ {x \in D : q[x] \in K} = D
    OBVIOUS
  <2> QED
    BY <1>1, <1>2, <2>1
<1>3. B \subseteq SUBSET K
  BY <1>1
<1>4. PICK s \in B : \A t \in B : ~(t \subseteq s /\ t # s)
  BY ONLY <1>2, <1>3, IsFiniteSet(K), SmallestSubset
<1>5. s \in SUBSET K /\ SumTo(f, s) # SumTo(g, {x \in D : q[x] \in s})
  BY <1>1
<1>6. s # {}
  <2>1. ASSUME s = {} PROVE FALSE
    <3>1. {x \in D : q[x] \in s} = {}
      BY <2>1
    <3> QED
      BY <1>5, <2>1, <3>1, SumNone
  <2> QED
    BY <2>1
<1>7. PICK k : k \in s
  BY <1>6
<1>8. PICK t : t = s \ {k}
  OBVIOUS
<1>9. t \in SUBSET K /\ t \subseteq s /\ t # s /\ IsFiniteSet(s)
  BY <1>5, <1>7, <1>8, FS_Subset
<1>10. PICK S : S = {x \in D : q[x] \in s}
  OBVIOUS
<1>11. PICK T : T = {x \in D : q[x] \in t}
  OBVIOUS
<1>12. T \in SUBSET S /\ S \in SUBSET D /\ S \ T = Class(D, q, k)
  BY <1>5, <1>7, <1>8, <1>10, <1>11 DEF Class
<1>13. SumTo(f, t) = SumTo(g, T)
  BY <1>1, <1>4, <1>9, <1>11
<1>14. SumTo(f, s) = f[k] + SumTo(f, t)
  BY <1>a, <1>5, <1>7, <1>8, <1>9, SumAny
<1>15. SumTo(g, S) = SumTo(g, T) + SumTo(g, Class(D, q, k))
  <2>1. IsFiniteSet(S) /\ (\A x \in S : g[x] \in Int) /\ T \in SUBSET S
    BY <1>0, <1>12
  <2>2. SumTo(g, S) = SumTo(g, T) + SumTo(g, S \ T)
    BY <2>1, SumSplits
  <2> QED
    BY <1>12, <2>2
<1>16. f[k] = SumTo(g, Class(D, q, k)) /\ f[k] \in Int /\ SumTo(g, T) \in Int
  BY <1>a, <1>0, <1>5, <1>7, <1>12
<1> QED
  BY <1>5, <1>10, <1>13, <1>14, <1>15, <1>16

-----------------------------------------------------------------------------
(* Ledgers and books.                                                      *)

EntryOf(a, n) ==
    [id : 1..n, account : {a}, sec : Secs \union {NoSec}, qty : Int, cash : Int,
     at : Int, seen : Int, corrects : Nat, proved : BOOLEAN]

LedgerOf(E, a, n) ==
    /\ IsFiniteSet(DOMAIN E) /\ DOMAIN E \subseteq 0..n
    /\ \A k \in DOMAIN E : E[k] \in EntryOf(a, n)

Position == [listed : BOOLEAN, total : Int, sellable : Int, selling : Int,
             proved : BOOLEAN, exact : BOOLEAN]
Order == [open : Int, sound : BOOLEAN]

BookOf(b, a, n) ==
    /\ LedgerOf(b.ledger, a, n)
    /\ b \in [ledger : {b.ledger}, positions : [Secs -> Position], orders : [Secs -> Order],
              restricted : SUBSET Secs, manifest : BOOLEAN, openingProved : BOOLEAN,
              opening : Int, cash : Int, frozen : Int, reserve : Int, equity : Int]

(* What a ledger entry is when nothing is held against it at c. *)
Clean(E, c, e) ==
    /\ Alone(ById(E), e.id)
    /\ e.at <= c /\ e.seen <= c /\ e.at <= e.seen
    /\ e.proved /\ SecurityKnown(e)

\* An entry has none of the codes only if it is clean.
LEMMA CodesTell ==
    ASSUME NEW E, NEW c \in Int, NEW a, NEW n, LedgerOf(E, a, n), NEW e \in Range(E)
    PROVE  EntryCodes(E, e, c) = {} <=> Clean(E, c, e)
<1>1. PICK k \in DOMAIN E : e = E[k]
  BY DEF Range
<1>2. e \in EntryOf(a, n)
  BY <1>1 DEF LedgerOf
<1>3. e.at \in Int /\ e.seen \in Int /\ e.proved \in BOOLEAN
  BY <1>2 DEF EntryOf
<1>4. e \in Repeated(E) <=> ~Alone(ById(E), e.id)
  BY DEF Repeated
<1>5. EntryCodes(E, e, c) = {} <=>
        /\ e \notin Repeated(E) /\ ~(e.at > c) /\ EvidentBy(e, c) /\ ~(e.seen < e.at)
        /\ SecurityKnown(e)
  BY DEF EntryCodes
<1> QED
  BY <1>3, <1>4, <1>5 DEF Clean, EvidentBy

\* The rows of an id that the ledger names.
LEMMA RowsById ==
    ASSUME NEW E, NEW a, NEW n \in Nat, LedgerOf(E, a, n), NEW k \in DOMAIN E
    PROVE  /\ E[k].id \in DOMAIN ById(E)
           /\ ById(E)[E[k].id] = Rows(E, E[k].id)
           /\ <<k, E[k]>> \in Rows(E, E[k].id)
<1>1. E[k] \in EntryOf(a, n) /\ E[k] \in Range(E)
  BY DEF LedgerOf, Range
<1>2. E[k].id \in 1..n /\ E[k].id # 0
  BY <1>1 DEF EntryOf
<1>3. E[k].id \in Named(Range(E))
  BY <1>1, <1>2 DEF Named
<1> QED
  BY <1>3 DEF ById, Rows

\* An entry alone under its id stands in one row.
LEMMA AloneInRow ==
    ASSUME NEW E, NEW a, NEW n \in Nat, LedgerOf(E, a, n), NEW k \in DOMAIN E,
           Alone(ById(E), E[k].id)
    PROVE  /\ Rows(E, E[k].id) = {<<k, E[k]>>}
           /\ \A l \in DOMAIN E : E[l].id = E[k].id => l = k
           /\ Entry(ById(E), E[k].id) = E[k]
<1>1. ById(E)[E[k].id] = Rows(E, E[k].id) /\ <<k, E[k]>> \in Rows(E, E[k].id)
  BY RowsById
<1>2. PICK r : Rows(E, E[k].id) = {r}
  BY <1>1 DEF Alone
<1>3. r = <<k, E[k]>>
  BY <1>1, <1>2
<1>4. ASSUME NEW l \in DOMAIN E, E[l].id = E[k].id PROVE l = k
  <2>1. <<l, E[l]>> \in Rows(E, E[k].id)
    BY <1>4, RowsById
  <2>2. <<l, E[l]>> = <<k, E[k]>>
    BY <1>2, <1>3, <2>1
  <2> QED
    BY <2>2
<1>5. (CHOOSE x \in {<<k, E[k]>>} : TRUE) = <<k, E[k]>>
  OBVIOUS
<1>6. Entry(ById(E), E[k].id) = E[k]
  BY <1>1, <1>2, <1>3, <1>5 DEF Entry
<1> QED
  BY <1>2, <1>3, <1>4, <1>6

\* A finite ledger has finitely many entries.
LEMMA RangeIsFinite ==
    ASSUME NEW E, IsFiniteSet(DOMAIN E)
    PROVE  IsFiniteSet(Range(E))
<1>1. IsFiniteSet({E[x] : x \in DOMAIN E})
  BY ImageIsFinite
<1> QED
  BY <1>1 DEF Range

\* Cash of a set of entries.
Cash(S) == SumFunction([e \in S |-> e.cash])

\* Rows whose entries are alone add up to their entries.
LEMMA RowsToEntries ==
    ASSUME NEW E, NEW a, NEW n \in Nat, LedgerOf(E, a, n), NEW R \in SUBSET DOMAIN E,
           \A k \in R : Alone(ById(E), E[k].id)
    PROVE  /\ UnitsIn(E, R) = Units({E[k] : k \in R}) /\ UnitsIn(E, R) \in Int
           /\ CashIn(E, R) = Cash({E[k] : k \in R}) /\ CashIn(E, R) \in Int
<1>1. IsFiniteSet(R) /\ \A k \in R : E[k].qty \in Int /\ E[k].cash \in Int
  <2>1. IsFiniteSet(R)
    BY FS_Subset DEF LedgerOf
  <2>2. \A k \in R : E[k] \in EntryOf(a, n)
    BY DEF LedgerOf
  <2> QED
    BY <2>1, <2>2 DEF EntryOf
<1>2. \A k, l \in R : E[k] = E[l] => k = l
  BY AloneInRow
<1>3. PICK S : S = {E[k] : k \in R}
  OBVIOUS
<1>4. IsFiniteSet(S)
  BY <1>1, <1>3, ImageIsFinite
<1>5. UnitsIn(E, R) = Units(S) /\ UnitsIn(E, R) \in Int
  <2>1. PICK g : g = [k \in R |-> E[k].qty]
    OBVIOUS
  <2>2. PICK h : h = [e \in S |-> e.qty]
    OBVIOUS
  <2>3. \A k \in R : h[E[k]] = g[k] /\ g[k] \in Int
    BY <1>1, <1>3, <2>1, <2>2
  <2>4. SumTo(h, S) = SumTo(g, R)
    BY <1>1, <1>2, <1>3, <2>3, SumOnto
  <2>5. DOMAIN g = R /\ DOMAIN h = S
    BY <2>1, <2>2
  <2>6. UnitsIn(E, R) = SumTo(g, R) /\ Units(S) = SumTo(h, S)
    BY <2>1, <2>2, <2>5, SumIsSumTo DEF UnitsIn, Units
  <2>7. SumTo(g, R) \in Int
    BY <1>1, <2>3, SumType
  <2> QED
    BY <2>4, <2>6, <2>7
<1>6. CashIn(E, R) = Cash(S) /\ CashIn(E, R) \in Int
  <2>1. PICK g : g = [k \in R |-> E[k].cash]
    OBVIOUS
  <2>2. PICK h : h = [e \in S |-> e.cash]
    OBVIOUS
  <2>3. \A k \in R : h[E[k]] = g[k] /\ g[k] \in Int
    BY <1>1, <1>3, <2>1, <2>2
  <2>4. SumTo(h, S) = SumTo(g, R)
    BY <1>1, <1>2, <1>3, <2>3, SumOnto
  <2>5. DOMAIN g = R /\ DOMAIN h = S
    BY <2>1, <2>2
  <2>6. CashIn(E, R) = SumTo(g, R) /\ Cash(S) = SumTo(h, S)
    BY <2>1, <2>2, <2>5, SumIsSumTo DEF CashIn, Cash
  <2>7. SumTo(g, R) \in Int
    BY <1>1, <2>3, SumType
  <2> QED
    BY <2>4, <2>6, <2>7
<1> QED
  BY <1>3, <1>5, <1>6

\* No removed and no altered entry: the ledger keeps the history.
LEMMA HistoryIsKept ==
    ASSUME NEW E, NEW canon,
           \A k \in HistoryConflicts(E, canon) : k.code \notin {"ENTRY_REMOVED", "ENTRY_MUTATED"}
    PROVE  canon \subseteq Range(E)
<1> SUFFICES ASSUME NEW e \in canon PROVE e \in Range(E)
  OBVIOUS
<1>1. Rows(E, e.id) # {}
  <2>1. Rows(E, e.id) = {} =>
          EntryConflict(e, "ENTRY_REMOVED") \in HistoryConflicts(E, canon)
    BY DEF HistoryConflicts
  <2>2. EntryConflict(e, "ENTRY_REMOVED").code = "ENTRY_REMOVED"
    BY DEF EntryConflict, Conflict
  <2> QED
    BY <2>1, <2>2
<1>2. PICK j \in DOMAIN E : E[j].id = e.id
  BY <1>1 DEF Rows
<1>3. E[j] # e => EntryConflict(E[j], "ENTRY_MUTATED") \in HistoryConflicts(E, canon)
  <2>1. E[j] \in Range(E)
    BY DEF Range
  <2> QED
    BY <1>2, <2>1 DEF HistoryConflicts
<1>4. EntryConflict(E[j], "ENTRY_MUTATED").code = "ENTRY_MUTATED"
  BY DEF EntryConflict, Conflict
<1> QED
  BY <1>3, <1>4 DEF Range

-----------------------------------------------------------------------------
(* What one account publishes.                                             *)

Of(S, s) == {e \in S : e.sec = s}

\* The quantity of a holding none of whose entries has a code.
LEMMA QuantityStands ==
    ASSUME NEW b, NEW a, NEW n \in Nat, BookOf(b, a, n), NEW c \in Int, NEW s,
           \A e \in Range(b.ledger) : e.sec = s => EntryCodes(b.ledger, e, c) = {}
    PROVE  /\ Quantity(b.ledger, c, s) = Units(Of(Range(b.ledger), s))
           /\ Quantity(b.ledger, c, s) = UnitsIn(b.ledger, {k \in DOMAIN b.ledger : b.ledger[k].sec = s})
           /\ Quantity(b.ledger, c, s) \in Int
<1>0. PICK E : E = b.ledger
  OBVIOUS
<1>1. LedgerOf(E, a, n)
  BY <1>0 DEF BookOf
<1>2. PICK R : R = {k \in DOMAIN E : E[k].sec = s}
  OBVIOUS
<1>3. ASSUME NEW k \in R PROVE Alone(ById(E), E[k].id) /\ E[k].at <= c
  <2>1. E[k] \in Range(E) /\ E[k].sec = s
    BY <1>2, <1>3 DEF Range
  <2>2. EntryCodes(E, E[k], c) = {}
    BY <1>0, <2>1
  <2>3. Clean(E, c, E[k])
    BY <1>1, <2>1, <2>2, CodesTell
  <2> QED
    BY <2>3 DEF Clean
<1>4. R = {i \in Counted(E, c) : E[i].sec = s}
  BY <1>2, <1>3 DEF Counted
<1>5. {E[k] : k \in R} = Of(Range(E), s)
  BY <1>2 DEF Of, Range
<1>6. R \in SUBSET DOMAIN E
  BY <1>2
<1>7. UnitsIn(E, R) = Units({E[k] : k \in R}) /\ UnitsIn(E, R) \in Int
  BY <1>1, <1>3, <1>6, RowsToEntries
<1>8. Quantity(E, c, s) = UnitsIn(E, R)
  BY <1>4 DEF Quantity
<1> QED
  BY <1>0, <1>2, <1>5, <1>7, <1>8

\* A conflict of a ledger entry with a code.
LEMMA CodeConflicts ==
    ASSUME NEW E, NEW c, NEW e \in Range(E), EntryCodes(E, e, c) # {}
    PROVE  \E code : EntryConflict(e, code) \in LedgerConflicts(E, c)
<1>1. PICK code \in EntryCodes(E, e, c) : TRUE
  OBVIOUS
<1>2. EntryConflict(e, code) \in {EntryConflict(e, x) : x \in EntryCodes(E, e, c)}
  OBVIOUS
<1>3. EntryConflict(e, code) \in LedgerConflicts(E, c)
  BY <1>2 DEF LedgerConflicts
<1> QED
  BY <1>3

LEMMA EntryConflictIs ==
    ASSUME NEW e, NEW code
    PROVE  /\ EntryConflict(e, code).account = e.account /\ EntryConflict(e, code).sec = e.sec
           /\ EntryConflict(e, code).code = code /\ EntryConflict(e, code).whole = TRUE
           /\ EntryConflict(e, code).valued = (e.sec # NoSec)
BY DEF EntryConflict, Conflict

LEMMA ConflictIs ==
    ASSUME NEW a, NEW s, NEW code, NEW w, NEW v
    PROVE  /\ Conflict(a, s, code, w, v).account = a /\ Conflict(a, s, code, w, v).sec = s
           /\ Conflict(a, s, code, w, v).code = code /\ Conflict(a, s, code, w, v).whole = w
           /\ Conflict(a, s, code, w, v).valued = v
BY DEF Conflict

\* Conflicts over the history block every account.
LEMMA HistoryIsWhole ==
    ASSUME NEW E, NEW canon, NEW k \in HistoryConflicts(E, canon)
    PROVE  k.whole = TRUE
<1>1. \E e, code : k = EntryConflict(e, code)
  BY Zenon DEF HistoryConflicts
<1>2. PICK e, code : k = EntryConflict(e, code)
  BY <1>1
<1> QED
  BY <1>2, EntryConflictIs

\* An exact quantity is covered by the entries of its ledger.
LEMMA ExactStands ==
    ASSUME NEW b, NEW a, NEW n \in Nat, BookOf(b, a, n), NEW c \in Int, NEW canon, NEW baseline,
           NEW s \in Listed(b),
           \A k \in AccountConflicts(a, b, c, canon, baseline) : ~k.whole /\ ~Concerns(k, a, s)
    PROVE  b.positions[s].sellable + b.orders[s].open
             <= Units({e \in Range(b.ledger) \union canon : e.sec = s})
<1>0. s \in Secs
  BY DEF Listed
<1>1. PICK K : K = AccountConflicts(a, b, c, canon, baseline)
  OBVIOUS
<1>2. \A k \in K : ~k.whole /\ ~Concerns(k, a, s)
  BY <1>1
<1>3. HistoryConflicts(b.ledger, canon) \subseteq K /\ LedgerConflicts(b.ledger, c) \subseteq K
      /\ PositionConflicts(a, b, c) \subseteq K
  BY <1>1 DEF AccountConflicts
<1>4. canon \subseteq Range(b.ledger)
  <2>1. HistoryConflicts(b.ledger, canon) = {}
    BY <1>2, <1>3, HistoryIsWhole
  <2> QED
    BY <2>1, HistoryIsKept
<1>5. \A e \in Range(b.ledger) : EntryCodes(b.ledger, e, c) = {}
  <2> SUFFICES ASSUME NEW e \in Range(b.ledger), EntryCodes(b.ledger, e, c) # {} PROVE FALSE
    OBVIOUS
  <2>1. PICK code : EntryConflict(e, code) \in LedgerConflicts(b.ledger, c)
    BY CodeConflicts
  <2> QED
    BY <1>2, <1>3, <2>1, EntryConflictIs
<1>6. \A t \in PositionCodes(b, s, c) : Conflict(a, s, t[1], t[2], t[3]) \in K
  BY <1>3 DEF PositionConflicts
<1>7. ~\E t : t \in PositionCodes(b, s, c)
  <2> SUFFICES ASSUME NEW t \in PositionCodes(b, s, c) PROVE FALSE
    OBVIOUS
  <2>1. Conflict(a, s, t[1], t[2], t[3]) \in K
    BY <1>6
  <2>2. Concerns(Conflict(a, s, t[1], t[2], t[3]), a, s)
    BY ConflictIs DEF Concerns
  <2> QED
    BY <1>2, <2>1, <2>2
<1>8. PositionCodes(b, s, c) = {}
  BY <1>7
<1>9. b.positions[s] \in Position /\ b.orders[s] \in Order
  BY <1>0 DEF BookOf
<1>10. /\ Quantity(b.ledger, c, s) = b.positions[s].total
       /\ b.positions[s].sellable + b.positions[s].selling <= b.positions[s].total
       /\ b.positions[s].selling = b.orders[s].open
  <2>1. PICK p : p = b.positions[s]
    OBVIOUS
  <2>2. p.sellable \in Int /\ p.selling \in Int /\ p.total \in Int
    BY <1>9, <2>1 DEF Position
  <2>3. ~(Quantity(b.ledger, c, s) # p.total) /\ ~(p.sellable + p.selling > p.total)
        /\ ~(p.selling # b.orders[s].open)
    BY <1>8, <2>1 DEF PositionCodes
  <2> QED
    BY <2>1, <2>2, <2>3
<1>11. Quantity(b.ledger, c, s) = Units(Of(Range(b.ledger), s))
  BY <1>5, QuantityStands
<1>12. {e \in Range(b.ledger) \union canon : e.sec = s} = Of(Range(b.ledger), s)
  BY <1>4 DEF Of
<1>13. b.positions[s].sellable \in Int /\ b.positions[s].selling \in Int
       /\ b.positions[s].total \in Int
  BY <1>9 DEF Position
<1> QED
  BY <1>10, <1>11, <1>12, <1>13

\* A holding that no conflict values wrongly is worth its entries, listed or
\* not.
LEMMA HoldingStands ==
    ASSUME NEW b, NEW a, NEW n \in Nat, BookOf(b, a, n), NEW c \in Int, NEW canon, NEW baseline,
           NEW s \in Secs, NoSec \notin Secs,
           \A k \in AccountConflicts(a, b, c, canon, baseline) :
               k.code \notin CoverageCodes /\ (k.valued /\ s \in Listed(b) => ~Concerns(k, a, s))
    PROVE  /\ \A e \in Range(b.ledger) : e.sec = s => EntryCodes(b.ledger, e, c) = {}
           /\ Held(b, s) = UnitsIn(b.ledger, {k \in DOMAIN b.ledger : b.ledger[k].sec = s})
           /\ Held(b, s) \in Int
<1>1. PICK K : K = AccountConflicts(a, b, c, canon, baseline)
  OBVIOUS
<1>2. \A k \in K : k.code \notin CoverageCodes /\ (k.valued /\ s \in Listed(b) => ~Concerns(k, a, s))
  BY <1>1
<1>3. LedgerConflicts(b.ledger, c) \subseteq K /\ PositionConflicts(a, b, c) \subseteq K
  BY <1>1 DEF AccountConflicts
<1>4. s \in SummaryRequired(b, canon, c) => s \in Listed(b)
  <2>1. SUFFICES ASSUME s \in MissingSummaries(b, canon, c) PROVE FALSE
    BY DEF MissingSummaries
  <2>2. Conflict(a, s, "POSITION_SUMMARY_MISSING", TRUE, TRUE) \in K
    BY <1>1, <2>1 DEF AccountConflicts
  <2>3. "POSITION_SUMMARY_MISSING" \in CoverageCodes
    BY DEF CoverageCodes
  <2>4. Conflict(a, s, "POSITION_SUMMARY_MISSING", TRUE, TRUE).code = "POSITION_SUMMARY_MISSING"
    BY DEF Conflict
  <2> QED
    BY <1>2, <2>2, <2>3, <2>4
<1>5. \A e \in Range(b.ledger) : e.sec = s => EntryCodes(b.ledger, e, c) = {}
  <2> SUFFICES ASSUME NEW e \in Range(b.ledger), e.sec = s, EntryCodes(b.ledger, e, c) # {}
               PROVE  FALSE
    OBVIOUS
  <2>1. PICK code : EntryConflict(e, code) \in LedgerConflicts(b.ledger, c)
    BY CodeConflicts
  <2>2. PICK k : k = EntryConflict(e, code)
    OBVIOUS
  <2>3. e.account = a
    <3>1. e \in EntryOf(a, n)
      BY DEF BookOf, LedgerOf, Range
    <3> QED
      BY <3>1 DEF EntryOf
  <2>4. k.sec = s /\ k.account = a /\ k.valued = TRUE /\ k \in K
    <3>1. s # NoSec
      OBVIOUS
    <3>2. k.sec = e.sec /\ k.account = e.account /\ k.valued = (e.sec # NoSec)
      BY <2>2, EntryConflictIs
    <3> QED
      BY <1>3, <2>1, <2>2, <2>3, <3>1, <3>2
  <2>5. s \in Unresolved(b.ledger, canon, c)
    <3>1. s \in {x.sec : x \in LedgerConflicts(b.ledger, c)} \ {NoSec}
      BY <2>1, <2>2, <2>4
    <3> QED
      BY <3>1 DEF Unresolved
  <2>6. s \in Listed(b)
    BY <1>4, <2>5 DEF SummaryRequired
  <2>7. Concerns(k, a, s)
    BY <2>4 DEF Concerns
  <2> QED
    BY <1>2, <2>4, <2>6, <2>7
<1>6. /\ Quantity(b.ledger, c, s) = UnitsIn(b.ledger, {k \in DOMAIN b.ledger : b.ledger[k].sec = s})
      /\ Quantity(b.ledger, c, s) \in Int
  BY <1>5, QuantityStands
<1>7. CASE s \in Listed(b)
  <2>1. Quantity(b.ledger, c, s) = b.positions[s].total
    <3>1. SUFFICES ASSUME Quantity(b.ledger, c, s) # b.positions[s].total PROVE FALSE
      OBVIOUS
    <3>2. <<"LEDGER_QUANTITY_MISMATCH", TRUE, TRUE>> \in PositionCodes(b, s, c)
      BY <3>1 DEF PositionCodes
    <3>3. PICK t : t = <<"LEDGER_QUANTITY_MISMATCH", TRUE, TRUE>>
      OBVIOUS
    <3>4. \A u \in PositionCodes(b, s, c) :
              Conflict(a, s, u[1], u[2], u[3]) \in PositionConflicts(a, b, c)
      BY <1>7 DEF PositionConflicts
    <3>5. PICK k : k = Conflict(a, s, t[1], t[2], t[3])
      OBVIOUS
    <3>6. k \in K
      BY <1>3, <3>2, <3>3, <3>4, <3>5
    <3>7. k.account = a /\ k.sec = s /\ k.valued = t[3] /\ t[3] = TRUE
      BY <3>3, <3>5 DEF Conflict
    <3> QED
      BY <1>2, <1>7, <3>6, <3>7 DEF Concerns
  <2> QED
    BY <1>5, <1>6, <1>7, <2>1 DEF Held
<1>8. CASE s \notin Listed(b)
  <2>1. Quantity(b.ledger, c, s) = 0
    BY <1>4, <1>8 DEF SummaryRequired
  <2> QED
    BY <1>5, <1>6, <1>8, <2>1 DEF Held
<1> QED
  BY <1>7, <1>8

OfIssuer(S, i) == {e \in S : IF e.sec = NoSec THEN FALSE ELSE Issuer[e.sec] = i}

SecsOf(i) == {s \in Secs : Issuer[s] = i}

Worths(b, S) == SumFunction([s \in S |-> b.positions[s].total])

\* What an account holds of an issuer that is priced is worth its entries.
LEMMA IssuerStands ==
    ASSUME NEW b, NEW a, NEW n \in Nat, BookOf(b, a, n), NEW c \in Int, NEW canon, NEW baseline,
           NEW i, NoSec \notin Secs, IsFiniteSet(Secs),
           \A k \in AccountConflicts(a, b, c, canon, baseline) :
               /\ k.code \notin CoverageCodes
               /\ k.valued => \A s \in Listed(b) : Issuer[s] = i => ~Concerns(k, a, s)
    PROVE  Worths(b, {s \in Listed(b) : Issuer[s] = i})
             = Units(OfIssuer(Range(b.ledger) \union canon, i))
           /\ Worths(b, {s \in Listed(b) : Issuer[s] = i}) \in Int
<1>0. PICK E : E = b.ledger
  OBVIOUS
<1>1. LedgerOf(E, a, n)
  BY <1>0 DEF BookOf
<1>2. canon \subseteq Range(E)
  <2>1. HistoryConflicts(E, canon) \subseteq AccountConflicts(a, b, c, canon, baseline)
    BY <1>0 DEF AccountConflicts
  <2>2. {"ENTRY_REMOVED", "ENTRY_MUTATED"} \subseteq CoverageCodes
    BY DEF CoverageCodes
  <2>3. \A k \in HistoryConflicts(E, canon) : k.code \notin {"ENTRY_REMOVED", "ENTRY_MUTATED"}
    BY <2>1, <2>2
  <2> QED
    BY <2>3, HistoryIsKept
<1>3. ASSUME NEW s \in SecsOf(i)
      PROVE  /\ \A e \in Range(E) : e.sec = s => EntryCodes(E, e, c) = {}
             /\ Held(b, s) = UnitsIn(E, {k \in DOMAIN E : E[k].sec = s})
             /\ Held(b, s) \in Int
  <2>1. s \in Secs /\ Issuer[s] = i
    BY <1>3 DEF SecsOf
  <2>2. \A k \in AccountConflicts(a, b, c, canon, baseline) :
            k.code \notin CoverageCodes /\ (k.valued /\ s \in Listed(b) => ~Concerns(k, a, s))
    BY <2>1
  <2>3. /\ \A e \in Range(b.ledger) : e.sec = s => EntryCodes(b.ledger, e, c) = {}
        /\ Held(b, s) = UnitsIn(b.ledger, {k \in DOMAIN b.ledger : b.ledger[k].sec = s})
        /\ Held(b, s) \in Int
    BY <2>1, <2>2, HoldingStands
  <2> QED
    BY <1>0, <2>3
<1>4. PICK R : R = {k \in DOMAIN E : E[k].sec \in SecsOf(i)}
  OBVIOUS
<1>5. R \in SUBSET DOMAIN E /\ IsFiniteSet(R)
  BY <1>1, <1>4, FS_Subset DEF LedgerOf
<1>6. \A k \in R : Alone(ById(E), E[k].id)
  <2> TAKE k \in R
  <2>1. E[k] \in Range(E) /\ E[k].sec \in SecsOf(i)
    BY <1>4 DEF Range
  <2>2. EntryCodes(E, E[k], c) = {}
    BY <1>3, <2>1
  <2>3. Clean(E, c, E[k])
    BY <1>1, <2>1, <2>2, CodesTell
  <2> QED
    BY <2>3 DEF Clean
<1>7. {E[k] : k \in R} = OfIssuer(Range(E) \union canon, i)
  <2>1. \A e \in Range(E) : e.sec \in Secs \union {NoSec}
    BY <1>1 DEF LedgerOf, EntryOf, Range
  <2>2. OfIssuer(Range(E) \union canon, i) = {e \in Range(E) : e.sec \in SecsOf(i)}
    BY <1>2, <2>1 DEF OfIssuer, SecsOf
  <2> QED
    BY <1>4, <2>2 DEF Range
<1>8. UnitsIn(E, R) = Units({E[k] : k \in R})
  BY <1>1, <1>5, <1>6, RowsToEntries
<1>9. PICK g : g = [k \in R |-> E[k].qty]
  OBVIOUS
<1>10. \A k \in R : g[k] \in Int
  <2>1. \A k \in R : E[k] \in EntryOf(a, n)
    BY <1>1, <1>5 DEF LedgerOf
  <2> QED
    BY <1>9, <2>1 DEF EntryOf
<1>11. PICK q : q = [k \in R |-> E[k].sec]
  OBVIOUS
<1>12. PICK f : f = [s \in SecsOf(i) |-> Held(b, s)]
  OBVIOUS
<1>13. IsFiniteSet(SecsOf(i)) /\ \A s \in SecsOf(i) : f[s] \in Int
  <2>1. SecsOf(i) \subseteq Secs
    BY DEF SecsOf
  <2> QED
    BY <1>3, <1>12, <2>1, FS_Subset
<1>14. \A s \in SecsOf(i) : f[s] = SumTo(g, Class(R, q, s))
  <2> TAKE s \in SecsOf(i)
  <2>1. PICK T : T = {k \in DOMAIN E : E[k].sec = s}
    OBVIOUS
  <2>2. T = Class(R, q, s) /\ T \subseteq R
    BY <1>4, <1>11, <2>1 DEF Class
  <2>3. PICK h : h = [k \in T |-> E[k].qty]
    OBVIOUS
  <2>4. IsFiniteSet(T) /\ DOMAIN h = T /\ \A k \in T : h[k] = g[k]
    BY <1>5, <1>9, <2>2, <2>3, FS_Subset
  <2>5. SumFunction(h) = SumTo(g, T)
    BY <2>4, SumOf
  <2>6. UnitsIn(E, T) = SumTo(g, T)
    BY <2>3, <2>5 DEF UnitsIn
  <2> QED
    BY <1>3, <1>12, <2>1, <2>2, <2>6
<1>15. SumTo(f, SecsOf(i)) = SumTo(g, R)
  <2>1. \A k \in R : q[k] \in SecsOf(i)
    BY <1>4, <1>11
  <2> QED
    BY <1>5, <1>10, <1>13, <1>14, <2>1, SumByClass
<1>16. UnitsIn(E, R) = SumTo(g, R)
  <2>1. DOMAIN g = R
    BY <1>9
  <2>2. SumFunction(g) = SumTo(g, R)
    BY <2>1, SumIsSumTo
  <2> QED
    BY <1>9, <2>2 DEF UnitsIn
<1>17. PICK L : L = {s \in Listed(b) : Issuer[s] = i}
  OBVIOUS
<1>18. L \in SUBSET SecsOf(i) /\ \A s \in SecsOf(i) \ L : f[s] = 0
  <2>1. \A s \in SecsOf(i) \ L : s \notin Listed(b)
    BY <1>17 DEF SecsOf
  <2>2. \A s \in SecsOf(i) \ L : Held(b, s) = 0
    BY <2>1 DEF Held
  <2> QED
    BY <1>12, <1>17, <2>2 DEF Listed, SecsOf
<1>19. SumTo(f, L) = SumTo(f, SecsOf(i))
  BY <1>13, <1>18, SumWithoutZeros
<1>20. Worths(b, L) = SumTo(f, L)
  <2>1. PICK h : h = [s \in L |-> b.positions[s].total]
    OBVIOUS
  <2>2. \A s \in L : h[s] = f[s]
    BY <1>12, <1>17, <1>18, <2>1 DEF Held
  <2>3. IsFiniteSet(L) /\ DOMAIN h = L
    BY <1>13, <1>18, <2>1, FS_Subset
  <2>4. SumFunction(h) = SumTo(f, L)
    BY <2>2, <2>3, SumOf
  <2> QED
    BY <2>1, <2>4 DEF Worths
<1>21. SumTo(g, R) \in Int
  BY <1>5, <1>10, SumType
<1> QED
  BY <1>0, <1>7, <1>8, <1>15, <1>16, <1>17, <1>19, <1>20, <1>21

-----------------------------------------------------------------------------
(* What an outcome publishes.                                              *)

RecordOf(r, n) ==
    /\ r.cutoff \in Int /\ IsFiniteSet(DOMAIN r.books)
    /\ \A a \in DOMAIN r.books : BookOf(r.books[a], a, n)

JudgedFrom(H, r) ==
    r = Judged(r.view, r.cutoff, r.books, Conflicts(H, r.view, r.cutoff, r.books))

Canon(H, r, a) == LedgerHistory(H, r.view, a, r.cutoff)
Baseline(H, r, a) == CashHistory(H, r.view, a, r.cutoff)

\* The conflicts of an outcome are those of its accounts.
LEMMA ConflictsOf ==
    ASSUME NEW H, NEW r, JudgedFrom(H, r)
    PROVE  \E K : /\ r.reconciled = (K = {}) /\ r.exact = ExactUnits(r.books, K)
                  /\ r.priced = PricedIssuers(r.books, K)
                  /\ \A a \in DOMAIN r.books :
                        AccountConflicts(a, r.books[a], r.cutoff, Canon(H, r, a), Baseline(H, r, a))
                          \subseteq K
                  /\ \A k \in K : \E a \in DOMAIN r.books :
                        k \in AccountConflicts(a, r.books[a], r.cutoff, Canon(H, r, a),
                                               Baseline(H, r, a))
<1>1. PICK K : K = Conflicts(H, r.view, r.cutoff, r.books)
  OBVIOUS
<1>2. /\ r.reconciled = (K = {}) /\ r.exact = ExactUnits(r.books, K)
      /\ r.priced = PricedIssuers(r.books, K)
  <2>1. PICK j : j = Judged(r.view, r.cutoff, r.books, K)
    OBVIOUS
  <2>2. (K = {}) \in BOOLEAN
    OBVIOUS
  <2>3. r = j
    BY <1>1, <2>1 DEF JudgedFrom
  <2>4. /\ j.reconciled = (K = {}) /\ j.exact = ExactUnits(r.books, K)
        /\ j.priced = PricedIssuers(r.books, K)
    BY <2>1, <2>2 DEF Judged
  <2> QED
    BY <2>3, <2>4
<1>3. K = UNION {AccountConflicts(a, r.books[a], r.cutoff, Canon(H, r, a), Baseline(H, r, a)) :
                    a \in DOMAIN r.books}
  BY <1>1 DEF Conflicts, Canon, Baseline
<1>4. /\ \A a \in DOMAIN r.books :
            AccountConflicts(a, r.books[a], r.cutoff, Canon(H, r, a), Baseline(H, r, a)) \subseteq K
      /\ \A k \in K : \E a \in DOMAIN r.books :
            k \in AccountConflicts(a, r.books[a], r.cutoff, Canon(H, r, a), Baseline(H, r, a))
  BY <1>3
<1> QED
  BY <1>2, <1>4, Zenon

\* An exact quantity and the orders on it are covered.
LEMMA RecordIsCovered ==
    ASSUME NEW H, NEW n \in Nat, NEW r, RecordOf(r, n), JudgedFrom(H, r), NEW u \in r.exact
    PROVE  r.books[u[1]].positions[u[2]].sellable + r.books[u[1]].orders[u[2]].open
             <= Units({e \in Range(r.books[u[1]].ledger) \union Canon(H, r, u[1]) : e.sec = u[2]})
<1>1. PICK K : /\ r.exact = ExactUnits(r.books, K)
               /\ \A a \in DOMAIN r.books :
                     AccountConflicts(a, r.books[a], r.cutoff, Canon(H, r, a), Baseline(H, r, a))
                       \subseteq K
  BY ConflictsOf
<1>2. PICK a \in DOMAIN r.books, s \in Secs : u = <<a, s>>
  BY <1>1 DEF ExactUnits
<1>3. s \in Listed(r.books[a]) /\ \A k \in K : ~k.whole /\ ~Concerns(k, a, s)
  BY <1>1, <1>2 DEF ExactUnits
<1>4. BookOf(r.books[a], a, n) /\ r.cutoff \in Int
  BY <1>2 DEF RecordOf
<1>5. \A k \in AccountConflicts(a, r.books[a], r.cutoff, Canon(H, r, a), Baseline(H, r, a)) :
         ~k.whole /\ ~Concerns(k, a, s)
  BY <1>1, <1>2, <1>3
<1>6. r.books[a].positions[s].sellable + r.books[a].orders[s].open
        <= Units({e \in Range(r.books[a].ledger) \union Canon(H, r, a) : e.sec = s})
  BY <1>3, <1>4, <1>5, ExactStands
<1>7. u[1] = a /\ u[2] = s
  BY <1>2
<1> QED
  BY <1>6, <1>7

\* A priced issuer is worth what its accounts hold of it.
LEMMA RecordIsWhole ==
    ASSUME NEW H, NEW n \in Nat, NEW r, RecordOf(r, n), JudgedFrom(H, r), NEW i \in r.priced,
           NoSec \notin Secs, IsFiniteSet(Secs)
    PROVE  Exposure(r.books, i) =
             SumFunction([a \in DOMAIN r.books |->
                 Units(OfIssuer(Range(r.books[a].ledger) \union Canon(H, r, a), i))])
<1>1. PICK K : /\ r.priced = PricedIssuers(r.books, K)
               /\ \A a \in DOMAIN r.books :
                     AccountConflicts(a, r.books[a], r.cutoff, Canon(H, r, a), Baseline(H, r, a))
                       \subseteq K
  BY ConflictsOf
<1>2. PICK B : B = r.books
  OBVIOUS
<1>3. PICK U : U = HeldBy(B, i)
  OBVIOUS
<1>4. \A k \in K : k.code \notin CoverageCodes
                   /\ (k.valued => \A u \in U : ~Concerns(k, u[1], u[2]))
  BY <1>1, <1>2, <1>3 DEF PricedIssuers
<1>5. PICK L : L = [a \in DOMAIN B |-> {s \in Listed(B[a]) : Issuer[s] = i}]
  OBVIOUS
<1>6. \A a \in DOMAIN B : \A s \in L[a] : s \in Secs /\ <<a, s>> \in U
  BY <1>3, <1>5 DEF HeldBy, Listed
<1>7. \A u \in U : u[1] \in DOMAIN B /\ u[2] \in L[u[1]] /\ u = <<u[1], u[2]>>
  BY <1>3, <1>5 DEF HeldBy
<1>8. PICK f : f = [a \in DOMAIN B |->
                       Units(OfIssuer(Range(B[a].ledger) \union Canon(H, r, a), i))]
  OBVIOUS
<1>9. ASSUME NEW a \in DOMAIN B
      PROVE  Worths(B[a], L[a]) = f[a] /\ f[a] \in Int
  <2>1. BookOf(B[a], a, n) /\ r.cutoff \in Int
    BY <1>2 DEF RecordOf
  <2>2. AccountConflicts(a, B[a], r.cutoff, Canon(H, r, a), Baseline(H, r, a)) \subseteq K
    BY <1>1, <1>2
  <2>3. ASSUME NEW k \in AccountConflicts(a, B[a], r.cutoff, Canon(H, r, a), Baseline(H, r, a))
        PROVE  /\ k.code \notin CoverageCodes
               /\ k.valued => \A s \in Listed(B[a]) : Issuer[s] = i => ~Concerns(k, a, s)
    <3>1. k \in K
      BY <2>2
    <3>2. ASSUME k.valued, NEW s \in Listed(B[a]), Issuer[s] = i PROVE ~Concerns(k, a, s)
      <4>1. s \in L[a]
        BY <1>5, <3>2
      <4>2. <<a, s>> \in U
        BY <1>6, <4>1
      <4>3. \A u \in U : ~Concerns(k, u[1], u[2])
        BY <1>4, <3>1, <3>2
      <4>4. PICK u \in U : u = <<a, s>>
        BY <4>2
      <4>5. u[1] = a /\ u[2] = s
        BY <4>4
      <4> QED
        BY <4>3, <4>5
    <3> QED
      BY <1>4, <3>1, <3>2
  <2>4. Worths(B[a], {s \in Listed(B[a]) : Issuer[s] = i})
          = Units(OfIssuer(Range(B[a].ledger) \union Canon(H, r, a), i))
        /\ Worths(B[a], {s \in Listed(B[a]) : Issuer[s] = i}) \in Int
    BY <2>1, <2>3, IssuerStands
  <2> QED
    BY <1>5, <1>8, <2>4
<1>10. IsFiniteSet(DOMAIN B) /\ IsFiniteSet(U)
  <2>1. IsFiniteSet(DOMAIN B)
    BY <1>2 DEF RecordOf
  <2>2. IsFiniteSet((DOMAIN B) \X Secs)
    BY <2>1, FS_Product
  <2>3. U \in SUBSET ((DOMAIN B) \X Secs)
    BY <1>3 DEF HeldBy
  <2> QED
    BY <2>1, <2>2, <2>3, FS_Subset
<1>11. PICK g : g = [u \in U |-> B[u[1]].positions[u[2]].total]
  OBVIOUS
<1>12. \A u \in U : g[u] \in Int
  <2> TAKE u \in U
  <2>1. u[1] \in DOMAIN B /\ u[2] \in Secs
    BY <1>6, <1>7
  <2>2. BookOf(B[u[1]], u[1], n)
    BY <1>2, <2>1 DEF RecordOf
  <2>3. B[u[1]].positions[u[2]] \in Position
    BY <2>1, <2>2 DEF BookOf
  <2> QED
    BY <1>11, <2>3 DEF Position
<1>13. PICK q : q = [u \in U |-> u[1]]
  OBVIOUS
<1>14. \A a \in DOMAIN B : f[a] = SumTo(g, Class(U, q, a))
  <2> TAKE a \in DOMAIN B
  <2>1. PICK p : p = [s \in L[a] |-> <<a, s>>]
    OBVIOUS
  <2>2. {p[s] : s \in L[a]} = Class(U, q, a)
    BY <1>6, <1>7, <1>13, <2>1 DEF Class
  <2>3. PICK w : w = [s \in L[a] |-> B[a].positions[s].total]
    OBVIOUS
  <2>4. \A s \in L[a] : g[p[s]] = w[s] /\ w[s] \in Int
    BY <1>6, <1>11, <1>12, <2>1, <2>3
  <2>5. \A s, t \in L[a] : p[s] = p[t] => s = t
    BY <2>1
  <2>6. IsFiniteSet(L[a])
    <3>1. L[a] \subseteq Secs
      BY <1>6
    <3> QED
      BY <3>1, FS_Subset
  <2>7. SumTo(g, {p[s] : s \in L[a]}) = SumTo(w, L[a])
    BY <2>4, <2>5, <2>6, SumOnto
  <2>8. Worths(B[a], L[a]) = SumTo(w, L[a])
    <3>1. DOMAIN w = L[a]
      BY <2>3
    <3>2. SumFunction(w) = SumTo(w, L[a])
      BY <3>1, SumIsSumTo
    <3> QED
      BY <2>3, <3>2 DEF Worths
  <2> QED
    BY <1>9, <2>2, <2>7, <2>8
<1>15. SumTo(f, DOMAIN B) = SumTo(g, U)
  <2>1. (\A u \in U : q[u] \in DOMAIN B) /\ \A a \in DOMAIN B : f[a] \in Int
    BY <1>7, <1>9, <1>13
  <2> QED
    BY <1>10, <1>12, <1>14, <2>1, SumByClass
<1>16. Exposure(B, i) = SumTo(g, U)
  <2>1. DOMAIN g = U
    BY <1>11
  <2>2. SumFunction(g) = SumTo(g, U)
    BY <2>1, SumIsSumTo
  <2> QED
    BY <1>3, <1>11, <2>2 DEF Exposure
<1>17. SumFunction(f) = SumTo(f, DOMAIN B)
  <2>1. DOMAIN f = DOMAIN B
    BY <1>8
  <2> QED
    BY <2>1, SumIsSumTo
<1> QED
  BY <1>2, <1>8, <1>15, <1>16, <1>17

-----------------------------------------------------------------------------
(* What the feed delivers is a book.                                       *)

\* Histories hold records of many shapes.
IsSeq(s) == s \in Seq({s[i] : i \in DOMAIN s})
\* One record more.
Grows(s, x, u) ==
    /\ IsSeq(u)
    /\ Len(s) \in Nat /\ Len(u) = Len(s) + 1
    /\ DOMAIN s = 1 .. Len(s) /\ DOMAIN u = 1 .. Len(u)
    /\ \A i \in DOMAIN s : u[i] = s[i]
    /\ u[Len(u)] = x

\* A history and what appending one record makes of it.
LEMMA Appended ==
    ASSUME NEW s, IsSeq(s), NEW x, NEW u, u = Append(s, x)
    PROVE  Grows(s, x, u)
<1>1. PICK S : S = {s[i] : i \in DOMAIN s}
  OBVIOUS
<1>2. s \in Seq(S \cup {x})
  <2>1. s \in Seq(S)
    BY <1>1 DEF IsSeq
  <2> QED
    BY <2>1
<1>3. u \in Seq(S \cup {x}) /\ Len(u) = Len(s) + 1 /\ Len(s) \in Nat
  BY <1>2
<1>4. DOMAIN s = 1 .. Len(s) /\ DOMAIN u = 1 .. Len(u)
  BY <1>2, <1>3
<1>5. (\A i \in DOMAIN s : u[i] = s[i]) /\ u[Len(u)] = x
  BY <1>2, <1>3
<1>6. IsSeq(u)
  <2>1. PICK n \in Nat : n = Len(u)
    BY <1>3
  <2>2. PICK R : R = {u[i] : i \in DOMAIN u}
    OBVIOUS
  <2>3. \A i \in 1 .. n : u[i] \in R
    BY <1>4, <2>1, <2>2
  <2>4. PICK Z : Z = S \cup {x}
    OBVIOUS
  <2>5. u \in Seq(Z) /\ n = Len(u)
    BY <1>3, <2>1, <2>4
  <2>6. u \in [1 .. n -> Z]
    BY ONLY <2>5
  <2>7. u \in [1 .. n -> R]
    BY ONLY <2>3, <2>6
  <2>8. u \in Seq(R)
    BY ONLY <2>7, n \in Nat
  <2> QED
    BY <2>2, <2>8 DEF IsSeq
<1> QED
  BY <1>3, <1>4, <1>5, <1>6 DEF Grows

FactOK(i) ==
    /\ facts[i].account \in bound.accounts
    /\ facts[i] \in EntryOf(facts[i].account, Len(facts))
    /\ facts[i].id = i /\ facts[i].proved = TRUE
    /\ facts[i].at <= facts[i].seen /\ facts[i].seen <= now + 1
    /\ SecurityKnown(facts[i])
    /\ facts[i].corrects < i
    /\ facts[i].corrects # 0 =>
          /\ facts[facts[i].corrects].account = facts[i].account
          /\ facts[facts[i].corrects].seen <= facts[i].seen

FactsOK ==
    /\ bound \in Cases /\ now \in Nat
    /\ IsSeq(facts)
    /\ \A i \in DOMAIN facts : FactOK(i)

\* Rows add up to integers.
LEMMA RowsAreInt ==
    ASSUME NEW E, NEW a, NEW n, LedgerOf(E, a, n), NEW R \in SUBSET DOMAIN E
    PROVE  /\ UnitsIn(E, R) \in Int /\ CashIn(E, R) \in Int
           /\ UnitsIn(E, R) = SumTo([k \in R |-> E[k].qty], R)
           /\ CashIn(E, R) = SumTo([k \in R |-> E[k].cash], R)
<1>1. IsFiniteSet(R) /\ \A k \in R : E[k].qty \in Int /\ E[k].cash \in Int
  <2>1. IsFiniteSet(R)
    BY FS_Subset DEF LedgerOf
  <2>2. \A k \in R : E[k] \in EntryOf(a, n)
    BY DEF LedgerOf
  <2> QED
    BY <2>1, <2>2 DEF EntryOf
<1>2. PICK g : g = [k \in R |-> E[k].qty]
  OBVIOUS
<1>3. PICK h : h = [k \in R |-> E[k].cash]
  OBVIOUS
<1>4. DOMAIN g = R /\ DOMAIN h = R /\ \A k \in R : g[k] \in Int /\ h[k] \in Int
  BY <1>1, <1>2, <1>3
<1>5. SumFunction(g) = SumTo(g, R) /\ SumFunction(h) = SumTo(h, R)
  BY <1>4, SumIsSumTo
<1>6. SumTo(g, R) \in Int /\ SumTo(h, R) \in Int
  BY <1>1, <1>4, SumType
<1> QED
  BY <1>2, <1>3, <1>5, <1>6 DEF UnitsIn, CashIn

\* A ledger with a summary of a ledger is a book.
LEMMA CapturedIsBook ==
    ASSUME NEW E, NEW F, NEW a, NEW n, LedgerOf(E, a, n), LedgerOf(F, a, n), NEW selling,
           Opening \in Int, IsFiniteSet(Secs)
    PROVE  BookOf(Captured(E, Summary(F, selling)), a, n)
<1>1. PICK total : total = [s \in Secs |-> UnitsIn(F, {i \in DOMAIN F : F[i].sec = s})]
  OBVIOUS
<1>2. \A s \in Secs : total[s] \in Int
  <2> TAKE s \in Secs
  <2>1. {i \in DOMAIN F : F[i].sec = s} \in SUBSET DOMAIN F
    OBVIOUS
  <2> QED
    BY <1>1, <2>1, RowsAreInt
<1>3. PICK open : open = [s \in Secs |-> IF s \in selling /\ total[s] > 0 THEN 1 ELSE 0]
  OBVIOUS
<1>4. \A s \in Secs : open[s] \in Int
  BY <1>3
<1>5. PICK cash : cash = Opening + CashIn(F, DOMAIN F)
  OBVIOUS
<1>6. cash \in Int
  BY <1>5, RowsAreInt
<1>7. PICK all : all = SumFunction(total)
  OBVIOUS
<1>8. all \in Int
  <2>1. DOMAIN total = Secs
    BY <1>1
  <2> QED
    BY <1>2, <1>7, <2>1, SumIsSumTo, SumType
<1>9. PICK p : p = [s \in Secs |-> [listed |-> total[s] # 0, total |-> total[s],
                                    sellable |-> total[s] - open[s], selling |-> open[s],
                                    proved |-> TRUE, exact |-> TRUE]]
  OBVIOUS
<1>10. PICK o : o = [s \in Secs |-> [open |-> open[s], sound |-> TRUE]]
  OBVIOUS
<1>11. PICK m : m = Summary(F, selling)
  OBVIOUS
<1>12. m = [positions |-> p, orders |-> o, restricted |-> {}, manifest |-> TRUE,
            openingProved |-> TRUE, opening |-> Opening, cash |-> cash, frozen |-> 0,
            reserve |-> 0, equity |-> cash + all]
  BY <1>1, <1>3, <1>5, <1>7, <1>9, <1>10, <1>11 DEF Summary
<1>13. p \in [Secs -> Position] /\ o \in [Secs -> Order]
  <2>1. ASSUME NEW s \in Secs PROVE p[s] \in Position /\ o[s] \in Order
    <3>1. (total[s] # 0) \in BOOLEAN
      OBVIOUS
    <3> QED
      BY <1>2, <1>4, <1>9, <1>10, <3>1 DEF Position, Order
  <2>2. DOMAIN p = Secs /\ DOMAIN o = Secs /\ p = [s \in Secs |-> p[s]] /\ o = [s \in Secs |-> o[s]]
    BY <1>9, <1>10
  <2> QED
    BY <2>1, <2>2
<1>14. PICK b : b = Captured(E, m)
  OBVIOUS
<1>15. b = [ledger |-> E, positions |-> p, orders |-> o, restricted |-> {}, manifest |-> TRUE,
            openingProved |-> TRUE, opening |-> Opening, cash |-> cash, frozen |-> 0,
            reserve |-> 0, equity |-> cash + all]
  BY <1>12, <1>14 DEF Captured
<1>16. BookOf(b, a, n)
  BY <1>6, <1>8, <1>13, <1>15 DEF BookOf
<1> QED
  BY <1>11, <1>14, <1>16

\* What the broker reports is a ledger of the account.
LEMMA ReportedIsLedger ==
    ASSUME FactsOK, NEW a, NEW c
    PROVE  LedgerOf(Reported(a, c), a, Len(facts))
<1>1. PICK n : n = Len(facts)
  OBVIOUS
<1>2. n \in Nat /\ DOMAIN facts = 1..n
  BY <1>1 DEF FactsOK, IsSeq
<1>3. PICK R : R = Reported(a, c)
  OBVIOUS
<1>4. DOMAIN R \subseteq 1..n /\ \A i \in DOMAIN R : facts[i].account = a /\ R[i] = facts[i]
  BY <1>2, <1>3 DEF Reported, SeenOf
<1>5. IsFiniteSet(DOMAIN R)
  BY <1>2, <1>4, FS_Interval, FS_Subset
<1>6. \A i \in DOMAIN R : R[i] \in EntryOf(a, n)
  BY <1>1, <1>2, <1>4 DEF FactsOK, FactOK
<1>7. DOMAIN R \subseteq 0..n
  BY <1>2, <1>4
<1> QED
  BY <1>1, <1>3, <1>5, <1>6, <1>7 DEF LedgerOf

\* An altered entry is an entry.
LEMMA AlteredIsEntry ==
    ASSUME FactsOK, NEW a, NEW n \in Nat, NEW e \in EntryOf(a, n), NEW f \in Alterations(e),
           \A b \in Cases : b.facts \in Nat
    PROVE  f \in EntryOf(a, n)
<1>1. Ids \subseteq Nat
  BY DEF FactsOK, Ids
<1>2. PICK A : A = {[e EXCEPT !.qty = @ + 1, !.cash = @ - 1]}
  OBVIOUS
<1>3. PICK B : B = {[e EXCEPT !.sec = s] : s \in {NoSec} \union Secs}
  OBVIOUS
<1>4. PICK C : C = {[e EXCEPT !.proved = FALSE]}
  OBVIOUS
<1>5. PICK D : D = {[e EXCEPT !.at = @ + 1], [e EXCEPT !.seen = @ - 1]}
  OBVIOUS
<1>6. PICK F : F = {[e EXCEPT !.corrects = i] : i \in Ids}
  OBVIOUS
<1>7. f \in A \union B \union C \union D \union F
  <2>1. f \in Wrong("quantity", A) \union Wrong("security", B) \union Wrong("evidence", C)
             \union Wrong("clock", D) \union Wrong("lineage", F)
    BY <1>2, <1>3, <1>4, <1>5, <1>6 DEF Alterations
  <2> QED
    BY <2>1 DEF Wrong
<1>8. CASE f \in A
  <2>1. PICK q \in Int : q = e.qty + 1
    BY DEF EntryOf
  <2>2. PICK d \in Int : d = e.cash - 1
    BY DEF EntryOf
  <2>3. f = [e EXCEPT !.qty = q, !.cash = d]
    BY <1>2, <1>8, <2>1, <2>2
  <2> QED
    BY <2>3 DEF EntryOf
<1>9. CASE f \in B
  BY <1>3, <1>9 DEF EntryOf
<1>10. CASE f \in C
  BY <1>4, <1>10 DEF EntryOf
<1>11. CASE f \in D
  BY <1>5, <1>11 DEF EntryOf
<1>12. CASE f \in F
  <2>1. PICK i \in Ids : f = [e EXCEPT !.corrects = i]
    BY <1>6, <1>12
  <2>2. i \in Nat
    BY <1>1
  <2> QED
    BY <2>1, <2>2 DEF EntryOf
<1> QED
  BY <1>7, <1>8, <1>9, <1>10, <1>11, <1>12

\* A miscaptured ledger is a ledger of the account.
LEMMA MiscapturedIsLedger ==
    ASSUME FactsOK, NEW a, NEW c, NEW M \in MiscapturedLedgers(a, c), \A b \in Cases : b.facts \in Nat
    PROVE  LedgerOf(M, a, Len(facts))
<1>1. PICK n : n = Len(facts)
  OBVIOUS
<1>2. n \in Nat /\ DOMAIN facts = 1..n
  BY <1>1 DEF FactsOK, IsSeq
<1> DEFINE E == Reported(a, c)
           all == {i \in DOMAIN facts : facts[i].account = a}
           A == {[j \in DOMAIN E \ {i} |-> E[j]] : i \in DOMAIN E}
           B == UNION {{[E EXCEPT ![i] = e] : e \in Alterations(E[i])} : i \in DOMAIN E}
           C == {[j \in {0} \union DOMAIN E |-> IF j = 0 THEN E[i] ELSE E[j]] : i \in DOMAIN E}
           D == {[j \in all |-> facts[j]]}
<1>4. LedgerOf(E, a, n)
  BY <1>1, ReportedIsLedger
<1>4a. IsFiniteSet(DOMAIN E) /\ DOMAIN E \subseteq 0..n /\ \A k \in DOMAIN E : E[k] \in EntryOf(a, n)
  BY <1>4 DEF LedgerOf
<1>10. M \in A \union B \union C \union D
  <2>1. M \in Wrong("omit", A) \union B \union Wrong("repeat", C) \union Wrong("early", D)
    BY Zenon DEF MiscapturedLedgers
  <2> HIDE DEF A, B, C, D
  <2> QED
    BY <2>1 DEF Wrong
<1>11. CASE M \in A
  <2>1. PICK i \in DOMAIN E : M = [j \in DOMAIN E \ {i} |-> E[j]]
    BY <1>11
  <2>2. IsFiniteSet(DOMAIN M)
    <3>1. DOMAIN M \subseteq DOMAIN E
      BY <2>1
    <3> QED
      BY <1>4a, <3>1, FS_Subset
  <2> QED
    BY <1>1, <1>4a, <2>1, <2>2 DEF LedgerOf
<1>12. CASE M \in B
  <2>1. PICK i \in DOMAIN E : M \in {[E EXCEPT ![i] = e] : e \in Alterations(E[i])}
    BY <1>12
  <2>2. PICK e \in Alterations(E[i]) : M = [E EXCEPT ![i] = e]
    BY <2>1
  <2>3. E[i] \in EntryOf(a, n)
    BY <1>4a
  <2>4. e \in EntryOf(a, n)
    BY <1>2, <2>2, <2>3, AlteredIsEntry
  <2>5. DOMAIN M = DOMAIN E /\ \A k \in DOMAIN E : M[k] = IF k = i THEN e ELSE E[k]
    BY <2>2
  <2> QED
    BY <1>1, <1>4a, <2>4, <2>5 DEF LedgerOf
<1>13. CASE M \in C
  <2>1. PICK i \in DOMAIN E : M = [j \in {0} \union DOMAIN E |-> IF j = 0 THEN E[i] ELSE E[j]]
    BY <1>13
  <2>2. DOMAIN M = {0} \union DOMAIN E /\ \A k \in DOMAIN M : M[k] = IF k = 0 THEN E[i] ELSE E[k]
    BY <2>1
  <2>3. IsFiniteSet(DOMAIN M)
    <3>1. IsFiniteSet({0})
      BY FS_Singleton
    <3>2. IsFiniteSet({0} \union DOMAIN E)
      BY <1>4a, <3>1, FS_Union
    <3> QED
      BY <2>2, <3>2
  <2>4. \A k \in DOMAIN M : M[k] \in EntryOf(a, n)
    BY <1>4a, <2>1, <2>2
  <2>5. DOMAIN M \subseteq 0..n
    BY <1>2, <1>4a, <2>2
  <2> QED
    BY <1>1, <2>3, <2>4, <2>5 DEF LedgerOf
<1>14. CASE M \in D
  <2>1. M = [j \in all |-> facts[j]]
    BY <1>14
  <2>2. DOMAIN M \subseteq 1..n /\ \A k \in DOMAIN M : M[k] = facts[k] /\ facts[k].account = a
    BY <1>2, <2>1
  <2>3. IsFiniteSet(DOMAIN M)
    BY <1>2, <2>2, FS_Interval, FS_Subset
  <2>4. \A k \in DOMAIN M : M[k] \in EntryOf(a, n)
    BY <1>1, <1>2, <2>2 DEF FactsOK, FactOK
  <2>5. DOMAIN M \subseteq 0..n
    BY <1>2, <2>2
  <2> QED
    BY <1>1, <2>3, <2>4, <2>5 DEF LedgerOf
<1> QED
  BY <1>10, <1>11, <1>12, <1>13, <1>14

BookShape(b) ==
    [ledger : {b.ledger}, positions : [Secs -> Position], orders : [Secs -> Order],
     restricted : SUBSET Secs, manifest : BOOLEAN, openingProved : BOOLEAN,
     opening : Int, cash : Int, frozen : Int, reserve : Int, equity : Int]

Changes(b, a, n) ==
    /\ \A p \in [Secs -> Position] : BookOf([b EXCEPT !.positions = p], a, n)
    /\ \A o \in [Secs -> Order] : BookOf([b EXCEPT !.orders = o], a, n)
    /\ \A p \in [Secs -> Position], x \in Int :
          BookOf([b EXCEPT !.positions = p, !.equity = x], a, n)
    /\ \A x, y, z \in Int :
          /\ BookOf([b EXCEPT !.opening = x, !.cash = y, !.equity = z], a, n)
          /\ BookOf([b EXCEPT !.cash = x], a, n) /\ BookOf([b EXCEPT !.equity = x], a, n)
          /\ BookOf([b EXCEPT !.reserve = x], a, n) /\ BookOf([b EXCEPT !.frozen = x], a, n)
    /\ BookOf([b EXCEPT !.openingProved = FALSE], a, n)
    /\ BookOf([b EXCEPT !.manifest = FALSE], a, n)
    /\ \A S \in SUBSET Secs : BookOf([b EXCEPT !.restricted = S], a, n)

\* A book with one fact changed is a book.
LEMMA ChangedIsBook ==
    ASSUME NEW b, NEW a, NEW n, BookOf(b, a, n)
    PROVE  Changes(b, a, n)
<1>1. LedgerOf(b.ledger, a, n) /\ b \in BookShape(b)
  BY DEF BookOf, BookShape
<1>2. \A d : d.ledger = b.ledger /\ d \in BookShape(b) => BookOf(d, a, n)
  BY <1>1 DEF BookOf, BookShape
<1>3. ASSUME NEW p \in [Secs -> Position], NEW x \in Int
      PROVE  BookOf([b EXCEPT !.positions = p, !.equity = x], a, n)
  <2>1. [b EXCEPT !.positions = p, !.equity = x] \in BookShape(b)
        /\ [b EXCEPT !.positions = p, !.equity = x].ledger = b.ledger
    BY <1>1 DEF BookShape
  <2> QED
    BY <1>2, <2>1
<1>8. ASSUME NEW p \in [Secs -> Position] PROVE BookOf([b EXCEPT !.positions = p], a, n)
  <2>1. [b EXCEPT !.positions = p] \in BookShape(b) /\ [b EXCEPT !.positions = p].ledger = b.ledger
    BY <1>1 DEF BookShape
  <2> QED
    BY <1>2, <2>1
<1>9. ASSUME NEW o \in [Secs -> Order] PROVE BookOf([b EXCEPT !.orders = o], a, n)
  <2>1. [b EXCEPT !.orders = o] \in BookShape(b) /\ [b EXCEPT !.orders = o].ledger = b.ledger
    BY <1>1 DEF BookShape
  <2> QED
    BY <1>2, <2>1
<1>4. ASSUME NEW x \in Int, NEW y \in Int, NEW z \in Int
      PROVE  /\ BookOf([b EXCEPT !.opening = x, !.cash = y, !.equity = z], a, n)
             /\ BookOf([b EXCEPT !.cash = x], a, n) /\ BookOf([b EXCEPT !.equity = x], a, n)
             /\ BookOf([b EXCEPT !.reserve = x], a, n) /\ BookOf([b EXCEPT !.frozen = x], a, n)
  <2>1. [b EXCEPT !.opening = x, !.cash = y, !.equity = z] \in BookShape(b)
        /\ [b EXCEPT !.opening = x, !.cash = y, !.equity = z].ledger = b.ledger
    BY <1>1 DEF BookShape
  <2>2. [b EXCEPT !.cash = x] \in BookShape(b) /\ [b EXCEPT !.cash = x].ledger = b.ledger
    BY <1>1 DEF BookShape
  <2>3. [b EXCEPT !.equity = x] \in BookShape(b) /\ [b EXCEPT !.equity = x].ledger = b.ledger
    BY <1>1 DEF BookShape
  <2>4. [b EXCEPT !.reserve = x] \in BookShape(b) /\ [b EXCEPT !.reserve = x].ledger = b.ledger
    BY <1>1 DEF BookShape
  <2>5. [b EXCEPT !.frozen = x] \in BookShape(b) /\ [b EXCEPT !.frozen = x].ledger = b.ledger
    BY <1>1 DEF BookShape
  <2> QED
    BY <1>2, <2>1, <2>2, <2>3, <2>4, <2>5
<1>5. BookOf([b EXCEPT !.openingProved = FALSE], a, n)
  <2>1. [b EXCEPT !.openingProved = FALSE] \in BookShape(b)
        /\ [b EXCEPT !.openingProved = FALSE].ledger = b.ledger
    BY <1>1 DEF BookShape
  <2> QED
    BY <1>2, <2>1
<1>6. BookOf([b EXCEPT !.manifest = FALSE], a, n)
  <2>1. [b EXCEPT !.manifest = FALSE] \in BookShape(b)
        /\ [b EXCEPT !.manifest = FALSE].ledger = b.ledger
    BY <1>1 DEF BookShape
  <2> QED
    BY <1>2, <2>1
<1>7. ASSUME NEW S \in SUBSET Secs PROVE BookOf([b EXCEPT !.restricted = S], a, n)
  <2>1. [b EXCEPT !.restricted = S] \in BookShape(b)
        /\ [b EXCEPT !.restricted = S].ledger = b.ledger
    BY <1>1, <1>7 DEF BookShape
  <2> QED
    BY <1>2, <2>1
<1> QED
  BY <1>3, <1>4, <1>5, <1>6, <1>7, <1>8, <1>9, Zenon DEF Changes

\* A position with one fact changed is a position.
LEMMA ChangedPosition ==
    ASSUME NEW p \in Position
    PROVE  /\ [p EXCEPT !.listed = FALSE] \in Position /\ [p EXCEPT !.exact = FALSE] \in Position
           /\ [p EXCEPT !.proved = FALSE] \in Position
<1>1. [p EXCEPT !.listed = FALSE] \in Position
  BY Zenon DEF Position
<1>2. [p EXCEPT !.exact = FALSE] \in Position
  BY Zenon DEF Position
<1>3. [p EXCEPT !.proved = FALSE] \in Position
  BY Zenon DEF Position
<1> QED
  BY <1>1, <1>2, <1>3

LEMMA HonestIsBook ==
    ASSUME FactsOK, NEW a, NEW c, NEW selling, Opening \in Int, IsFiniteSet(Secs)
    PROVE  BookOf(Honest(a, c, selling), a, Len(facts))
BY ReportedIsLedger, CapturedIsBook DEF Honest

\* A book with a false summary is a book.
LEMMA FalseSummaryIsBook ==
    ASSUME FactsOK, NEW a, NEW c, NEW d \in FalseSummaries(a, c), Opening \in Int, IsFiniteSet(Secs)
    PROVE  BookOf(d, a, Len(facts))
<1> DEFINE b == Honest(a, c, {})
           A1 == {[b EXCEPT !.positions[s].listed = FALSE] : s \in Secs}
           A2 == {[b EXCEPT !.positions[s].total = @ + 1, !.equity = @ + 1] : s \in Secs}
           A3 == {[Honest(a, c, {s}) EXCEPT !.positions[s].sellable = @ + 1] : s \in Secs}
           A4 == {[b EXCEPT !.positions[s].exact = FALSE] : s \in Secs}
           A5 == {[b EXCEPT !.positions[s].proved = FALSE] : s \in Secs}
           A6 == {[b EXCEPT !.orders[s] = [open |-> 1, sound |-> FALSE]] : s \in Secs}
           A7 == {[b EXCEPT !.orders[s].open = 1] : s \in Secs}
           A8 == {[b EXCEPT !.opening = @ + 1, !.cash = @ + 1, !.equity = @ + 1]}
           A9 == {[b EXCEPT !.openingProved = FALSE]}
           A10 == {[b EXCEPT !.manifest = FALSE]}
           A11 == {[b EXCEPT !.cash = @ - 1], [b EXCEPT !.equity = @ - 1]}
           A12 == {[b EXCEPT !.reserve = 1], [b EXCEPT !.frozen = b.cash + 1]}
<1>1. d \in A1 \union A2 \union A3 \union A4 \union A5 \union A6 \union A7 \union A8 \union A9
            \union A10 \union A11 \union A12
  <2>1. d \in Wrong("unlisted", A1) \union Wrong("total", A2) \union Wrong("sellable", A3)
              \union Wrong("inexact", A4) \union Wrong("position", A5) \union Wrong("order", A6)
              \union Wrong("selling", A7) \union Wrong("opening", A8) \union Wrong("unopened", A9)
              \union Wrong("manifest", A10) \union Wrong("cash", A11) \union Wrong("reserve", A12)
    BY Zenon DEF FalseSummaries
  <2> HIDE DEF A1, A2, A3, A4, A5, A6, A7, A8, A9, A10, A11, A12
  <2> QED
    BY <2>1 DEF Wrong
<1>2. PICK n : n = Len(facts)
  OBVIOUS
<1>3. \A selling : BookOf(Honest(a, c, selling), a, n)
  BY <1>2, HonestIsBook
<1>4. PICK h : h = b
  OBVIOUS
<1>5. BookOf(h, a, n) /\ h \in BookShape(h)
  BY <1>3, <1>4 DEF BookOf, BookShape
<1>5a. \A g : BookOf(g, a, n) => Changes(g, a, n)
  BY ChangedIsBook
<1>5b. Changes(h, a, n)
  BY <1>5, <1>5a
<1>6. ASSUME NEW g, BookOf(g, a, n), NEW s \in Secs, NEW p \in Position
      PROVE  BookOf([g EXCEPT !.positions = [g.positions EXCEPT ![s] = p]], a, n)
  <2>1. g.positions \in [Secs -> Position]
    BY <1>6 DEF BookOf
  <2>2. PICK q : q = [g.positions EXCEPT ![s] = p]
    OBVIOUS
  <2>3. q \in [Secs -> Position]
    BY <1>6, <2>1, <2>2
  <2> QED
    BY <1>5a, <1>6, <2>2, <2>3 DEF Changes
<1>7. ASSUME NEW g, BookOf(g, a, n), NEW s \in Secs
      PROVE  /\ g.positions[s] \in Position /\ g.orders[s] \in Order
             /\ g.positions \in [Secs -> Position] /\ g.orders \in [Secs -> Order]
             /\ DOMAIN g = DOMAIN h
             /\ g.cash \in Int /\ g.equity \in Int /\ g.opening \in Int
  BY <1>5, <1>7 DEF BookOf, BookShape
<1>8. CASE d \in A1
  <2>1. PICK s \in Secs : d = [h EXCEPT !.positions[s].listed = FALSE]
    BY <1>4, <1>8
  <2>2. PICK p : p = [h.positions[s] EXCEPT !.listed = FALSE]
    OBVIOUS
  <2>3. p \in Position
    BY <1>5, <1>7, <2>2, ChangedPosition
  <2>4. d = [h EXCEPT !.positions = [h.positions EXCEPT ![s] = p]]
    BY <2>1, <2>2
  <2> QED
    BY <1>2, <1>5, <1>6, <2>3, <2>4
<1>9. CASE d \in A2
  <2>1. PICK s \in Secs : d = [h EXCEPT !.positions[s].total = @ + 1, !.equity = @ + 1]
    BY <1>4, <1>9
  <2>2. PICK p : p = [h.positions[s] EXCEPT !.total = @ + 1]
    OBVIOUS
  <2>3. p \in Position
    BY <1>5, <1>7, <2>2 DEF Position
  <2>4. PICK x \in Int : x = h.equity + 1
    BY <1>5, <1>7, <2>1
  <2>5. PICK q : q = [h.positions EXCEPT ![s] = p]
    OBVIOUS
  <2>6. q \in [Secs -> Position]
    BY <1>5, <1>7, <2>3, <2>5
  <2>7. d = [h EXCEPT !.positions = q, !.equity = x]
    BY <2>1, <2>2, <2>4, <2>5
  <2> QED
    BY <1>2, <1>5b, <2>4, <2>6, <2>7 DEF Changes
<1>10. CASE d \in A3
  <2>1. PICK s \in Secs : d = [Honest(a, c, {s}) EXCEPT !.positions[s].sellable = @ + 1]
    BY <1>10
  <2>2. PICK g : g = Honest(a, c, {s})
    OBVIOUS
  <2>3. BookOf(g, a, n)
    BY <1>3, <2>2
  <2>4. PICK p : p = [g.positions[s] EXCEPT !.sellable = @ + 1]
    OBVIOUS
  <2>5. p \in Position
    BY <1>7, <2>3, <2>4 DEF Position
  <2>6. d = [g EXCEPT !.positions = [g.positions EXCEPT ![s] = p]]
    BY <2>1, <2>2, <2>4
  <2> QED
    BY <1>2, <1>6, <2>3, <2>5, <2>6
<1>11. CASE d \in A4
  <2>1. PICK s \in Secs : d = [h EXCEPT !.positions[s].exact = FALSE]
    BY <1>4, <1>11
  <2>2. PICK p : p = [h.positions[s] EXCEPT !.exact = FALSE]
    OBVIOUS
  <2>3. p \in Position
    BY <1>5, <1>7, <2>2, ChangedPosition
  <2>4. d = [h EXCEPT !.positions = [h.positions EXCEPT ![s] = p]]
    BY <2>1, <2>2
  <2> QED
    BY <1>2, <1>5, <1>6, <2>3, <2>4
<1>12. CASE d \in A5
  <2>1. PICK s \in Secs : d = [h EXCEPT !.positions[s].proved = FALSE]
    BY <1>4, <1>12
  <2>2. PICK p : p = [h.positions[s] EXCEPT !.proved = FALSE]
    OBVIOUS
  <2>3. p \in Position
    BY <1>5, <1>7, <2>2, ChangedPosition
  <2>4. d = [h EXCEPT !.positions = [h.positions EXCEPT ![s] = p]]
    BY <2>1, <2>2
  <2> QED
    BY <1>2, <1>5, <1>6, <2>3, <2>4
<1>13. CASE d \in A6
  <2>1. PICK s \in Secs : d = [h EXCEPT !.orders[s] = [open |-> 1, sound |-> FALSE]]
    BY <1>4, <1>13
  <2>2. PICK o : o = [h.orders EXCEPT ![s] = [open |-> 1, sound |-> FALSE]]
    OBVIOUS
  <2>3. o \in [Secs -> Order]
    BY <1>5, <1>7, <2>1, <2>2 DEF Order
  <2>4. d = [h EXCEPT !.orders = o]
    BY <2>1, <2>2
  <2> QED
    BY <1>2, <1>5b, <2>3, <2>4 DEF Changes
<1>14. CASE d \in A7
  <2>1. PICK s \in Secs : d = [h EXCEPT !.orders[s].open = 1]
    BY <1>4, <1>14
  <2>2. PICK p : p = [h.orders[s] EXCEPT !.open = 1]
    OBVIOUS
  <2>3. p \in Order
    BY <1>5, <1>7, <2>2 DEF Order
  <2>4. PICK o : o = [h.orders EXCEPT ![s] = p]
    OBVIOUS
  <2>5. o \in [Secs -> Order]
    BY <1>5, <1>7, <2>3, <2>4
  <2>6. d = [h EXCEPT !.orders = o]
    BY <2>1, <2>2, <2>4
  <2> QED
    BY <1>2, <1>5b, <2>5, <2>6 DEF Changes
<1>15. h.cash \in Int /\ h.equity \in Int /\ h.opening \in Int
  BY <1>5 DEF BookShape
<1>16. CASE d \in A8
  <2>1. PICK x \in Int : x = h.opening + 1
    BY <1>15
  <2>2. PICK y \in Int : y = h.cash + 1
    BY <1>15
  <2>3. PICK z \in Int : z = h.equity + 1
    BY <1>15
  <2>4. d = [h EXCEPT !.opening = x, !.cash = y, !.equity = z]
    BY <1>4, <1>16, <2>1, <2>2, <2>3
  <2> QED
    BY <1>2, <1>5b, <2>4 DEF Changes
<1>17. CASE d \in A9 \union A10
  <2>1. d = [h EXCEPT !.openingProved = FALSE] \/ d = [h EXCEPT !.manifest = FALSE]
    BY <1>4, <1>17
  <2> QED
    BY <1>2, <1>5b, <2>1 DEF Changes
<1>18. CASE d \in A11 \union A12
  <2>1. \E x \in Int : \/ d = [h EXCEPT !.cash = x] \/ d = [h EXCEPT !.equity = x]
                       \/ d = [h EXCEPT !.reserve = x] \/ d = [h EXCEPT !.frozen = x]
    <3>1. PICK x \in Int : x = h.cash - 1
      BY <1>15
    <3>2. PICK y \in Int : y = h.equity - 1
      BY <1>15
    <3>3. PICK z \in Int : z = h.cash + 1
      BY <1>15
    <3>4. \/ d = [h EXCEPT !.cash = x] \/ d = [h EXCEPT !.equity = y]
          \/ d = [h EXCEPT !.reserve = 1] \/ d = [h EXCEPT !.frozen = z]
      BY <1>4, <1>18, <3>1, <3>2, <3>3
    <3> QED
      BY <3>4
  <2> QED
    BY <1>2, <1>5b, <2>1 DEF Changes
<1> HIDE DEF A1, A2, A3, A4, A5, A6, A7, A8, A9, A10, A11, A12
<1> QED
  BY <1>1, <1>8, <1>9, <1>10, <1>11, <1>12, <1>13, <1>14, <1>16, <1>17, <1>18

\* Whatever the feed delivers is a book of the account.
LEMMA BooksAreBooks ==
    ASSUME FactsOK, NEW a, NEW c, NEW d \in Books(a, c), Opening \in Int, IsFiniteSet(Secs),
           \A b \in Cases : b.facts \in Nat
    PROVE  BookOf(d, a, Len(facts))
<1>1. \/ \E selling : d = Honest(a, c, selling)
      \/ \E s \in Listed(Honest(a, c, {})) : d = [Honest(a, c, {}) EXCEPT !.restricted = {s}]
      \/ d \in FalseLedgers(a, c)
      \/ d \in FalseSummaries(a, c)
  BY DEF Books
<1>2. \A selling : BookOf(Honest(a, c, selling), a, Len(facts))
  BY HonestIsBook
<1>3. ASSUME NEW s \in Listed(Honest(a, c, {})), d = [Honest(a, c, {}) EXCEPT !.restricted = {s}]
      PROVE  BookOf(d, a, Len(facts))
  <2>1. PICK h : h = Honest(a, c, {})
    OBVIOUS
  <2>2. BookOf(h, a, Len(facts))
    BY <1>2, <2>1
  <2>3. {s} \in SUBSET Secs
    BY <1>3 DEF Listed
  <2> QED
    BY <1>3, <2>1, <2>2, <2>3, ChangedIsBook DEF Changes
<1>4. CASE d \in FalseLedgers(a, c)
  <2>1. PICK E \in MiscapturedLedgers(a, c) :
            d = Captured(E, Summary(Reported(a, c), {})) \/ d = Captured(E, Summary(E, {}))
    BY <1>4 DEF FalseLedgers
  <2>2. LedgerOf(E, a, Len(facts)) /\ LedgerOf(Reported(a, c), a, Len(facts))
    BY MiscapturedIsLedger, ReportedIsLedger
  <2> QED
    BY <2>1, <2>2, CapturedIsBook
<1> QED
  BY <1>1, <1>2, <1>3, <1>4, FalseSummaryIsBook

-----------------------------------------------------------------------------
(* The inductive invariant.                                                *)

Before(H, n) == [m \in 1..(n - 1) |-> H[m]]

SolventOK == \A t \in 1..(now + 1) : Solvent(facts, t)

HistoryOK ==
    /\ IsSeq(history)
    /\ \A n \in DOMAIN history :
          /\ RecordOf(history[n], Len(facts))
          /\ JudgedFrom(Before(history, n), history[n])

WithinOK ==
    \A n \in DOMAIN history :
        history[n].cutoff \in 1..now /\ DOMAIN history[n].books \subseteq bound.accounts

PInv == FactsOK /\ SolventOK /\ HistoryOK /\ WithinOK

\* Nothing booked is nothing owed.
LEMMA InitHolds ==
    ASSUME Init, Opening \in Nat
    PROVE  PInv
<1>1. facts = <<>> /\ history = <<>> /\ now = 1 /\ bound \in Cases
  BY DEF Init
<1>2. IsSeq(facts) /\ IsSeq(history) /\ DOMAIN facts = {} /\ DOMAIN history = {}
  BY <1>1 DEF IsSeq
<1>3. FactsOK
  BY <1>1, <1>2 DEF FactsOK
<1>4. HistoryOK
  BY <1>2 DEF HistoryOK
<1>5. ASSUME NEW R, R = {} PROVE UnitsIn(facts, R) = 0 /\ CashIn(facts, R) = 0
  <2>1. PICK g : g = [k \in R |-> facts[k].qty]
    OBVIOUS
  <2>2. PICK h : h = [k \in R |-> facts[k].cash]
    OBVIOUS
  <2>3. SumFunction(g) = SumTo(g, {}) /\ SumFunction(h) = SumTo(h, {})
    <3>1. DOMAIN g = {} /\ DOMAIN h = {}
      BY <1>5, <2>1, <2>2
    <3> QED
      BY <3>1, SumIsSumTo
  <2> QED
    BY <2>1, <2>2, <2>3, SumNone DEF UnitsIn, CashIn
<1>6. SolventOK
  <2> SUFFICES ASSUME NEW t, NEW a
               PROVE  /\ Opening + CashIn(facts, SeenOf(facts, a, t)) >= 0
                      /\ \A s \in Secs :
                            UnitsIn(facts, {i \in SeenOf(facts, a, t) : facts[i].sec = s}) >= 0
    BY DEF SolventOK, Solvent
  <2>1. SeenOf(facts, a, t) = {}
    BY <1>2 DEF SeenOf
  <2>2. CashIn(facts, SeenOf(facts, a, t)) = 0
    BY <1>5, <2>1
  <2>3. \A s \in Secs : UnitsIn(facts, {i \in SeenOf(facts, a, t) : facts[i].sec = s}) = 0
    <3> TAKE s \in Secs
    <3>1. {i \in SeenOf(facts, a, t) : facts[i].sec = s} = {}
      BY <2>1
    <3> QED
      BY <1>5, <3>1
  <2> QED
    BY <2>2, <2>3
<1>7. WithinOK
  BY <1>2 DEF WithinOK
<1> QED
  BY <1>3, <1>4, <1>6, <1>7 DEF PInv

\* An entry that is booked is in order.
LEMMA BookStep ==
    ASSUME FactsOK, NEW a \in bound.accounts, NEW s \in Secs \union {NoSec}, NEW qty \in Int,
           NEW cash \in Int, NEW corrects \in Nat, NEW late,
           s = NoSec => qty = 0,
           corrects # 0 => /\ corrects \in DOMAIN facts /\ facts[corrects].account = a
                           /\ facts[corrects].seen <= now,
           Book(a, s, qty, cash, corrects, late)
    PROVE  /\ FactsOK' /\ SolventOK' /\ UNCHANGED <<bound, now, history>>
           /\ \E e : Grows(facts, e, facts') /\ e.seen >= now /\ e.id = Len(facts) + 1
<1>1. PICK e : e = [id |-> Len(facts) + 1, account |-> a, sec |-> s, qty |-> qty, cash |-> cash,
                    at |-> now, seen |-> IF late THEN now + 1 ELSE now,
                    corrects |-> corrects, proved |-> TRUE]
  OBVIOUS
<1>2. facts' = Append(facts, e) /\ UNCHANGED <<bound, now, history>>
      /\ \A t \in 1..(now + 1) : Solvent(facts', t)
  BY <1>1, Zenon DEF Book
<1>3. Grows(facts, e, facts')
  BY <1>2, Appended DEF FactsOK
<1>4. PICK n \in Nat : n = Len(facts)
  BY <1>3 DEF Grows
<1>5. /\ IsSeq(facts') /\ Len(facts') = n + 1 /\ DOMAIN facts = 1..n /\ DOMAIN facts' = 1..(n + 1)
      /\ \A i \in DOMAIN facts : facts'[i] = facts[i]
      /\ facts'[n + 1] = e
  BY <1>3, <1>4 DEF Grows
<1>6. now \in Nat /\ bound \in Cases /\ \A i \in DOMAIN facts : FactOK(i)
  BY DEF FactsOK
<1>7. e.seen \in Int /\ e.seen >= now /\ e.seen <= now + 1 /\ e.at = now
  BY <1>1, <1>6
<1>8. e \in EntryOf(a, n + 1) /\ e.account = a /\ e.id = n + 1 /\ e.proved = TRUE
      /\ e.corrects = corrects /\ e.sec = s /\ e.qty = qty
  BY <1>1, <1>4, <1>6, <1>7 DEF EntryOf
<1>9. ASSUME NEW i \in DOMAIN facts PROVE FactOK(i)'
  <2>1. FactOK(i) /\ i \in 1..n /\ facts'[i] = facts[i]
    BY <1>5, <1>6
  <2>2. facts[i] \in EntryOf(facts[i].account, n + 1)
    <3>1. facts[i] \in EntryOf(facts[i].account, n)
      BY <1>4, <2>1 DEF FactOK
    <3>2. 1..n \subseteq 1..(n + 1)
      OBVIOUS
    <3> QED
      BY <3>1, <3>2 DEF EntryOf
  <2>3. facts[i].corrects \in Nat /\ facts[i].corrects < i
    BY <2>1 DEF FactOK, EntryOf
  <2>4. facts[i].corrects # 0 => facts'[facts[i].corrects] = facts[facts[i].corrects]
    BY <1>5, <2>1, <2>3
  <2> QED
    BY ZenonT(60), <1>2, <1>5, <2>1, <2>2, <2>4 DEF FactOK, SecurityKnown
<1>10. FactOK(n + 1)'
  <2>1. e.corrects # 0 => facts'[e.corrects] = facts[e.corrects] /\ e.corrects < n + 1
                          /\ facts[e.corrects].seen \in Int
    <3>1. ASSUME e.corrects # 0 PROVE e.corrects \in 1..n /\ facts[e.corrects].seen \in Int
      <4>1. e.corrects \in DOMAIN facts
        BY <1>8, <3>1
      <4> QED
        BY <1>5, <1>6, <4>1 DEF FactOK, EntryOf
    <3> QED
      BY <1>5, <3>1
  <2>2. e.corrects < n + 1
    BY <1>4, <1>8, <2>1
  <2>3. SecurityKnown(e)
    BY <1>8 DEF SecurityKnown
  <2>4. e.corrects # 0 => facts[e.corrects].account = e.account /\ facts[e.corrects].seen <= e.seen
    BY <1>6, <1>7, <1>8, <2>1
  <2> QED
    BY <1>2, <1>5, <1>6, <1>7, <1>8, <2>1, <2>2, <2>3, <2>4 DEF FactOK, SecurityKnown
<1>11. FactsOK'
  <2>1. \A i \in DOMAIN facts' : i \in DOMAIN facts \/ i = n + 1
    BY <1>5
  <2>2. \A i \in DOMAIN facts' : FactOK(i)'
    BY <1>9, <1>10, <2>1
  <2> QED
    BY <1>2, <1>5, <1>6, <2>2 DEF FactsOK
<1>12. SolventOK'
  BY <1>2 DEF SolventOK, Solvent
<1> QED
  BY <1>2, <1>3, <1>4, <1>7, <1>8, <1>11, <1>12

\* A record stays in order as facts are added.
LEMMA RecordStays ==
    ASSUME NEW n \in Nat, NEW r, RecordOf(r, n)
    PROVE  RecordOf(r, n + 1)
<1>1. \A a : EntryOf(a, n) \subseteq EntryOf(a, n + 1)
  <2>1. 1..n \subseteq 1..(n + 1)
    OBVIOUS
  <2> QED
    BY <2>1 DEF EntryOf
<1>2. \A E, a : LedgerOf(E, a, n) => LedgerOf(E, a, n + 1)
  <2>1. 0..n \subseteq 0..(n + 1)
    OBVIOUS
  <2> QED
    BY <1>1, <2>1 DEF LedgerOf
<1> QED
  BY <1>2 DEF RecordOf, BookOf

LEMMA HistoryStays ==
    ASSUME HistoryOK, UNCHANGED history, Len(facts) \in Nat,
           Len(facts') = Len(facts) \/ Len(facts') = Len(facts) + 1
    PROVE  HistoryOK'
<1>1. \A n \in DOMAIN history : RecordOf(history[n], Len(facts'))
  BY RecordStays DEF HistoryOK
<1> QED
  BY <1>1 DEF HistoryOK

\* What an outcome was judged from is what comes before it.
LEMMA BeforeStays ==
    ASSUME NEW H, NEW r, NEW G, Grows(H, r, G), IsSeq(H)
    PROVE  /\ \A n \in DOMAIN H : Before(G, n) = Before(H, n)
           /\ Before(G, Len(G)) = H
<1>1. PICK k \in Nat : k = Len(H)
  BY DEF Grows
<1>2. DOMAIN H = 1..k /\ Len(G) = k + 1 /\ \A i \in 1..k : G[i] = H[i]
  BY <1>1 DEF Grows
<1>3. ASSUME NEW n \in DOMAIN H PROVE Before(G, n) = Before(H, n)
  BY <1>2 DEF Before
<1>4. Before(G, Len(G)) = H
  <2>1. H = [i \in 1..k |-> H[i]]
    BY <1>1, <1>2 DEF IsSeq
  <2>2. (k + 1) - 1 = k
    OBVIOUS
  <2>3. Before(G, k + 1) = [i \in 1..k |-> G[i]]
    BY <2>2 DEF Before
  <2> QED
    BY <1>2, <2>1, <2>3
<1> QED
  BY <1>3, <1>4

\* A snapshot adds an outcome that is judged from the others.
LEMMA SnapshotStep ==
    ASSUME PInv, Snapshot, Opening \in Int, IsFiniteSet(Secs), \A b \in Cases : b.facts \in Nat,
           \A b \in Cases : IsFiniteSet(b.accounts)
    PROVE  /\ HistoryOK' /\ UNCHANGED <<bound, now, facts>>
           /\ \E r : /\ Grows(history, r, history') /\ r.cutoff \in 1..now
                     /\ DOMAIN r.books \subseteq bound.accounts
<1>0. FactsOK /\ HistoryOK
  BY DEF PInv
<1>1. PICK v \in bound.views, c \in 1..now, scope \in (SUBSET bound.accounts) \ {{}} :
          \E first \in scope :
              \E b \in Books(first, c) :
                  Reconcile(v, c, [a \in scope |-> IF a = first THEN b ELSE Honest(a, c, {})])
  BY DEF Snapshot
<1>2. PICK first \in scope : \E b \in Books(first, c) :
          Reconcile(v, c, [a \in scope |-> IF a = first THEN b ELSE Honest(a, c, {})])
  BY <1>1
<1>3. PICK b \in Books(first, c) :
          Reconcile(v, c, [a \in scope |-> IF a = first THEN b ELSE Honest(a, c, {})])
  BY <1>2
<1>4. PICK books : books = [a \in scope |-> IF a = first THEN b ELSE Honest(a, c, {})]
  OBVIOUS
<1>5. PICK K : K = Conflicts(history, v, c, books)
  OBVIOUS
<1>6. PICK r : r = Judged(v, c, books, K)
  OBVIOUS
<1>7. history' = Append(history, r) /\ UNCHANGED <<bound, now, facts>>
  BY <1>3, <1>4, <1>5, <1>6 DEF Reconcile
<1>8. r.view = v /\ r.cutoff = c /\ r.books = books
  BY <1>6 DEF Judged
<1>9. JudgedFrom(history, r)
  BY <1>5, <1>6, <1>8 DEF JudgedFrom
<1>10. now \in Nat /\ bound \in Cases
  BY <1>0 DEF FactsOK
<1>11. RecordOf(r, Len(facts))
  <2>1. DOMAIN books = scope /\ IsFiniteSet(scope)
    <3>1. IsFiniteSet(bound.accounts)
      BY <1>10
    <3>2. scope \subseteq bound.accounts
      OBVIOUS
    <3> QED
      BY <1>4, <3>1, <3>2, FS_Subset
  <2>2. ASSUME NEW a \in scope PROVE BookOf(books[a], a, Len(facts))
    <3>1. CASE a = first
      <4>1. BookOf(b, first, Len(facts))
        BY <1>0, BooksAreBooks
      <4> QED
        BY <1>4, <3>1, <4>1
    <3>2. CASE a # first
      <4>1. books[a] = Honest(a, c, {})
        BY <1>4, <3>2
      <4> QED
        BY <1>0, <4>1, HonestIsBook
    <3> QED
      BY <3>1, <3>2
  <2>3. c \in Int
    BY <1>10
  <2> QED
    BY <1>8, <2>1, <2>2, <2>3 DEF RecordOf
<1>12. Grows(history, r, history')
  BY <1>0, <1>7, Appended DEF HistoryOK
<1>13. HistoryOK'
  <2>1. \A n \in DOMAIN history' : n \in DOMAIN history \/ n = Len(history')
    BY <1>12 DEF Grows
  <2>2. ASSUME NEW n \in DOMAIN history
        PROVE  RecordOf(history'[n], Len(facts')) /\ JudgedFrom(Before(history', n), history'[n])
    <3>1. history'[n] = history[n] /\ Before(history', n) = Before(history, n)
      BY <1>0, <1>12, BeforeStays DEF Grows, HistoryOK
    <3>2. RecordOf(history[n], Len(facts)) /\ JudgedFrom(Before(history, n), history[n])
      BY <1>0 DEF HistoryOK
    <3> QED
      BY <1>7, <3>1, <3>2
  <2>3. RecordOf(history'[Len(history')], Len(facts'))
        /\ JudgedFrom(Before(history', Len(history')), history'[Len(history')])
    <3>1. history'[Len(history')] = r /\ Before(history', Len(history')) = history
      BY <1>0, <1>12, BeforeStays DEF Grows, HistoryOK
    <3> QED
      BY <1>7, <1>9, <1>11, <3>1
  <2>4. IsSeq(history')
    BY <1>12 DEF Grows
  <2> QED
    BY <2>1, <2>2, <2>3, <2>4 DEF HistoryOK
<1>14. DOMAIN r.books \subseteq bound.accounts
  BY <1>4, <1>8
<1> QED
  BY <1>7, <1>8, <1>12, <1>13, <1>14

\* Time passes over a broker that stays solvent.
LEMMA TickStep ==
    ASSUME PInv, Tick
    PROVE  PInv' /\ UNCHANGED <<bound, facts, history>> /\ now' = now + 1
<1>1. UNCHANGED <<bound, facts, history>> /\ now' = now + 1
  BY DEF Tick
<1>2. FactsOK /\ SolventOK /\ HistoryOK /\ now \in Nat
  BY DEF PInv, FactsOK
<1>3. \A i \in DOMAIN facts : FactOK(i) /\ facts[i].seen \in Int
  BY <1>2 DEF FactsOK, FactOK, EntryOf
<1>4. FactsOK'
  <2>1. \A i \in DOMAIN facts : FactOK(i)'
    BY <1>1, <1>2, <1>3 DEF FactOK, SecurityKnown
  <2> QED
    BY <1>1, <1>2, <2>1 DEF FactsOK
<1>5. \A a : SeenOf(facts, a, now + 2) = SeenOf(facts, a, now + 1)
  BY <1>2, <1>3 DEF SeenOf, FactOK
<1>6. \A t \in 1..(now + 2) : Solvent(facts, t)
  <2> TAKE t \in 1..(now + 2)
  <2>1. CASE t \in 1..(now + 1)
    BY <1>2, <2>1 DEF SolventOK
  <2>2. CASE t = now + 2
    <3>1. Solvent(facts, now + 1)
      BY <1>2 DEF SolventOK
    <3>2. Solvent(facts, now + 2)
      BY <1>5, <3>1 DEF Solvent
    <3> QED
      BY <2>2, <3>2
  <2> QED
    BY <1>2, <2>1, <2>2
<1>7. SolventOK'
  BY <1>1, <1>2, <1>6 DEF SolventOK, Solvent
<1>8. HistoryOK'
  BY <1>1, <1>2 DEF HistoryOK
<1>9. WithinOK'
  <2>1. \A i \in 1..now : i \in 1..(now + 1)
    BY <1>2
  <2> QED
    BY <1>1, <2>1 DEF PInv, WithinOK
<1> QED
  BY <1>1, <1>4, <1>7, <1>8, <1>9 DEF PInv

\* Every step keeps the invariant.
LEMMA StepKeeps ==
    ASSUME PInv, [Next]_vars, Opening \in Int, IsFiniteSet(Secs), \A b \in Cases : b.facts \in Nat,
           \A b \in Cases : IsFiniteSet(b.accounts)
    PROVE  PInv'
<1>0. FactsOK /\ SolventOK /\ HistoryOK /\ WithinOK
  BY DEF PInv
<1>1. ASSUME NEW a \in bound.accounts, NEW s \in Secs \union {NoSec}, NEW qty \in Int,
             NEW cash \in Int, NEW corrects \in Nat, NEW late,
             s = NoSec => qty = 0,
             corrects # 0 => /\ corrects \in DOMAIN facts /\ facts[corrects].account = a
                             /\ facts[corrects].seen <= now,
             Book(a, s, qty, cash, corrects, late)
      PROVE  PInv'
  <2>1. FactsOK' /\ SolventOK' /\ UNCHANGED <<bound, now, history>>
        /\ \E e : Grows(facts, e, facts')
    BY <1>0, <1>1, BookStep
  <2>2. UNCHANGED history /\ Len(facts) \in Nat /\ Len(facts') = Len(facts) + 1
    BY <2>1 DEF Grows
  <2>3. HistoryOK'
    BY <1>0, <2>2, HistoryStays
  <2>4. WithinOK'
    BY <1>0, <2>1 DEF WithinOK
  <2> QED
    BY <2>1, <2>3, <2>4 DEF PInv
<1>2. CASE Tick
  BY <1>2, TickStep
<1>3. ASSUME NEW a \in bound.accounts, NEW s \in Secs, NEW q \in {-1, 1}, NEW late \in BOOLEAN,
             Fill(a, s, q, late)
      PROVE  PInv'
  <2>1. Book(a, s, q, -q, 0, late)
    BY <1>3 DEF Fill
  <2>2. NoSec \notin Secs
    BY PositionConstants DEF Secs
  <2>3. q \in Int /\ -q \in Int
    OBVIOUS
  <2> QED
    BY <1>1, <2>1, <2>2, <2>3
<1>4. ASSUME NEW a \in bound.accounts, Fee(a) PROVE PInv'
  <2>1. Book(a, NoSec, 0, -1, 0, FALSE)
    BY <1>4 DEF Fee
  <2>2. NoSec \in Secs \union {NoSec} /\ 0 \in Int /\ -1 \in Int /\ 0 \in Nat
    OBVIOUS
  <2>3. PICK cash \in Int : cash = -1
    BY <2>2
  <2>4. Book(a, NoSec, 0, cash, 0, FALSE)
    BY <2>1, <2>3
  <2> QED
    BY <1>1, <2>2, <2>4
<1>5. ASSUME NEW i \in 1..bound.facts, Correct(i) PROVE PInv'
  <2>1. /\ i \in DOMAIN facts /\ facts[i].seen <= now
        /\ Book(facts[i].account, facts[i].sec, -facts[i].qty, -facts[i].cash, i, FALSE)
    BY <1>5 DEF Correct
  <2>2. FactOK(i)
    BY <1>0, <2>1 DEF FactsOK
  <2>3. facts[i].account \in bound.accounts /\ facts[i].sec \in Secs \union {NoSec}
        /\ facts[i].qty \in Int /\ facts[i].cash \in Int /\ SecurityKnown(facts[i])
    BY <2>2 DEF FactOK, EntryOf
  <2>4. -facts[i].qty \in Int /\ -facts[i].cash \in Int
        /\ (facts[i].sec = NoSec => -facts[i].qty = 0)
    BY <2>3 DEF SecurityKnown
  <2>5. i \in Nat /\ facts[i].account = facts[i].account
    <3>1. bound \in Cases
      BY <1>0 DEF FactsOK
    <3>2. bound.facts \in Nat
      BY <3>1
    <3> QED
      BY <3>2
  <2> QED
    BY <1>1, <2>1, <2>3, <2>4, <2>5
<1>6. CASE Snapshot
  <2>1. HistoryOK' /\ UNCHANGED <<bound, now, facts>>
    BY <1>6, SnapshotStep
  <2>2. FactsOK'
    BY <1>0, <2>1 DEF FactsOK, FactOK, SecurityKnown, EntryOf
  <2>3. SolventOK'
    BY <1>0, <2>1 DEF SolventOK, Solvent
  <2>4. WithinOK'
    <3>1. PICK r : /\ Grows(history, r, history') /\ r.cutoff \in 1..now
                   /\ DOMAIN r.books \subseteq bound.accounts
      BY <1>6, SnapshotStep
    <3>2. \A n \in DOMAIN history' : n \in DOMAIN history \/ n = Len(history')
      BY <3>1 DEF Grows
    <3>3. \A n \in DOMAIN history' : \/ n \in DOMAIN history /\ history'[n] = history[n]
                                   \/ history'[n] = r
      BY <3>1, <3>2 DEF Grows
    <3> QED
      BY <1>0, <2>1, <3>1, <3>3 DEF WithinOK
  <2> QED
    BY <2>1, <2>2, <2>3, <2>4 DEF PInv
<1>7. CASE UNCHANGED vars
  <2>1. UNCHANGED <<bound, now, facts, history>>
    BY <1>7 DEF vars
  <2>2. FactsOK'
    BY <1>0, <2>1 DEF FactsOK, FactOK, SecurityKnown, EntryOf
  <2>3. SolventOK'
    BY <1>0, <2>1 DEF SolventOK, Solvent
  <2>4. HistoryOK'
    BY <1>0, <2>1 DEF HistoryOK
  <2>5. WithinOK'
    BY <1>0, <2>1 DEF WithinOK
  <2> QED
    BY <2>2, <2>3, <2>4, <2>5 DEF PInv
<1> QED
  BY <1>2, <1>3, <1>4, <1>5, <1>6, <1>7 DEF Next

\* What is captured, and what it was judged from, at every step.
THEOREM PositionsAreInOrder == Spec => []PInv
<1>1. /\ Opening \in Nat /\ Opening \in Int /\ IsFiniteSet(Secs)
      /\ (\A b \in Cases : b.facts \in Nat) /\ \A b \in Cases : IsFiniteSet(b.accounts)
  BY PositionConstants DEF Secs
<1>2. Init => PInv
  BY <1>1, InitHolds
<1>3. PInv /\ [Next]_vars => PInv'
  BY <1>1, StepKeeps
<1> QED
  BY <1>2, <1>3, PTL DEF Spec

\* The last outcome was judged from the ones before it.
LEMMA OutcomeIs ==
    ASSUME PInv, history # <<>>
    PROVE  /\ Len(history) \in DOMAIN history
           /\ Earlier = Before(history, Len(history))
           /\ IsSeq(Earlier)
           /\ DOMAIN Earlier = 1..(Len(history) - 1) /\ Len(history) \in Nat
           /\ \A n \in DOMAIN Earlier : n \in DOMAIN history /\ Earlier[n] = history[n]
           /\ RecordOf(Outcome, Len(facts)) /\ JudgedFrom(Earlier, Outcome)
<1>1. HistoryOK
  BY DEF PInv
<1>2. PICK S : S = {history[i] : i \in DOMAIN history}
  OBVIOUS
<1>3. history \in Seq(S)
  BY <1>1, <1>2 DEF HistoryOK, IsSeq
<1>4. PICK k : k = Len(history)
  OBVIOUS
<1>5. k \in Nat /\ k >= 1 /\ DOMAIN history = 1..k
  BY <1>3, <1>4
<1>6. Earlier = SubSeq(history, 1, k - 1)
  BY <1>4 DEF Earlier
<1>7. Earlier \in Seq(S) /\ Len(Earlier) = k - 1 /\ DOMAIN Earlier = 1..(k - 1)
      /\ \A n \in 1..(k - 1) : Earlier[n] = history[n]
  BY <1>3, <1>4, <1>5, <1>6
<1>8. Earlier = Before(history, k)
  <2>1. Earlier = [m \in 1..(k - 1) |-> Earlier[m]]
    BY <1>7
  <2> QED
    BY <1>7, <2>1 DEF Before
<1>9. IsSeq(Earlier)
  <2>1. PICK n \in Nat : n = k - 1
    BY <1>5
  <2>2. PICK R : R = {Earlier[i] : i \in DOMAIN Earlier}
    OBVIOUS
  <2>3. \A i \in 1 .. n : Earlier[i] \in R
    BY <1>7, <2>1, <2>2
  <2>4. PICK e : e = Earlier
    OBVIOUS
  <2>5. e \in Seq(S) /\ n = Len(e)
    BY <1>7, <2>1, <2>4
  <2>6. e \in [1 .. n -> S]
    BY ONLY <2>5
  <2>7. \A i \in 1 .. n : e[i] \in R
    BY <2>3, <2>4
  <2>8. e \in [1 .. n -> R]
    BY ONLY <2>7, <2>6
  <2>9. e \in Seq(R)
    BY ONLY <2>8, n \in Nat
  <2> QED
    BY <2>2, <2>4, <2>9 DEF IsSeq
<1>10. k \in DOMAIN history
  BY <1>5
<1>11. RecordOf(history[k], Len(facts)) /\ JudgedFrom(Before(history, k), history[k])
  BY <1>1, <1>10 DEF HistoryOK
<1>12. Outcome = history[k]
  BY <1>4 DEF Outcome
<1> QED
  BY <1>4, <1>5, <1>7, <1>8, <1>9, <1>10, <1>11, <1>12

\* No number is published that the established facts do not support: neither
\* a quantity to sell nor an issuer's exposure (service.py, history.py).
THEOREM PublishedIsSupportedHolds == Spec => []PublishedIsSupported
<1>1. PInv => PublishedIsSupported
  <2> SUFFICES ASSUME PInv, history # <<>> PROVE PublishedIsSupported
    BY DEF PublishedIsSupported, ExactIsCovered, ExposureIsWhole
  <2>1. RecordOf(Outcome, Len(facts)) /\ JudgedFrom(Earlier, Outcome)
    BY OutcomeIs
  <2>2. Len(facts) \in Nat
    <3>1. PICK S : S = {facts[i] : i \in DOMAIN facts}
      OBVIOUS
    <3>2. facts \in Seq(S)
      BY <3>1 DEF PInv, FactsOK, IsSeq
    <3> QED
      BY <3>2
  <2>3. IsFiniteSet(Secs) /\ NoSec \notin Secs
    BY PositionConstants DEF Secs
  <2>4. \A a : Established(a) = Canon(Earlier, Outcome, a)
    BY DEF Established, Canon
  <2>5. PICK H : H = Earlier
    OBVIOUS
  <2>6. PICK r : r = Outcome
    OBVIOUS
  <2>7. PICK n \in Nat : n = Len(facts)
    BY <2>2
  <2>8. RecordOf(r, n) /\ JudgedFrom(H, r)
    BY <2>1, <2>5, <2>6, <2>7
  <2>9. ASSUME NEW u \in r.exact
        PROVE  r.books[u[1]].positions[u[2]].sellable + r.books[u[1]].orders[u[2]].open
                 <= Units({e \in Range(r.books[u[1]].ledger) \union Canon(H, r, u[1]) :
                              e.sec = u[2]})
    BY <2>8, RecordIsCovered
  <2>10. ExactIsCovered
    BY <2>4, <2>5, <2>6, <2>9 DEF ExactIsCovered
  <2>11. ASSUME NEW i \in r.priced
         PROVE  Exposure(r.books, i) =
                  SumFunction([a \in DOMAIN r.books |->
                      Units({e \in Range(r.books[a].ledger) \union Canon(H, r, a) :
                                IF e.sec = NoSec THEN FALSE ELSE Issuer[e.sec] = i})])
    BY <2>3, <2>8, RecordIsWhole DEF OfIssuer
  <2>12. ExposureIsWhole
    BY <2>4, <2>5, <2>6, <2>11 DEF ExposureIsWhole
  <2> QED
    BY <2>10, <2>12 DEF PublishedIsSupported
<1> QED
  BY <1>1, PositionsAreInOrder, PTL

-----------------------------------------------------------------------------
(* A ledger nothing is held against.                                       *)

Sound(E) == \A e \in Range(E) : e.corrects # 0 => CorrectionCode(ById(E), e) = "sound"

\* A snapshot that keeps the history knows no other lineage than its own.
LEMMA LineageIsOwn ==
    ASSUME NEW E, NEW canon, canon \subseteq Range(E)
    PROVE  Lineages(E, canon) = ById(E)
<1>1. Range(E) \union canon = Range(E)
  OBVIOUS
<1>2. PICK N : N = Named(Range(E))
  OBVIOUS
<1>3. \A i : Rows(E, i) = {} => {f \in canon : f.id = i} = {}
  BY DEF Rows, Range
<1>4. \A i : Rows(E, i) = {} => {<<0, e>> : e \in {f \in canon : f.id = i}} = {}
  BY <1>3
<1>5. \A i \in N : (IF Rows(E, i) # {} THEN Rows(E, i)
                    ELSE {<<0, e>> : e \in {f \in canon : f.id = i}}) = Rows(E, i)
  BY <1>4
<1>6. Lineages(E, canon) = [i \in N |-> IF Rows(E, i) # {} THEN Rows(E, i)
                                        ELSE {<<0, e>> : e \in {f \in canon : f.id = i}}]
  BY <1>1, <1>2 DEF Lineages
<1>7. ById(E) = [i \in N |-> Rows(E, i)]
  BY <1>2 DEF ById
<1> QED
  BY <1>5, <1>6, <1>7

\* What a correction that is sound says of its target.
LEMMA SoundTells ==
    ASSUME NEW K, NEW e, CorrectionCode(K, e) = "sound"
    PROVE  /\ e.corrects # e.id /\ K[e.corrects] # {} /\ Alone(K, e.corrects)
           /\ ~Circular(K, e.id) /\ ~(e.seen < Entry(K, e.corrects).at)
BY DEF CorrectionCode

\* An entry that corrects nothing has no ancestors.
LEMMA NoAncestors ==
    ASSUME NEW K, NEW i, Alone(K, i) => Entry(K, i).corrects = 0
    PROVE  Ancestors(K, i) = {}
<1>1. Targets(K, {i} \union {}) = {}
  BY DEF Targets
<1>2. \A j \in Ancestors(K, i) : j \in {}
  <2> TAKE j \in Ancestors(K, i)
  <2>1. \A T \in SUBSET DOMAIN K : Targets(K, {i} \union T) \subseteq T => j \in T
    BY DEF Ancestors
  <2> QED
    BY <1>1, <2>1
<1> QED
  BY <1>2

\* Every entry of such a ledger rests on entries of it that stand.
LEMMA CleanLineages ==
    ASSUME NEW E, NEW a, NEW n \in Nat, LedgerOf(E, a, n), NEW c \in Int,
           \A e \in Range(E) : Clean(E, c, e), Sound(E),
           NEW standing, Range(E) \subseteq standing, NEW e \in Range(E)
    PROVE  SoundLineage(ById(E), e.id, standing) /\ LineageVisible(ById(E), e.id, c)
<1>1. PICK K : K = ById(E)
  OBVIOUS
<1>2. PICK T : T = {f.id : f \in Range(E)}
  OBVIOUS
<1>3. \A f \in Range(E) : f \in EntryOf(a, n)
  BY DEF LedgerOf, Range
<1>4. \A f \in Range(E) : f.id \in 1..n /\ f.corrects \in Nat /\ f.seen \in Int /\ f.at \in Int
  BY <1>3 DEF EntryOf
<1>5. ASSUME NEW f \in Range(E)
      PROVE  f.id \in DOMAIN K /\ f.id \in T /\ Alone(K, f.id) /\ Entry(K, f.id) = f
             /\ K[f.id] = Rows(E, f.id)
  <2>1. PICK k \in DOMAIN E : f = E[k]
    BY DEF Range
  <2>2. Clean(E, c, f)
    OBVIOUS
  <2>3. Alone(ById(E), E[k].id)
    BY <2>1, <2>2 DEF Clean
  <2> QED
    BY <1>1, <1>2, <2>1, <2>3, RowsById, AloneInRow
<1>6. DOMAIN K = Named(Range(E)) /\ \A i \in DOMAIN K : K[i] = Rows(E, i)
  BY <1>1 DEF ById
<1>7. ASSUME NEW f \in Range(E), f.corrects # 0
      PROVE  /\ f.corrects \in T /\ Alone(K, f.corrects) /\ ~Circular(K, f.id)
             /\ FollowsTarget(K, f.id)
  <2>1. CorrectionCode(K, f) = "sound"
    BY <1>1, <1>7 DEF Sound
  <2>2. /\ K[f.corrects] # {} /\ Alone(K, f.corrects)
        /\ ~Circular(K, f.id) /\ ~(f.seen < Entry(K, f.corrects).at)
    BY <2>1, SoundTells
  <2>3. f.corrects \in DOMAIN K
    BY <1>6, <1>7 DEF Named
  <2>4. PICK k \in DOMAIN E : E[k].id = f.corrects
    BY <1>6, <2>2, <2>3 DEF Rows
  <2>5. E[k] \in Range(E)
    BY DEF Range
  <2>6. f.corrects \in T
    BY <1>2, <2>4, <2>5
  <2>7. Entry(K, f.corrects) = E[k]
    BY <1>5, <2>4, <2>5
  <2>8. f.seen >= Entry(K, f.corrects).at
    BY <1>4, <2>2, <2>5, <2>7
  <2>9. Entry(K, f.id) = f
    BY <1>5
  <2> QED
    BY <2>2, <2>6, <2>8, <2>9 DEF FollowsTarget
<1>8. \A j \in T : \E f \in Range(E) : f.id = j /\ Entry(K, j) = f
  BY <1>2, <1>5
<1>9. Ancestors(K, e.id) \subseteq T
  <2>1. T \in SUBSET DOMAIN K
    BY <1>2, <1>5
  <2>2. e.id \in T
    BY <1>2
  <2>3. Targets(K, {e.id} \union T) \subseteq T
    <3>1. \A j \in T : Entry(K, j).corrects # 0 => Entry(K, j).corrects \in T
      BY <1>7, <1>8
    <3> QED
      BY <2>2, <3>1 DEF Targets
  <2> QED
    BY <2>1, <2>3 DEF Ancestors
<1>10. ~Circular(K, e.id)
  <2>1. CASE e.corrects # 0
    BY <1>7, <2>1
  <2>2. CASE e.corrects = 0
    <3>1. Ancestors(K, e.id) = {}
      BY <1>5, <2>2, NoAncestors
    <3> QED
      BY <3>1 DEF Circular
  <2> QED
    BY <2>1, <2>2
<1>11. ASSUME NEW j \in {e.id} \union Ancestors(K, e.id)
       PROVE  /\ Alone(K, j) /\ Entry(K, j) \in standing
              /\ Entry(K, j).corrects # 0 =>
                    Alone(K, Entry(K, j).corrects) /\ FollowsTarget(K, j)
              /\ Later(Entry(K, j).at, Entry(K, j).seen) <= c
  <2>1. j \in T
    BY <1>2, <1>9
  <2>2. PICK f \in Range(E) : f.id = j /\ Entry(K, j) = f
    BY <1>8, <2>1
  <2>3. f.at <= c /\ f.seen <= c
    BY DEF Clean
  <2>4. Later(f.at, f.seen) <= c
    BY <2>3 DEF Later
  <2> QED
    BY <1>5, <1>7, <2>2, <2>4
<1>12. SoundLineage(K, e.id, standing)
  BY <1>10, <1>11 DEF SoundLineage
<1>13. LineageVisible(K, e.id, c)
  BY <1>11 DEF LineageVisible
<1> QED
  BY <1>1, <1>12, <1>13

\* All of such a ledger counts as facts.
LEMMA CleanIsVisible ==
    ASSUME NEW E, NEW a, NEW n \in Nat, LedgerOf(E, a, n), NEW c \in Int,
           \A e \in Range(E) : Clean(E, c, e), Sound(E)
    PROVE  VisibleEntries(E, c) = Range(E)
<1>1. PICK standing : standing = {e \in Range(E) : VisibleBy(e, Later(e.at, e.seen))
                                                   /\ SecurityKnown(e)}
  OBVIOUS
<1>2. Range(E) \subseteq standing
  <2> SUFFICES ASSUME NEW e \in Range(E)
               PROVE  VisibleBy(e, Later(e.at, e.seen)) /\ SecurityKnown(e)
    BY <1>1
  <2>1. e \in EntryOf(a, n)
    BY DEF LedgerOf, Range
  <2>2. e.at \in Int /\ e.seen \in Int
    BY <2>1 DEF EntryOf
  <2>3. Clean(E, c, e)
    OBVIOUS
  <2> QED
    BY <2>2, <2>3 DEF Clean, VisibleBy, EvidentBy, Later
<1>3. \A e \in Range(E) : SoundLineage(ById(E), e.id, standing) /\ LineageVisible(ById(E), e.id, c)
  BY <1>2, CleanLineages
<1>4. VisibleEntries(E, c) = {e \in Range(E) : SoundLineage(ById(E), e.id, standing)
                                               /\ LineageVisible(ById(E), e.id, c)}
  BY <1>1 DEF VisibleEntries
<1> QED
  BY <1>3, <1>4

(* What a book says when nothing at all is held against it. *)
Reconciled(b, c, canon, baseline) ==
    /\ canon \subseteq Range(b.ledger)
    /\ \A e \in Range(b.ledger) : Clean(b.ledger, c, e)
    /\ Sound(b.ledger)
    /\ b.openingProved = TRUE
    /\ \A o \in baseline : o = b.opening
    /\ b.cash = b.opening + Cash(Range(b.ledger))
    /\ \A s \in Secs : Held(b, s) = Units(Of(Range(b.ledger), s))

\* A correction that is not sound is a conflict.
LEMMA CorrectionConflicts ==
    ASSUME NEW E, NEW canon, NEW e \in Range(E), e.corrects # 0,
           CorrectionCode(Lineages(E, canon), e) # "sound"
    PROVE  HistoryConflicts(E, canon) # {}
<1> DEFINE K == Lineages(E, canon)
           corrections == {f \in Range(E) : f.corrects # 0}
           Scoped(f) == IF /\ f.sec = NoSec
                           /\ CorrectionCode(K, f) = "CORRECTION_EVIDENCE_PRECEDES_TARGET"
                        THEN [f EXCEPT !.sec = Entry(K, f.corrects).sec] ELSE f
           C == {EntryConflict(Scoped(f), CorrectionCode(K, f)) :
                   f \in {g \in corrections : CorrectionCode(K, g) # "sound"}}
<1>1. C \subseteq HistoryConflicts(E, canon)
  BY Zenon DEF HistoryConflicts
<1>2. e \in {g \in corrections : CorrectionCode(K, g) # "sound"}
  OBVIOUS
<1>3. EntryConflict(Scoped(e), CorrectionCode(K, e)) \in C
  BY <1>2, Zenon
<1> QED
  BY <1>1, <1>3, Zenon

\* A book without conflicts says as much.
LEMMA BookReconciles ==
    ASSUME NEW b, NEW a, NEW n \in Nat, BookOf(b, a, n), NEW c \in Int, NEW canon, NEW baseline,
           NoSec \notin Secs, AccountConflicts(a, b, c, canon, baseline) = {}
    PROVE  Reconciled(b, c, canon, baseline)
<1>0. PICK E : E = b.ledger
  OBVIOUS
<1>1. LedgerOf(E, a, n)
  BY <1>0 DEF BookOf
<1>2. HistoryConflicts(E, canon) = {} /\ LedgerConflicts(E, c) = {}
      /\ AccountCodes(b, c, baseline) = {}
  <2>1. HistoryConflicts(E, canon) = {}
    BY <1>0 DEF AccountConflicts
  <2>2. LedgerConflicts(E, c) = {}
    BY <1>0 DEF AccountConflicts
  <2>3. {Conflict(a, NoSec, code, TRUE, FALSE) : code \in AccountCodes(b, c, baseline)} = {}
    BY DEF AccountConflicts
  <2>4. AccountCodes(b, c, baseline) = {}
    BY <2>3
  <2> QED
    BY <2>1, <2>2, <2>4
<1>3. canon \subseteq Range(E)
  BY <1>2, HistoryIsKept
<1>4. ASSUME NEW e \in Range(E) PROVE EntryCodes(E, e, c) = {} /\ Clean(E, c, e)
  <2>1. EntryCodes(E, e, c) = {}
    BY <1>2, CodeConflicts
  <2> QED
    BY <1>1, <2>1, CodesTell
<1>5. Sound(E)
  <2> SUFFICES ASSUME NEW e \in Range(E), e.corrects # 0, CorrectionCode(ById(E), e) # "sound"
               PROVE  FALSE
    BY DEF Sound
  <2>1. PICK K : K = Lineages(E, canon)
    OBVIOUS
  <2>2. K = ById(E)
    BY <1>3, <2>1, LineageIsOwn
  <2>3. CorrectionCode(K, e) # "sound"
    BY <2>2
  <2> QED
    BY <1>2, <2>1, <2>3, CorrectionConflicts
<1>6. b.openingProved = TRUE
  <2>1. EvidenceCodes(b) = {}
    BY <1>2 DEF AccountCodes
  <2>2. b.openingProved \in BOOLEAN
    BY DEF BookOf
  <2>3. ~b.openingProved => "OPENING_EVIDENCE" \in EvidenceCodes(b)
    BY DEF EvidenceCodes
  <2> QED
    BY <2>1, <2>2, <2>3
<1>7. \A o \in baseline : o = b.opening
  <2>1. OpeningCodes(b, baseline) = {}
    BY <1>2 DEF AccountCodes
  <2> QED
    BY <2>1 DEF OpeningCodes
<1>8. b.cash = b.opening + Cash(Range(E))
  <2>1. CashCodes(b, c) = {}
    BY <1>2 DEF AccountCodes
  <2>2. b.opening + CashMoved(E, c) = b.cash
    BY <1>0, <1>4, <2>1 DEF CashCodes
  <2>3. Counted(E, c) = DOMAIN E
    <3>1. \A k \in DOMAIN E : E[k] \in Range(E)
      BY DEF Range
    <3> QED
      BY <1>4, <3>1 DEF Counted, Clean
  <2>4. \A k \in DOMAIN E : Alone(ById(E), E[k].id)
    <3>1. \A k \in DOMAIN E : E[k] \in Range(E)
      BY DEF Range
    <3> QED
      BY <1>4, <3>1 DEF Clean
  <2>5. CashIn(E, DOMAIN E) = Cash({E[k] : k \in DOMAIN E})
    BY <1>1, <2>4, RowsToEntries
  <2>6. {E[k] : k \in DOMAIN E} = Range(E)
    BY DEF Range
  <2>7. CashMoved(E, c) = CashIn(E, DOMAIN E)
    BY <2>3 DEF CashMoved
  <2> QED
    BY <2>2, <2>5, <2>6, <2>7
<1>9. ASSUME NEW s \in Secs PROVE Held(b, s) = Units(Of(Range(E), s))
  <2>1. Held(b, s) = UnitsIn(E, {k \in DOMAIN E : E[k].sec = s})
    <3>1. \A k \in AccountConflicts(a, b, c, canon, baseline) :
              k.code \notin CoverageCodes /\ (k.valued /\ s \in Listed(b) => ~Concerns(k, a, s))
      OBVIOUS
    <3>2. /\ \A e \in Range(b.ledger) : e.sec = s => EntryCodes(b.ledger, e, c) = {}
          /\ Held(b, s) = UnitsIn(b.ledger, {k \in DOMAIN b.ledger : b.ledger[k].sec = s})
          /\ Held(b, s) \in Int
      BY <3>1, HoldingStands
    <3> QED
      BY <1>0, <3>2
  <2>2. /\ Quantity(b.ledger, c, s) = Units(Of(Range(b.ledger), s))
        /\ Quantity(b.ledger, c, s)
             = UnitsIn(b.ledger, {k \in DOMAIN b.ledger : b.ledger[k].sec = s})
    BY <1>0, <1>4, QuantityStands
  <2> QED
    BY <1>0, <2>1, <2>2
<1> QED
  BY <1>0, <1>3, <1>4, <1>5, <1>6, <1>7, <1>8, <1>9 DEF Reconciled

\* An account of a reconciled outcome.
LEMMA AccountReconciles ==
    ASSUME NEW H, NEW n \in Nat, NEW r, RecordOf(r, n), JudgedFrom(H, r), r.reconciled,
           NEW a \in DOMAIN r.books, NoSec \notin Secs
    PROVE  Reconciled(r.books[a], r.cutoff, Canon(H, r, a), Baseline(H, r, a))
<1>1. AccountConflicts(a, r.books[a], r.cutoff, Canon(H, r, a), Baseline(H, r, a)) = {}
  BY ConflictsOf
<1>2. BookOf(r.books[a], a, n) /\ r.cutoff \in Int
  BY DEF RecordOf
<1> QED
  BY <1>1, <1>2, BookReconciles

-----------------------------------------------------------------------------
(* Snapshots accepted one after the other.                                 *)

Among(D, may, S) == S \subseteq D /\ \A n \in D : n \in S <=> {m \in S : m < n} \in may[n]

\* There is such a set.
LEMMA SomeAreAccepted ==
    ASSUME NEW k \in Nat, NEW D, D \subseteq 1..k, NEW may
    PROVE  \E S : Among(D, may, S)
<1> DEFINE P(S, i) == S \subseteq D /\ \A n \in D : n < i =>
                         (n \in S <=> {m \in S : m < n} \in may[n])
           Bad == {i \in Nat : ~\E S : P(S, i)}
<1>1. SUFFICES ASSUME Bad # {} PROVE FALSE
  <2>1. PICK S : P(S, k + 1)
    BY <1>1
  <2>2. \A n \in D : n < k + 1
    OBVIOUS
  <2>3. Among(D, may, S)
    BY <2>1, <2>2 DEF Among
  <2> QED
    BY <2>3
<1>2. PICK i \in Bad : \A j \in Bad : i <= j
  <2>1. Bad \subseteq Nat
    OBVIOUS
  <2> QED
    BY <1>1, <2>1, SmallestIsThere
<1>3. i \in Nat /\ ~\E S : P(S, i)
  OBVIOUS
<1>4. i # 0
  <2>1. \A n \in D : ~(n < 0)
    OBVIOUS
  <2>2. P({}, 0)
    BY <2>1
  <2> QED
    BY <1>3, <2>2
<1>5. PICK S : P(S, i - 1)
  <2>1. i - 1 \in Nat /\ ~(i <= i - 1)
    BY <1>3, <1>4
  <2>2. i - 1 \in Bad => i <= i - 1
    BY <1>2
  <2>3. i - 1 \in Nat /\ i - 1 \notin Bad
    BY <2>1, <2>2
  <2> QED
    BY <2>3
<1>6. PICK j \in Nat : j = i - 1
  BY <1>3, <1>4
<1>7. PICK T : T = {m \in S : m < j}
  OBVIOUS
<1>8. PICK U : U = IF j \in D /\ T \in may[j] THEN T \union {j} ELSE T
  OBVIOUS
<1>9. D \subseteq Nat /\ S \subseteq D
  BY <1>5
<1>10. ASSUME NEW n \in D, n <= j PROVE {m \in U : m < n} = {m \in S : m < n}
  <2>1. \A m \in Nat : m < n => (m \in U <=> m \in S)
    <3> TAKE m \in Nat
    <3> HAVE m < n
    <3>1. n \in Nat
      BY <1>9
    <3>2. m < j /\ m # j
      BY <1>6, <1>10, <3>1
    <3> QED
      BY <1>7, <1>8, <3>2
  <2>2. U \subseteq Nat /\ S \subseteq Nat
    BY <1>6, <1>7, <1>8, <1>9
  <2> QED
    BY <2>1, <2>2
<1>11. U \subseteq D
  BY <1>7, <1>8, <1>9
<1>12. ASSUME NEW n \in D, n < i PROVE n \in U <=> {m \in U : m < n} \in may[n]
  <2>0. n \in Nat /\ n < i /\ i \in Nat /\ j \in Nat /\ j = i - 1
    BY <1>3, <1>6, <1>9, <1>12
  <2>1. n < j \/ n = j
    BY ONLY <2>0
  <2>2. {m \in U : m < n} = {m \in S : m < n}
    <3>1. n <= j
      BY <1>6, <2>0, <2>1
    <3> QED
      BY <1>10, <3>1
  <2>3. CASE n < j
    <3>1. n \in U <=> n \in S
      BY <1>7, <1>8, <1>9, <2>3
    <3> QED
      BY <1>5, <1>6, <2>2, <2>3, <3>1
  <2>4. CASE n = j
    <3>1. n \in U <=> T \in may[j]
      BY <1>7, <1>8, <1>9, <2>4
    <3> QED
      BY <1>7, <2>2, <2>4, <3>1
  <2> QED
    BY <2>1, <2>3, <2>4
<1>13. P(U, i)
  BY <1>11, <1>12
<1> QED
  BY <1>3, <1>13

\* One is chosen.
LEMMA AcceptedIs ==
    ASSUME NEW k \in Nat, NEW D, D \subseteq 1..k, NEW may
    PROVE  Among(D, may, AcceptedAmong(D, may))
<1>1. PICK S : Among(D, may, S)
  BY SomeAreAccepted
<1>2. \E T \in SUBSET D : \A n \in D : n \in T <=> {m \in T : m < n} \in may[n]
  BY <1>1 DEF Among
<1> QED
  BY <1>2, Zenon DEF AcceptedAmong, Among

Below(S, i) == {m \in S : m < i}

Agree(C, can, may) == \A n \in C : \A X \in SUBSET C : X \in can[n] <=> X \in may[n]

\* What is accepted so far does not depend on what comes later.
LEMMA AcceptedSoFar ==
    ASSUME NEW k \in Nat, NEW D, D \subseteq 1..k, NEW may, NEW S, Among(D, may, S),
           NEW i \in Nat, NEW C, C = Below(D, i), NEW can, NEW T, Among(C, can, T),
           Agree(C, can, may)
    PROVE  Below(S, i) = T
<1> DEFINE Bad == {n \in C : ~(n \in S <=> n \in T)}
<1>0. C = {m \in D : m < i}
      /\ \A n \in C : \A X \in SUBSET C : X \in can[n] <=> X \in may[n]
  BY DEF Below, Agree
<1>1. D \subseteq Nat /\ C \subseteq D /\ S \subseteq D /\ T \subseteq C
  BY <1>0 DEF Among
<1>2. Bad = {}
  <2> SUFFICES ASSUME Bad # {} PROVE FALSE
    OBVIOUS
  <2>1. PICK n \in Bad : \A j \in Bad : n <= j
    <3>1. Bad \subseteq Nat
      BY <1>1
    <3> QED
      BY <3>1, SmallestIsThere
  <2>2. n \in C /\ n \in D /\ n \in Nat /\ n < i
    BY <1>0, <1>1
  <2>3. PICK X : X = {m \in S : m < n}
    OBVIOUS
  <2>4. X \subseteq C
    <3> SUFFICES ASSUME NEW m \in S, m < n PROVE m \in C
      BY <2>3
    <3>1. m \in D /\ m \in Nat
      BY <1>1
    <3>2. m < i
      BY <2>2, <3>1
    <3> QED
      BY <1>0, <3>1, <3>2
  <2>5. X = {m \in T : m < n}
    <3>1. \A m \in C : m < n => (m \in S <=> m \in T)
      BY <1>1, <2>1, <2>2
    <3> QED
      BY <1>1, <2>3, <2>4, <3>1
  <2>6. n \in S <=> X \in may[n]
    BY <2>2, <2>3 DEF Among
  <2>7. n \in T <=> X \in can[n]
    BY <2>2, <2>5 DEF Among
  <2>8. X \in can[n] <=> X \in may[n]
    BY <1>0, <2>2, <2>4
  <2> QED
    BY <2>1, <2>6, <2>7, <2>8
<1> QED
  BY <1>0, <1>1, <1>2 DEF Below

Vis(H, m, a, c) == VisibleEntries(H[m].books[a].ledger, c)

\* What is first observed, entry by entry.
LEMMA FirstObservedHas ==
    ASSUME NEW H, NEW S, NEW a, NEW c, NEW x
    PROVE  x \in FirstObserved(H, S, a, c) <=>
             \E n \in S : /\ x \in Vis(H, n, a, c)
                          /\ \A m \in S : m < n => \A f \in Vis(H, m, a, c) : f.id # x.id
<1>1. PICK V : V = [n \in S |-> Vis(H, n, a, c)]
  OBVIOUS
<1>2. FirstObserved(H, S, a, c)
        = UNION {{e \in V[n] : \A m \in S : m < n => \A f \in V[m] : f.id # e.id} : n \in S}
  <2> DEFINE of(n) == VisibleEntries(H[n].books[a].ledger, c)
             P(n) == {e \in of(n) : \A m \in S : m < n => \A f \in of(m) : f.id # e.id}
             Q(n) == {e \in V[n] : \A m \in S : m < n => \A f \in V[m] : f.id # e.id}
  <2>1. \A n \in S : V[n] = of(n)
    BY <1>1 DEF Vis
  <2>2. FirstObserved(H, S, a, c) = UNION {P(n) : n \in S}
    BY Zenon DEF FirstObserved
  <2> HIDE DEF of
  <2>3. \A n \in S : P(n) = Q(n)
    BY <2>1
  <2>4. {P(n) : n \in S} = {Q(n) : n \in S}
    <3> HIDE DEF P, Q
    <3> QED
      BY <2>3
  <2> QED
    BY <2>2, <2>4
<1>3. x \in FirstObserved(H, S, a, c) <=>
        \E n \in S : x \in V[n] /\ \A m \in S : m < n => \A f \in V[m] : f.id # x.id
  BY <1>2
<1> QED
  BY <1>1, <1>3

Numbers(S) == S \subseteq Nat

\* An entry observed lately is the first of its id unless an earlier one is.
LEMMA FirstOfItsId ==
    ASSUME NEW H, NEW S, Numbers(S), NEW a, NEW c, NEW n \in S, NEW x \in Vis(H, n, a, c)
    PROVE  \/ x \in FirstObserved(H, S, a, c)
           \/ \E f \in FirstObserved(H, Below(S, n), a, c) : f.id = x.id
<1>0. S \subseteq Nat
  BY DEF Numbers
<1>1. PICK M : M = {m \in S : m < n /\ \E f \in Vis(H, m, a, c) : f.id = x.id}
  OBVIOUS
<1>2. CASE M = {}
  <2>1. \A m \in S : m < n => \A f \in Vis(H, m, a, c) : f.id # x.id
    BY <1>1, <1>2
  <2> QED
    BY <2>1, FirstObservedHas
<1>3. CASE M # {}
  <2>1. M \subseteq Nat
    BY <1>0, <1>1
  <2>2. PICK m \in M : \A l \in M : m <= l
    BY <1>3, <2>1, SmallestIsThere
  <2>3. PICK f \in Vis(H, m, a, c) : f.id = x.id
    BY <1>1
  <2>4. PICK R : R = Below(S, n)
    OBVIOUS
  <2>5. m \in R /\ m \in Nat /\ n \in Nat
    BY <1>0, <1>1, <2>4 DEF Below
  <2>6. ASSUME NEW l \in R, l < m PROVE \A g \in Vis(H, l, a, c) : g.id # f.id
    <3>1. l \in S /\ l < n /\ l \in Nat
      BY <1>0, <2>4 DEF Below
    <3>2. ~(m <= l)
      BY <2>5, <2>6, <3>1
    <3>3. l \notin M
      BY <2>2, <3>2
    <3> QED
      BY <1>1, <2>3, <3>1, <3>3
  <2>7. f \in FirstObserved(H, R, a, c)
    BY <2>5, <2>6, FirstObservedHas
  <2> QED
    BY <2>3, <2>4, <2>7
<1> QED
  BY <1>2, <1>3

\* What came first among some of the outcomes depends on these alone.
LEMMA FirstAmongSame ==
    ASSUME NEW H, NEW G, NEW S, \A n \in S : G[n] = H[n], NEW a, NEW c
    PROVE  /\ FirstObserved(G, S, a, c) = FirstObserved(H, S, a, c)
           /\ FirstBaseline(G, S, a, c) = FirstBaseline(H, S, a, c)
<1>1. \A n \in S : Vis(G, n, a, c) = Vis(H, n, a, c)
  BY DEF Vis
<1>2. \A x : x \in FirstObserved(G, S, a, c) <=> x \in FirstObserved(H, S, a, c)
  <2> TAKE x
  <2>1. x \in FirstObserved(H, S, a, c) <=>
          \E n \in S : /\ x \in Vis(H, n, a, c)
                       /\ \A m \in S : m < n => \A f \in Vis(H, m, a, c) : f.id # x.id
    BY FirstObservedHas
  <2>2. x \in FirstObserved(G, S, a, c) <=>
          \E n \in S : /\ x \in Vis(G, n, a, c)
                       /\ \A m \in S : m < n => \A f \in Vis(G, m, a, c) : f.id # x.id
    BY FirstObservedHas
  <2> QED
    BY <1>1, <2>1, <2>2
<1>3. FirstBaseline(G, S, a, c) = FirstBaseline(H, S, a, c)
  <2>1. PICK X : X = {n \in S : BaselineAt(H, n, a, c)}
    OBVIOUS
  <2>2. X = {n \in S : BaselineAt(G, n, a, c)}
    BY <2>1 DEF BaselineAt
  <2>3. FirstBaseline(H, S, a, c) = {H[n].books[a].opening : n \in {m \in X : \A l \in X : m <= l}}
    BY <2>1 DEF FirstBaseline
  <2>4. FirstBaseline(G, S, a, c) = {G[n].books[a].opening : n \in {m \in X : \A l \in X : m <= l}}
    BY <2>2 DEF FirstBaseline
  <2>5. \A n \in {m \in X : \A l \in X : m <= l} : G[n].books[a].opening = H[n].books[a].opening
    BY <2>1
  <2> QED
    BY <2>3, <2>4, <2>5
<1> QED
  BY <1>2, <1>3

\* The outcomes accepted before one of them.
LEMMA AcceptedBefore ==
    ASSUME NEW H, NEW k \in Nat, DOMAIN H = 1..k, NEW n \in 1..k, NEW G, G = Before(H, n),
           NEW v, NEW a
    PROVE  /\ Below(Accepted(H, v, a), n) = Accepted(G, v, a)
           /\ Below(AcceptedAmong(Covering(H, v, a), MayOpen(H, Covering(H, v, a), a)), n)
                = AcceptedAmong(Covering(G, v, a), MayOpen(G, Covering(G, v, a), a))
           /\ Accepted(G, v, a) \subseteq Covering(G, v, a)
           /\ AcceptedAmong(Covering(G, v, a), MayOpen(G, Covering(G, v, a), a))
                \subseteq Covering(G, v, a)
           /\ \A m \in Covering(G, v, a) : G[m] = H[m]
<1>1. DOMAIN G = 1..(n - 1) /\ \A m \in DOMAIN G : G[m] = H[m]
  BY DEF Before
<1>2. PICK D : D = Covering(H, v, a)
  OBVIOUS
<1>3. PICK C : C = Covering(G, v, a)
  OBVIOUS
<1>4. D \subseteq 1..k /\ C \subseteq 1..(n - 1) /\ n \in Nat /\ n - 1 \in Nat
  BY <1>1, <1>2, <1>3 DEF Covering
<1>5. C = Below(D, n)
  <2>1. \A m \in Nat : m \in 1..(n - 1) <=> m \in 1..k /\ m < n
    BY <1>4
  <2>2. \A m \in Nat : m \in C <=> m \in D /\ m < n
    BY <1>1, <1>2, <1>3, <2>1 DEF Covering
  <2>3. C \subseteq Nat /\ D \subseteq Nat
    BY <1>4
  <2> QED
    BY <2>2, <2>3 DEF Below
<1>6. ASSUME NEW m \in C PROVE m \in D /\ G[m] = H[m] /\ \A X \in SUBSET C : X \in SUBSET D
                               /\ \A l \in X : G[l] = H[l]
  BY <1>1, <1>4, <1>5 DEF Below
<1>7. Below(Accepted(H, v, a), n) = Accepted(G, v, a) /\ Accepted(G, v, a) \subseteq C
  <2>1. PICK may : may = MayFollow(H, D, a)
    OBVIOUS
  <2>2. PICK can : can = MayFollow(G, C, a)
    OBVIOUS
  <2>3. ASSUME NEW m \in C, NEW X \in SUBSET C PROVE X \in can[m] <=> X \in may[m]
    <3>1. m \in D /\ G[m] = H[m] /\ X \in SUBSET D /\ \A l \in X : G[l] = H[l]
      BY <1>6
    <3>2. FirstObserved(G, X, a, H[m].cutoff) = FirstObserved(H, X, a, H[m].cutoff)
      BY <3>1, FirstAmongSame
    <3>3. X \in may[m] <=>
            Preserves(H[m].books[a].ledger, FirstObserved(H, X, a, H[m].cutoff))
      BY <2>1, <3>1 DEF MayFollow
    <3>4. X \in can[m] <=>
            Preserves(G[m].books[a].ledger, FirstObserved(G, X, a, G[m].cutoff))
      BY <2>2 DEF MayFollow
    <3> QED
      BY <3>1, <3>2, <3>3, <3>4
  <2>4. PICK S : S = Accepted(H, v, a)
    OBVIOUS
  <2>5. PICK T : T = Accepted(G, v, a)
    OBVIOUS
  <2>6. Among(D, may, S)
    BY <1>2, <1>4, <2>1, <2>4, AcceptedIs DEF Accepted
  <2>7. Among(C, can, T)
    BY <1>3, <1>4, <2>2, <2>5, AcceptedIs DEF Accepted
  <2>8. Agree(C, can, may)
    BY <2>3 DEF Agree
  <2>9. n \in Nat /\ D \subseteq 1..k
    BY <1>4
  <2>10. Below(S, n) = T
    BY ZenonT(60), <1>5, <2>6, <2>7, <2>8, <2>9, AcceptedSoFar
  <2> QED
    BY <2>4, <2>5, <2>7, <2>10 DEF Among
<1>8. PICK may : may = MayOpen(H, D, a)
  OBVIOUS
<1>9. PICK can : can = MayOpen(G, C, a)
  OBVIOUS
<1>10. Below(AcceptedAmong(D, may), n) = AcceptedAmong(C, can)
       /\ AcceptedAmong(C, can) \subseteq C
  <2>3. ASSUME NEW m \in C, NEW X \in SUBSET C PROVE X \in can[m] <=> X \in may[m]
    <3>1. m \in D /\ G[m] = H[m] /\ X \in SUBSET D /\ \A l \in X : G[l] = H[l]
      BY <1>6
    <3>2. FirstBaseline(G, X, a, H[m].cutoff) = FirstBaseline(H, X, a, H[m].cutoff)
      BY <3>1, FirstAmongSame
    <3>3. X \in may[m] <=>
            /\ BaselineAt(H, m, a, H[m].cutoff)
            /\ FirstBaseline(H, X, a, H[m].cutoff) \subseteq {H[m].books[a].opening}
      BY <1>8, <3>1 DEF MayOpen
    <3>4. X \in can[m] <=>
            /\ BaselineAt(G, m, a, G[m].cutoff)
            /\ FirstBaseline(G, X, a, G[m].cutoff) \subseteq {G[m].books[a].opening}
      BY <1>9 DEF MayOpen
    <3> QED
      BY <3>1, <3>2, <3>3, <3>4 DEF BaselineAt
  <2>4. PICK S : S = AcceptedAmong(D, may)
    OBVIOUS
  <2>5. PICK T : T = AcceptedAmong(C, can)
    OBVIOUS
  <2>6. Among(D, may, S)
    BY <1>4, <2>4, AcceptedIs
  <2>7. Among(C, can, T)
    BY <1>4, <2>5, AcceptedIs
  <2>8. Agree(C, can, may)
    BY <2>3 DEF Agree
  <2>9. n \in Nat /\ D \subseteq 1..k
    BY <1>4
  <2>10. Below(S, n) = T
    BY ZenonT(60), <1>5, <2>6, <2>7, <2>8, <2>9, AcceptedSoFar
  <2> QED
    BY <2>4, <2>5, <2>7, <2>10 DEF Among
<1> QED
  BY <1>2, <1>3, <1>6, <1>7, <1>8, <1>9, <1>10

\* What came first among the earlier ones came first among all.
LEMMA FirstStays ==
    ASSUME NEW H, NEW S, S \subseteq Nat, NEW n \in Nat, NEW a, NEW c
    PROVE  FirstObserved(H, Below(S, n), a, c) \subseteq FirstObserved(H, S, a, c)
<1> SUFFICES ASSUME NEW x \in FirstObserved(H, Below(S, n), a, c)
             PROVE  x \in FirstObserved(H, S, a, c)
  OBVIOUS
<1>1. PICK m \in Below(S, n) :
          /\ x \in Vis(H, m, a, c)
          /\ \A l \in Below(S, n) : l < m => \A f \in Vis(H, l, a, c) : f.id # x.id
  BY FirstObservedHas
<1>2. m \in S /\ m < n /\ m \in Nat
  BY DEF Below
<1>3. \A l \in S : l < m => l \in Below(S, n)
  <2> TAKE l \in S
  <2> HAVE l < m
  <2>1. l \in Nat
    OBVIOUS
  <2>2. l < n
    BY <1>2, <2>1
  <2> QED
    BY <2>2 DEF Below
<1> QED
  BY <1>1, <1>2, <1>3, FirstObservedHas

\* What a reconciled outcome holds of an account is established for every
\* later one at its cutoff.
LEMMA BookIsEstablished ==
    ASSUME NEW N \in Nat, NEW k \in Nat, NEW H, DOMAIN H = 1..k, NEW n \in 1..k,
           RecordOf(H[n], N), JudgedFrom(Before(H, n), H[n]), H[n].reconciled,
           NEW a \in DOMAIN H[n].books, NoSec \notin Secs
    PROVE  /\ Range(H[n].books[a].ledger) \subseteq LedgerHistory(H, H[n].view, a, H[n].cutoff)
           /\ H[n].books[a].opening \in CashHistory(H, H[n].view, a, H[n].cutoff)
<1>1. PICK q : q = H[n]
  OBVIOUS
<1>2. PICK v : v = q.view
  OBVIOUS
<1>3. PICK c : c = q.cutoff
  OBVIOUS
<1>4. PICK G : G = Before(H, n)
  OBVIOUS
<1>5. PICK b : b = q.books[a]
  OBVIOUS
<1>6. PICK E : E = b.ledger
  OBVIOUS
<1>7. Reconciled(b, c, Canon(G, q, a), Baseline(G, q, a))
  BY <1>1, <1>3, <1>4, <1>5, AccountReconciles
<1>8. LedgerOf(E, a, N) /\ c \in Int
  BY <1>1, <1>3, <1>5, <1>6 DEF RecordOf, BookOf
<1>9. PICK D : D = Covering(H, v, a)
  OBVIOUS
<1>10. n \in D /\ D \subseteq 1..k /\ n \in Nat
  BY <1>1, <1>2, <1>9 DEF Covering
<1>11. PICK A : A = Accepted(H, v, a)
  OBVIOUS
<1>12. PICK B : B = Accepted(G, v, a)
  OBVIOUS
<1>13. PICK may : may = MayOpen(H, D, a)
  OBVIOUS
<1>14. PICK P : P = AcceptedAmong(D, may)
  OBVIOUS
<1>15. PICK Q : Q = AcceptedAmong(Covering(G, v, a), MayOpen(G, Covering(G, v, a), a))
  OBVIOUS
<1>16. /\ Below(A, n) = B /\ Below(P, n) = Q
       /\ B \subseteq Covering(G, v, a) /\ Q \subseteq Covering(G, v, a)
       /\ \A m \in Covering(G, v, a) : G[m] = H[m]
  BY <1>4, <1>9, <1>11, <1>12, <1>13, <1>14, <1>15, AcceptedBefore
<1>17. Among(D, MayFollow(H, D, a), A) /\ Among(D, may, P)
  BY <1>9, <1>10, <1>11, <1>14, AcceptedIs DEF Accepted
<1>18. A \subseteq D /\ P \subseteq D /\ A \subseteq Nat /\ P \subseteq Nat /\ D \subseteq Nat
  BY <1>10, <1>17 DEF Among
<1>19. PICK X : X = FirstObserved(H, B, a, c)
  OBVIOUS
<1>20. X \subseteq Range(E) /\ \A e \in Range(E) : Clean(E, c, e)
  <2>1. FirstObserved(G, B, a, c) = X
    BY <1>16, <1>19, FirstAmongSame
  <2>2. Canon(G, q, a) = X
    BY <1>2, <1>3, <1>12, <2>1 DEF Canon, LedgerHistory
  <2> QED
    BY <1>6, <1>7, <2>2 DEF Reconciled
<1>21. ASSUME NEW e \in Range(E), NEW f \in Range(E), e.id = f.id PROVE e = f
  <2>1. PICK i \in DOMAIN E : e = E[i]
    BY DEF Range
  <2>2. PICK j \in DOMAIN E : f = E[j]
    BY DEF Range
  <2>3. Alone(ById(E), E[i].id)
    BY <1>20, <2>1 DEF Clean
  <2>4. i = j
    BY <1>8, <1>21, <2>1, <2>2, <2>3, AloneInRow
  <2> QED
    BY <2>1, <2>2, <2>4
<1>22. Preserves(E, X)
  <2> SUFFICES ASSUME NEW e \in X PROVE \E i \in DOMAIN E : Rows(E, e.id) = {<<i, e>>}
    BY DEF Preserves
  <2>1. e \in Range(E)
    BY <1>20
  <2>2. PICK i \in DOMAIN E : e = E[i]
    BY <2>1 DEF Range
  <2>3. Alone(ById(E), E[i].id)
    BY <1>20, <2>1, <2>2 DEF Clean
  <2> QED
    BY <1>8, <2>2, <2>3, AloneInRow
<1>23. n \in A
  <2>1. B \in SUBSET D
    BY <1>16, <1>18 DEF Below
  <2>2. B \in MayFollow(H, D, a)[n]
    BY <1>1, <1>3, <1>5, <1>6, <1>10, <1>19, <1>22, <2>1 DEF MayFollow
  <2> QED
    BY <1>10, <1>16, <1>17, <2>2 DEF Among, Below
<1>24. Vis(H, n, a, c) = Range(E)
  <2>1. Sound(E)
    BY <1>6, <1>7 DEF Reconciled
  <2>2. VisibleEntries(E, c) = Range(E)
    BY <1>8, <1>20, <2>1, CleanIsVisible
  <2> QED
    BY <1>1, <1>5, <1>6, <2>2 DEF Vis
<1>25. ASSUME NEW e \in Range(E) PROVE e \in FirstObserved(H, A, a, c)
  <2>1. \/ e \in FirstObserved(H, A, a, c)
        \/ \E f \in FirstObserved(H, Below(A, n), a, c) : f.id = e.id
    <3>1. e \in Vis(H, n, a, c)
      BY <1>24
    <3>2. Numbers(A)
      BY <1>18 DEF Numbers
    <3> QED
      BY <1>23, <3>1, <3>2, FirstOfItsId
  <2>2. ASSUME NEW f \in FirstObserved(H, Below(A, n), a, c), f.id = e.id
        PROVE  e \in FirstObserved(H, A, a, c)
    <3>1. f \in Range(E)
      BY <1>16, <1>19, <1>20
    <3>2. f = e
      BY <1>21, <2>2, <3>1
    <3> QED
      BY <1>10, <1>18, <3>2, FirstStays
  <2> QED
    BY <2>1, <2>2
<1>26. LedgerHistory(H, v, a, c) = FirstObserved(H, A, a, c)
  BY <1>11 DEF LedgerHistory
<1>27. PICK R : R = FirstBaseline(H, Q, a, c)
  OBVIOUS
<1>28. b.openingProved = TRUE /\ R \subseteq {b.opening}
  <2>1. FirstBaseline(G, Q, a, c) = R
    BY <1>16, <1>27, FirstAmongSame
  <2>2. Baseline(G, q, a) = R
    BY <1>2, <1>3, <1>15, <2>1 DEF Baseline, CashHistory
  <2> QED
    BY <1>7, <2>2 DEF Reconciled
<1>29. BaselineAt(H, n, a, c)
  BY <1>1, <1>3, <1>5, <1>8, <1>28 DEF BaselineAt
<1>30. n \in P
  <2>1. Q \in SUBSET D
    BY <1>16, <1>18 DEF Below
  <2>2. Q \in may[n]
    BY <1>1, <1>3, <1>5, <1>10, <1>13, <1>27, <1>28, <1>29, <2>1 DEF MayOpen
  <2> QED
    BY <1>10, <1>16, <1>17, <2>2 DEF Among, Below
<1>31. b.opening \in FirstBaseline(H, P, a, c)
  <2>1. PICK V : V = {m \in P : BaselineAt(H, m, a, c)}
    OBVIOUS
  <2>2. n \in V /\ V \subseteq Nat
    BY <1>18, <1>29, <1>30, <2>1
  <2>3. PICK m \in V : \A l \in V : m <= l
    BY <2>2, SmallestIsThere
  <2>4. H[m].books[a].opening \in FirstBaseline(H, P, a, c)
    BY <2>1, <2>3 DEF FirstBaseline
  <2>5. CASE m = n
    BY <1>1, <1>5, <2>4, <2>5
  <2>6. CASE m # n
    <3>1. m < n /\ m \in P
      <4>1. m <= n /\ m \in Nat
        BY <2>2, <2>3
      <4> QED
        BY <1>10, <2>1, <2>6, <4>1
    <3>2. m \in Q
      BY <1>16, <3>1 DEF Below
    <3>3. \A l \in Q : BaselineAt(H, l, a, c) => m <= l
      <4>1. \A l \in Q : l \in P
        BY <1>16 DEF Below
      <4> QED
        BY <2>1, <2>3, <4>1
    <3>4. H[m].books[a].opening \in R
      BY <1>27, <2>1, <3>2, <3>3 DEF FirstBaseline
    <3>5. H[m].books[a].opening = b.opening
      BY <1>28, <3>4
    <3> QED
      BY <2>4, <3>5
  <2> QED
    BY <2>5, <2>6
<1>32. CashHistory(H, v, a, c) = FirstBaseline(H, P, a, c)
  BY <1>9, <1>13, <1>14 DEF CashHistory
<1> QED
  BY <1>1, <1>2, <1>3, <1>5, <1>6, <1>25, <1>26, <1>31, <1>32

(* What two reconciled books of one cutoff agree on. *)
Agrees(old, new) ==
    LET added == {i \in DOMAIN new.ledger : new.ledger[i] \notin Range(old.ledger)}
    IN  /\ Range(old.ledger) \subseteq Range(new.ledger)
        /\ old.opening = new.opening
        /\ new.cash - old.cash = CashIn(new.ledger, added)
        /\ \A s \in Secs :
               Held(new, s) - Held(old, s)
                 = UnitsIn(new.ledger, {i \in added : new.ledger[i].sec = s})

\* Two books of which one holds all the other does differ by what it adds.
LEMMA BooksDiffer ==
    ASSUME NEW old, NEW new, NEW a, NEW n \in Nat, NEW c \in Int, NEW oldCanon, NEW newCanon,
           NEW oldBaseline, NEW newBaseline,
           BookOf(old, a, n), BookOf(new, a, n),
           Reconciled(old, c, oldCanon, oldBaseline), Reconciled(new, c, newCanon, newBaseline),
           Range(old.ledger) \subseteq Range(new.ledger), old.opening = new.opening
    PROVE  Agrees(old, new)
<1>0. PICK added : added = {i \in DOMAIN new.ledger : new.ledger[i] \notin Range(old.ledger)}
  OBVIOUS
<1>1. PICK E : E = new.ledger
  OBVIOUS
<1>2. PICK O : O = Range(old.ledger)
  OBVIOUS
<1>3. PICK R : R = Range(E)
  OBVIOUS
<1>4. LedgerOf(E, a, n) /\ added \in SUBSET DOMAIN E /\ O \subseteq R
      /\ added = {i \in DOMAIN E : E[i] \notin O}
  BY <1>0, <1>1, <1>2, <1>3 DEF BookOf
<1>5. \A k \in DOMAIN E : Alone(ById(E), E[k].id)
  <2>1. \A k \in DOMAIN E : E[k] \in Range(E)
    BY DEF Range
  <2> QED
    BY <1>1, <2>1 DEF Reconciled, Clean
<1>6. IsFiniteSet(R) /\ \A e \in R : e.cash \in Int /\ e.qty \in Int
  <2>1. IsFiniteSet(R)
    BY <1>3, <1>4, RangeIsFinite DEF LedgerOf
  <2>2. \A e \in R : e \in EntryOf(a, n)
    BY <1>3, <1>4 DEF LedgerOf, Range
  <2> QED
    BY <2>1, <2>2 DEF EntryOf
<1>7. ASSUME NEW S \in SUBSET R, NEW T \in SUBSET S
      PROVE  /\ Cash(S) - Cash(T) = Cash(S \ T)
             /\ Units(S) - Units(T) = Units(S \ T)
  <2>1. IsFiniteSet(S) /\ IsFiniteSet(T) /\ IsFiniteSet(S \ T)
    BY <1>6, FS_Subset
  <2>2. PICK g : g = [e \in S |-> e.cash]
    OBVIOUS
  <2>3. PICK h : h = [e \in S |-> e.qty]
    OBVIOUS
  <2>4. \A e \in S : g[e] \in Int /\ h[e] \in Int
    BY <1>6, <2>2, <2>3
  <2>5. ASSUME NEW U \in SUBSET S PROVE Cash(U) = SumTo(g, U) /\ Units(U) = SumTo(h, U)
                                        /\ SumTo(g, U) \in Int /\ SumTo(h, U) \in Int
    <3>1. PICK f : f = [e \in U |-> e.cash]
      OBVIOUS
    <3>2. PICK q : q = [e \in U |-> e.qty]
      OBVIOUS
    <3>3. IsFiniteSet(U) /\ DOMAIN f = U /\ DOMAIN q = U
          /\ \A e \in U : f[e] = g[e] /\ q[e] = h[e]
      BY <2>1, <2>2, <2>3, <3>1, <3>2, FS_Subset
    <3>4. SumFunction(f) = SumTo(g, U) /\ SumFunction(q) = SumTo(h, U)
      BY <3>3, SumOf
    <3>5. SumTo(g, U) \in Int /\ SumTo(h, U) \in Int
      BY <2>4, <3>3, SumType
    <3> QED
      BY <3>1, <3>2, <3>4, <3>5 DEF Cash, Units
  <2>6. SumTo(g, S) = SumTo(g, T) + SumTo(g, S \ T)
    BY <2>1, <2>4, SumSplits
  <2>7. SumTo(h, S) = SumTo(h, T) + SumTo(h, S \ T)
    BY <2>1, <2>4, SumSplits
  <2>8. /\ Cash(S) = SumTo(g, S) /\ Cash(T) = SumTo(g, T) /\ Cash(S \ T) = SumTo(g, S \ T)
        /\ Units(S) = SumTo(h, S) /\ Units(T) = SumTo(h, T) /\ Units(S \ T) = SumTo(h, S \ T)
        /\ SumTo(g, T) \in Int /\ SumTo(g, S \ T) \in Int
        /\ SumTo(h, T) \in Int /\ SumTo(h, S \ T) \in Int
    BY <2>5
  <2> QED
    BY <2>6, <2>7, <2>8
<1>8. new.cash - old.cash = CashIn(E, added)
  <2>1. new.cash = new.opening + Cash(R) /\ old.cash = old.opening + Cash(O)
    BY <1>1, <1>2, <1>3 DEF Reconciled
  <2>2. new.cash \in Int /\ old.cash \in Int /\ new.opening \in Int
    BY DEF BookOf
  <2>3. {E[k] : k \in added} = R \ O
    BY <1>3, <1>4 DEF Range
  <2>4. CashIn(E, added) = Cash(R \ O)
    <3>1. CashIn(E, added) = Cash({E[k] : k \in added})
      BY <1>4, <1>5, RowsToEntries
    <3> QED
      BY <2>3, <3>1
  <2>5. Cash(R) - Cash(O) = Cash(R \ O)
    BY <1>4, <1>7
  <2>6. Cash(R) \in Int /\ Cash(O) \in Int
    <3>1. ASSUME NEW S \in SUBSET R PROVE Cash(S) \in Int
      <4>1. PICK f : f = [e \in S |-> e.cash]
        OBVIOUS
      <4>2. IsFiniteSet(S) /\ DOMAIN f = S /\ \A e \in S : f[e] \in Int
        BY <1>6, <4>1, FS_Subset
      <4>3. SumFunction(f) = SumTo(f, S)
        BY <4>2, SumIsSumTo
      <4>4. SumTo(f, S) \in Int
        BY <4>2, SumType
      <4> QED
        BY <4>1, <4>3, <4>4 DEF Cash
    <3> QED
      BY <1>4, <3>1
  <2> QED
    BY <2>1, <2>2, <2>4, <2>5, <2>6
<1>9. ASSUME NEW s \in Secs
      PROVE  Held(new, s) - Held(old, s) = UnitsIn(E, {i \in added : E[i].sec = s})
  <2>1. Held(new, s) = Units(Of(R, s)) /\ Held(old, s) = Units(Of(O, s))
    BY <1>1, <1>2, <1>3 DEF Reconciled
  <2>2. PICK Q : Q = {i \in added : E[i].sec = s}
    OBVIOUS
  <2>3. {E[k] : k \in Q} = Of(R, s) \ Of(O, s)
    BY <1>3, <1>4, <2>2 DEF Range, Of
  <2>4. Q \in SUBSET DOMAIN E
    BY <1>4, <2>2
  <2>5. UnitsIn(E, Q) = Units({E[k] : k \in Q})
    BY <1>4, <1>5, <2>4, RowsToEntries
  <2>6. Of(R, s) \in SUBSET R /\ Of(O, s) \in SUBSET Of(R, s)
    BY <1>4 DEF Of
  <2>7. Units(Of(R, s)) - Units(Of(O, s)) = Units(Of(R, s) \ Of(O, s))
    BY <1>7, <2>6
  <2> QED
    BY <2>1, <2>2, <2>3, <2>5, <2>7
<1> QED
  BY <1>0, <1>1, <1>8, <1>9 DEF Agrees

\* Two reconciled outcomes of one owner at one cutoff are one book: the later
\* keeps every entry of the earlier, opened with the same cash, and differs
\* by exactly the entries it adds (history.py, contracts.py).
THEOREM BooksAgreeHolds == Spec => []BooksAgree
<1>1. PInv => BooksAgree
  <2> SUFFICES ASSUME PInv, history # <<>>, Outcome.reconciled, NEW n \in DOMAIN Earlier,
                      Earlier[n].reconciled, Earlier[n].view = Outcome.view,
                      Earlier[n].cutoff = Outcome.cutoff,
                      NEW a \in DOMAIN Outcome.books \intersect DOMAIN Earlier[n].books
               PROVE  Agrees(Earlier[n].books[a], Outcome.books[a])
    BY DEF BooksAgree, Agrees
  <2>1. PICK H : H = Earlier
    OBVIOUS
  <2>2. PICK r : r = Outcome
    OBVIOUS
  <2>3. PICK N : N = Len(facts)
    OBVIOUS
  <2>4. N \in Nat
    <3>1. PICK S : S = {facts[i] : i \in DOMAIN facts}
      OBVIOUS
    <3>2. facts \in Seq(S)
      BY <3>1 DEF PInv, FactsOK, IsSeq
    <3> QED
      BY <2>3, <3>2
  <2>5. PICK k : k = Len(history) - 1
    OBVIOUS
  <2>6. k \in Nat /\ DOMAIN H = 1..k /\ RecordOf(r, N) /\ JudgedFrom(H, r)
    <3>1. Len(history) \in DOMAIN history /\ Len(history) \in Nat /\ DOMAIN Earlier = 1..k
          /\ RecordOf(r, N) /\ JudgedFrom(H, r)
      BY <2>1, <2>2, <2>3, <2>5, OutcomeIs
    <3>2. n \in 1..(Len(history) - 1)
      BY <2>5, <3>1
    <3>3. k \in Nat
      BY <2>5, <3>1, <3>2
    <3> QED
      BY <2>1, <3>1, <3>3
  <2>7. n \in 1..k /\ RecordOf(H[n], N) /\ JudgedFrom(Before(H, n), H[n])
    <3>1. n \in 1..k /\ H[n] = history[n] /\ n \in DOMAIN history
      BY <2>1, <2>6, OutcomeIs
    <3>2. HistoryOK
      BY DEF PInv
    <3>3. RecordOf(H[n], N) /\ JudgedFrom(Before(history, n), H[n])
      BY <2>3, <3>1, <3>2 DEF HistoryOK
    <3>4. Before(H, n) = Before(history, n)
      <4>1. \A m \in 1..(n - 1) : H[m] = history[m]
        <5>1. \A m \in 1..(n - 1) : m \in 1..k
          BY <2>6, <3>1
        <5>2. \A m \in DOMAIN H : H[m] = history[m]
          BY <2>1, OutcomeIs
        <5> QED
          BY <2>6, <5>1, <5>2
      <4> QED
        BY <4>1 DEF Before
    <3> QED
      BY <3>1, <3>3, <3>4
  <2>8. NoSec \notin Secs
    BY PositionConstants DEF Secs
  <2>9. PICK q : q = H[n]
    OBVIOUS
  <2>10. a \in DOMAIN r.books /\ a \in DOMAIN q.books /\ q.view = r.view /\ q.cutoff = r.cutoff
         /\ q.reconciled /\ r.reconciled
    BY <2>1, <2>2, <2>9
  <2>11. PICK old : old = q.books[a]
    OBVIOUS
  <2>12. PICK new : new = r.books[a]
    OBVIOUS
  <2>13. PICK c : c = r.cutoff
    OBVIOUS
  <2>14. Reconciled(new, c, Canon(H, r, a), Baseline(H, r, a))
    BY <2>4, <2>6, <2>8, <2>10, <2>12, <2>13, AccountReconciles
  <2>15. Reconciled(old, c, Canon(Before(H, n), q, a), Baseline(Before(H, n), q, a))
    <3>1. RecordOf(q, N) /\ JudgedFrom(Before(H, n), q)
      BY <2>7, <2>9
    <3>2. Reconciled(q.books[a], q.cutoff, Canon(Before(H, n), q, a), Baseline(Before(H, n), q, a))
      BY <2>4, <2>8, <2>10, <3>1, AccountReconciles
    <3> QED
      BY <2>10, <2>11, <2>13, <3>2
  <2>16. /\ Range(old.ledger) \subseteq LedgerHistory(H, r.view, a, c)
         /\ old.opening \in CashHistory(H, r.view, a, c)
    <3>1. /\ Range(H[n].books[a].ledger) \subseteq LedgerHistory(H, H[n].view, a, H[n].cutoff)
          /\ H[n].books[a].opening \in CashHistory(H, H[n].view, a, H[n].cutoff)
      BY <2>4, <2>6, <2>7, <2>8, <2>9, <2>10, BookIsEstablished
    <3> QED
      BY <2>9, <2>10, <2>11, <2>13, <3>1
  <2>17. Range(old.ledger) \subseteq Range(new.ledger) /\ old.opening = new.opening
    BY <2>13, <2>14, <2>16 DEF Reconciled, Canon, Baseline
  <2>18. BookOf(old, a, N) /\ BookOf(new, a, N) /\ c \in Int
    BY <2>6, <2>7, <2>9, <2>10, <2>11, <2>12, <2>13 DEF RecordOf
  <2>20. Agrees(old, new)
    BY <2>4, <2>14, <2>15, <2>17, <2>18, BooksDiffer
  <2>21. Earlier[n].books[a] = old /\ Outcome.books[a] = new
    BY <2>1, <2>2, <2>9, <2>11, <2>12
  <2> QED
    BY <2>20, <2>21
<1> QED
  BY <1>1, PositionsAreInOrder, PTL

-----------------------------------------------------------------------------
(* What the broker reports truly.                                          *)

\* What is reported of an account is in order.
LEMMA ReportedIsClean ==
    ASSUME FactsOK, NEW a, NEW c \in Int, NEW E, E = Reported(a, c)
    PROVE  /\ DOMAIN E = SeenOf(facts, a, c) /\ LedgerOf(E, a, Len(facts)) /\ Len(facts) \in Nat
           /\ \A k \in DOMAIN E : E[k] = facts[k] /\ E[k].id = k
           /\ \A e \in Range(E) : Clean(E, c, e)
           /\ Sound(E)
<1>1. DOMAIN E = SeenOf(facts, a, c) /\ \A k \in DOMAIN E : E[k] = facts[k]
  BY DEF Reported
<1>2. LedgerOf(E, a, Len(facts))
  BY ReportedIsLedger
<1>3. DOMAIN facts = 1..Len(facts) /\ Len(facts) \in Nat
  <2>1. PICK S : S = {facts[i] : i \in DOMAIN facts}
    OBVIOUS
  <2>2. facts \in Seq(S)
    BY <2>1 DEF FactsOK, IsSeq
  <2> QED
    BY <2>2
<1>4. PICK n \in Nat : n = Len(facts)
  BY <1>3
<1>5. ASSUME NEW k \in DOMAIN E
      PROVE  /\ k \in 1..n /\ FactOK(k) /\ E[k] = facts[k] /\ E[k].id = k
             /\ E[k] \in EntryOf(a, n) /\ facts[k].account = a /\ facts[k].seen <= c
  <2>1. k \in DOMAIN facts /\ facts[k].account = a /\ facts[k].seen <= c
    BY <1>1 DEF SeenOf
  <2>2. FactOK(k)
    BY <2>1 DEF FactsOK
  <2> QED
    BY <1>1, <1>2, <1>3, <1>4, <2>1, <2>2 DEF FactOK, LedgerOf
<1>6. ASSUME NEW k \in DOMAIN E
      PROVE  Rows(E, k) = {<<k, E[k]>>} /\ k \in DOMAIN ById(E) /\ ById(E)[k] = Rows(E, k)
             /\ Alone(ById(E), k)
  <2>1. Rows(E, k) = {<<k, E[k]>>}
    <3>1. \A j \in DOMAIN E : E[j].id = k <=> j = k
      BY <1>5
    <3> QED
      BY <3>1 DEF Rows
  <2>2. k \in DOMAIN ById(E) /\ ById(E)[k] = Rows(E, k)
    <3>1. E[k].id = k
      BY <1>5
    <3>2. E[k].id \in DOMAIN ById(E) /\ ById(E)[E[k].id] = Rows(E, E[k].id)
      BY <1>2, <1>3, RowsById
    <3> QED
      BY <3>1, <3>2
  <2> QED
    BY <2>1, <2>2 DEF Alone
<1>7. \A e \in Range(E) : \E k \in DOMAIN E : e = E[k]
  BY DEF Range
<1>8. ASSUME NEW k \in DOMAIN E PROVE Clean(E, c, E[k])
  <2>1. E[k].at \in Int /\ E[k].seen \in Int
    BY <1>5 DEF EntryOf
  <2>2. E[k].at <= E[k].seen /\ E[k].seen <= c /\ E[k].proved = TRUE /\ SecurityKnown(E[k])
    BY <1>5 DEF FactOK
  <2>3. E[k].at <= c
    BY <2>1, <2>2
  <2>4. Alone(ById(E), E[k].id)
    BY <1>5, <1>6
  <2> QED
    BY <2>2, <2>3, <2>4 DEF Clean
<1>9. \A e \in Range(E) : Clean(E, c, e)
  BY <1>7, <1>8
<1>10. PICK K : K = ById(E)
  OBVIOUS
<1>11. ASSUME NEW k \in DOMAIN E PROVE Entry(K, k) = facts[k]
  <2>1. Alone(ById(E), E[k].id)
    BY <1>5, <1>6
  <2>2. Entry(ById(E), E[k].id) = E[k]
    BY <1>2, <1>3, <2>1, AloneInRow
  <2> QED
    BY <1>5, <1>10, <2>2
<1>12. ASSUME NEW k \in DOMAIN K, Alone(K, k) PROVE k \in DOMAIN E
  <2>1. K[k] # {}
    BY <1>12 DEF Alone
  <2>2. K[k] = Rows(E, k)
    BY <1>10 DEF ById
  <2>3. PICK j \in DOMAIN E : E[j].id = k
    BY <2>1, <2>2 DEF Rows
  <2> QED
    BY <1>5, <2>3
<1>13. ASSUME NEW i \in DOMAIN E PROVE \A j \in Ancestors(K, i) : j < i
  <2>1. PICK T : T = {j \in DOMAIN K : j < i}
    OBVIOUS
  <2>2. T \in SUBSET DOMAIN K
    BY <2>1
  <2>3. Targets(K, {i} \union T) \subseteq T
    <3> SUFFICES ASSUME NEW k \in {i} \union T, Alone(K, k), Entry(K, k).corrects # 0
                 PROVE  Entry(K, k).corrects \in T
      BY DEF Targets
    <3>1. k \in DOMAIN K
      BY <1>6, <1>10, <2>1
    <3>2. k \in DOMAIN E
      BY <1>12, <3>1
    <3>3. Entry(K, k) = facts[k] /\ facts[k] \in Range(E)
      BY <1>5, <1>11, <3>2 DEF Range
    <3>4. facts[k].corrects < k
      BY <1>5, <3>2 DEF FactOK
    <3>5. facts[k].corrects \in Nat /\ k \in Int /\ i \in Int
      <4>1. facts[k] \in EntryOf(a, n)
        BY <1>5, <3>2
      <4> QED
        BY <1>5, <3>2, <4>1 DEF EntryOf
    <3>6. k <= i
      BY <2>1, <3>5
    <3>7. facts[k].corrects \in DOMAIN K
      <4>1. facts[k].corrects \in Named(Range(E))
        BY <3>3 DEF Named
      <4> QED
        BY <1>10, <4>1 DEF ById
    <3> QED
      BY <2>1, <3>3, <3>4, <3>5, <3>6, <3>7
  <2>4. Ancestors(K, i) \subseteq T
    BY <2>2, <2>3 DEF Ancestors
  <2> QED
    BY <2>1, <2>4
<1>14. ASSUME NEW i \in DOMAIN E, E[i].corrects # 0 PROVE CorrectionCode(K, E[i]) = "sound"
  <2>1. PICK j : j = facts[i].corrects
    OBVIOUS
  <2>2. j # 0 /\ j < i /\ j \in Nat /\ i \in Int /\ E[i] = facts[i] /\ E[i].id = i
        /\ facts[i].seen \in Int
    <3>1. facts[i] \in EntryOf(a, n) /\ E[i] = facts[i] /\ E[i].id = i /\ i \in 1..n
      BY <1>5
    <3>2. facts[i].corrects \in Nat /\ facts[i].seen \in Int
      BY <3>1 DEF EntryOf
    <3>3. facts[i].corrects < i
      BY <1>5 DEF FactOK
    <3>4. facts[i].corrects # 0
      BY <1>14, <3>1
    <3> QED
      BY <2>1, <3>1, <3>2, <3>3, <3>4
  <2>3. facts[j].account = facts[i].account /\ facts[j].seen <= facts[i].seen
    BY <1>5, <2>1, <2>2 DEF FactOK
  <2>4. j \in DOMAIN facts
    <3>1. j \in 1..n
      BY <1>4, <1>5, <2>2
    <3> QED
      BY <1>3, <1>4, <3>1
  <2>5. facts[j].seen \in Int /\ facts[j].at \in Int /\ facts[j].at <= facts[j].seen
    BY <2>4 DEF FactsOK, FactOK, EntryOf
  <2>6. j \in DOMAIN E
    <3>1. facts[i].seen <= c /\ facts[i].account = a
      BY <1>5
    <3>2. facts[j].seen <= c
      BY <2>2, <2>3, <2>5, <3>1
    <3> QED
      BY <1>1, <2>3, <2>4, <3>1, <3>2 DEF SeenOf
  <2>7. K[j] # {} /\ Alone(K, j) /\ Entry(K, j) = facts[j]
    <3>1. ById(E)[j] = {<<j, E[j]>>} /\ Alone(ById(E), j)
      BY <1>6, <2>6
    <3>2. Entry(K, j) = facts[j]
      BY <1>11, <2>6
    <3> QED
      BY <1>10, <3>1, <3>2
  <2>8. \A k \in {i} \union Ancestors(K, i) : k \in Int
    <3>1. \A k \in DOMAIN K : k \in Int
      <4>1. \A e \in Range(E) : e.id \in Int /\ e.corrects \in Int
        BY <1>5, <1>7 DEF EntryOf
      <4> QED
        BY <1>10, <4>1 DEF ById, Named
    <3> QED
      BY <2>2, <3>1 DEF Ancestors
  <2>9. ~Circular(K, i)
    <3> SUFFICES ASSUME NEW k \in {i} \union Ancestors(K, i), k \in Ancestors(K, k) PROVE FALSE
      BY DEF Circular
    <3>1. k \in DOMAIN E
      <4>1. CASE k = i
        BY <4>1
      <4>2. CASE k \in Ancestors(K, i)
        <5>1. k \in DOMAIN K
          BY <4>2 DEF Ancestors
        <5>2. Alone(K, k)
          <6>1. ~Alone(K, k) => Ancestors(K, k) = {}
            BY NoAncestors
          <6> QED
            BY <6>1
        <5> QED
          BY <1>12, <5>1, <5>2
      <4> QED
        BY <4>1, <4>2
    <3>2. k < k
      BY <1>13, <3>1
    <3> QED
      BY <2>8, <3>2
  <2>10. ~(E[i].seen < Entry(K, j).at)
    BY <2>2, <2>3, <2>5, <2>7
  <2> QED
    BY <2>1, <2>2, <2>7, <2>9, <2>10 DEF CorrectionCode
<1>15. Sound(E)
  BY <1>7, <1>10, <1>14 DEF Sound
<1> QED
  BY <1>1, <1>2, <1>3, <1>5, <1>9, <1>15

(* What an honest summary of a ledger says. *)
Says(b, E, c) ==
    /\ b.ledger = E /\ b.restricted = {} /\ b.manifest = TRUE /\ b.openingProved = TRUE
    /\ b.opening = Opening /\ b.frozen = 0 /\ b.reserve = 0
    /\ b.cash \in Nat /\ b.opening + CashMoved(E, c) = b.cash
    /\ b.cash + SumFunction([s \in Listed(b) |-> b.positions[s].total]) = b.equity
    /\ \A s \in Secs :
          /\ b.positions[s].total \in Nat /\ b.positions[s].total = Quantity(E, c, s)
          /\ b.positions[s].listed = (b.positions[s].total # 0)
          /\ b.positions[s].sellable \in Nat /\ b.positions[s].selling \in Nat
          /\ b.positions[s].sellable + b.positions[s].selling = b.positions[s].total
          /\ b.positions[s].proved = TRUE /\ b.positions[s].exact = TRUE
          /\ b.orders[s].open = b.positions[s].selling /\ b.orders[s].sound = TRUE

LEMMA HonestSays ==
    ASSUME FactsOK, SolventOK, NEW a \in bound.accounts, NEW c \in 1..now, NEW selling,
           Opening \in Nat, IsFiniteSet(Secs)
    PROVE  Says(Honest(a, c, selling), Reported(a, c), c)
<1>1. PICK E : E = Reported(a, c)
  OBVIOUS
<1>2. c \in Int /\ c \in 1..(now + 1)
  BY DEF FactsOK
<1>3. /\ DOMAIN E = SeenOf(facts, a, c) /\ LedgerOf(E, a, Len(facts)) /\ Len(facts) \in Nat
      /\ \A k \in DOMAIN E : E[k] = facts[k] /\ E[k].id = k
      /\ \A e \in Range(E) : Clean(E, c, e)
  BY <1>1, <1>2, ReportedIsClean
<1>4. Solvent(facts, c)
  BY <1>2 DEF SolventOK
<1>5. Counted(E, c) = DOMAIN E
  <2>1. \A k \in DOMAIN E : E[k] \in Range(E)
    BY DEF Range
  <2> QED
    BY <1>3, <2>1 DEF Counted, Clean
<1>6. ASSUME NEW R \in SUBSET DOMAIN E
      PROVE  UnitsIn(facts, R) = UnitsIn(E, R) /\ CashIn(facts, R) = CashIn(E, R)
             /\ UnitsIn(E, R) \in Int /\ CashIn(E, R) \in Int
  <2>1. [k \in R |-> facts[k].qty] = [k \in R |-> E[k].qty]
        /\ [k \in R |-> facts[k].cash] = [k \in R |-> E[k].cash]
    BY <1>3
  <2>2. UnitsIn(E, R) \in Int /\ CashIn(E, R) \in Int
    BY <1>3, RowsAreInt
  <2> QED
    BY <2>1, <2>2 DEF UnitsIn, CashIn
<1>7. PICK tot : tot = [s \in Secs |-> UnitsIn(E, {i \in DOMAIN E : E[i].sec = s})]
  OBVIOUS
<1>8. \A s \in Secs : tot[s] \in Nat /\ tot[s] = Quantity(E, c, s)
  <2> TAKE s \in Secs
  <2>1. PICK R : R = {i \in DOMAIN E : E[i].sec = s}
    OBVIOUS
  <2>2. R = {i \in SeenOf(facts, a, c) : facts[i].sec = s}
    BY <1>3, <2>1
  <2>3. UnitsIn(facts, R) >= 0
    BY <1>4, <2>2 DEF Solvent
  <2>4. UnitsIn(facts, R) = UnitsIn(E, R) /\ UnitsIn(E, R) \in Int
    BY <1>6, <2>1
  <2>5. Quantity(E, c, s) = UnitsIn(E, R)
    BY <1>5, <2>1 DEF Quantity
  <2>6. tot[s] = UnitsIn(E, R)
    BY <1>7, <2>1
  <2> QED
    BY <2>3, <2>4, <2>5, <2>6
<1>9. PICK cash : cash = Opening + CashIn(E, DOMAIN E)
  OBVIOUS
<1>10. cash \in Nat /\ Opening + CashMoved(E, c) = cash
  <2>1. Opening + CashIn(facts, SeenOf(facts, a, c)) >= 0
    BY <1>4 DEF Solvent
  <2>2. CashIn(facts, DOMAIN E) = CashIn(E, DOMAIN E) /\ CashIn(E, DOMAIN E) \in Int
    BY <1>6
  <2>3. CashMoved(E, c) = CashIn(E, DOMAIN E)
    BY <1>5 DEF CashMoved
  <2> QED
    BY <1>3, <1>9, <2>1, <2>2, <2>3
<1>11. PICK open : open = [s \in Secs |-> IF s \in selling /\ tot[s] > 0 THEN 1 ELSE 0]
  OBVIOUS
<1>12. PICK S : S = Summary(E, selling)
  OBVIOUS
<1>13. PICK p : p = [s \in Secs |-> [listed |-> tot[s] # 0, total |-> tot[s],
                                     sellable |-> tot[s] - open[s], selling |-> open[s],
                                     proved |-> TRUE, exact |-> TRUE]]
  OBVIOUS
<1>14. PICK o : o = [s \in Secs |-> [open |-> open[s], sound |-> TRUE]]
  OBVIOUS
<1>15. /\ S.positions = p /\ S.orders = o /\ S.restricted = {} /\ S.manifest = TRUE
       /\ S.openingProved = TRUE /\ S.opening = Opening /\ S.cash = cash /\ S.frozen = 0
       /\ S.reserve = 0 /\ S.equity = cash + SumFunction(tot)
  <2> DEFINE total(s) == UnitsIn(E, {i \in DOMAIN E : E[i].sec = s})
             sold(s) == IF s \in selling /\ total(s) > 0 THEN 1 ELSE 0
             q == [s \in Secs |-> [listed |-> total(s) # 0, total |-> total(s),
                                   sellable |-> total(s) - sold(s), selling |-> sold(s),
                                   proved |-> TRUE, exact |-> TRUE]]
             d == [s \in Secs |-> [open |-> sold(s), sound |-> TRUE]]
             w == SumFunction([s \in Secs |-> total(s)])
  <2>1. S = [positions |-> q, orders |-> d, restricted |-> {}, manifest |-> TRUE,
             openingProved |-> TRUE, opening |-> Opening, cash |-> Opening + CashIn(E, DOMAIN E),
             frozen |-> 0, reserve |-> 0, equity |-> (Opening + CashIn(E, DOMAIN E)) + w]
    BY <1>12, Zenon DEF Summary
  <2>2. \A s \in Secs : total(s) = tot[s]
    BY <1>7
  <2>3. tot = [s \in Secs |-> total(s)]
    BY <1>7
  <2> HIDE DEF total
  <2>4. \A s \in Secs : sold(s) = open[s]
    BY <1>11, <2>2
  <2> HIDE DEF sold
  <2>5. q = p /\ d = o
    BY <1>13, <1>14, <2>2, <2>4
  <2>6. w = SumFunction(tot)
    BY <2>3
  <2> HIDE DEF q, d, w
  <2> QED
    BY <1>9, <2>1, <2>5, <2>6
<1>16. PICK b : b = Honest(a, c, selling)
  OBVIOUS
<1>17. /\ b.ledger = E /\ b.positions = p /\ b.orders = o /\ b.restricted = {}
       /\ b.manifest = TRUE /\ b.openingProved = TRUE /\ b.opening = Opening /\ b.cash = cash
       /\ b.frozen = 0 /\ b.reserve = 0 /\ b.equity = cash + SumFunction(tot)
  <2>1. b = Captured(E, S)
    BY <1>1, <1>12, <1>16 DEF Honest
  <2> QED
    BY <1>15, <2>1 DEF Captured
<1>18. ASSUME NEW s \in Secs
       PROVE  /\ b.positions[s].total = tot[s] /\ b.positions[s].listed = (tot[s] # 0)
              /\ b.positions[s].sellable = tot[s] - open[s] /\ b.positions[s].selling = open[s]
              /\ b.positions[s].proved = TRUE /\ b.positions[s].exact = TRUE
              /\ b.orders[s].open = open[s] /\ b.orders[s].sound = TRUE
              /\ open[s] \in Nat /\ tot[s] - open[s] \in Nat
  <2>1. open[s] \in {0, 1} /\ (open[s] = 1 => tot[s] > 0)
    BY <1>11
  <2>2. open[s] \in Nat /\ tot[s] - open[s] \in Nat
    BY <1>8, <2>1
  <2>3. PICK t : t = tot[s]
    OBVIOUS
  <2>4. PICK u : u = open[s]
    OBVIOUS
  <2>5. b.positions[s] = [listed |-> t # 0, total |-> t, sellable |-> t - u, selling |-> u,
                          proved |-> TRUE, exact |-> TRUE]
    BY <1>13, <1>17, <2>3, <2>4
  <2>6. b.orders[s] = [open |-> u, sound |-> TRUE]
    BY <1>14, <1>17, <2>4
  <2>7. (t # 0) \in BOOLEAN
    OBVIOUS
  <2> QED
    BY <2>2, <2>3, <2>4, <2>5, <2>6, <2>7
<1>19. cash + SumFunction([s \in Listed(b) |-> b.positions[s].total]) = b.equity
  <2>1. PICK L : L = Listed(b)
    OBVIOUS
  <2>2. L \in SUBSET Secs /\ \A s \in Secs : s \in L <=> tot[s] # 0
    BY <1>18, <2>1 DEF Listed
  <2>3. PICK g : g = [s \in L |-> b.positions[s].total]
    OBVIOUS
  <2>4. IsFiniteSet(L) /\ DOMAIN g = L /\ \A s \in L : g[s] = tot[s]
    BY <1>18, <2>2, <2>3, FS_Subset
  <2>5. SumFunction(g) = SumTo(tot, L)
    BY <2>4, SumOf
  <2>6. SumTo(tot, L) = SumTo(tot, Secs)
    <3>1. (\A s \in Secs : tot[s] \in Int) /\ \A s \in Secs \ L : tot[s] = 0
      BY <1>8, <2>2
    <3> QED
      BY <2>2, <3>1, SumWithoutZeros
  <2>7. SumFunction(tot) = SumTo(tot, Secs)
    <3>1. DOMAIN tot = Secs
      BY <1>7
    <3> QED
      BY <3>1, SumIsSumTo
  <2> QED
    BY <1>17, <2>1, <2>3, <2>5, <2>6, <2>7
<1>20. Says(b, E, c)
  <2>1. \A s \in Secs :
          /\ b.positions[s].total \in Nat /\ b.positions[s].total = Quantity(E, c, s)
          /\ b.positions[s].listed = (b.positions[s].total # 0)
          /\ b.positions[s].sellable \in Nat /\ b.positions[s].selling \in Nat
          /\ b.positions[s].sellable + b.positions[s].selling = b.positions[s].total
          /\ b.positions[s].proved = TRUE /\ b.positions[s].exact = TRUE
          /\ b.orders[s].open = b.positions[s].selling /\ b.orders[s].sound = TRUE
    <3> TAKE s \in Secs
    <3>1. (tot[s] - open[s]) + open[s] = tot[s]
      <4>1. PICK t \in Nat : t = tot[s]
        BY <1>8
      <4>2. PICK u \in Nat : u = open[s]
        BY <1>18
      <4>3. (t - u) + u = t
        OBVIOUS
      <4> QED
        BY <4>1, <4>2, <4>3
    <3> QED
      BY ZenonT(60), <1>8, <1>18, <3>1
  <2> QED
    BY <1>10, <1>17, <1>19, <2>1 DEF Says
<1> QED
  BY <1>1, <1>16, <1>20

\* Nothing is held against an honest book whose history is true.
LEMMA HonestReconciles ==
    ASSUME NEW b, NEW E, NEW a, NEW n \in Nat, NEW c \in Int, NEW canon, NEW baseline,
           LedgerOf(E, a, n), \A e \in Range(E) : Clean(E, c, e), Sound(E), Says(b, E, c),
           canon \subseteq Range(E), baseline \subseteq {Opening}, NoSec \notin Secs
    PROVE  AccountConflicts(a, b, c, canon, baseline) = {}
<1>1. b.ledger = E
  BY DEF Says
<1>2. \A e \in Range(E) : EntryCodes(E, e, c) = {}
  BY CodesTell
<1>3. LedgerConflicts(E, c) = {}
  <2>1. \A e \in Range(E) : {EntryConflict(e, code) : code \in EntryCodes(E, e, c)} = {}
    BY <1>2
  <2> QED
    BY <2>1 DEF LedgerConflicts
<1>4. PICK K : K = Lineages(E, canon)
  OBVIOUS
<1>5. K = ById(E)
  BY <1>4, LineageIsOwn
<1>6. \A e \in Range(E), f \in Range(E) : e.id = f.id => e = f
  <2> SUFFICES ASSUME NEW e \in Range(E), NEW f \in Range(E), e.id = f.id PROVE e = f
    OBVIOUS
  <2>1. PICK i \in DOMAIN E : e = E[i]
    BY DEF Range
  <2>2. PICK j \in DOMAIN E : f = E[j]
    BY DEF Range
  <2>3. Alone(ById(E), E[i].id)
    BY <2>1 DEF Clean
  <2>4. i = j
    BY <2>1, <2>2, <2>3, AloneInRow
  <2> QED
    BY <2>1, <2>2, <2>4
<1>7. HistoryConflicts(E, canon) = {}
  <2>1. PICK P : P = {f \in canon : Rows(E, f.id) = {}}
    OBVIOUS
  <2>2. P = {}
    <3> SUFFICES ASSUME NEW f \in canon, Rows(E, f.id) = {} PROVE FALSE
      BY <2>1
    <3>1. PICK i \in DOMAIN E : f = E[i]
      BY DEF Range
    <3> QED
      BY <3>1, RowsById
  <2>3. PICK Q : Q = {f \in Range(E) : \E g \in canon : g.id = f.id /\ g # f}
    OBVIOUS
  <2>4. Q = {}
    BY <1>6, <2>3
  <2>5. PICK R : R = {f \in {e \in Range(E) : e.corrects # 0} : CorrectionCode(K, f) # "sound"}
    OBVIOUS
  <2>6. R = {}
    BY <1>5, <2>5 DEF Sound
  <2> DEFINE Scoped(e) == IF /\ e.sec = NoSec
                             /\ CorrectionCode(K, e) = "CORRECTION_EVIDENCE_PRECEDES_TARGET"
                          THEN [e EXCEPT !.sec = Entry(K, e.corrects).sec] ELSE e
  <2>7. HistoryConflicts(E, canon)
          = {EntryConflict(e, "ENTRY_REMOVED") : e \in P}
            \union {EntryConflict(e, "ENTRY_MUTATED") : e \in Q}
            \union {EntryConflict(Scoped(e), CorrectionCode(K, e)) : e \in R}
    BY <1>4, <2>1, <2>3, <2>5, Zenon DEF HistoryConflicts
  <2> HIDE DEF Scoped
  <2> QED
    BY <2>2, <2>4, <2>6, <2>7
<1>8. UnresolvedCorrections(E, canon, c) = {}
  <2>1. PICK standing : standing = {g \in Range(E) \union canon : VisibleBy(g, c)}
    OBVIOUS
  <2>2. Range(E) \subseteq standing
    <3> SUFFICES ASSUME NEW e \in Range(E) PROVE VisibleBy(e, c)
      BY <2>1
    <3>1. Clean(E, c, e)
      OBVIOUS
    <3>2. e \in EntryOf(a, n)
      BY DEF LedgerOf, Range
    <3>3. e.at \in Int /\ e.seen \in Int
      BY <3>2 DEF EntryOf
    <3> QED
      BY <3>1, <3>3 DEF Clean, VisibleBy, EvidentBy
  <2>3. \A e \in Range(E) : SoundLineage(K, e.id, standing)
    BY <1>5, <2>2, CleanLineages
  <2>4. {f \in Range(E) : f.corrects # 0 /\ ~SoundLineage(K, f.id, standing)} = {}
    BY <2>3
  <2>5. UnresolvedCorrections(E, canon, c)
          = {e.sec : e \in {f \in Range(E) :
                f.corrects # 0 /\ ~SoundLineage(K, f.id, standing)}} \ {NoSec}
    BY <1>4, <2>1 DEF UnresolvedCorrections
  <2> QED
    BY <2>4, <2>5
<1>9. ASSUME NEW s \in Secs
      PROVE  /\ b.positions[s].total \in Nat /\ b.positions[s].total = Quantity(E, c, s)
             /\ b.positions[s].listed = (b.positions[s].total # 0)
             /\ b.positions[s].sellable \in Nat /\ b.positions[s].selling \in Nat
             /\ b.positions[s].sellable + b.positions[s].selling = b.positions[s].total
             /\ b.positions[s].proved = TRUE /\ b.positions[s].exact = TRUE
             /\ b.orders[s].open = b.positions[s].selling /\ b.orders[s].sound = TRUE
  BY DEF Says
<1>10. OrderConflicts(a, b) = {}
  <2>1. {t \in Secs : ~b.orders[t].sound} = {}
    BY <1>9
  <2> QED
    BY <2>1 DEF OrderConflicts
<1>11. PositionConflicts(a, b, c) = {}
  <2>1. \A s \in Listed(b) : PositionCodes(b, s, c) = {}
    <3> TAKE s \in Listed(b)
    <3>1. s \in Secs
      BY DEF Listed
    <3>2. PICK p : p = b.positions[s]
      OBVIOUS
    <3>3. /\ p.proved = TRUE /\ ~(p.total < 0) /\ Quantity(b.ledger, c, s) = p.total
          /\ p.exact = TRUE /\ ~(p.sellable < 0) /\ ~(p.sellable + p.selling > p.total)
          /\ p.selling = b.orders[s].open
      <4>1. PICK x \in Nat : x = p.total
        BY <1>9, <3>1, <3>2
      <4>2. PICK y \in Nat : y = p.sellable
        BY <1>9, <3>1, <3>2
      <4>3. PICK z \in Nat : z = p.selling
        BY <1>9, <3>1, <3>2
      <4>4. y + z = x
        BY <1>9, <3>1, <3>2, <4>1, <4>2, <4>3
      <4>5. ~(x < 0) /\ ~(y < 0) /\ ~(y + z > x)
        BY <4>4
      <4>6. p.proved = TRUE /\ Quantity(b.ledger, c, s) = p.total /\ p.exact = TRUE
            /\ p.selling = b.orders[s].open
        BY <1>1, <1>9, <3>1, <3>2
      <4> QED
        BY <4>1, <4>2, <4>3, <4>5, <4>6
    <3> QED
      BY <3>2, <3>3 DEF PositionCodes
  <2>2. \A s \in Listed(b) : {Conflict(a, s, k[1], k[2], k[3]) : k \in PositionCodes(b, s, c)} = {}
    BY <2>1
  <2> QED
    BY <2>2 DEF PositionConflicts
<1>12. MissingSummaries(b, canon, c) = {}
  <2>1. Unresolved(b.ledger, canon, c) = {}
    BY <1>1, <1>3, <1>8 DEF Unresolved
  <2>2. ASSUME NEW s \in SummaryRequired(b, canon, c) PROVE s \in Listed(b)
    <3>1. s \in Secs /\ (Quantity(b.ledger, c, s) # 0 \/ b.orders[s].open # 0 \/ s \in b.restricted)
      BY <2>1, <2>2 DEF SummaryRequired
    <3>2. s \notin b.restricted
      BY DEF Says
    <3>3. b.positions[s].total # 0
      <4>1. PICK x \in Nat : x = b.positions[s].total
        BY <1>9, <3>1
      <4>2. PICK y \in Nat : y = b.positions[s].sellable
        BY <1>9, <3>1
      <4>3. PICK z \in Nat : z = b.positions[s].selling
        BY <1>9, <3>1
      <4>4. y + z = x /\ x = Quantity(b.ledger, c, s) /\ z = b.orders[s].open
        BY <1>1, <1>9, <3>1, <4>1, <4>2, <4>3
      <4>5. x # 0 \/ z # 0
        BY <3>1, <3>2, <4>4
      <4>6. x # 0
        BY <4>4, <4>5
      <4> QED
        BY <4>1, <4>6
    <3> QED
      BY <1>9, <3>1, <3>3 DEF Listed
  <2> QED
    BY <2>2 DEF MissingSummaries
<1>13. AccountCodes(b, c, baseline) = {}
  <2>1. /\ b.manifest = TRUE /\ b.openingProved = TRUE /\ b.opening = Opening /\ b.frozen = 0
        /\ b.reserve = 0 /\ b.cash \in Nat /\ b.opening + CashMoved(b.ledger, c) = b.cash
        /\ b.cash + SumFunction([s \in Listed(b) |-> b.positions[s].total]) = b.equity
    BY <1>1 DEF Says
  <2>2. EvidenceCodes(b) = {}
    BY <2>1 DEF EvidenceCodes
  <2>3. OpeningCodes(b, baseline) = {}
    BY <2>1 DEF OpeningCodes
  <2>4. ReserveCodes(b) = {}
    BY <2>1 DEF ReserveCodes
  <2>5. LayerCodes(b) = {}
    BY <2>1 DEF LayerCodes
  <2>6. CashCodes(b, c) = {}
    BY <2>1 DEF CashCodes
  <2> QED
    BY <2>2, <2>3, <2>4, <2>5, <2>6 DEF AccountCodes
<1>14. {Conflict(a, NoSec, code, TRUE, FALSE) : code \in AccountCodes(b, c, baseline)} = {}
  BY <1>13
<1>15. {Conflict(a, s, "CORRECTION_LINEAGE_UNRESOLVED", TRUE, TRUE) :
           s \in UnresolvedCorrections(b.ledger, canon, c)} = {}
  BY <1>1, <1>8
<1>16. {Conflict(a, s, "POSITION_SUMMARY_MISSING", TRUE, TRUE) :
           s \in MissingSummaries(b, canon, c)} = {}
  BY <1>12
<1> QED
  BY <1>1, <1>3, <1>7, <1>10, <1>11, <1>14, <1>15, <1>16 DEF AccountConflicts

\* What counts as a fact of an account at a cutoff was seen by then.
LEMMA VisibleIsSeen ==
    ASSUME NEW E, NEW a, NEW n \in Nat, LedgerOf(E, a, n), NEW c \in Int,
           NEW e \in VisibleEntries(E, c)
    PROVE  e \in EntryOf(a, n) /\ e.account = a /\ e.seen <= c
<1>1. PICK standing : standing = {f \in Range(E) : VisibleBy(f, Later(f.at, f.seen))
                                                   /\ SecurityKnown(f)}
  OBVIOUS
<1>2. PICK K : K = ById(E)
  OBVIOUS
<1>3. e \in Range(E) /\ SoundLineage(K, e.id, standing) /\ LineageVisible(K, e.id, c)
  BY <1>1, <1>2 DEF VisibleEntries
<1>4. Alone(K, e.id) /\ Later(Entry(K, e.id).at, Entry(K, e.id).seen) <= c
  BY <1>3 DEF SoundLineage, LineageVisible
<1>5. PICK k \in DOMAIN E : e = E[k]
  BY <1>3 DEF Range
<1>6. Entry(K, e.id) = e
  BY <1>2, <1>4, <1>5, AloneInRow
<1>7. e \in EntryOf(a, n)
  BY <1>5 DEF LedgerOf
<1>8. e.at \in Int /\ e.seen \in Int /\ e.account = a
  BY <1>7 DEF EntryOf
<1>9. e.seen <= c
  BY <1>4, <1>6, <1>8 DEF Later
<1> QED
  BY <1>7, <1>8, <1>9

\* A true snapshot reconciles, whatever was captured before and in whatever
\* order of cutoffs, unless a falsehood no history could contradict was taken
\* for the first observation of a fact (history.py, service.py).
THEOREM TruthReconcilesHolds == Spec => []TruthReconciles
<1>1. PInv => TruthReconciles
  <2> SUFFICES ASSUME PInv, history # <<>>, ~Outcome.reconciled,
                      \A a \in DOMAIN Outcome.books : \E selling \in SUBSET Secs :
                          Outcome.books[a] = Honest(a, Outcome.cutoff, selling),
                      \A a \in DOMAIN Outcome.books :
                          /\ Established(a) \subseteq Range(facts)
                          /\ CashHistory(Earlier, Outcome.view, a, Outcome.cutoff) \ {Opening} = {}
               PROVE  FALSE
    BY DEF TruthReconciles
  <2>1. PICK H : H = Earlier
    OBVIOUS
  <2>2. PICK r : r = Outcome
    OBVIOUS
  <2>3. PICK c : c = r.cutoff
    OBVIOUS
  <2>4. FactsOK /\ SolventOK /\ HistoryOK /\ WithinOK
    BY DEF PInv
  <2>5. JudgedFrom(H, r) /\ r = history[Len(history)] /\ Len(history) \in DOMAIN history
        /\ \A n \in DOMAIN H : RecordOf(H[n], Len(facts))
    <3>1. Len(history) \in DOMAIN history /\ JudgedFrom(H, r)
          /\ \A n \in DOMAIN H : n \in DOMAIN history /\ H[n] = history[n]
      BY <2>1, <2>2, OutcomeIs
    <3>2. \A n \in DOMAIN H : RecordOf(H[n], Len(facts))
      BY <2>4, <3>1 DEF HistoryOK
    <3> QED
      BY <2>2, <3>1, <3>2 DEF Outcome
  <2>6. c \in 1..now /\ c \in Int /\ \A a \in DOMAIN r.books : a \in bound.accounts
    <3>1. c \in 1..now /\ DOMAIN r.books \subseteq bound.accounts
      BY <2>3, <2>4, <2>5 DEF WithinOK
    <3> QED
      BY <3>1
  <2>7. PICK N \in Nat : N = Len(facts)
    <3>1. Len(facts) \in Nat
      BY <2>4, <2>6, ReportedIsClean
    <3> QED
      BY <3>1
  <2>8. ASSUME NEW a \in DOMAIN r.books
        PROVE  AccountConflicts(a, r.books[a], c, Canon(H, r, a), Baseline(H, r, a)) = {}
    <3>1. PICK selling : r.books[a] = Honest(a, c, selling)
      BY <2>2, <2>3
    <3>2. PICK E : E = Reported(a, c)
      OBVIOUS
    <3>3. PICK b : b = r.books[a]
      OBVIOUS
    <3>4. Says(b, E, c)
      <4>1. Opening \in Nat /\ IsFiniteSet(Secs)
        BY PositionConstants DEF Secs
      <4>2. a \in bound.accounts
        BY <2>6
      <4> QED
        BY <2>4, <2>6, <3>1, <3>2, <3>3, <4>1, <4>2, HonestSays
    <3>5. /\ DOMAIN E = SeenOf(facts, a, c) /\ LedgerOf(E, a, N)
          /\ \A k \in DOMAIN E : E[k] = facts[k]
          /\ \A e \in Range(E) : Clean(E, c, e)
          /\ Sound(E)
      BY <2>4, <2>6, <2>7, <3>2, ReportedIsClean
    <3>6. Canon(H, r, a) = Established(a) /\ Established(a) \subseteq Range(facts)
      BY <2>1, <2>2 DEF Canon, Established
    <3>7. Baseline(H, r, a) \subseteq {Opening}
      <4>1. CashHistory(Earlier, Outcome.view, a, Outcome.cutoff) \ {Opening} = {}
        BY <2>2
      <4> QED
        BY <2>1, <2>2, <4>1 DEF Baseline
    <3>8. ASSUME NEW e \in Canon(H, r, a) PROVE e \in Range(E)
      <4>1. PICK A : A = Accepted(H, r.view, a)
        OBVIOUS
      <4>2. e \in FirstObserved(H, A, a, c)
        BY <2>3, <4>1 DEF Canon, LedgerHistory
      <4>3. PICK n \in A : e \in Vis(H, n, a, c)
        BY <4>2, FirstObservedHas
      <4>4. A \subseteq Covering(H, r.view, a)
        <5>1. PICK k \in Nat : DOMAIN H = 1..k
          <6>1. DOMAIN Earlier = 1..(Len(history) - 1) /\ Len(history) \in Nat
            BY OutcomeIs
          <6>2. 1 <= Len(history)
            <7>1. PICK S : S = {history[i] : i \in DOMAIN history}
              OBVIOUS
            <7>2. history \in Seq(S)
              BY <2>4, <7>1 DEF HistoryOK, IsSeq
            <7> QED
              BY <7>2
          <6>3. Len(history) - 1 \in Nat
            BY <6>1, <6>2
          <6> QED
            BY <2>1, <6>1, <6>3
        <5>2. PICK D : D = Covering(H, r.view, a)
          OBVIOUS
        <5>3. D \subseteq 1..k
          BY <5>1, <5>2 DEF Covering
        <5>4. Among(D, MayFollow(H, D, a), A)
          BY <4>1, <5>1, <5>2, <5>3, AcceptedIs DEF Accepted
        <5> QED
          BY <5>2, <5>4 DEF Among
      <4>5. n \in DOMAIN H /\ a \in DOMAIN H[n].books
        BY <4>4 DEF Covering
      <4>6. LedgerOf(H[n].books[a].ledger, a, N)
        BY <2>5, <2>7, <4>5 DEF RecordOf, BookOf
      <4>7. e.account = a /\ e.seen <= c
        BY <2>6, <4>3, <4>6, VisibleIsSeen DEF Vis
      <4>8. PICK i \in DOMAIN facts : e = facts[i]
        BY <3>6 DEF Range
      <4>9. i \in DOMAIN E
        BY <3>5, <4>7, <4>8 DEF SeenOf
      <4> QED
        BY <3>5, <4>8, <4>9 DEF Range
    <3>9. NoSec \notin Secs
      BY PositionConstants DEF Secs
    <3>10. PICK canon : canon = Canon(H, r, a)
      OBVIOUS
    <3>11. PICK baseline : baseline = Baseline(H, r, a)
      OBVIOUS
    <3>12. canon \subseteq Range(E) /\ baseline \subseteq {Opening}
      BY <3>7, <3>8, <3>10, <3>11
    <3>13. AccountConflicts(a, b, c, canon, baseline) = {}
      BY <2>6, <3>4, <3>5, <3>9, <3>12, HonestReconciles
    <3> QED
      BY <3>3, <3>10, <3>11, <3>13
  <2>9. PICK K : /\ r.reconciled = (K = {})
                 /\ \A k \in K : \E a \in DOMAIN r.books :
                       k \in AccountConflicts(a, r.books[a], r.cutoff, Canon(H, r, a),
                                              Baseline(H, r, a))
    BY <2>5, ConflictsOf
  <2>10. K # {}
    BY <2>2, <2>9
  <2> QED
    BY <2>3, <2>8, <2>9, <2>10
<1> QED
  BY <1>1, PositionsAreInOrder, PTL
=============================================================================
