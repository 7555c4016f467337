-------------------------- MODULE CommitmentProofs --------------------------
(***************************************************************************)
(* What CandidateCommitments guarantees for every number of plans,         *)
(* confirmations, executions, orders and snapshots, every optimiser, and   *)
(* every order of requests, lost commits and clock readings.               *)
(*                                                                         *)
(* The argument.  Histories are appended to, so the claims of a plan       *)
(* change in two ways only: a confirmation replaces them by its own        *)
(* reservations, and a named execution of the latest confirmation by what  *)
(* it leaves of them.  A claim has the identity of a reservation, and      *)
(* every claim left out was let go on the newest broker facts.             *)
(***************************************************************************)
EXTENDS CandidateCommitments, FiniteSetTheorems, WellFoundedInduction, TLAPS

-----------------------------------------------------------------------------
(* The inductive invariant.                                                *)

\* Histories hold records of many shapes.
IsSeq(s) == s \in Seq({s[i] : i \in DOMAIN s})
\* One record more.
Grows(s, x, u) ==
    /\ IsSeq(u)
    /\ Len(s) \in Nat /\ Len(u) = Len(s) + 1
    /\ DOMAIN s = 1 .. Len(s) /\ DOMAIN u = 1 .. Len(u)
    /\ \A i \in DOMAIN s : u[i] = s[i]
    /\ u[Len(u)] = x

OrderRecords ==
    [sec : Securities, qty : Nat \ {0}, filled : Nat, live : BOOLEAN, after : Nat]
BookOK(os) ==
    /\ os \in Seq(OrderRecords)
    /\ \A o \in Unfinished(os) : os[o].filled < os[o].qty

\* What the broker knows, and what of it has been seen.
BrokerOK ==
    /\ BookOK(orders)
    /\ IsSeq(snaps) /\ Newest > 0
    /\ \A v \in DOMAIN snaps : BookOK(snaps[v].orders)
    /\ fresh => snaps[Newest].orders = orders

\* Every plan has a quantity for every candidate of its release.
PlansOK ==
    /\ IsSeq(plans)
    /\ \A p \in DOMAIN plans : plans[p].alloc \in [SecuritiesOf(plans[p].rel) -> Nat]

\* A confirmation reserves legs of its plan in full, each security once; a leg
\* is named after the confirmation that accepted it first.
LegsOK(res, p, k) ==
    /\ \A r \in res :
          /\ r.sec \in Positive(p)
          /\ \E n \in 1 .. k :
                r = Commitment(<<n, r.sec>>, r.sec, plans[p].alloc[r.sec], 0, {})
    /\ \A q, r \in res : q.sec = r.sec => q = r

ConfsOK ==
    /\ IsSeq(confs)
    /\ \A k \in DOMAIN confs :
          confs[k].plan \in DOMAIN plans /\ LegsOK(confs[k].res, confs[k].plan, k)

\* Claims are of legs that were reserved.
ClaimsOK(claims, res) ==
    /\ IsFiniteSet(claims)
    /\ \A c \in claims :
          /\ c.qty \in Nat /\ c.hold \in Nat /\ IsFiniteSet(c.orders)
          /\ \E r \in res : r.id = c.id /\ r.sec = c.sec

ExecFields(x) ==
    x = [conf |-> x.conf, eid |-> x.eid, named |-> x.named, disp |-> x.disp,
         claims |-> x.claims, attr |-> x.attr, unfinished |-> x.unfinished,
         unres |-> x.unres, wd |-> x.wd, ver |-> x.ver]
ExecOK(x) ==
    /\ ExecFields(x)
    /\ x.conf \in DOMAIN confs
    /\ x.named \in BOOLEAN
    /\ ClaimsOK(x.claims, confs[x.conf].res)
ExecsOK ==
    /\ IsSeq(execs)
    /\ \A e \in DOMAIN execs : ExecOK(execs[e])

\* A frozen command is about a plan or a confirmation that exists.
CommandOK(cmd) ==
    /\ cmd.kind = "confirm" =>
           cmd.plan \in DOMAIN plans /\ cmd.accept \subseteq Positive(cmd.plan)
    /\ cmd.kind # "confirm" => cmd.conf \in DOMAIN confs

CInv ==
    /\ within \in Cases
    /\ BrokerOK
    /\ PlansOK
    /\ ConfsOK
    /\ ExecsOK
    /\ \A cmd \in unsure : CommandOK(cmd)

\* The decisions a step may be: which claims it may change depends on no more.
IsConfirmation ==
    \E cmd : \E others \in {unsure, unsure \ {cmd}} :
        cmd.kind = "confirm" /\ CommandOK(cmd) /\ Confirm(cmd, others)
IsExecution ==
    \E cmd : \E others \in {unsure, unsure \ {cmd}} :
        cmd.kind # "confirm" /\ CommandOK(cmd) /\ DecideExecution(cmd, others)
IsPlanning ==
    \/ \E r, v, met : r \in Releases /\ Allocate(r, v, met)
    \/ \E p \in DOMAIN plans : \E v : Replan(p, v)

\* What an execution decision may say.
Outcome(cmd, others, x) ==
    \/ x = Unsourced(cmd.conf)
    \/ \E disp, more : /\ x = Copy(cmd.conf, disp, more)
                       /\ disp # "BLOCKED" => Bound(cmd, others)
    \/ x = Reconciled(cmd) /\ Bound(cmd, others) /\ FactsComplete(cmd)

\* A plan as every decision about one records it.
GoodPlan(y, r, rep) ==
    /\ y.alloc \in [SecuritiesOf(y.rel) -> Nat]
    /\ y.rel = r /\ y.rep = rep
    /\ y.planned => /\ UnsureKind({"declare", "reconcile"}, unsure) = {}
                    /\ UnsureKind({"confirm"}, unsure) = {}

\* The other steps: the broker's own, and those that only remember a request.
IsBroker ==
    \/ \E s \in Traded, q \in within.sizes : Place(s, q)
    \/ \E o \in DOMAIN orders : Fill(o) \/ Cancel(o)
    \/ \E risk \in BOOLEAN : Snapshot(risk)
IsRequest ==
    /\ UNCHANGED <<plans, confs, execs, orders, snaps>>
    /\ fresh' => fresh
    /\ \A cmd \in unsure' : CommandOK(cmd)

\* What a reconciliation leaves of a leg, and why it may leave nothing: related
\* are the orders shown to be for it.
Remains(cmd, r, os, related) ==
    /\ Remainder(cmd, r).id = r.id /\ Remainder(cmd, r).sec = r.sec
    /\ Remainder(cmd, r).qty \in Nat /\ Remainder(cmd, r).hold \in Nat
    /\ IsFiniteSet(Remainder(cmd, r).orders)
    /\ Remainder(cmd, r).qty = 0 =>
          /\ related \cap Unfinished(os) = {}
          /\ \/ SumFunction([o \in related |-> os[o].filled]) >= r.qty
             \/ /\ \A o \in Listed(cmd) :
                      os[o].sec = r.sec => Classify(cmd, o) # Unknown
                /\ \/ r.id \in Withdrawn(cmd)
                   \/ plans[confs[cmd.conf].plan].rel \notin snaps[cmd.ver].open
                   \/ confs[cmd.conf].plan \in corrected
                   \/ related # {} /\ \A o \in related : os[o].filled = 0


-----------------------------------------------------------------------------
(* Sums.  The community modules add a function's values up along a choice  *)
(* of elements; that the order does not matter is shown by smallest        *)
(* counterexample.                                                         *)

\* A set of numbers has a smallest member.
LEMMA SmallestIsThere ==
    ASSUME NEW S, S \subseteq Nat, S # {}
    PROVE  \E x \in S : \A y \in S : x <= y
<1>1. PICK x \in S : \A y \in S : ~(<<y, x>> \in OpToRel(<, Nat))
  BY NatLessThanWellFounded, WFMin, Zenon
<1>2. \A y \in S : x <= y
  <2> TAKE y \in S
  <2>1. ~(y < x)
    BY <1>1 DEF OpToRel
  <2> QED
    BY <2>1
<1> QED
  BY <1>2

\* Of the finite subsets with a property one is smallest.
LEMMA SmallestSubset ==
    ASSUME NEW D, IsFiniteSet(D), NEW B, B \subseteq SUBSET D, B # {}
    PROVE  \E s \in B : \A t \in B : ~(t \subseteq s /\ t # s)
<1>1. \A s \in SUBSET D : IsFiniteSet(s) /\ Cardinality(s) \in Nat
  BY FS_Subset, FS_CardinalityType
<1>2. PICK N : N = {Cardinality(s) : s \in B}
  OBVIOUS
<1>3. N \subseteq Nat /\ N # {}
  BY <1>1, <1>2
<1>4. PICK n \in N : \A m \in N : n <= m
  BY <1>3, SmallestIsThere
<1>5. PICK s \in B : n = Cardinality(s)
  BY <1>2, <1>4
<1>6. ASSUME NEW t \in B, t \subseteq s, t # s PROVE FALSE
  <2>0. IsFiniteSet(s) /\ t \in SUBSET s
    BY <1>1, <1>6
  <2>1. Cardinality(t) <= Cardinality(s) /\ Cardinality(s) # Cardinality(t)
    BY ONLY <1>6, <2>0, FS_Subset
  <2>2. n <= Cardinality(t)
    BY <1>2, <1>4, <1>6
  <2> QED
    BY <1>1, <1>5, <1>6, <2>1, <2>2
<1> QED
  BY <1>6

Pick(s) == CHOOSE x \in s : TRUE
Body(g, S, h) == [s \in SUBSET S |-> IF s = {} THEN 0 ELSE g[Pick(s)] + h[s \ {Pick(s)}]]
Adds(g, S, h) == h = Body(g, S, h)
SumTo(g, S) == (CHOOSE h : Adds(g, S, h))[S]

\* A sum is a value of a function that adds one element after the other.
LEMMA SumIsSumTo == ASSUME NEW g PROVE SumFunction(g) = SumTo(g, DOMAIN g)
BY DEF SumFunction, SumFunctionOnSet, FoldFunctionOnSet, MapThenFoldSet, SumTo, Adds, Body, Pick

LEMMA Picked == ASSUME NEW s, s # {} PROVE Pick(s) \in s
BY DEF Pick

\* There is one such function at most.
LEMMA AddsOnce ==
    ASSUME NEW D, IsFiniteSet(D), NEW g, NEW f, NEW h, NEW k, Adds(f, D, h), Adds(g, D, k),
           \A x \in D : f[x] = g[x]
    PROVE  h = k
<1>1. h = Body(f, D, h) /\ k = Body(g, D, k)
  BY DEF Adds
<1>2. PICK B : B = {s \in SUBSET D : h[s] # k[s]}
  OBVIOUS
<1>3. SUFFICES ASSUME B # {} PROVE FALSE
  <2>1. ASSUME B = {} PROVE h = k
    <3>1. \A s \in SUBSET D : h[s] = k[s]
      BY <1>2, <2>1
    <3>2. DOMAIN h = SUBSET D /\ DOMAIN k = SUBSET D /\ h = [s \in SUBSET D |-> h[s]]
          /\ k = [s \in SUBSET D |-> k[s]]
      BY <1>1 DEF Body
    <3> QED
      BY <3>1, <3>2
  <2> QED
    BY <2>1
<1>4. PICK s \in B : \A t \in B : ~(t \subseteq s /\ t # s)
  BY <1>2, <1>3, SmallestSubset
<1>5. s \in SUBSET D /\ h[s] # k[s]
  BY <1>2
<1>6. h[s] = (IF s = {} THEN 0 ELSE f[Pick(s)] + h[s \ {Pick(s)}])
      /\ k[s] = (IF s = {} THEN 0 ELSE g[Pick(s)] + k[s \ {Pick(s)}])
  BY <1>1, <1>5 DEF Body
<1>7. s # {}
  BY <1>5, <1>6
<1>8. PICK t : t = s \ {Pick(s)}
  OBVIOUS
<1>9. Pick(s) \in s /\ t \subseteq s /\ t # s /\ t \in SUBSET D
  BY <1>5, <1>7, <1>8, Picked
<1>10. h[t] = k[t]
  BY <1>2, <1>4, <1>9
<1>11. f[Pick(s)] = g[Pick(s)]
  BY <1>5, <1>9
<1> QED
  BY <1>5, <1>6, <1>7, <1>8, <1>10, <1>11

\* There is one such function at least.
LEMMA AddsAtAll ==
    ASSUME NEW D, IsFiniteSet(D), NEW g
    PROVE  \E h : Adds(g, D, h)
<1>1. PICK B : B = {s \in SUBSET D : ~\E h : Adds(g, s, h)}
  OBVIOUS
<1>2. SUFFICES ASSUME B # {} PROVE FALSE
  BY <1>1
<1>0. B \subseteq SUBSET D
  BY <1>1
<1>3. PICK s \in B : \A t \in B : ~(t \subseteq s /\ t # s)
  BY ONLY <1>0, <1>2, IsFiniteSet(D), SmallestSubset
<1>4. s \in SUBSET D /\ ~\E h : Adds(g, s, h)
  BY <1>1
<1>5. \A t \in SUBSET s : t # s => Adds(g, t, CHOOSE h : Adds(g, t, h))
  BY <1>1, <1>3, <1>4
<1>6. PICK V : V = [t \in SUBSET s |-> SumTo(g, t)]
  OBVIOUS
<1>7. PICK h : h = Body(g, s, V)
  OBVIOUS
<1>8. \A t \in SUBSET s : t # s => h[t] = V[t]
  <2> SUFFICES ASSUME NEW t \in SUBSET s, t # s
               PROVE  h[t] = V[t]
    OBVIOUS
  <2>1. PICK k : k = CHOOSE x : Adds(g, t, x)
    OBVIOUS
  <2>2. Adds(g, t, k) /\ V[t] = k[t]
    BY <1>5, <1>6, <2>1 DEF SumTo
  <2>3. h[t] = (IF t = {} THEN 0 ELSE g[Pick(t)] + V[t \ {Pick(t)}])
    BY <1>7 DEF Body
  <2>4. k[t] = (IF t = {} THEN 0 ELSE g[Pick(t)] + k[t \ {Pick(t)}])
    BY <2>2 DEF Adds, Body
  <2>5. CASE t = {}
    BY <2>2, <2>3, <2>4, <2>5
  <2>6. CASE t # {}
    <3>1. PICK u : u = t \ {Pick(t)}
      OBVIOUS
    <3>2. u \in SUBSET t /\ u \in SUBSET s /\ u # s /\ u # t
      BY <2>6, <3>1, Picked
    <3>3. PICK m : m = CHOOSE x : Adds(g, u, x)
      OBVIOUS
    <3>4. Adds(g, u, m) /\ V[u] = m[u]
      BY <1>5, <1>6, <3>2, <3>3 DEF SumTo
    <3>5. PICK n : n = [x \in SUBSET u |-> k[x]]
      OBVIOUS
    <3>6. Adds(g, u, n)
      <4>1. k = Body(g, t, k)
        BY <2>2 DEF Adds
      <4>2. \A x \in SUBSET u : x \in SUBSET t /\ x \ {Pick(x)} \in SUBSET u
        BY <3>2
      <4>3. \A x \in SUBSET u : k[x] = IF x = {} THEN 0 ELSE g[Pick(x)] + k[x \ {Pick(x)}]
        BY <4>1, <4>2 DEF Body
      <4>4. \A x \in SUBSET u : n[x] = IF x = {} THEN 0 ELSE g[Pick(x)] + n[x \ {Pick(x)}]
        BY <3>5, <4>2, <4>3
      <4>5. n = [x \in SUBSET u |-> n[x]]
        BY <3>5
      <4> QED
        BY <4>4, <4>5 DEF Adds, Body
    <3>7. IsFiniteSet(u)
      BY <1>4, <3>2, FS_Subset
    <3>8. m = n
      BY <3>4, <3>6, <3>7, AddsOnce
    <3> QED
      BY <2>2, <2>3, <2>4, <2>6, <3>1, <3>4, <3>5, <3>8
  <2> QED
    BY <2>5, <2>6
<1>9. Adds(g, s, h)
  <2>1. \A t \in SUBSET s : h[t] = IF t = {} THEN 0 ELSE g[Pick(t)] + h[t \ {Pick(t)}]
    <3> SUFFICES ASSUME NEW t \in SUBSET s
                 PROVE  h[t] = IF t = {} THEN 0 ELSE g[Pick(t)] + h[t \ {Pick(t)}]
      OBVIOUS
    <3>1. h[t] = IF t = {} THEN 0 ELSE g[Pick(t)] + V[t \ {Pick(t)}]
      BY <1>7 DEF Body
    <3>2. ASSUME t # {} PROVE h[t \ {Pick(t)}] = V[t \ {Pick(t)}]
      <4>1. PICK u : u = t \ {Pick(t)}
        OBVIOUS
      <4>2. u \in SUBSET s /\ u # s
        BY <3>2, <4>1, Picked
      <4> QED
        BY <1>8, <4>1, <4>2
    <3> QED
      BY <3>1, <3>2
  <2>2. h = [t \in SUBSET s |-> h[t]]
    BY <1>7 DEF Body
  <2> QED
    BY <2>1, <2>2 DEF Adds, Body
<1> QED
  BY <1>4, <1>9

\* Sums along the choice: nothing adds up to zero, and the chosen element
\* comes on top of the rest.
LEMMA SumAlong ==
    ASSUME NEW D, IsFiniteSet(D), NEW g
    PROVE  SumTo(g, D) = IF D = {} THEN 0 ELSE g[Pick(D)] + SumTo(g, D \ {Pick(D)})
<1>1. PICK k : k = CHOOSE x : Adds(g, D, x)
  OBVIOUS
<1>2. Adds(g, D, k) /\ SumTo(g, D) = k[D]
  BY <1>1, AddsAtAll DEF SumTo
<1>3. k[D] = IF D = {} THEN 0 ELSE g[Pick(D)] + k[D \ {Pick(D)}]
  BY <1>2 DEF Adds, Body
<1>4. ASSUME D # {} PROVE k[D \ {Pick(D)}] = SumTo(g, D \ {Pick(D)})
  <2>1. PICK u : u = D \ {Pick(D)}
    OBVIOUS
  <2>2. u \in SUBSET D /\ IsFiniteSet(u)
    BY <2>1, FS_Subset
  <2>3. PICK m : m = CHOOSE x : Adds(g, u, x)
    OBVIOUS
  <2>4. Adds(g, u, m) /\ SumTo(g, u) = m[u]
    BY <2>2, <2>3, AddsAtAll DEF SumTo
  <2>5. PICK n : n = [x \in SUBSET u |-> k[x]]
    OBVIOUS
  <2>6. Adds(g, u, n)
    <3>1. k = Body(g, D, k)
      BY <1>2 DEF Adds
    <3>2. \A x \in SUBSET u : x \in SUBSET D /\ x \ {Pick(x)} \in SUBSET u
      BY <2>2
    <3>3. \A x \in SUBSET u : k[x] = IF x = {} THEN 0 ELSE g[Pick(x)] + k[x \ {Pick(x)}]
      BY <3>1, <3>2 DEF Body
    <3>4. \A x \in SUBSET u : n[x] = IF x = {} THEN 0 ELSE g[Pick(x)] + n[x \ {Pick(x)}]
      BY <2>5, <3>2, <3>3
    <3>5. n = [x \in SUBSET u |-> n[x]]
      BY <2>5
    <3> QED
      BY <3>4, <3>5 DEF Adds, Body
  <2>7. m = n
    BY <2>2, <2>4, <2>6, AddsOnce
  <2> QED
    BY <2>1, <2>4, <2>5, <2>7
<1> QED
  BY <1>2, <1>3, <1>4

\* Sums of equal functions are equal.
LEMMA SumSame ==
    ASSUME NEW D, IsFiniteSet(D), NEW f, NEW g, \A x \in D : f[x] = g[x]
    PROVE  SumTo(f, D) = SumTo(g, D)
<1>1. PICK h : h = CHOOSE x : Adds(f, D, x)
  OBVIOUS
<1>2. PICK k : k = CHOOSE x : Adds(g, D, x)
  OBVIOUS
<1>3. Adds(f, D, h) /\ Adds(g, D, k)
  BY <1>1, <1>2, AddsAtAll
<1>4. h = k
  BY <1>3, AddsOnce
<1> QED
  BY <1>1, <1>2, <1>4 DEF SumTo

\* A sum of integers is an integer, of naturals a natural.
LEMMA SumType ==
    ASSUME NEW D, IsFiniteSet(D), NEW g
    PROVE  /\ (\A x \in D : g[x] \in Int) => SumTo(g, D) \in Int
           /\ (\A x \in D : g[x] \in Nat) => SumTo(g, D) \in Nat
<1>1. ASSUME NEW T, T = Int \/ T = Nat, \A x \in D : g[x] \in T PROVE SumTo(g, D) \in T
  <2>1. PICK B : B = {s \in SUBSET D : SumTo(g, s) \notin T}
    OBVIOUS
  <2>2. SUFFICES ASSUME B # {} PROVE FALSE
    BY <2>1
  <2>3. PICK s \in B : \A t \in B : ~(t \subseteq s /\ t # s)
    BY <2>1, <2>2, SmallestSubset
  <2>4. s \in SUBSET D /\ SumTo(g, s) \notin T /\ IsFiniteSet(s)
    BY <2>1, FS_Subset
  <2>5. SumTo(g, s) = IF s = {} THEN 0 ELSE g[Pick(s)] + SumTo(g, s \ {Pick(s)})
    BY <2>4, SumAlong
  <2>6. s # {}
    BY <1>1, <2>4, <2>5
  <2>7. PICK t : t = s \ {Pick(s)}
    OBVIOUS
  <2>8. Pick(s) \in s /\ t \subseteq s /\ t # s /\ t \in SUBSET D
    BY <2>4, <2>6, <2>7, Picked
  <2>9. SumTo(g, t) \in T /\ g[Pick(s)] \in T
    BY <1>1, <2>1, <2>3, <2>4, <2>8
  <2> QED
    BY <1>1, <2>4, <2>5, <2>6, <2>7, <2>9
<1> QED
  BY <1>1

\* Any element may be added last.
LEMMA SumAny ==
    ASSUME NEW D, IsFiniteSet(D), NEW g, \A x \in D : g[x] \in Int, NEW e \in D
    PROVE  SumTo(g, D) = g[e] + SumTo(g, D \ {e})
<1>1. PICK B : B = {s \in SUBSET D : \E x \in s : SumTo(g, s) # g[x] + SumTo(g, s \ {x})}
  OBVIOUS
<1>2. SUFFICES ASSUME B # {} PROVE FALSE
  BY <1>1
<1>0. B \subseteq SUBSET D
  BY <1>1
<1>3. PICK s \in B : \A t \in B : ~(t \subseteq s /\ t # s)
  BY ONLY <1>0, <1>2, IsFiniteSet(D), SmallestSubset
<1>4. PICK x \in s : s \in SUBSET D /\ SumTo(g, s) # g[x] + SumTo(g, s \ {x})
  BY <1>1
<1>5. PICK c : c = Pick(s)
  OBVIOUS
<1>6. c \in s
  BY <1>4, <1>5, Picked
<1>7. IsFiniteSet(s)
  BY <1>4, FS_Subset
<1>8. SumTo(g, s) = g[c] + SumTo(g, s \ {c})
  BY <1>4, <1>5, <1>7, SumAlong
<1>9. c # x
  BY <1>4, <1>8
<1>10. PICK t, u, v : t = s \ {c} /\ u = s \ {x} /\ v = (s \ {c}) \ {x}
  OBVIOUS
<1>11. /\ t \in SUBSET D /\ u \in SUBSET D /\ v \in SUBSET D /\ v = u \ {c}
       /\ t \subseteq s /\ t # s /\ u \subseteq s /\ u # s /\ x \in t /\ c \in u
  BY <1>4, <1>6, <1>9, <1>10
<1>12. SumTo(g, t) = g[x] + SumTo(g, v) /\ SumTo(g, u) = g[c] + SumTo(g, v)
  <2>1. t \notin B /\ u \notin B
    BY <1>3, <1>11
  <2> QED
    BY <1>1, <1>10, <1>11, <2>1
<1>13. SumTo(g, v) \in Int /\ g[x] \in Int /\ g[c] \in Int
  <2>1. IsFiniteSet(v)
    BY <1>11, FS_Subset
  <2>2. \A y \in v : g[y] \in Int
    BY <1>11
  <2> QED
    BY <1>4, <1>6, <2>1, <2>2, SumType
<1> QED
  BY <1>4, <1>8, <1>10, <1>12, <1>13

-----------------------------------------------------------------------------
(* Sums of functions.                                                      *)

\* The sum of a function on some of its arguments.
LEMMA SumOf ==
    ASSUME NEW D, IsFiniteSet(D), NEW f, DOMAIN f = D, NEW g, \A x \in D : f[x] = g[x]
    PROVE  SumFunction(f) = SumTo(g, D)
BY SumIsSumTo, SumSame

\* Larger values make a larger sum.
LEMMA SumGrows ==
    ASSUME NEW D, IsFiniteSet(D), NEW f, NEW g,
           \A x \in D : f[x] \in Int /\ g[x] \in Int /\ f[x] <= g[x]
    PROVE  SumTo(f, D) <= SumTo(g, D)
<1>1. PICK B : B = {s \in SUBSET D : ~(SumTo(f, s) <= SumTo(g, s))}
  OBVIOUS
<1>2. SUFFICES ASSUME B # {} PROVE FALSE
  BY <1>1
<1>0. B \subseteq SUBSET D
  BY <1>1
<1>3. PICK s \in B : \A t \in B : ~(t \subseteq s /\ t # s)
  BY ONLY <1>0, <1>2, IsFiniteSet(D), SmallestSubset
<1>4. s \in SUBSET D /\ ~(SumTo(f, s) <= SumTo(g, s)) /\ IsFiniteSet(s)
  BY <1>1, FS_Subset
<1>5. /\ SumTo(f, s) = IF s = {} THEN 0 ELSE f[Pick(s)] + SumTo(f, s \ {Pick(s)})
      /\ SumTo(g, s) = IF s = {} THEN 0 ELSE g[Pick(s)] + SumTo(g, s \ {Pick(s)})
  BY <1>4, SumAlong
<1>6. s # {}
  BY <1>4, <1>5
<1>7. PICK t : t = s \ {Pick(s)}
  OBVIOUS
<1>8. Pick(s) \in s /\ t \subseteq s /\ t # s /\ t \in SUBSET D /\ IsFiniteSet(t)
  BY <1>4, <1>6, <1>7, Picked, FS_Subset
<1>9. SumTo(f, t) <= SumTo(g, t)
  BY <1>1, <1>3, <1>8
<1>10. SumTo(f, t) \in Int /\ SumTo(g, t) \in Int
  BY <1>8, SumType
<1>11. f[Pick(s)] \in Int /\ g[Pick(s)] \in Int /\ f[Pick(s)] <= g[Pick(s)]
  BY <1>4, <1>8
<1> QED
  BY <1>4, <1>5, <1>6, <1>7, <1>9, <1>10, <1>11

\* More elements with natural values make no smaller a sum, and two sets
\* together no larger a sum than both.
LEMMA SumJoins ==
    ASSUME NEW D, IsFiniteSet(D), NEW g, \A x \in D : g[x] \in Nat, NEW A \in SUBSET D
    PROVE  SumTo(g, A) <= SumTo(g, D)
           /\ \A E \in SUBSET D : SumTo(g, A \cup E) <= SumTo(g, A) + SumTo(g, E)
<1>0. \A s \in SUBSET D : IsFiniteSet(s) /\ SumTo(g, s) \in Nat
  <2> TAKE s \in SUBSET D
  <2>1. IsFiniteSet(s)
    BY FS_Subset
  <2> QED
    BY <2>1, SumType
<1>1. ASSUME NEW E \in SUBSET D
      PROVE  SumTo(g, A) <= SumTo(g, A \cup E)
             /\ SumTo(g, A \cup E) <= SumTo(g, A) + SumTo(g, E)
  <2>1. PICK B : B = {s \in SUBSET E : ~(/\ SumTo(g, A) <= SumTo(g, A \cup s)
                                         /\ SumTo(g, A \cup s) <= SumTo(g, A) + SumTo(g, s))}
    OBVIOUS
  <2>2. SUFFICES ASSUME B # {} PROVE FALSE
    BY <2>1
  <2>3. B \subseteq SUBSET E /\ IsFiniteSet(E)
    BY <1>0, <2>1
  <2>4. PICK s \in B : \A t \in B : ~(t \subseteq s /\ t # s)
    BY ONLY <2>2, <2>3, SmallestSubset
  <2>5. s \in SUBSET E /\ ~(/\ SumTo(g, A) <= SumTo(g, A \cup s)
                            /\ SumTo(g, A \cup s) <= SumTo(g, A) + SumTo(g, s))
    BY <2>1
  <2>6. SumTo(g, {}) = 0
    BY SumAlong, FS_EmptySet
  <2>7. s # {}
    <3>1. ASSUME s = {} PROVE FALSE
      <4>1. A \cup s = A
        BY <3>1
      <4>2. SumTo(g, A) \in Nat
        BY <1>0
      <4> QED
        BY <2>5, <2>6, <3>1, <4>1, <4>2
    <3> QED
      BY <3>1
  <2>8. PICK e \in s : TRUE
    BY <2>7
  <2>9. PICK t, u, v : t = s \ {e} /\ u = A \cup t /\ v = A \cup s
    OBVIOUS
  <2>10. t \in SUBSET E /\ t \subseteq s /\ t # s /\ t \in SUBSET D /\ u \in SUBSET D
         /\ v \in SUBSET D /\ s \in SUBSET D /\ e \in D
    BY <2>5, <2>9
  <2>11. SumTo(g, A) <= SumTo(g, u) /\ SumTo(g, u) <= SumTo(g, A) + SumTo(g, t)
    <3>1. t \notin B
      BY <2>4, <2>10
    <3> QED
      BY <2>1, <2>9, <2>10, <3>1
  <2>12. SumTo(g, s) = g[e] + SumTo(g, t)
    <3>1. \A x \in s : g[x] \in Int
      BY <2>10
    <3> QED
      BY <1>0, <2>8, <2>9, <2>10, <3>1, SumAny
  <2>13. SumTo(g, v) = SumTo(g, u) \/ SumTo(g, v) = g[e] + SumTo(g, u)
    <3>1. CASE e \in A
      <4>1. v = u
        BY <2>8, <2>9, <3>1
      <4> QED
        BY <4>1
    <3>2. CASE e \notin A
      <4>1. u = v \ {e} /\ e \in v
        BY <2>8, <2>9, <3>2
      <4>2. \A x \in v : g[x] \in Int
        BY <2>10
      <4> QED
        BY <1>0, <2>10, <4>1, <4>2, SumAny
    <3> QED
      BY <3>1, <3>2
  <2>14. /\ SumTo(g, A) \in Nat /\ SumTo(g, s) \in Nat /\ SumTo(g, t) \in Nat
         /\ SumTo(g, u) \in Nat /\ SumTo(g, v) \in Nat /\ g[e] \in Nat
    BY <1>0, <2>10
  <2> QED
    BY <2>5, <2>9, <2>11, <2>12, <2>13, <2>14
<1>2. SumTo(g, A) <= SumTo(g, D)
  <2>1. A \cup D = D
    OBVIOUS
  <2> QED
    BY <1>1, <2>1
<1> QED
  BY <1>1, <1>2

\* No value is larger than the sum of natural values.
LEMMA SumHolds ==
    ASSUME NEW D, IsFiniteSet(D), NEW g, \A x \in D : g[x] \in Nat, NEW e \in D
    PROVE  g[e] <= SumTo(g, D)
<1>1. SumTo(g, D) = g[e] + SumTo(g, D \ {e})
  BY SumAny
<1>2. PICK u : u = D \ {e}
  OBVIOUS
<1>3. u \in SUBSET D /\ IsFiniteSet(u)
  BY <1>2, FS_Subset
<1>4. SumTo(g, u) \in Nat
  BY <1>3, SumType
<1> QED
  BY <1>1, <1>2, <1>4
-----------------------------------------------------------------------------
(* Sequences and the last of a set of indices.                             *)

\* A history and what appending one record makes of it.
LEMMA Appended ==
    ASSUME NEW s, IsSeq(s), NEW x, NEW u, u = Append(s, x)
    PROVE  Grows(s, x, u)
<1>1. PICK S : S = {s[i] : i \in DOMAIN s}
  OBVIOUS
<1>2. s \in Seq(S \cup {x})
  <2>1. s \in Seq(S)
    BY <1>1 DEF IsSeq
  <2> QED
    BY <2>1
<1>3. u \in Seq(S \cup {x}) /\ Len(u) = Len(s) + 1 /\ Len(s) \in Nat
  BY <1>2
<1>4. DOMAIN s = 1 .. Len(s) /\ DOMAIN u = 1 .. Len(u)
  BY <1>2, <1>3
<1>5. (\A i \in DOMAIN s : u[i] = s[i]) /\ u[Len(u)] = x
  BY <1>2, <1>3
<1>6. IsSeq(u)
  <2>1. PICK n \in Nat : n = Len(u)
    BY <1>3
  <2>2. PICK R : R = {u[i] : i \in DOMAIN u}
    OBVIOUS
  <2>3. \A i \in 1 .. n : u[i] \in R
    BY <1>4, <2>1, <2>2
  <2>4. PICK Z : Z = S \cup {x}
    OBVIOUS
  <2>5. u \in Seq(Z) /\ n = Len(u)
    BY <1>3, <2>1, <2>4
  <2>6. u \in [1 .. n -> Z]
    BY ONLY <2>5
  <2>7. u \in [1 .. n -> R]
    BY ONLY <2>3, <2>6
  <2>8. u \in Seq(R)
    BY ONLY <2>7, n \in Nat
  <2> QED
    BY <2>2, <2>8 DEF IsSeq
<1> QED
  BY <1>3, <1>4, <1>5, <1>6 DEF Grows

\* A history's indices.
LEMMA Indices ==
    ASSUME NEW s, IsSeq(s)
    PROVE  DOMAIN s = 1 .. Len(s) /\ Len(s) \in Nat
BY DEF IsSeq

\* A nonempty set of indices has a last one.
LEMMA LastIsThere ==
    ASSUME NEW n \in Nat, NEW S, S \subseteq 1 .. n, S # {}
    PROVE  Max(S) \in S /\ \A y \in S : y <= Max(S)
<1>1. PICK T : T = {n - x : x \in S}
  OBVIOUS
<1>2. T \in SUBSET Nat /\ T # {}
  <2>1. \A x \in S : n - x \in Nat
    OBVIOUS
  <2> QED
    BY <1>1, <2>1
<1>3. PICK m \in T : \A y \in T : ~(<<y, m>> \in OpToRel(<, Nat))
  BY <1>2, NatLessThanWellFounded, WFMin, Zenon
<1>4. \A y \in T : ~(y < m)
  BY <1>2, <1>3 DEF OpToRel
<1>5. PICK x \in S : m = n - x
  BY <1>1
<1>6. \A y \in S : x >= y
  <2> SUFFICES ASSUME NEW y \in S PROVE x >= y
    OBVIOUS
  <2>1. n - y \in T
    BY <1>1
  <2>2. ~(n - y < n - x)
    BY <1>4, <1>5, <2>1
  <2>3. x \in Int /\ y \in Int
    OBVIOUS
  <2> QED
    BY <2>2, <2>3
<1>7. PICK z : z = Max(S)
  OBVIOUS
<1>8. z \in S /\ \A y \in S : z >= y
  BY <1>6, <1>7, Zenon DEF Max
<1>9. \A y \in S : y <= z
  <2> SUFFICES ASSUME NEW y \in S PROVE y <= z
    OBVIOUS
  <2>1. z >= y /\ z \in Int /\ y \in Int
    BY <1>8
  <2> QED
    BY <2>1
<1> QED
  BY <1>7, <1>8, <1>9

\* The one that is as late as all others is the last.
LEMMA LastIs ==
    ASSUME NEW n \in Nat, NEW S, S \subseteq 1 .. n, NEW k \in S, \A y \in S : y <= k
    PROVE  LastOf(S) = k
<1>1. PICK m : m = Max(S)
  OBVIOUS
<1>2. m \in S /\ \A y \in S : y <= m
  BY <1>1, LastIsThere
<1>3. m \in Int /\ k \in Int /\ k <= m /\ m <= k
  BY <1>2
<1>4. m = k
  BY <1>3
<1>5. LastOf(S) = Max(S)
  BY Zenon DEF LastOf
<1> QED
  BY <1>1, <1>4, <1>5

\* The last of a set of indices, or none.
LEMMA LastOfType ==
    ASSUME NEW n \in Nat, NEW S, S \subseteq 1 .. n
    PROVE  /\ LastOf(S) = 0 <=> S = {}
           /\ S # {} => LastOf(S) \in S /\ \A y \in S : y <= LastOf(S)
<1>1. CASE S = {}
  BY <1>1 DEF LastOf
<1>2. CASE S # {}
  <2>1. PICK m : m = Max(S)
    OBVIOUS
  <2>2. m \in S /\ \A y \in S : y <= m
    BY <1>2, <2>1, LastIsThere
  <2>3. LastOf(S) = m
    BY <1>2, <2>1, Zenon DEF LastOf
  <2>4. m # 0
    BY <2>2
  <2> QED
    BY <1>2, <2>2, <2>3, <2>4
<1> QED
  BY <1>1, <1>2

-----------------------------------------------------------------------------
(* Claims and the histories they are read from.                            *)

\* The candidates of a release.
LEMMA CandidatesAre ==
    ASSUME NEW r
    PROVE  SecuritiesOf(r) \subseteq Securities /\ IsFiniteSet(SecuritiesOf(r))
BY FS_Subset, CommitmentConstants DEF SecuritiesOf

\* The legs of a confirmation: finitely many, in full, and held by no order.
LEMMA LegsAre ==
    ASSUME PlansOK, NEW p \in DOMAIN plans, NEW k \in Nat, NEW res, LegsOK(res, p, k)
    PROVE  /\ IsFiniteSet(res)
           /\ \A r \in res : /\ r.qty = plans[p].alloc[r.sec] /\ r.qty \in Nat /\ r.qty > 0
                             /\ r.hold = 0 /\ r.orders = {}
                             /\ r.sec \in Positive(p) /\ r.sec \in Securities
                             /\ r.id[2] = r.sec
           /\ ClaimsOK(res, res)
<1>0. plans[p].alloc \in [SecuritiesOf(plans[p].rel) -> Nat]
  BY DEF PlansOK
<1>1. SecuritiesOf(plans[p].rel) \subseteq Securities /\ IsFiniteSet(SecuritiesOf(plans[p].rel))
  BY CandidatesAre
<1>2. \A r \in res : /\ r.qty = plans[p].alloc[r.sec] /\ r.qty \in Nat /\ r.qty > 0
                     /\ r.hold = 0 /\ r.orders = {}
                     /\ r.sec \in Positive(p) /\ r.sec \in Securities
                     /\ r.id[2] = r.sec
  <2> SUFFICES ASSUME NEW r \in res
               PROVE  /\ r.qty = plans[p].alloc[r.sec] /\ r.qty \in Nat /\ r.qty > 0
                      /\ r.hold = 0 /\ r.orders = {}
                      /\ r.sec \in Positive(p) /\ r.sec \in Securities
                      /\ r.id[2] = r.sec
    OBVIOUS
  <2>1. PICK n \in 1 .. k :
            r = Commitment(<<n, r.sec>>, r.sec, plans[p].alloc[r.sec], 0, {})
    BY DEF LegsOK
  <2>2. r.qty = plans[p].alloc[r.sec] /\ r.hold = 0 /\ r.orders = {} /\ r.id = <<n, r.sec>>
    BY <2>1 DEF Commitment
  <2>3. r.sec \in Positive(p)
    BY DEF LegsOK
  <2>4. r.sec \in SecuritiesOf(plans[p].rel) /\ plans[p].alloc[r.sec] > 0
    BY <1>0, <2>3 DEF Positive
  <2>5. plans[p].alloc[r.sec] \in Nat
    BY <1>0, <2>4
  <2> QED
    BY <1>1, <2>2, <2>3, <2>4, <2>5
<1>3. IsFiniteSet(res)
  <2>1. PICK f : f = [r \in res |-> r.sec]
    OBVIOUS
  <2>2. f \in [res -> Securities]
    BY <1>2, <2>1
  <2>3. \A q, r \in res : f[q] = f[r] => q = r
    BY <2>1 DEF LegsOK
  <2>4. f \in Injection(res, Securities)
    BY <2>2, <2>3 DEF Injection, IsInjective
  <2> QED
    BY <2>4, FS_Injection, CommitmentConstants
<1>4. ClaimsOK(res, res)
  <2>1. IsFiniteSet({})
    BY FS_EmptySet
  <2>2. \A r \in res : r.qty \in Nat /\ r.hold \in Nat /\ IsFiniteSet(r.orders)
    <3> TAKE r \in res
    <3>1. r.qty \in Nat /\ r.hold = 0 /\ r.orders = {}
      BY <1>2
    <3>2. IsFiniteSet(r.orders)
      BY <2>1, <3>1
    <3> QED
      BY <3>1, <3>2
  <2> QED
    BY <1>3, <2>2, Zenon DEF ClaimsOK
<1> QED
  BY <1>2, <1>3, <1>4

\* The latest of a set of confirmations or executions.
LEMMA LatestAre ==
    ASSUME CInv
    PROVE  /\ \A p : /\ LatestConf(p) # 0 =>
                            /\ LatestConf(p) \in DOMAIN confs
                            /\ confs[LatestConf(p)].plan = p
                     /\ \A c \in DOMAIN confs : confs[c].plan = p =>
                            LatestConf(p) # 0 /\ c <= LatestConf(p)
           /\ \A c : /\ LatestExec(c) # 0 =>
                            /\ LatestExec(c) \in DOMAIN execs
                            /\ execs[LatestExec(c)].conf = c
                     /\ \A e \in DOMAIN execs : execs[e].conf = c =>
                            LatestExec(c) # 0 /\ e <= LatestExec(c)
           /\ \A c : /\ NamedExec(c) # 0 =>
                            /\ NamedExec(c) \in DOMAIN execs
                            /\ execs[NamedExec(c)].conf = c /\ execs[NamedExec(c)].named
                     /\ \A e \in DOMAIN execs : execs[e].conf = c /\ execs[e].named =>
                            NamedExec(c) # 0 /\ e <= NamedExec(c)
<1>1. DOMAIN confs = 1 .. Len(confs) /\ Len(confs) \in Nat
      /\ DOMAIN execs = 1 .. Len(execs) /\ Len(execs) \in Nat
  BY Indices DEF CInv, ConfsOK, ExecsOK
<1>2. ASSUME NEW p
      PROVE  /\ LatestConf(p) # 0 =>
                    LatestConf(p) \in DOMAIN confs /\ confs[LatestConf(p)].plan = p
             /\ \A c \in DOMAIN confs : confs[c].plan = p =>
                    LatestConf(p) # 0 /\ c <= LatestConf(p)
  <2>1. PICK S : S = {c \in DOMAIN confs : confs[c].plan = p}
    OBVIOUS
  <2>2. S \subseteq 1 .. Len(confs)
    BY <1>1, <2>1
  <2>3. (LastOf(S) = 0 <=> S = {}) /\ (S # {} => LastOf(S) \in S /\ \A y \in S : y <= LastOf(S))
    BY <1>1, <2>2, LastOfType
  <2>4. LatestConf(p) = LastOf(S)
    BY <2>1 DEF LatestConf
  <2> QED
    BY <2>1, <2>3, <2>4
<1>3. ASSUME NEW c
      PROVE  /\ LatestExec(c) # 0 =>
                    LatestExec(c) \in DOMAIN execs /\ execs[LatestExec(c)].conf = c
             /\ \A e \in DOMAIN execs : execs[e].conf = c =>
                    LatestExec(c) # 0 /\ e <= LatestExec(c)
  <2>1. PICK S : S = {e \in DOMAIN execs : execs[e].conf = c}
    OBVIOUS
  <2>2. S \subseteq 1 .. Len(execs)
    BY <1>1, <2>1
  <2>3. (LastOf(S) = 0 <=> S = {}) /\ (S # {} => LastOf(S) \in S /\ \A y \in S : y <= LastOf(S))
    BY <1>1, <2>2, LastOfType
  <2>4. LatestExec(c) = LastOf(S)
    BY <2>1 DEF LatestExec
  <2> QED
    BY <2>1, <2>3, <2>4
<1>4. ASSUME NEW c
      PROVE  /\ NamedExec(c) # 0 =>
                    /\ NamedExec(c) \in DOMAIN execs
                    /\ execs[NamedExec(c)].conf = c /\ execs[NamedExec(c)].named
             /\ \A e \in DOMAIN execs : execs[e].conf = c /\ execs[e].named =>
                    NamedExec(c) # 0 /\ e <= NamedExec(c)
  <2>1. PICK S : S = {e \in DOMAIN execs : execs[e].conf = c /\ execs[e].named}
    OBVIOUS
  <2>2. S \subseteq 1 .. Len(execs)
    BY <1>1, <2>1
  <2>3. (LastOf(S) = 0 <=> S = {}) /\ (S # {} => LastOf(S) \in S /\ \A y \in S : y <= LastOf(S))
    BY <1>1, <2>2, LastOfType
  <2>4. NamedExec(c) = LastOf(S)
    BY <2>1 DEF NamedExec
  <2> QED
    BY <2>1, <2>3, <2>4
<1> QED
  BY <1>2, <1>3, <1>4, Zenon

\* What a plan holds was reserved by its latest confirmation.
LEMMA ClaimsAre ==
    ASSUME CInv, NEW p \in DOMAIN plans
    PROVE  /\ LatestConf(p) = 0 => PlanClaims(p) = {}
           /\ LatestConf(p) # 0 => ClaimsOK(PlanClaims(p), confs[LatestConf(p)].res)
           /\ IsFiniteSet(PlanClaims(p))
<1>1. CASE LatestConf(p) = 0
  BY <1>1, FS_EmptySet DEF PlanClaims
<1>2. CASE LatestConf(p) # 0
  <2>1. PICK c : c = LatestConf(p)
    OBVIOUS
  <2>2. c \in DOMAIN confs /\ confs[c].plan = p
    BY <1>2, <2>1, LatestAre
  <2>3. DOMAIN confs = 1 .. Len(confs) /\ Len(confs) \in Nat
    BY Indices DEF CInv, ConfsOK
  <2>4. ClaimsOK(confs[c].res, confs[c].res)
    <3>1. LegsOK(confs[c].res, p, c) /\ c \in Nat /\ PlansOK
      BY <2>2, <2>3 DEF CInv, ConfsOK
    <3> QED
      BY <3>1, LegsAre
  <2>5. CASE NamedExec(c) = 0
    BY <1>2, <2>1, <2>4, <2>5 DEF PlanClaims, ClaimsOK
  <2>6. CASE NamedExec(c) # 0
    <3>1. NamedExec(c) \in DOMAIN execs /\ execs[NamedExec(c)].conf = c
      BY <2>6, LatestAre
    <3>2. ClaimsOK(execs[NamedExec(c)].claims, confs[c].res)
      BY <3>1 DEF CInv, ExecsOK, ExecOK
    <3> QED
      BY <1>2, <2>1, <2>6, <3>2 DEF PlanClaims, ClaimsOK
  <2> QED
    BY <2>5, <2>6
<1> QED
  BY <1>1, <1>2

\* All claims are finitely many.
LEMMA RetainedAre ==
    ASSUME CInv, NEW except
    PROVE  /\ IsFiniteSet(Retained(except))
           /\ \A c \in Retained(except) :
                  c.qty \in Nat /\ c.hold \in Nat /\ IsFiniteSet(c.orders)
<1>1. DOMAIN plans = 1 .. Len(plans) /\ Len(plans) \in Nat
  BY Indices DEF CInv, PlansOK
<1>2. PICK D : D = DOMAIN plans \ {except}
  OBVIOUS
<1>3. IsFiniteSet(D)
  <2>1. IsFiniteSet(DOMAIN plans) /\ D \in SUBSET (DOMAIN plans)
    BY <1>1, <1>2, FS_Interval
  <2> QED
    BY <2>1, FS_Subset
<1>4. PICK f : f = [p \in D |-> PlanClaims(p)]
  OBVIOUS
<1>5. PICK T : T = {PlanClaims(p) : p \in D}
  OBVIOUS
<1>6. f \in Surjection(D, T)
  BY <1>4, <1>5 DEF Surjection
<1>7. IsFiniteSet(T)
  BY <1>3, <1>6, FS_Surjection
<1>8. \A S \in T : IsFiniteSet(S)
  BY <1>2, <1>5, ClaimsAre
<1>9. Retained(except) = UNION T
  BY <1>2, <1>5 DEF Retained
<1>10. IsFiniteSet(UNION T)
  BY <1>7, <1>8, FS_UNION
<1>11. ASSUME NEW c \in Retained(except)
       PROVE  c.qty \in Nat /\ c.hold \in Nat /\ IsFiniteSet(c.orders)
  <2>1. PICK p \in DOMAIN plans : c \in PlanClaims(p)
    BY <1>2, <1>11 DEF Retained
  <2>2. LatestConf(p) # 0 /\ ClaimsOK(PlanClaims(p), confs[LatestConf(p)].res)
    BY <2>1, ClaimsAre
  <2> QED
    BY <2>1, <2>2 DEF ClaimsOK
<1> QED
  BY <1>9, <1>10, <1>11

\* A confirmation replaces the claims of its own plan.
LEMMA AfterConfirm ==
    ASSUME CInv, NEW y, confs' = Append(confs, y), UNCHANGED execs, NEW p
    PROVE  PlanClaims(p)' = IF y.plan = p THEN y.res ELSE PlanClaims(p)
<1>1. /\ IsSeq(confs') /\ Len(confs) \in Nat /\ Len(confs') = Len(confs) + 1
      /\ DOMAIN confs = 1 .. Len(confs) /\ DOMAIN confs' = 1 .. Len(confs')
      /\ \A i \in DOMAIN confs : confs'[i] = confs[i]
      /\ confs'[Len(confs')] = y
  <2>1. IsSeq(confs)
    BY DEF CInv, ConfsOK
  <2>2. Grows(confs, y, confs')
    BY <2>1, Appended, Zenon
  <2> QED
    BY <2>2 DEF Grows
<1>2. PICK n : n = Len(confs) + 1
  OBVIOUS
<1>3. n \in Nat /\ n # 0 /\ n \notin DOMAIN confs /\ DOMAIN confs' = 1 .. n
      /\ DOMAIN confs' = DOMAIN confs \cup {n} /\ confs'[n] = y
  BY <1>1, <1>2
<1>4. PICK S : S = {c \in DOMAIN confs : confs[c].plan = p}
  OBVIOUS
<1>5. PICK T : T = {c \in DOMAIN confs' : confs'[c].plan = p}
  OBVIOUS
<1>6. T = S \cup (IF y.plan = p THEN {n} ELSE {})
  BY <1>1, <1>3, <1>4, <1>5
<1>7. LatestConf(p) = LastOf(S) /\ LatestConf(p)' = LastOf(T)
  BY <1>4, <1>5 DEF LatestConf
<1>8. \A c : NamedExec(c)' = IF c = n THEN 0 ELSE NamedExec(c)
  <2> SUFFICES ASSUME NEW c PROVE NamedExec(c)' = IF c = n THEN 0 ELSE NamedExec(c)
    OBVIOUS
  <2>1. NamedExec(c)' = NamedExec(c)
    BY DEF NamedExec
  <2>2. c = n => NamedExec(c) = 0
    <3>1. SUFFICES ASSUME c = n, NamedExec(c) # 0 PROVE FALSE
      OBVIOUS
    <3>2. NamedExec(c) \in DOMAIN execs /\ execs[NamedExec(c)].conf = n
      BY <3>1, LatestAre
    <3>3. execs[NamedExec(c)].conf \in DOMAIN confs
      BY <3>2 DEF CInv, ExecsOK, ExecOK
    <3> QED
      BY <1>3, <3>2, <3>3
  <2> QED
    BY <2>1, <2>2
<1>9. CASE y.plan = p
  <2>1. n \in T /\ T \subseteq 1 .. n /\ \A c \in T : c <= n
    BY <1>3, <1>5, <1>6, <1>9
  <2>2. LastOf(T) = n
    BY <1>3, <2>1, LastIs
  <2>3. LatestConf(p)' = n /\ NamedExec(n)' = 0
    BY <1>7, <1>8, <2>2
  <2>4. PlanClaims(p)' = confs'[n].res
    BY <1>3, <2>3 DEF PlanClaims
  <2> QED
    BY <1>3, <1>9, <2>4
<1>10. CASE y.plan # p
  <2>1. LatestConf(p)' = LatestConf(p)
    BY <1>6, <1>7, <1>10
  <2>2. CASE LatestConf(p) = 0
    BY <1>10, <2>1, <2>2 DEF PlanClaims
  <2>3. CASE LatestConf(p) # 0
    <3>1. PICK c : c = LatestConf(p)
      OBVIOUS
    <3>2. c \in DOMAIN confs
      BY <2>3, <3>1, LatestAre
    <3>3. c # n /\ confs'[c].res = confs[c].res /\ c # 0
      BY <1>1, <1>3, <3>2
    <3>4. NamedExec(c)' = NamedExec(c)
      BY <1>8, <3>3
    <3>5. PlanClaims(p) = IF NamedExec(c) = 0 THEN confs[c].res ELSE execs[NamedExec(c)].claims
      BY <3>1, <3>3 DEF PlanClaims
    <3>6. PlanClaims(p)' = IF NamedExec(c)' = 0 THEN confs'[c].res ELSE execs'[NamedExec(c)'].claims
      BY <2>1, <3>1, <3>3 DEF PlanClaims
    <3> QED
      BY <1>10, <3>3, <3>4, <3>5, <3>6
  <2> QED
    BY <2>2, <2>3
<1> QED
  BY <1>9, <1>10

\* An execution of the latest confirmation that names its plan replaces the
\* claims of that plan; any other one replaces nothing.
LEMMA AfterExecution ==
    ASSUME CInv, NEW x, execs' = Append(execs, x), UNCHANGED confs,
           x.conf \in DOMAIN confs, x.named \in BOOLEAN, NEW p
    PROVE  PlanClaims(p)' = IF x.named /\ x.conf = LatestConf(p)
                            THEN x.claims ELSE PlanClaims(p)
<1>1. /\ IsSeq(execs') /\ Len(execs) \in Nat /\ Len(execs') = Len(execs) + 1
      /\ DOMAIN execs = 1 .. Len(execs) /\ DOMAIN execs' = 1 .. Len(execs')
      /\ \A i \in DOMAIN execs : execs'[i] = execs[i]
      /\ execs'[Len(execs')] = x
  <2>1. IsSeq(execs)
    BY DEF CInv, ExecsOK
  <2>2. Grows(execs, x, execs')
    BY <2>1, Appended, Zenon
  <2> QED
    BY <2>2 DEF Grows
<1>2. PICK n : n = Len(execs) + 1
  OBVIOUS
<1>3. n \in Nat /\ n # 0 /\ n \notin DOMAIN execs /\ DOMAIN execs' = 1 .. n
      /\ DOMAIN execs' = DOMAIN execs \cup {n} /\ execs'[n] = x
  BY <1>1, <1>2
<1>4. PICK c : c = LatestConf(p)
  OBVIOUS
<1>5. LatestConf(p)' = c
  BY <1>4 DEF LatestConf
<1>6. PICK S : S = {e \in DOMAIN execs : execs[e].conf = c /\ execs[e].named}
  OBVIOUS
<1>7. PICK T : T = {e \in DOMAIN execs' : execs'[e].conf = c /\ execs'[e].named}
  OBVIOUS
<1>8. T = S \cup (IF x.conf = c /\ x.named THEN {n} ELSE {})
  BY <1>1, <1>3, <1>6, <1>7
<1>9. NamedExec(c) = LastOf(S) /\ NamedExec(c)' = LastOf(T)
  BY <1>6, <1>7 DEF NamedExec
<1>10. PlanClaims(p) = IF c = 0 THEN {}
                       ELSE IF NamedExec(c) = 0 THEN confs[c].res ELSE execs[NamedExec(c)].claims
  BY <1>4 DEF PlanClaims
<1>11. PlanClaims(p)' = IF c = 0 THEN {}
                        ELSE IF NamedExec(c)' = 0 THEN confs[c].res
                        ELSE execs'[NamedExec(c)'].claims
  BY <1>5 DEF PlanClaims
<1>12. CASE x.named /\ x.conf = c
  <2>1. n \in T /\ T \subseteq 1 .. n /\ \A e \in T : e <= n
    BY <1>3, <1>7, <1>8, <1>12
  <2>2. LastOf(T) = n
    BY <1>3, <2>1, LastIs
  <2>3. NamedExec(c)' = n /\ n # 0
    BY <1>3, <1>9, <2>2
  <2>4. c # 0
    <3>1. DOMAIN confs = 1 .. Len(confs)
      BY Indices DEF CInv, ConfsOK
    <3> QED
      BY <1>12, <3>1
  <2> QED
    BY <1>3, <1>4, <1>11, <1>12, <2>3, <2>4
<1>13. CASE ~(x.named /\ x.conf = c)
  <2>1. NamedExec(c)' = NamedExec(c)
    BY <1>8, <1>9, <1>13
  <2>2. NamedExec(c) # 0 => execs'[NamedExec(c)] = execs[NamedExec(c)]
    BY <1>1, LatestAre
  <2> QED
    BY <1>4, <1>10, <1>11, <1>13, <2>1, <2>2
<1> QED
  BY <1>12, <1>13

\* What the event before an execution said, and what repeating it says.
LEMMA BaseIs ==
    ASSUME CInv, NEW c \in DOMAIN confs
    PROVE  /\ ExecOK(Base(c)) /\ Base(c).conf = c
           /\ Base(c).named => \A p : c = LatestConf(p) => Base(c).claims = PlanClaims(p)
<1>0. c # 0 /\ c \in Nat
  <2>1. DOMAIN confs = 1 .. Len(confs)
    BY Indices DEF CInv, ConfsOK
  <2> QED
    BY <2>1
<1>1. CASE LatestExec(c) # 0
  <2>1. PICK e : e = LatestExec(c)
    OBVIOUS
  <2>2. e \in DOMAIN execs /\ execs[e].conf = c
        /\ \A d \in DOMAIN execs : execs[d].conf = c => d <= e
    BY <1>1, <2>1, LatestAre
  <2>3. Base(c) = execs[e]
    BY <1>1, <2>1 DEF Base
  <2>4. ExecOK(execs[e])
    BY <2>2 DEF CInv, ExecsOK
  <2>5. ASSUME execs[e].named, NEW p, c = LatestConf(p)
        PROVE  execs[e].claims = PlanClaims(p)
    <3>1. PICK k : k = NamedExec(c)
      OBVIOUS
    <3>2. k # 0 /\ e <= k
      BY <2>2, <2>5, <3>1, LatestAre
    <3>3. k \in DOMAIN execs /\ execs[k].conf = c
      BY <3>1, <3>2, LatestAre
    <3>4. k <= e
      BY <2>2, <3>3
    <3>5. DOMAIN execs = 1 .. Len(execs) /\ Len(execs) \in Nat
      BY Indices DEF CInv, ExecsOK
    <3>6. k = e
      BY <2>2, <3>2, <3>3, <3>4, <3>5
    <3> QED
      BY <1>0, <2>5, <3>1, <3>2, <3>6 DEF PlanClaims
  <2> QED
    BY <2>2, <2>3, <2>4, <2>5
<1>2. CASE LatestExec(c) = 0
  <2>1. PICK x : x = Base(c)
    OBVIOUS
  <2>2. x = [conf |-> c, eid |-> 0, named |-> TRUE, disp |-> "BLOCKED",
             claims |-> confs[c].res, attr |-> <<>>, unfinished |-> {}, unres |-> {},
             wd |-> {}, ver |-> 0]
    BY <1>2, <2>1 DEF Base, Unsourced
  <2>3. ClaimsOK(confs[c].res, confs[c].res)
    <3>1. LegsOK(confs[c].res, confs[c].plan, c) /\ confs[c].plan \in DOMAIN plans /\ PlansOK
      BY DEF CInv, ConfsOK
    <3> QED
      BY <1>0, <3>1, LegsAre
  <2>4. x.conf = c /\ x.named = TRUE /\ x.claims = confs[c].res
    BY <2>2
  <2>5. ExecFields(x)
    BY <2>2 DEF ExecFields
  <2>6. ExecOK(x)
    BY <2>3, <2>4, <2>5 DEF ExecOK
  <2>7. ASSUME NEW p, c = LatestConf(p) PROVE x.claims = PlanClaims(p)
    <3>1. NamedExec(c) = 0
      BY <1>2, LatestAre
    <3> QED
      BY <1>0, <2>4, <2>7, <3>1 DEF PlanClaims
  <2> QED
    BY <2>1, <2>4, <2>6, <2>7
<1> QED
  BY <1>1, <1>2

LEMMA CopyIs ==
    ASSUME CInv, NEW c \in DOMAIN confs, NEW disp, NEW more
    PROVE  /\ ExecOK(Copy(c, disp, more))
           /\ Copy(c, disp, more).conf = c /\ Copy(c, disp, more).disp = disp
           /\ Copy(c, disp, more).named =>
                  \A p : c = LatestConf(p) => Copy(c, disp, more).claims = PlanClaims(p)
<1>1. PICK b : b = Base(c)
  OBVIOUS
<1>2. ExecOK(b) /\ b.conf = c
      /\ (b.named => \A p : c = LatestConf(p) => b.claims = PlanClaims(p))
  BY <1>1, BaseIs
<1>3. b = [conf |-> b.conf, eid |-> b.eid, named |-> b.named, disp |-> b.disp,
           claims |-> b.claims, attr |-> b.attr, unfinished |-> b.unfinished,
           unres |-> b.unres, wd |-> b.wd, ver |-> b.ver]
  BY <1>2 DEF ExecOK, ExecFields
<1>4. PICK x : x = Copy(c, disp, more)
  OBVIOUS
<1>5. x = [b EXCEPT !.eid = Len(execs) + 1, !.disp = disp, !.unres = b.unres \cup more]
  BY <1>1, <1>4 DEF Copy
<1>6. x = [conf |-> b.conf, eid |-> Len(execs) + 1, named |-> b.named, disp |-> disp,
           claims |-> b.claims, attr |-> b.attr, unfinished |-> b.unfinished,
           unres |-> b.unres \cup more, wd |-> b.wd, ver |-> b.ver]
  BY <1>3, <1>5
<1>7. ExecFields(x)
  BY <1>6 DEF ExecFields
<1>8. x.conf = b.conf /\ x.named = b.named /\ x.disp = disp /\ x.claims = b.claims
  BY <1>6
<1>9. ExecOK(x)
  BY <1>2, <1>7, <1>8 DEF ExecOK
<1> QED
  BY <1>2, <1>4, <1>8, <1>9

-----------------------------------------------------------------------------
(* Steps.                                                                  *)

\* A behaviour stays within one of the cases.
LEMMA WithinIs ==
    ASSUME CInv
    PROVE  /\ within.rels \subseteq Releases /\ within.sizes \subseteq Nat \ {0}
           /\ within.cash \in Nat
<1>1. within \in [rels : SUBSET Releases, cash : Nat, outcomes : SUBSET BOOLEAN,
            sizes : SUBSET (Nat \ {0}), ops : SUBSET Requests, happens : SUBSET Happenings,
            plans : Nat, confs : Nat, execs : Nat, orders : Nat, snaps : Nat, unsure : Nat]
  BY CommitmentConstants DEF CInv
<1> QED
  BY <1>1

\* What a user can freeze is about what exists.
LEMMA NewCommands ==
    ASSUME CInv
    PROVE  /\ \A p \in DOMAIN plans : \A cmd \in ConfirmCommands(p) :
                  cmd.kind = "confirm" /\ CommandOK(cmd)
           /\ \A c \in DOMAIN confs : \A cmd \in DeclareCommands(c) :
                  cmd.kind # "confirm" /\ CommandOK(cmd)
           /\ \A c \in DOMAIN confs : \A listed : \A cmd \in ReconcileCommands(c, listed) :
                  cmd.kind # "confirm" /\ CommandOK(cmd)
<1>1. ASSUME NEW p \in DOMAIN plans, NEW cmd \in ConfirmCommands(p)
      PROVE  cmd.kind = "confirm" /\ CommandOK(cmd)
  <2>1. cmd.kind = "confirm" /\ cmd.plan = p /\ cmd.accept \subseteq Positive(p)
    BY DEF ConfirmCommands
  <2> QED
    BY <2>1 DEF CommandOK
<1>2. ASSUME NEW c \in DOMAIN confs, NEW cmd \in DeclareCommands(c)
      PROVE  cmd.kind # "confirm" /\ CommandOK(cmd)
  <2>1. cmd.kind = "declare" /\ cmd.conf = c
    BY DEF DeclareCommands
  <2> QED
    BY <2>1 DEF CommandOK
<1>3. ASSUME NEW c \in DOMAIN confs, NEW listed, NEW cmd \in ReconcileCommands(c, listed)
      PROVE  cmd.kind # "confirm" /\ CommandOK(cmd)
  <2>1. cmd.kind = "reconcile" /\ cmd.conf = c
    BY DEF ReconcileCommands
  <2> QED
    BY <2>1 DEF CommandOK
<1> QED
  BY <1>1, <1>2, <1>3

\* Every step decides a confirmation, an execution or a plan, is the broker's,
\* or changes nothing but what is remembered of requests and the clock.
LEMMA Steps ==
    ASSUME CInv, Next
    PROVE  IsConfirmation \/ IsExecution \/ IsPlanning \/ IsBroker \/ IsRequest
<1>0. \A cmd \in unsure : CommandOK(cmd)
  BY DEF CInv
<1>1. ASSUME NEW r \in within.rels, NEW v, NEW met, Allocate(r, v, met) PROVE IsPlanning
  BY <1>1, WithinIs DEF IsPlanning
<1>2. ASSUME NEW p \in DOMAIN plans, NEW v, Replan(p, v) PROVE IsPlanning
  BY <1>2 DEF IsPlanning
<1>3. ASSUME NEW p, CorrectPlan(p) PROVE IsRequest
  BY <1>0, <1>3 DEF CorrectPlan, brokerVars, clockVars, IsRequest
<1>4. ASSUME NEW cmd, NEW others, others = unsure \/ others = unsure \ {cmd},
             FindChanged(cmd, others)
      PROVE  IsRequest
  BY <1>0, <1>4 DEF FindChanged, brokerVars, clockVars, IsRequest
<1>5. ASSUME NEW cmd, CommandOK(cmd), LoseCommit(cmd) PROVE IsRequest
  BY <1>0, <1>5 DEF LoseCommit, planVars, brokerVars, clockVars, IsRequest
<1>6. ASSUME NEW cmd, SettleCommit(cmd) PROVE IsRequest
  BY <1>0, <1>6 DEF SettleCommit, planVars, brokerVars, clockVars, IsRequest
<1>7. ASSUME TimePasses PROVE IsRequest
  <2>1. fresh' => fresh
    BY <1>7 DEF TimePasses, ClockMoves
  <2>2. UNCHANGED <<plans, confs, execs, orders, snaps, unsure>>
    BY <1>7 DEF TimePasses, planVars, brokerVars
  <2> QED
    BY <1>0, <2>1, <2>2 DEF IsRequest
<1>8. ASSUME NEW cmd, NEW others, others = unsure \/ others = unsure \ {cmd},
              cmd.kind = "confirm", CommandOK(cmd), Confirm(cmd, others)
       PROVE  IsConfirmation
  BY <1>8, Zenon DEF IsConfirmation
<1>9. ASSUME NEW cmd, NEW others, others = unsure \/ others = unsure \ {cmd},
              cmd.kind # "confirm", CommandOK(cmd), DecideExecution(cmd, others)
       PROVE  IsExecution
  BY <1>9, Zenon DEF IsExecution
<1>10. CASE \E r \in within.rels, v \in DOMAIN snaps, met \in within.outcomes : Allocate(r, v, met)
  BY <1>10, <1>1, Zenon
<1>11. CASE \E p \in DOMAIN plans, v \in DOMAIN snaps : Replan(p, v)
  BY <1>11, <1>2, Zenon
<1>12. CASE \E p \in DOMAIN plans : CorrectPlan(p)
  BY <1>12, <1>3, Zenon
<1>13. CASE \E p \in DOMAIN plans : \E cmd \in ConfirmCommands(p) :
              Confirm(cmd, unsure) \/ FindChanged(cmd, unsure) \/ LoseCommit(cmd)
  BY <1>13, <1>4, <1>5, <1>8, NewCommands, Zenon
<1>14. CASE \E c \in DOMAIN confs : "DECLARE" \in within.ops /\ \E cmd \in DeclareCommands(c) :
              DecideExecution(cmd, unsure) \/ LoseCommit(cmd)
  BY <1>14, <1>5, <1>9, NewCommands, Zenon
<1>15. CASE \E c \in DOMAIN confs, listed \in SUBSET DOMAIN orders :
              "RECONCILE" \in within.ops /\ \E cmd \in ReconcileCommands(c, listed) :
                  DecideExecution(cmd, unsure) \/ LoseCommit(cmd)
  BY <1>15, <1>5, <1>9, NewCommands, Zenon
<1>16. CASE \E cmd \in unsure :
              \/ cmd.kind = "confirm" /\ Confirm(cmd, unsure \ {cmd})
              \/ cmd.kind = "confirm" /\ FindChanged(cmd, unsure \ {cmd})
              \/ cmd.kind # "confirm" /\ DecideExecution(cmd, unsure \ {cmd})
              \/ SettleCommit(cmd)
  BY <1>0, <1>16, <1>4, <1>6, <1>8, <1>9, Zenon
<1>17. CASE TimePasses
  BY <1>17, <1>7
<1> QED
  BY <1>10, <1>11, <1>12, <1>13, <1>14, <1>15, <1>16, <1>17, Zenon DEF Next, IsBroker

-----------------------------------------------------------------------------
(* Orders, and what is left of a reservation.                              *)

LEMMA SmallerOf ==
    ASSUME NEW a \in Int, NEW b \in Int
    PROVE  /\ Min({a, b}) = a \/ Min({a, b}) = b
           /\ Min({a, b}) <= a /\ Min({a, b}) <= b
<1>1. \E x \in {a, b} : \A y \in {a, b} : x <= y
  BY SMT
<1>2. PICK z : z = Min({a, b})
  OBVIOUS
<1>3. z \in {a, b} /\ \A y \in {a, b} : z <= y
  BY <1>1, <1>2, Zenon DEF Min
<1> QED
  BY <1>2, <1>3

LEMMA LargerOf ==
    ASSUME NEW a \in Int, NEW b \in Int
    PROVE  /\ Max({a, b}) = a \/ Max({a, b}) = b
           /\ Max({a, b}) >= a /\ Max({a, b}) >= b
<1>1. \E x \in {a, b} : \A y \in {a, b} : x >= y
  BY SMT
<1>2. PICK z : z = Max({a, b})
  OBVIOUS
<1>3. z \in {a, b} /\ \A y \in {a, b} : z >= y
  BY <1>1, <1>2, Zenon DEF Max
<1> QED
  BY <1>2, <1>3

\* The broker's orders; what an unfinished one has left is positive.
LEMMA BookIs ==
    ASSUME NEW os, BookOK(os)
    PROVE  /\ DOMAIN os = 1 .. Len(os) /\ Len(os) \in Nat /\ IsFiniteSet(DOMAIN os)
           /\ \A o \in DOMAIN os :
                 /\ os[o].sec \in Securities /\ os[o].filled \in Nat
                 /\ os[o].qty \in Nat /\ os[o].live \in BOOLEAN
                 /\ Left(os, o) \in Nat
           /\ \A o \in Unfinished(os) : o \in DOMAIN os /\ Left(os, o) > 0
<1>1. os \in Seq(OrderRecords)
  BY DEF BookOK
<1>2. DOMAIN os = 1 .. Len(os) /\ Len(os) \in Nat
  BY <1>1
<1>3. IsFiniteSet(DOMAIN os)
  BY <1>2, FS_Interval
<1>4. ASSUME NEW o \in DOMAIN os
      PROVE  /\ os[o].sec \in Securities /\ os[o].filled \in Nat
             /\ os[o].qty \in Nat /\ os[o].live \in BOOLEAN
             /\ Left(os, o) \in Nat
             /\ o \in Unfinished(os) => Left(os, o) > 0
  <2>1. os[o] \in OrderRecords
    BY <1>1
  <2>2. os[o].sec \in Securities /\ os[o].filled \in Nat /\ os[o].qty \in Nat
        /\ os[o].live \in BOOLEAN
    BY <2>1 DEF OrderRecords
  <2>3. CASE os[o].live
    <3>1. o \in Unfinished(os)
      BY <2>3 DEF Unfinished
    <3>2. os[o].filled < os[o].qty
      BY <3>1 DEF BookOK
    <3>3. Left(os, o) = os[o].qty - os[o].filled
      BY <2>3 DEF Left
    <3> QED
      BY <2>2, <3>2, <3>3
  <2>4. CASE ~os[o].live
    BY <2>2, <2>4 DEF Left, Unfinished
  <2> QED
    BY <2>2, <2>3, <2>4
<1>5. Unfinished(os) \subseteq DOMAIN os
  BY DEF Unfinished
<1> QED
  BY <1>2, <1>3, <1>4, <1>5

\* A sum of naturals.
LEMMA SumNat ==
    ASSUME NEW f, IsFiniteSet(DOMAIN f), \A x \in DOMAIN f : f[x] \in Nat
    PROVE  /\ SumFunction(f) \in Nat
           /\ \A x \in DOMAIN f : f[x] <= SumFunction(f)
<1>1. PICK D : D = DOMAIN f
  OBVIOUS
<1>2. SumFunction(f) = SumTo(f, D)
  BY <1>1, SumIsSumTo
<1>3. SumTo(f, D) \in Nat
  BY <1>1, SumType
<1>4. \A x \in D : f[x] <= SumTo(f, D)
  BY <1>1, SumHolds
<1> QED
  BY <1>1, <1>2, <1>3, <1>4

\* What a reconciliation leaves of a leg is a claim of the same leg. Nothing
\* is left only of one no order is working on, and that was bought in full, or
\* that no doubtful order may belong to and that was withdrawn, had expired,
\* was corrected away or was ordered and never filled.
LEMMA RemainderIs ==
    ASSUME CInv, NEW cmd, cmd.conf \in DOMAIN confs, NEW os, BookOK(os),
           os = snaps[cmd.ver].orders, Listed(cmd) \subseteq DOMAIN os,
           NEW r \in confs[cmd.conf].res,
           NEW related, related = {o \in Listed(cmd) : Classify(cmd, o) = r.id}
    PROVE  Remains(cmd, r, os, related)
<1>1. r.qty \in Nat /\ r.qty > 0
  <2>1. /\ LegsOK(confs[cmd.conf].res, confs[cmd.conf].plan, cmd.conf)
        /\ confs[cmd.conf].plan \in DOMAIN plans /\ PlansOK
    BY DEF CInv, ConfsOK
  <2>2. cmd.conf \in Nat
    <3>1. DOMAIN confs = 1 .. Len(confs)
      BY Indices DEF CInv, ConfsOK
    <3> QED
      BY <3>1
  <2> QED
    BY <2>1, <2>2, LegsAre
<1>2. /\ IsFiniteSet(DOMAIN os)
      /\ \A o \in DOMAIN os : os[o].filled \in Nat /\ Left(os, o) \in Nat
      /\ \A o \in Unfinished(os) : o \in DOMAIN os /\ Left(os, o) > 0
  BY BookIs
<1>3. PICK linked : linked = related \cap Unfinished(os)
  OBVIOUS
<1>4. related \in SUBSET DOMAIN os /\ linked \in SUBSET DOMAIN os
  BY <1>2, <1>3
<1>5. IsFiniteSet(related) /\ IsFiniteSet(linked)
  BY <1>2, <1>4, FS_Subset
<1>6. PICK fills : fills = [o \in related |-> os[o].filled]
  OBVIOUS
<1>7. DOMAIN fills = related /\ \A o \in related : fills[o] = os[o].filled /\ fills[o] \in Nat
  BY <1>2, <1>4, <1>6
<1>8. PICK total : total = SumFunction(fills)
  OBVIOUS
<1>9. total \in Nat /\ \A o \in related : os[o].filled <= total
  BY <1>5, <1>7, <1>8, SumNat
<1>10. PICK lefts : lefts = [o \in linked |-> Left(os, o)]
  OBVIOUS
<1>11. DOMAIN lefts = linked /\ \A o \in linked : lefts[o] = Left(os, o) /\ lefts[o] \in Nat
  BY <1>2, <1>4, <1>10
<1>12. PICK working : working = SumFunction(lefts)
  OBVIOUS
<1>13. working \in Nat /\ \A o \in linked : Left(os, o) <= working
  BY <1>5, <1>11, <1>12, SumNat
<1>14. PICK filled : filled = Min({r.qty, total})
  OBVIOUS
<1>15. (filled = r.qty \/ filled = total) /\ filled <= r.qty /\ filled <= total
  <2>1. r.qty \in Int /\ total \in Int
    BY <1>1, <1>9
  <2> QED
    BY <1>14, <2>1, SmallerOf, Zenon
<1>16. PICK left : left = r.qty - filled
  OBVIOUS
<1>17. filled \in Nat /\ left \in Nat /\ left = r.qty - filled
  BY <1>1, <1>9, <1>15, <1>16
<1>18. PICK mayRelease : mayRelease =
          (/\ ~ \E o \in Listed(cmd) : os[o].sec = r.sec /\ Classify(cmd, o) = Unknown
           /\ linked = {}
           /\ \/ left = 0
              \/ r.id \in Withdrawn(cmd)
              \/ plans[confs[cmd.conf].plan].rel \notin snaps[cmd.ver].open
              \/ confs[cmd.conf].plan \in corrected
              \/ related # {} /\ filled = 0)
  OBVIOUS
<1>19. PICK kept : kept = IF mayRelease THEN 0 ELSE left
  OBVIOUS
<1>20. kept \in Nat
  BY <1>17, <1>19
<1>21. PICK qty : qty = Max({kept, working})
  OBVIOUS
<1>22. qty \in Nat /\ qty >= kept /\ qty >= working
  <2>1. kept \in Int /\ working \in Int
    BY <1>13, <1>20
  <2>2. (qty = kept \/ qty = working) /\ qty >= kept /\ qty >= working
    BY <1>21, <2>1, LargerOf, Zenon
  <2> QED
    BY <1>13, <1>20, <2>2
<1>23. PICK hold : hold = IF cmd.funds THEN 0 ELSE filled * (PriceCap - FillPrice)
  OBVIOUS
<1>24. hold \in Nat
  <2>1. PICK d : d = PriceCap - FillPrice
    OBVIOUS
  <2>2. d \in Nat
    BY <2>1, CommitmentConstants
  <2>3. filled * d \in Nat
    BY <1>17, <2>2
  <2> QED
    BY <1>23, <2>1, <2>3
<1>25. Remainder(cmd, r) = Commitment(r.id, r.sec, qty, hold, linked)
  BY <1>3, <1>6, <1>8, <1>10, <1>12, <1>14, <1>16, <1>18, <1>19, <1>21, <1>23, Zenon
     DEF Remainder
<1>26. Remainder(cmd, r) = [id |-> r.id, sec |-> r.sec, qty |-> qty, hold |-> hold, orders |-> linked]
  BY <1>25 DEF Commitment
<1>27. ASSUME qty = 0
       PROVE  /\ linked = {}
              /\ \/ total >= r.qty
                 \/ /\ \A o \in Listed(cmd) :
                          os[o].sec = r.sec => Classify(cmd, o) # Unknown
                    /\ \/ r.id \in Withdrawn(cmd)
                       \/ plans[confs[cmd.conf].plan].rel \notin snaps[cmd.ver].open
                       \/ confs[cmd.conf].plan \in corrected
                       \/ related # {} /\ \A o \in related : os[o].filled = 0
  <2>1. working = 0 /\ kept = 0
    BY <1>13, <1>20, <1>22, <1>27
  <2>2. linked = {}
    <3>1. SUFFICES ASSUME NEW o \in linked PROVE FALSE
      OBVIOUS
    <3>2. Left(os, o) > 0 /\ Left(os, o) \in Nat /\ Left(os, o) <= working
      BY <1>2, <1>3, <1>13, <3>1
    <3> QED
      BY <2>1, <3>2
  <2>3. CASE left = 0
    <3>1. total >= r.qty
      BY <1>1, <1>9, <1>15, <1>17, <2>3
    <3> QED
      BY <2>2, <3>1
  <2>4. CASE left # 0
    <3>1. mayRelease
      BY <1>19, <2>1, <2>4
    <3>2. /\ ~ \E o \in Listed(cmd) : os[o].sec = r.sec /\ Classify(cmd, o) = Unknown
          /\ \/ r.id \in Withdrawn(cmd)
             \/ plans[confs[cmd.conf].plan].rel \notin snaps[cmd.ver].open
             \/ confs[cmd.conf].plan \in corrected
             \/ related # {} /\ filled = 0
      BY <1>18, <2>4, <3>1
    <3>3. filled = 0 => \A o \in related : os[o].filled = 0
      <4>1. SUFFICES ASSUME filled = 0, NEW o \in related PROVE os[o].filled = 0
        OBVIOUS
      <4>2. total = 0
        BY <1>1, <1>15, <4>1
      <4>3. os[o].filled <= total /\ os[o].filled \in Nat
        BY <1>2, <1>4, <1>9
      <4> QED
        BY <4>2, <4>3
    <3> QED
      BY <2>2, <3>2, <3>3
  <2> QED
    BY <2>3, <2>4
<1>28. Remainder(cmd, r).qty = qty /\ Remainder(cmd, r).hold = hold
       /\ Remainder(cmd, r).orders = linked
       /\ Remainder(cmd, r).id = r.id /\ Remainder(cmd, r).sec = r.sec
  BY <1>26
<1> QED
  BY <1>3, <1>5, <1>6, <1>8, <1>22, <1>24, <1>27, <1>28 DEF Remains

\* The claims a reconciliation leaves are of its confirmation's legs.
LEMMA ReconciledIs ==
    ASSUME CInv, NEW cmd, cmd.conf \in DOMAIN confs, FactsComplete(cmd)
    PROVE  /\ ExecOK(Reconciled(cmd))
           /\ cmd.ver = Newest /\ Newest \in DOMAIN snaps
           /\ Listed(cmd) \subseteq DOMAIN snaps[cmd.ver].orders
           /\ BookOK(snaps[cmd.ver].orders)
<1>1. cmd.ver = Newest /\ Newest \in DOMAIN snaps /\ BookOK(snaps[cmd.ver].orders)
  <2>1. DOMAIN snaps = 1 .. Newest /\ Newest \in Nat /\ Newest > 0
    BY Indices DEF CInv, BrokerOK, Newest
  <2>2. cmd.ver = Newest
    BY DEF FactsComplete
  <2>3. Newest \in DOMAIN snaps
    BY <2>1
  <2> QED
    BY <2>2, <2>3 DEF CInv, BrokerOK
<1>2. Listed(cmd) \subseteq DOMAIN snaps[cmd.ver].orders
  BY DEF FactsComplete, BrokerFactsMatch
<1>3. PICK res : res = confs[cmd.conf].res
  OBVIOUS
<1>4. IsFiniteSet(res)
  <2>1. /\ LegsOK(res, confs[cmd.conf].plan, cmd.conf)
        /\ confs[cmd.conf].plan \in DOMAIN plans /\ PlansOK
    BY <1>3 DEF CInv, ConfsOK
  <2>2. cmd.conf \in Nat
    <3>1. DOMAIN confs = 1 .. Len(confs)
      BY Indices DEF CInv, ConfsOK
    <3> QED
      BY <3>1
  <2> QED
    BY <2>1, <2>2, LegsAre
<1>5. \A r \in res : /\ Remainder(cmd, r).id = r.id /\ Remainder(cmd, r).sec = r.sec
                     /\ Remainder(cmd, r).qty \in Nat /\ Remainder(cmd, r).hold \in Nat
                     /\ IsFiniteSet(Remainder(cmd, r).orders)
  <2> TAKE r \in res
  <2>1. PICK related : related = {o \in Listed(cmd) : Classify(cmd, o) = r.id}
    OBVIOUS
  <2>2. PICK os : os = snaps[cmd.ver].orders
    OBVIOUS
  <2>3. Remains(cmd, r, os, related)
    BY <1>1, <1>2, <1>3, <2>1, <2>2, RemainderIs
  <2> QED
    BY <2>3 DEF Remains
<1>6. PICK all : all = {Remainder(cmd, r) : r \in res}
  OBVIOUS
<1>7. IsFiniteSet(all)
  <2>1. PICK f : f = [r \in res |-> Remainder(cmd, r)]
    OBVIOUS
  <2>2. f \in Surjection(res, all)
    BY <1>6, <2>1 DEF Surjection
  <2> QED
    BY <1>4, <2>2, FS_Surjection
<1>8. RemainingClaims(cmd) \in SUBSET all
  BY <1>3, <1>6 DEF RemainingClaims
<1>9. IsFiniteSet(RemainingClaims(cmd))
  BY <1>7, <1>8, FS_Subset
<1>10. ClaimsOK(RemainingClaims(cmd), res)
  <2>1. ASSUME NEW c \in RemainingClaims(cmd)
        PROVE  /\ c.qty \in Nat /\ c.hold \in Nat /\ IsFiniteSet(c.orders)
               /\ \E r \in res : r.id = c.id /\ r.sec = c.sec
    <3>1. PICK r \in res : c = Remainder(cmd, r)
      BY <1>6, <1>8
    <3> QED
      BY <1>5, <3>1
  <2> QED
    BY <1>9, <2>1 DEF ClaimsOK
<1>11. PICK x : x = Reconciled(cmd)
  OBVIOUS
<1>12. x.conf = cmd.conf /\ x.named = TRUE /\ x.claims = RemainingClaims(cmd) /\ ExecFields(x)
  BY <1>11 DEF Reconciled, ExecFields
<1>13. ExecOK(x)
  BY <1>3, <1>10, <1>12 DEF ExecOK
<1> QED
  BY <1>1, <1>2, <1>11, <1>13

LEMMA UnsourcedIs ==
    ASSUME NEW c \in DOMAIN confs
    PROVE  /\ ExecOK(Unsourced(c)) /\ Unsourced(c).conf = c
           /\ Unsourced(c).named = FALSE /\ Unsourced(c).disp = "BLOCKED"
<1>1. PICK x : x = Unsourced(c)
  OBVIOUS
<1>2. /\ ExecFields(x) /\ x.conf = c /\ x.named = FALSE /\ x.disp = "BLOCKED"
      /\ x.claims = {}
  BY <1>1 DEF Unsourced, ExecFields
<1>3. ClaimsOK(x.claims, confs[c].res)
  BY <1>2, FS_EmptySet DEF ClaimsOK
<1>4. ExecOK(x)
  BY <1>2, <1>3 DEF ExecOK
<1> QED
  BY <1>1, <1>2, <1>4

\* A decision about an execution appends one event.
LEMMA Executes ==
    ASSUME CInv, NEW cmd, NEW others, cmd.kind # "confirm", CommandOK(cmd),
           DecideExecution(cmd, others)
    PROVE  \E x : /\ execs' = Append(execs, x) /\ ExecOK(x) /\ x.conf = cmd.conf
                  /\ Outcome(cmd, others, x)
                  /\ unsure' = others
                  /\ UNCHANGED <<plans, changed, corrected, confs, orders, snaps,
                                 open, elig, fresh>>
<1>1. cmd.conf \in DOMAIN confs
  BY DEF CommandOK
<1>2. ASSUME NEW x, Record(x, others), ExecOK(x), x.conf = cmd.conf, Outcome(cmd, others, x)
      PROVE  \E y : /\ execs' = Append(execs, y) /\ ExecOK(y) /\ y.conf = cmd.conf
                    /\ Outcome(cmd, others, y)
                    /\ unsure' = others
                    /\ UNCHANGED <<plans, changed, corrected, confs, orders, snaps,
                                   open, elig, fresh>>
  BY <1>2, Zenon DEF Record, planVars, brokerVars, clockVars
<1>3. CASE FailPrerequisite(cmd, others)
  <2>1. Record(Unsourced(cmd.conf), others)
    BY <1>3 DEF FailPrerequisite
  <2> QED
    BY <1>1, <1>2, <2>1, UnsourcedIs, Zenon DEF Outcome
<1>4. ASSUME NEW disp, NEW more, Record(Copy(cmd.conf, disp, more), others),
             disp # "BLOCKED" => Bound(cmd, others)
      PROVE  \E x : /\ execs' = Append(execs, x) /\ ExecOK(x) /\ x.conf = cmd.conf
                    /\ Outcome(cmd, others, x)
                    /\ unsure' = others
                    /\ UNCHANGED <<plans, changed, corrected, confs, orders, snaps,
                                   open, elig, fresh>>
  BY <1>1, <1>2, <1>4, CopyIs, Zenon DEF Outcome
<1>5. CASE Bound(cmd, others) /\ Declare(cmd, others)
  BY <1>4, <1>5, Zenon DEF Declare
<1>6. CASE Bound(cmd, others) /\ RefuseFacts(cmd, others)
  BY <1>4, <1>6, Zenon DEF RefuseFacts
<1>7. CASE ~Bound(cmd, others) /\ RefuseUnbound(cmd, others)
  BY <1>4, <1>7, Zenon DEF RefuseUnbound
<1>8. ASSUME Bound(cmd, others), NEW expired, Reconcile(cmd, others, expired)
      PROVE  \E x : /\ execs' = Append(execs, x) /\ ExecOK(x) /\ x.conf = cmd.conf
                    /\ Outcome(cmd, others, x)
                    /\ unsure' = others
                    /\ UNCHANGED <<plans, changed, corrected, confs, orders, snaps,
                                   open, elig, fresh>>
  <2>1. FactsComplete(cmd)
    BY <1>8 DEF Reconcile
  <2>2. CASE AttributionKept(cmd) /\ ~expired
    <3>1. Record(Reconciled(cmd), others)
      BY <1>8, <2>2 DEF Reconcile
    <3>2. ExecOK(Reconciled(cmd))
      BY <1>1, <2>1, ReconciledIs
    <3>3. Reconciled(cmd).conf = cmd.conf
      BY DEF Reconciled
    <3>4. Outcome(cmd, others, Reconciled(cmd))
      BY <1>8, <2>1 DEF Outcome
    <3> QED
      BY <1>2, <3>1, <3>2, <3>3, <3>4
  <2>3. CASE ~(AttributionKept(cmd) /\ ~expired)
    <3>1. Record(Copy(cmd.conf, "BLOCKED", {}), others)
      BY <1>8, <2>3 DEF Reconcile
    <3> QED
      BY <1>4, <3>1
  <2> QED
    BY <2>2, <2>3
<1> QED
  BY <1>3, <1>5, <1>6, <1>7, <1>8, Zenon DEF DecideExecution

-----------------------------------------------------------------------------
(* The invariant.                                                          *)

\* A history of plans that grew keeps every command about what exists.
LEMMA CommandsStay ==
    ASSUME CInv, DOMAIN plans \subseteq DOMAIN plans',
           \A p \in DOMAIN plans : plans'[p] = plans[p],
           DOMAIN confs \subseteq DOMAIN confs', NEW cmd, CommandOK(cmd)
    PROVE  CommandOK(cmd)'
<1>1. ASSUME cmd.kind = "confirm"
      PROVE  cmd.plan \in DOMAIN plans' /\ cmd.accept \subseteq Positive(cmd.plan)'
  <2>1. cmd.plan \in DOMAIN plans /\ cmd.accept \subseteq Positive(cmd.plan)
    BY <1>1 DEF CommandOK
  <2>2. plans'[cmd.plan] = plans[cmd.plan]
    BY <2>1
  <2>3. Positive(cmd.plan)' = Positive(cmd.plan)
    BY <2>2 DEF Positive
  <2> QED
    BY <2>1, <2>3
<1>2. ASSUME cmd.kind # "confirm" PROVE cmd.conf \in DOMAIN confs'
  BY <1>2 DEF CommandOK
<1> QED
  BY <1>1, <1>2 DEF CommandOK

\* Plans are appended with a quantity for every candidate.
LEMMA PlannedIs ==
    ASSUME NEW r, NEW ver, NEW rep, NEW eligible, Planned(r, ver, 0, unsure, eligible)
    PROVE  GoodPlan(PlanRecord(r, ver, rep, TRUE), r, rep)
<1>1. PICK b : b = Basis(r, snaps[ver].orders, Retained(0))
  OBVIOUS
<1>2. PICK q : q = Quantities(r, ver, b)
  OBVIOUS
<1>3. PICK y : y = PlanRecord(r, ver, rep, TRUE)
  OBVIOUS
<1>4. y = [rel |-> r, ver |-> ver, rep |-> rep, planned |-> TRUE, basis |-> b, alloc |-> q]
  BY <1>1, <1>2, <1>3 DEF PlanRecord
<1>5. y.rel = r /\ y.rep = rep /\ y.alloc = q
  BY <1>4
<1>6. Verified(q, b)
  BY <1>1, <1>2, Zenon DEF Planned
<1>7. DOMAIN b.own = SecuritiesOf(r)
  BY <1>1 DEF Basis
<1>8. q \in [SecuritiesOf(r) -> Nat]
  BY <1>6, <1>7 DEF Verified
<1>9. /\ UnsureKind({"declare", "reconcile"}, unsure) = {}
      /\ UnsureKind({"confirm"}, unsure) = {}
  BY Zenon DEF Planned, AllocationGates
<1> QED
  BY <1>3, <1>5, <1>8, <1>9 DEF GoodPlan

LEMMA UnplannedIs ==
    ASSUME NEW r, NEW ver, NEW rep
    PROVE  GoodPlan(PlanRecord(r, ver, rep, FALSE), r, rep)
<1>1. PICK y : y = PlanRecord(r, ver, rep, FALSE)
  OBVIOUS
<1>2. y = [rel |-> r, ver |-> ver, rep |-> rep, planned |-> FALSE, basis |-> <<>>,
           alloc |-> NoQuantities(r)]
  BY <1>1 DEF PlanRecord
<1>3. NoQuantities(r) \in [SecuritiesOf(r) -> Nat]
  BY DEF NoQuantities
<1>4. y.rel = r /\ y.rep = rep /\ y.alloc = NoQuantities(r) /\ y.planned = FALSE
  BY <1>2
<1> QED
  BY <1>1, <1>3, <1>4 DEF GoodPlan

LEMMA PlanningIs ==
    ASSUME CInv, IsPlanning
    PROVE  /\ \E y, r, rep : /\ plans' = Append(plans, y)
                             /\ GoodPlan(y, r, rep)
                             /\ rep # 0 => r \in open' \cap elig'
           /\ UNCHANGED <<confs, execs, unsure, orders, snaps>>
           /\ fresh' => fresh
<1>1. ASSUME NEW r, NEW ver, NEW met, Allocate(r, ver, met)
      PROVE  /\ \E y : plans' = Append(plans, y) /\ GoodPlan(y, r, 0)
             /\ UNCHANGED <<confs, execs, unsure, orders, snaps>>
             /\ fresh' => fresh
  <2>1. PICK e : e = (r \in snaps[ver].elig)
    OBVIOUS
  <2>2. plans' = Append(plans, PlanRecord(r, ver, 0, met /\ Planned(r, ver, 0, unsure, e)))
    BY <1>1, <2>1 DEF Allocate
  <2>3. UNCHANGED <<confs, execs, unsure, orders, snaps, fresh>>
    BY <1>1 DEF Allocate, brokerVars, clockVars
  <2>4. CASE met /\ Planned(r, ver, 0, unsure, e)
    <3>1. (met /\ Planned(r, ver, 0, unsure, e)) = TRUE
      BY <2>4
    <3>2. plans' = Append(plans, PlanRecord(r, ver, 0, TRUE))
      BY <2>2, <3>1
    <3>3. GoodPlan(PlanRecord(r, ver, 0, TRUE), r, 0)
      BY <2>4, PlannedIs, Zenon
    <3> QED
      BY <2>3, <3>2, <3>3
  <2>5. CASE ~(met /\ Planned(r, ver, 0, unsure, e))
    <3>1. (met /\ Planned(r, ver, 0, unsure, e)) = FALSE
      BY <2>5
    <3>2. plans' = Append(plans, PlanRecord(r, ver, 0, FALSE))
      BY <2>2, <3>1
    <3>3. GoodPlan(PlanRecord(r, ver, 0, FALSE), r, 0)
      BY UnplannedIs, Zenon
    <3> QED
      BY <2>3, <3>2, <3>3
  <2> QED
    BY <2>4, <2>5
<1>2. ASSUME NEW p \in DOMAIN plans, NEW ver, Replan(p, ver)
      PROVE  /\ \E y, r : /\ plans' = Append(plans, y) /\ GoodPlan(y, r, p)
                          /\ r \in open' \cap elig'
             /\ UNCHANGED <<confs, execs, unsure, orders, snaps>>
             /\ fresh' => fresh
  <2>1. PICK r : r = plans[p].rel
    OBVIOUS
  <2>2. PICK e : e = (r \in elig)
    OBVIOUS
  <2>3. Planned(r, ver, 0, unsure, e)
    BY <1>2, <2>1, <2>2 DEF Replan
  <2>4. plans' = Append(plans, PlanRecord(r, ver, p, TRUE))
    BY <1>2, <2>1 DEF Replan
  <2>5. UNCHANGED <<confs, execs, unsure, orders, snaps>>
    BY <1>2 DEF Replan, brokerVars
  <2>6. \E o2 \in SUBSET open, e2 \in SUBSET elig, f2 \in BOOLEAN :
            ClockMoves(o2, e2, f2) /\ r \in o2 /\ r \in e2
    BY <1>2, <2>1 DEF Replan
  <2>7. r \in open' /\ r \in elig' /\ (fresh' => fresh)
    BY <2>6 DEF ClockMoves
  <2>8. GoodPlan(PlanRecord(r, ver, p, TRUE), r, p)
    BY <2>3, PlannedIs, Zenon
  <2> QED
    BY <2>4, <2>5, <2>7, <2>8
<1>3. (\E r, v, met : r \in Releases /\ Allocate(r, v, met))
      \/ (\E p \in DOMAIN plans : \E v : Replan(p, v))
  BY DEF IsPlanning
<1>4. CASE \E r, v, met : r \in Releases /\ Allocate(r, v, met)
  <2>1. PICK r, v, met : Allocate(r, v, met)
    BY <1>4
  <2> QED
    BY <1>1, <2>1
<1>5. CASE \E p \in DOMAIN plans : \E v : Replan(p, v)
  <2>1. PICK p \in DOMAIN plans : \E v : Replan(p, v)
    BY <1>5
  <2>2. PICK v : Replan(p, v)
    BY <2>1
  <2> QED
    BY <1>2, <2>2
<1> QED
  BY <1>3, <1>4, <1>5

LEMMA PlanningStays ==
    ASSUME CInv, IsPlanning
    PROVE  /\ PlansOK' /\ ConfsOK' /\ ExecsOK' /\ BrokerOK'
           /\ \A cmd \in unsure' : CommandOK(cmd)'
<1>1. PICK y : /\ plans' = Append(plans, y)
               /\ y.alloc \in [SecuritiesOf(y.rel) -> Nat]
  BY PlanningIs DEF GoodPlan
<1>2. UNCHANGED <<confs, execs, unsure, orders, snaps>> /\ (fresh' => fresh)
  BY PlanningIs
<1>3. /\ IsSeq(plans') /\ Len(plans) \in Nat /\ Len(plans') = Len(plans) + 1
      /\ DOMAIN plans = 1 .. Len(plans) /\ DOMAIN plans' = 1 .. Len(plans')
      /\ \A i \in DOMAIN plans : plans'[i] = plans[i]
      /\ plans'[Len(plans')] = y
  <2>1. IsSeq(plans)
    BY DEF CInv, PlansOK
  <2>2. Grows(plans, y, plans')
    BY <1>1, <2>1, Appended, Zenon
  <2> QED
    BY <2>2 DEF Grows
<1>4. \A p \in DOMAIN plans' : p \in DOMAIN plans \/ p = Len(plans')
  BY <1>3
<1>5. DOMAIN plans \subseteq DOMAIN plans'
  BY <1>3
<1>6. PlansOK'
  <2>1. ASSUME NEW p \in DOMAIN plans'
        PROVE  plans'[p].alloc \in [SecuritiesOf(plans'[p].rel) -> Nat]
    <3>1. CASE p \in DOMAIN plans
      <4>1. plans[p].alloc \in [SecuritiesOf(plans[p].rel) -> Nat]
        BY <3>1 DEF CInv, PlansOK
      <4> QED
        BY <1>3, <3>1, <4>1
    <3>2. CASE p = Len(plans')
      BY <1>1, <1>3, <3>2
    <3> QED
      BY <1>4, <3>1, <3>2
  <2> QED
    BY <1>3, <2>1 DEF PlansOK, SecuritiesOf
<1>7. ConfsOK'
  <2>1. ASSUME NEW k \in DOMAIN confs
        PROVE  confs[k].plan \in DOMAIN plans' /\ LegsOK(confs[k].res, confs[k].plan, k)'
    <3>1. confs[k].plan \in DOMAIN plans /\ LegsOK(confs[k].res, confs[k].plan, k)
      BY DEF CInv, ConfsOK
    <3>2. plans'[confs[k].plan] = plans[confs[k].plan]
      BY <1>3, <3>1
    <3>3. PICK p : p = confs[k].plan
      OBVIOUS
    <3>4. Positive(p)' = Positive(p)
      BY <3>2, <3>3 DEF Positive
    <3>5. confs'[k] = confs[k]
      BY <1>2
    <3> QED
      BY <1>5, <3>1, <3>2, <3>3, <3>4, <3>5 DEF LegsOK
  <2>2. IsSeq(confs')
    BY <1>2 DEF CInv, ConfsOK
  <2> QED
    BY <1>2, <2>1, <2>2 DEF ConfsOK
<1>8. ExecsOK'
  BY <1>2 DEF CInv, ExecsOK, ExecOK
<1>9. BrokerOK'
  BY <1>2 DEF CInv, BrokerOK, Newest
<1>10. \A cmd \in unsure' : CommandOK(cmd)'
  <2> SUFFICES ASSUME NEW cmd \in unsure' PROVE CommandOK(cmd)'
    OBVIOUS
  <2>1. CommandOK(cmd)
    BY <1>2 DEF CInv
  <2> QED
    BY <1>2, <1>3, <1>5, <2>1, CommandsStay
<1> QED
  BY <1>6, <1>7, <1>8, <1>9, <1>10

\* What a confirmation writes.
LEMMA ConfirmIs ==
    ASSUME CInv, NEW cmd, NEW others, Confirm(cmd, others)
    PROVE  \E y : /\ confs' = Append(confs, y)
                  /\ y.plan = cmd.plan /\ y.op = cmd.op
                  /\ y.res = Kept(cmd, Len(confs) + 1)
                  /\ Reviewable(cmd, others)
                  /\ cmd.op = "SUBMIT" => Replays(cmd, others)
                  /\ ReleasedBy(cmd) # {} => NoOrderProof(cmd, fresh)
                  /\ cmd.op # "WITHDRAW" => plans[cmd.plan].rel \in open' \cap elig'
                  /\ unsure' = others
                  /\ UNCHANGED <<plans, changed, corrected, execs, orders, snaps>>
                  /\ fresh' => fresh
<1>1. /\ Reviewable(cmd, others)
      /\ cmd.op = "SUBMIT" => Replays(cmd, others)
      /\ unsure' = others
      /\ UNCHANGED <<planVars, execs, brokerVars>>
      /\ \E o2 \in SUBSET open, e2 \in SUBSET elig, f2 \in BOOLEAN, expired \in Expiry :
           /\ ClockMoves(o2, e2, f2)
           /\ StillValid(cmd, o2, e2, f2, expired)
           /\ confs' = Append(confs, [plan |-> cmd.plan, op |-> cmd.op,
                                      from |-> IF f2 THEN Newest ELSE Newest + 1,
                                      res |-> Kept(cmd, Len(confs) + 1)])
  BY Zenon DEF Confirm
<1>2. PICK o2 \in SUBSET open, e2 \in SUBSET elig, f2 \in BOOLEAN, expired \in Expiry :
           /\ ClockMoves(o2, e2, f2)
           /\ StillValid(cmd, o2, e2, f2, expired)
           /\ confs' = Append(confs, [plan |-> cmd.plan, op |-> cmd.op,
                                      from |-> IF f2 THEN Newest ELSE Newest + 1,
                                      res |-> Kept(cmd, Len(confs) + 1)])
  BY <1>1, Zenon
<1>3. open' = o2 /\ elig' = e2 /\ fresh' = f2 /\ (f2 => fresh)
  BY <1>2 DEF ClockMoves
<1>4. /\ ReleasedBy(cmd) # {} => NoOrderProof(cmd, fresh)
      /\ cmd.op # "WITHDRAW" => plans[cmd.plan].rel \in open' \cap elig'
  BY <1>2, <1>3 DEF StillValid, NoOrderProof
<1>5. PICK y : y = [plan |-> cmd.plan, op |-> cmd.op,
                    from |-> IF f2 THEN Newest ELSE Newest + 1,
                    res |-> Kept(cmd, Len(confs) + 1)]
  OBVIOUS
<1>6. y.plan = cmd.plan /\ y.op = cmd.op /\ y.res = Kept(cmd, Len(confs) + 1)
  BY <1>5
<1>7. confs' = Append(confs, y)
  BY <1>2, <1>5
<1>8. UNCHANGED <<plans, changed, corrected, execs, orders, snaps>>
  BY <1>1 DEF planVars, brokerVars
<1>9. fresh' => fresh
  BY <1>3
<1> QED
  BY <1>1, <1>4, <1>6, <1>7, <1>8, <1>9

\* What was reserved before, and the legs accepted now, are legs of the plan.
LEMMA KeptIs ==
    ASSUME CInv, NEW cmd, cmd.kind = "confirm", CommandOK(cmd), NEW n, n = Len(confs) + 1
    PROVE  /\ LegsOK(Kept(cmd, n), cmd.plan, n)
           /\ cmd.plan \in DOMAIN plans
           /\ LegsOK(PriorRes(cmd), cmd.plan, n)
<1>1. cmd.plan \in DOMAIN plans /\ cmd.accept \subseteq Positive(cmd.plan)
  BY DEF CommandOK
<1>2. PICK p : p = cmd.plan
  OBVIOUS
<1>3. PICK prior : prior = PriorRes(cmd)
  OBVIOUS
<1>4. Len(confs) \in Nat /\ DOMAIN confs = 1 .. Len(confs)
  BY Indices DEF CInv, ConfsOK
<1>5. LegsOK(prior, p, n)
  <2>1. CASE LatestConf(p) = 0
    <3>1. prior = {}
      BY <1>2, <1>3, <2>1 DEF PriorRes
    <3> QED
      BY <3>1 DEF LegsOK
  <2>2. CASE LatestConf(p) # 0
    <3>1. PICK c : c = LatestConf(p)
      OBVIOUS
    <3>2. c \in DOMAIN confs /\ confs[c].plan = p
      BY <2>2, <3>1, LatestAre
    <3>3. prior = confs[c].res
      BY <1>2, <1>3, <2>2, <3>1 DEF PriorRes
    <3>4. LegsOK(prior, p, c)
      BY <3>2, <3>3 DEF CInv, ConfsOK
    <3>5. 1 .. c \subseteq 1 .. n
      BY <1>4, <3>2
    <3> QED
      BY <3>4, <3>5 DEF LegsOK
  <2> QED
    BY <2>1, <2>2
<1>6. n \in 1 .. n
  BY <1>4
<1>7. PICK kept : kept = {c \in prior : c.sec \in cmd.accept}
  OBVIOUS
<1>8. PICK fresh2 : fresh2 = {a \in cmd.accept : \A c \in prior : c.sec # a}
  OBVIOUS
<1>9. PICK new : new = {Commitment(<<n, s>>, s, plans[p].alloc[s], 0, {}) : s \in fresh2}
  OBVIOUS
<1>10. Kept(cmd, n) = kept \cup new
  BY <1>2, <1>3, <1>7, <1>8, <1>9, Zenon DEF Kept
<1>11. \A c \in new : /\ c.sec \in fresh2
                      /\ c = Commitment(<<n, c.sec>>, c.sec, plans[p].alloc[c.sec], 0, {})
  <2> SUFFICES ASSUME NEW c \in new
               PROVE  /\ c.sec \in fresh2
                      /\ c = Commitment(<<n, c.sec>>, c.sec, plans[p].alloc[c.sec], 0, {})
    OBVIOUS
  <2>1. PICK s \in fresh2 : c = Commitment(<<n, s>>, s, plans[p].alloc[s], 0, {})
    BY <1>9
  <2>2. c.sec = s
    BY <2>1 DEF Commitment
  <2> QED
    BY <2>1, <2>2
<1>12. \A r \in kept \cup new :
          /\ r.sec \in Positive(p)
          /\ \E m \in 1 .. n :
                r = Commitment(<<m, r.sec>>, r.sec, plans[p].alloc[r.sec], 0, {})
  <2>1. \A r \in kept :
          /\ r.sec \in Positive(p)
          /\ \E m \in 1 .. n :
                r = Commitment(<<m, r.sec>>, r.sec, plans[p].alloc[r.sec], 0, {})
    BY <1>5, <1>7, Zenon DEF LegsOK
  <2>2. \A r \in new : r.sec \in Positive(p)
    BY <1>1, <1>2, <1>8, <1>11
  <2> QED
    BY <1>6, <1>11, <2>1, <2>2
<1>13. \A q, r \in kept \cup new : q.sec = r.sec => q = r
  <2> SUFFICES ASSUME NEW q \in kept \cup new, NEW r \in kept \cup new, q.sec = r.sec
               PROVE  q = r
    OBVIOUS
  <2>1. CASE q \in kept /\ r \in kept
    BY <1>5, <1>7, <2>1 DEF LegsOK
  <2>2. CASE q \in new /\ r \in new
    BY <1>11, <2>2
  <2>3. CASE q \in kept /\ r \in new
    BY <1>7, <1>8, <1>11, <2>3
  <2>4. CASE q \in new /\ r \in kept
    BY <1>7, <1>8, <1>11, <2>4
  <2> QED
    BY <2>1, <2>2, <2>3, <2>4
<1> QED
  BY <1>1, <1>2, <1>3, <1>5, <1>10, <1>12, <1>13 DEF LegsOK

LEMMA ConfirmStays ==
    ASSUME CInv, IsConfirmation
    PROVE  /\ PlansOK' /\ ConfsOK' /\ ExecsOK' /\ BrokerOK'
           /\ \A cmd \in unsure' : CommandOK(cmd)'
<1>1. PICK cmd : \E others \in {unsure, unsure \ {cmd}} :
          cmd.kind = "confirm" /\ CommandOK(cmd) /\ Confirm(cmd, others)
  BY Zenon DEF IsConfirmation
<1>2. PICK others \in {unsure, unsure \ {cmd}} :
          cmd.kind = "confirm" /\ CommandOK(cmd) /\ Confirm(cmd, others)
  BY <1>1
<1>3. PICK y : /\ confs' = Append(confs, y)
               /\ y.plan = cmd.plan /\ y.res = Kept(cmd, Len(confs) + 1)
               /\ unsure' = others
               /\ UNCHANGED <<plans, execs, orders, snaps>>
               /\ fresh' => fresh
  BY <1>2, ConfirmIs
<1>4. /\ IsSeq(confs') /\ Len(confs) \in Nat /\ Len(confs') = Len(confs) + 1
      /\ DOMAIN confs = 1 .. Len(confs) /\ DOMAIN confs' = 1 .. Len(confs')
      /\ \A i \in DOMAIN confs : confs'[i] = confs[i]
      /\ confs'[Len(confs')] = y
  <2>1. IsSeq(confs)
    BY DEF CInv, ConfsOK
  <2>2. Grows(confs, y, confs')
    BY <1>3, <2>1, Appended, Zenon
  <2> QED
    BY <2>2 DEF Grows
<1>5. \A k \in DOMAIN confs' : k \in DOMAIN confs \/ k = Len(confs')
  BY <1>4
<1>6. DOMAIN confs \subseteq DOMAIN confs'
  BY <1>4
<1>7. PlansOK'
  BY <1>3 DEF CInv, PlansOK, SecuritiesOf
<1>9. ConfsOK'
  <2>1. ASSUME NEW k \in DOMAIN confs'
        PROVE  confs'[k].plan \in DOMAIN plans /\ LegsOK(confs'[k].res, confs'[k].plan, k)
    <3>1. CASE k \in DOMAIN confs
      <4>1. confs[k].plan \in DOMAIN plans /\ LegsOK(confs[k].res, confs[k].plan, k)
        BY <3>1 DEF CInv, ConfsOK
      <4> QED
        BY <1>4, <3>1, <4>1
    <3>2. CASE k = Len(confs')
      <4>1. k = Len(confs) + 1 /\ confs'[k] = y
        BY <1>4, <3>2
      <4>2. LegsOK(Kept(cmd, k), cmd.plan, k) /\ cmd.plan \in DOMAIN plans
        BY <1>2, <4>1, KeptIs
      <4> QED
        BY <1>3, <4>1, <4>2
    <3> QED
      BY <1>5, <3>1, <3>2
  <2>2. ASSUME NEW k \in DOMAIN confs'
        PROVE  (confs[k].plan \in DOMAIN plans /\ LegsOK(confs[k].res, confs[k].plan, k))'
    <3>1. PICK p : p = confs'[k].plan
      OBVIOUS
    <3>2. p \in DOMAIN plans /\ LegsOK(confs'[k].res, p, k)
      BY <2>1, <3>1
    <3>3. Positive(p)' = Positive(p)
      BY <1>3 DEF Positive
    <3>4. \A r \in confs'[k].res :
             /\ r.sec \in Positive(p)'
             /\ \E n \in 1 .. k :
                   r = Commitment(<<n, r.sec>>, r.sec, plans'[p].alloc[r.sec], 0, {})
      BY <1>3, <3>2, <3>3, Zenon DEF LegsOK
    <3>5. \A q, r \in confs'[k].res : q.sec = r.sec => q = r
      BY <3>2, Zenon DEF LegsOK
    <3>6. (confs[k].plan \in DOMAIN plans)'
      BY <1>3, <3>1, <3>2
    <3>7. LegsOK(confs[k].res, confs[k].plan, k)'
      BY <3>1, <3>4, <3>5, Zenon DEF LegsOK
    <3> QED
      BY <3>6, <3>7, Zenon
  <2> QED
    BY <1>4, <2>2 DEF ConfsOK
<1>10. ExecsOK'
  <2>1. ASSUME NEW e \in DOMAIN execs PROVE ExecOK(execs[e])'
    <3>1. ExecOK(execs[e])
      BY DEF CInv, ExecsOK
    <3>2. execs' = execs
      BY <1>3
    <3>3. execs[e].conf \in DOMAIN confs
      BY <3>1 DEF ExecOK
    <3>4. confs'[execs[e].conf] = confs[execs[e].conf]
      BY <1>4, <3>3
    <3> QED
      BY <1>6, <3>1, <3>2, <3>3, <3>4 DEF ExecOK
  <2>2. IsSeq(execs') /\ execs' = execs
    BY <1>3 DEF CInv, ExecsOK
  <2> QED
    BY <2>1, <2>2 DEF ExecsOK
<1>11. BrokerOK'
  BY <1>3 DEF CInv, BrokerOK, Newest
<1>12. \A x \in unsure' : CommandOK(x)'
  <2> SUFFICES ASSUME NEW x \in unsure' PROVE CommandOK(x)'
    OBVIOUS
  <2>1. x \in unsure
    BY <1>2, <1>3
  <2>2. CommandOK(x)
    BY <2>1 DEF CInv
  <2> QED
    BY <1>3, <1>6, <2>2, CommandsStay
<1> QED
  BY <1>7, <1>9, <1>10, <1>11, <1>12

LEMMA ExecutionStays ==
    ASSUME CInv, IsExecution
    PROVE  /\ PlansOK' /\ ConfsOK' /\ ExecsOK' /\ BrokerOK'
           /\ \A cmd \in unsure' : CommandOK(cmd)'
<1>1. PICK cmd : \E others \in {unsure, unsure \ {cmd}} :
          cmd.kind # "confirm" /\ CommandOK(cmd) /\ DecideExecution(cmd, others)
  BY Zenon DEF IsExecution
<1>2. PICK others \in {unsure, unsure \ {cmd}} :
          cmd.kind # "confirm" /\ CommandOK(cmd) /\ DecideExecution(cmd, others)
  BY <1>1
<1>3. PICK x : /\ execs' = Append(execs, x) /\ ExecOK(x)
               /\ unsure' = others
               /\ UNCHANGED <<plans, confs, orders, snaps, fresh>>
  BY <1>2, Executes
<1>4. /\ IsSeq(execs') /\ Len(execs) \in Nat /\ Len(execs') = Len(execs) + 1
      /\ DOMAIN execs = 1 .. Len(execs) /\ DOMAIN execs' = 1 .. Len(execs')
      /\ \A i \in DOMAIN execs : execs'[i] = execs[i]
      /\ execs'[Len(execs')] = x
  <2>1. IsSeq(execs)
    BY DEF CInv, ExecsOK
  <2>2. Grows(execs, x, execs')
    BY <1>3, <2>1, Appended, Zenon
  <2> QED
    BY <2>2 DEF Grows
<1>5. \A e \in DOMAIN execs' : e \in DOMAIN execs \/ e = Len(execs')
  BY <1>4
<1>6. PlansOK'
  BY <1>3 DEF CInv, PlansOK, SecuritiesOf
<1>7. ConfsOK'
  BY <1>3 DEF CInv, ConfsOK, LegsOK, Positive
<1>8. ExecsOK'
  <2>1. \A e \in DOMAIN execs' : ExecOK(execs'[e])
    <3> SUFFICES ASSUME NEW e \in DOMAIN execs' PROVE ExecOK(execs'[e])
      OBVIOUS
    <3>1. CASE e \in DOMAIN execs
      <4>1. ExecOK(execs[e])
        BY <3>1 DEF CInv, ExecsOK
      <4> QED
        BY <1>4, <3>1, <4>1
    <3>2. CASE e = Len(execs')
      BY <1>3, <1>4, <3>2
    <3> QED
      BY <1>5, <3>1, <3>2
  <2> QED
    BY <1>3, <1>4, <2>1 DEF ExecsOK, ExecOK
<1>9. BrokerOK'
  BY <1>3 DEF CInv, BrokerOK, Newest
<1>10. \A c \in unsure' : CommandOK(c)'
  <2> SUFFICES ASSUME NEW c \in unsure' PROVE CommandOK(c)'
    OBVIOUS
  <2>1. c \in unsure
    BY <1>2, <1>3
  <2>2. CommandOK(c)
    BY <2>1 DEF CInv
  <2> QED
    BY <1>3, <2>2, CommandsStay
<1> QED
  BY <1>6, <1>7, <1>8, <1>9, <1>10

LEMMA BrokerStays ==
    ASSUME CInv, IsBroker
    PROVE  BrokerOK' /\ UNCHANGED <<plans, confs, execs, unsure>>
<1>0. DOMAIN snaps = 1 .. Newest /\ Newest \in Nat /\ Newest > 0 /\ IsSeq(snaps)
  BY Indices DEF CInv, BrokerOK, Newest
<1>1. orders \in Seq(OrderRecords)
      /\ \A o \in DOMAIN orders : orders[o].live => orders[o].filled < orders[o].qty
  BY DEF CInv, BrokerOK, BookOK, Unfinished
<1>2. DOMAIN orders = 1 .. Len(orders) /\ Len(orders) \in Nat
  BY <1>1
<1>3. ASSUME BookOK(orders'), snaps' = snaps, fresh' = FALSE PROVE BrokerOK'
  <2>1. /\ IsSeq(snaps) /\ Len(snaps) > 0
        /\ \A v \in DOMAIN snaps : BookOK(snaps[v].orders)
    BY DEF CInv, BrokerOK, Newest
  <2> QED
    BY <1>3, <2>1 DEF BrokerOK, Newest, BookOK, Unfinished
<1>4. ASSUME NEW s \in Traded, NEW q \in within.sizes, Place(s, q)
      PROVE  BrokerOK' /\ UNCHANGED <<plans, confs, execs, unsure>>
  <2>1. UNCHANGED <<plans, confs, execs, unsure, snaps>> /\ fresh' = FALSE
    BY <1>4 DEF Place, planVars
  <2>2. PICK r : r = [sec |-> s, qty |-> q, filled |-> 0, live |-> TRUE, after |-> Len(confs)]
    OBVIOUS
  <2>3. orders' = Append(orders, r)
    BY <1>4, <2>2 DEF Place
  <2>4. s \in Securities
    BY DEF Traded, SecuritiesOf
  <2>5. q \in Nat \ {0}
    BY WithinIs
  <2>6. Len(confs) \in Nat
    BY Indices DEF CInv, ConfsOK
  <2>7. r \in OrderRecords /\ r.filled < r.qty
    BY <2>2, <2>4, <2>5, <2>6 DEF OrderRecords
  <2>8. orders' \in Seq(OrderRecords)
    BY <1>1, <2>3, <2>7
  <2>9. \A o \in DOMAIN orders' : orders'[o].live => orders'[o].filled < orders'[o].qty
    <3>1. \A o \in DOMAIN orders' :
              (o \in DOMAIN orders /\ orders'[o] = orders[o]) \/ orders'[o] = r
      BY <1>1, <2>3, <2>7
    <3> QED
      BY <1>1, <2>7, <3>1
  <2>10. BookOK(orders')
    BY <2>8, <2>9 DEF BookOK, Unfinished
  <2> QED
    BY <1>3, <2>1, <2>10
<1>5. ASSUME NEW o \in DOMAIN orders, NEW r, r \in OrderRecords,
             r.live => r.filled < r.qty, orders' = [orders EXCEPT ![o] = r],
             UNCHANGED <<plans, confs, execs, unsure, snaps>>, fresh' = FALSE
      PROVE  BrokerOK' /\ UNCHANGED <<plans, confs, execs, unsure>>
  <2>1. orders' \in Seq(OrderRecords)
    BY <1>1, <1>5
  <2>2. \A i \in DOMAIN orders' : i \in DOMAIN orders /\ orders'[i] = IF i = o THEN r ELSE orders[i]
    BY <1>1, <1>5
  <2>3. BookOK(orders')
    BY <1>1, <1>5, <2>1, <2>2 DEF BookOK, Unfinished
  <2> QED
    BY <1>3, <1>5, <2>3
<1>6. ASSUME NEW o \in DOMAIN orders, Fill(o)
      PROVE  BrokerOK' /\ UNCHANGED <<plans, confs, execs, unsure>>
  <2>1. UNCHANGED <<plans, confs, execs, unsure, snaps>> /\ fresh' = FALSE /\ orders[o].live
    BY <1>6 DEF Fill, planVars
  <2>2. PICK w : w = orders[o]
    OBVIOUS
  <2>3. w \in OrderRecords /\ w.filled < w.qty
    BY <1>1, <2>1, <2>2
  <2>4. PICK r : r = [w EXCEPT !.filled = w.filled + 1, !.live = w.filled + 1 < w.qty]
    OBVIOUS
  <2>5. orders' = [orders EXCEPT ![o] = r]
    BY <1>1, <1>6, <2>2, <2>4 DEF Fill
  <2>6. r \in OrderRecords
    <3>1. /\ w.sec \in Securities /\ w.qty \in Nat \ {0} /\ w.filled + 1 \in Nat
          /\ w.after \in Nat
      BY <2>3 DEF OrderRecords
    <3>2. (w.filled + 1 < w.qty) \in BOOLEAN
      OBVIOUS
    <3>3. r = [sec |-> w.sec, qty |-> w.qty, filled |-> w.filled + 1,
               live |-> w.filled + 1 < w.qty, after |-> w.after]
      BY <2>3, <2>4 DEF OrderRecords
    <3> QED
      BY <3>1, <3>2, <3>3 DEF OrderRecords
  <2>7. r.live => r.filled < r.qty
    BY <2>3, <2>4 DEF OrderRecords
  <2> QED
    BY <1>5, <2>1, <2>5, <2>6, <2>7
<1>7. ASSUME NEW o \in DOMAIN orders, Cancel(o)
      PROVE  BrokerOK' /\ UNCHANGED <<plans, confs, execs, unsure>>
  <2>1. UNCHANGED <<plans, confs, execs, unsure, snaps>> /\ fresh' = FALSE
    BY <1>7 DEF Cancel, planVars
  <2>2. PICK w : w = orders[o]
    OBVIOUS
  <2>3. w \in OrderRecords
    BY <1>1, <2>2
  <2>4. PICK r : r = [w EXCEPT !.live = FALSE]
    OBVIOUS
  <2>5. orders' = [orders EXCEPT ![o] = r]
    BY <1>1, <1>7, <2>2, <2>4 DEF Cancel
  <2>6. r \in OrderRecords /\ ~r.live
    BY <2>3, <2>4 DEF OrderRecords
  <2> QED
    BY <1>5, <2>1, <2>5, <2>6
<1>8. ASSUME NEW risk \in BOOLEAN, Snapshot(risk)
      PROVE  BrokerOK' /\ UNCHANGED <<plans, confs, execs, unsure>>
  <2>1. UNCHANGED <<plans, confs, execs, unsure, orders>>
    BY <1>8 DEF Snapshot, planVars
  <2>2. PICK y : y = [orders |-> orders, open |-> open, elig |-> elig, risk |-> risk]
    OBVIOUS
  <2>3. snaps' = Append(snaps, y) /\ y.orders = orders
    BY <1>8, <2>2 DEF Snapshot
  <2>4. Grows(snaps, y, snaps')
    BY <1>0, <2>3, Appended, Zenon
  <2>5. /\ IsSeq(snaps') /\ Len(snaps) \in Nat /\ Len(snaps') = Len(snaps) + 1
        /\ DOMAIN snaps = 1 .. Len(snaps) /\ DOMAIN snaps' = 1 .. Len(snaps')
        /\ \A i \in DOMAIN snaps : snaps'[i] = snaps[i]
        /\ snaps'[Len(snaps')] = y
    BY <2>4 DEF Grows
  <2>6. \A v \in DOMAIN snaps' : v \in DOMAIN snaps \/ v = Len(snaps')
    BY <2>5
  <2>7. BookOK(orders) /\ \A v \in DOMAIN snaps : BookOK(snaps[v].orders)
    BY DEF CInv, BrokerOK
  <2>8. \A v \in DOMAIN snaps' : BookOK(snaps'[v].orders)
    BY <2>3, <2>5, <2>6, <2>7
  <2>9. Len(snaps') > 0
    BY <2>5
  <2> QED
    BY <2>1, <2>3, <2>5, <2>7, <2>8, <2>9 DEF BrokerOK, Newest, BookOK, Unfinished
<1> QED
  BY <1>4, <1>6, <1>7, <1>8, Zenon DEF IsBroker

LEMMA CInit == Init => CInv
<1> SUFFICES ASSUME Init PROVE CInv
  OBVIOUS
<1>1. PICK b : b = within.rels
  OBVIOUS
<1>2. PICK y : y = [orders |-> <<>>, open |-> b, elig |-> b, risk |-> TRUE]
  OBVIOUS
<1>3. snaps = <<y>> /\ y.orders = <<>>
  BY <1>1, <1>2 DEF Init
<1>4. BookOK(<<>>)
  BY DEF BookOK, Unfinished
<1>5. IsSeq(snaps) /\ Len(snaps) = 1 /\ DOMAIN snaps = 1 .. 1 /\ snaps[1] = y
  <2>1. IsSeq(<<>>)
    BY DEF IsSeq
  <2>2. snaps = Append(<<>>, y)
    BY <1>3
  <2>3. Grows(<<>>, y, snaps)
    BY <2>1, <2>2, Appended, Zenon
  <2> QED
    BY <2>3 DEF Grows
<1>6. plans = <<>> /\ confs = <<>> /\ execs = <<>> /\ unsure = {} /\ orders = <<>>
      /\ within \in Cases
  BY DEF Init
<1>7. IsSeq(<<>>) /\ DOMAIN <<>> = {}
  BY DEF IsSeq
<1>8. BrokerOK
  BY <1>3, <1>4, <1>5, <1>6 DEF BrokerOK, Newest
<1>9. PlansOK /\ ConfsOK /\ ExecsOK
  BY <1>6, <1>7 DEF PlansOK, ConfsOK, ExecsOK
<1> QED
  BY <1>6, <1>8, <1>9 DEF CInv

LEMMA CNext == CInv /\ [Next]_vars => CInv'
<1> SUFFICES ASSUME CInv, [Next]_vars PROVE CInv'
  OBVIOUS
<1>1. CASE UNCHANGED vars
  BY <1>1 DEF CInv, vars, planVars, brokerVars, clockVars, BrokerOK, BookOK, Unfinished,
              Newest, PlansOK, SecuritiesOf, ConfsOK, LegsOK, Positive, ExecsOK, ExecOK,
              CommandOK
<1>2. CASE Next
  <2>1. within' \in Cases
    BY <1>2 DEF Next, CInv
  <2>2. CASE IsConfirmation
    BY <2>1, <2>2, ConfirmStays DEF CInv
  <2>3. CASE IsExecution
    BY <2>1, <2>3, ExecutionStays DEF CInv
  <2>4. CASE IsPlanning
    BY <2>1, <2>4, PlanningStays DEF CInv
  <2>5. ASSUME UNCHANGED <<plans, confs, execs>>, BrokerOK',
               \A cmd \in unsure' : CommandOK(cmd)
        PROVE  CInv'
    <3>1. PlansOK'
      BY <2>5 DEF CInv, PlansOK, SecuritiesOf
    <3>2. ConfsOK'
      BY <2>5 DEF CInv, ConfsOK, LegsOK, Positive
    <3>3. ExecsOK'
      BY <2>5 DEF CInv, ExecsOK, ExecOK
    <3>4. \A cmd \in unsure' : CommandOK(cmd)'
      BY <2>5, CommandsStay
    <3> QED
      BY <2>1, <2>5, <3>1, <3>2, <3>3, <3>4 DEF CInv
  <2>6. CASE IsBroker
    <3>1. BrokerOK' /\ UNCHANGED <<plans, confs, execs, unsure>>
      BY <2>6, BrokerStays
    <3>2. \A cmd \in unsure' : CommandOK(cmd)
      BY <3>1 DEF CInv
    <3> QED
      BY <2>5, <3>1, <3>2
  <2>7. CASE IsRequest
    <3>1. UNCHANGED <<plans, confs, execs, orders, snaps>> /\ (fresh' => fresh)
          /\ \A cmd \in unsure' : CommandOK(cmd)
      BY <2>7 DEF IsRequest
    <3>2. BrokerOK'
      BY <3>1 DEF CInv, BrokerOK, Newest
    <3> QED
      BY <2>5, <3>1, <3>2
  <2> QED
    BY <1>2, <2>2, <2>3, <2>4, <2>6, <2>7, Steps
<1> QED
  BY <1>1, <1>2

\* The histories are consistent in every reachable state: every confirmation
\* reserves legs of its plan in full, each security once and under the name of
\* the confirmation that accepted it first; every claim an execution leaves is
\* of a leg its confirmation reserved; and a snapshot taken at this instant
\* shows the broker's orders (candidate_confirmation.py, candidate_execution.py).
THEOREM CommitmentsInvariant == Spec => []CInv
BY CInit, CNext, PTL DEF Spec

-----------------------------------------------------------------------------
(* What a step may do to the claims.                                       *)

\* Claims are read from confirmations and executions alone.
LEMMA ClaimsStay ==
    ASSUME UNCHANGED <<confs, execs>>, NEW p
    PROVE  PlanClaims(p)' = PlanClaims(p)
BY DEF PlanClaims, LatestConf, NamedExec

\* A plan appended to the others is the last one.
LEMMA PlanAppended ==
    ASSUME CInv, NEW y, plans' = Append(plans, y)
    PROVE  plans'[Len(plans')] = y
<1>1. IsSeq(plans)
  BY DEF CInv, PlansOK
<1>2. Grows(plans, y, plans')
  BY <1>1, Appended, Zenon
<1> QED
  BY <1>2 DEF Grows

LEMMA ConfAppended ==
    ASSUME CInv, NEW y, confs' = Append(confs, y)
    PROVE  confs'[Len(confs')] = y /\ confs' # confs
<1>1. IsSeq(confs)
  BY DEF CInv, ConfsOK
<1>2. Grows(confs, y, confs')
  BY <1>1, Appended, Zenon
<1>3. confs'[Len(confs')] = y /\ Len(confs') = Len(confs) + 1 /\ Len(confs) \in Nat
  BY <1>2 DEF Grows
<1> QED
  BY <1>3

LEMMA ExecAppended ==
    ASSUME CInv, NEW x, execs' = Append(execs, x)
    PROVE  execs'[Len(execs')] = x /\ execs' # execs
<1>1. IsSeq(execs)
  BY DEF CInv, ExecsOK
<1>2. Grows(execs, x, execs')
  BY <1>1, Appended, Zenon
<1>3. execs'[Len(execs')] = x /\ Len(execs') = Len(execs) + 1 /\ Len(execs) \in Nat
  BY <1>2 DEF Grows
<1> QED
  BY <1>3

\* Only confirmations submit.
LEMMA NothingSubmitted ==
    ASSUME UNCHANGED confs
    PROVE  ~Submitted
BY DEF Submitted

\* Whatever is confirmed by a submission, and every plan that replaces
\* another, was inside its entry window and qualified when the clock was read
\* the second time (finalize_candidate_confirmation, finalize_candidate_allocation).
THEOREM CommittedInsideWindowTheorem == Spec => CommittedInsideWindow
<1>1. CInv /\ [Next]_vars =>
      [/\ Submitted =>
              plans[confs'[Len(confs')].plan].rel \in open' \cap elig'
       /\ plans' # plans /\ plans'[Len(plans')].rep # 0 =>
              plans'[Len(plans')].rel \in open' \cap elig']_vars
  <2> SUFFICES ASSUME CInv, Next
               PROVE  /\ Submitted =>
                            plans[confs'[Len(confs')].plan].rel \in open' \cap elig'
                      /\ plans' # plans /\ plans'[Len(plans')].rep # 0 =>
                            plans'[Len(plans')].rel \in open' \cap elig'
    OBVIOUS
  <2>1. CASE IsConfirmation
    <3>1. PICK cmd : \E others \in {unsure, unsure \ {cmd}} :
              cmd.kind = "confirm" /\ CommandOK(cmd) /\ Confirm(cmd, others)
      BY <2>1, Zenon DEF IsConfirmation
    <3>2. PICK others : Confirm(cmd, others)
      BY <3>1
    <3>3. PICK y : /\ confs' = Append(confs, y)
                   /\ y.plan = cmd.plan /\ y.op = cmd.op
                   /\ cmd.op # "WITHDRAW" => plans[cmd.plan].rel \in open' \cap elig'
                   /\ plans' = plans
      BY <3>2, ConfirmIs
    <3>4. confs'[Len(confs')] = y
      BY <3>3, ConfAppended
    <3>5. Submitted => y.op = "SUBMIT"
      BY <3>4 DEF Submitted
    <3> QED
      BY <3>3, <3>4, <3>5
  <2>2. CASE IsPlanning
    <3>1. PICK y, r, rep : /\ plans' = Append(plans, y)
                           /\ GoodPlan(y, r, rep)
                           /\ rep # 0 => r \in open' \cap elig'
      BY <2>2, PlanningIs
    <3>2. plans'[Len(plans')] = y /\ y.rel = r /\ y.rep = rep
      BY <3>1, PlanAppended DEF GoodPlan
    <3>3. ~Submitted
      BY <2>2, PlanningIs, NothingSubmitted
    <3> QED
      BY <3>1, <3>2, <3>3
  <2>3. ASSUME UNCHANGED <<plans, confs>>
        PROVE  /\ Submitted =>
                      plans[confs'[Len(confs')].plan].rel \in open' \cap elig'
               /\ plans' # plans /\ plans'[Len(plans')].rep # 0 =>
                      plans'[Len(plans')].rel \in open' \cap elig'
    BY <2>3, NothingSubmitted
  <2>4. CASE IsExecution
    <3>1. PICK cmd : \E others \in {unsure, unsure \ {cmd}} :
              cmd.kind # "confirm" /\ CommandOK(cmd) /\ DecideExecution(cmd, others)
      BY <2>4, Zenon DEF IsExecution
    <3>2. PICK others : cmd.kind # "confirm" /\ CommandOK(cmd) /\ DecideExecution(cmd, others)
      BY <3>1
    <3> QED
      BY <2>3, <3>2, Executes
  <2>5. CASE IsBroker
    BY <2>3, <2>5, BrokerStays
  <2>6. CASE IsRequest
    BY <2>3, <2>6 DEF IsRequest
  <2> QED
    BY <2>1, <2>2, <2>4, <2>5, <2>6, Steps
<1> QED
  BY <1>1, CommitmentsInvariant, PTL DEF Spec, CommittedInsideWindow

\* The claims of a plan keep their identities when its latest event is repeated.
LEMMA CopyKeepsClaims ==
    ASSUME CInv, NEW cmd, NEW others, NEW x, x.conf = cmd.conf, ExecOK(x),
           execs' = Append(execs, x), UNCHANGED confs,
           x = Unsourced(cmd.conf) \/ (\E disp, more : x = Copy(cmd.conf, disp, more)), NEW p
    PROVE  PlanClaims(p)' = PlanClaims(p)
<1>1. x.conf \in DOMAIN confs /\ x.named \in BOOLEAN
  BY DEF ExecOK
<1>2. PlanClaims(p)' = IF x.named /\ x.conf = LatestConf(p) THEN x.claims ELSE PlanClaims(p)
  BY <1>1, AfterExecution
<1>3. x.named /\ x.conf = LatestConf(p) => x.claims = PlanClaims(p)
  <2>1. CASE x = Unsourced(cmd.conf)
    <3>1. x.named = FALSE
      BY <1>1, <2>1, UnsourcedIs
    <3> QED
      BY <3>1
  <2>2. ASSUME NEW disp, NEW more, x = Copy(cmd.conf, disp, more)
        PROVE  x.named /\ x.conf = LatestConf(p) => x.claims = PlanClaims(p)
    BY <1>1, <2>2, CopyIs
  <2> QED
    BY <2>1, <2>2
<1> QED
  BY <1>2, <1>3

\* While it is uncertain whether another confirmation was written none is, and
\* nothing is planned; while it is uncertain whether an execution was, no other
\* one is accepted, nothing is planned or submitted, and no claim is given up
\* (pending_candidate_confirmations, pending_candidate_executions).
THEOREM UncertainBlocksTheorem == Spec => UncertainBlocks
<1>1. CInv /\ [Next]_vars =>
      [LET still == unsure \cap unsure'
           noPlan == plans' # plans => ~plans'[Len(plans')].planned
       IN  /\ UnsureKind({"confirm"}, still) # {} => confs' = confs /\ noPlan
           /\ UnsureKind({"declare", "reconcile"}, still) # {} =>
                  /\ execs' # execs => execs'[Len(execs')].disp = "BLOCKED"
                  /\ noPlan
                  /\ ~Submitted
                  /\ \A p \in DOMAIN plans :
                         {c.id : c \in PlanClaims(p)} \subseteq {c.id : c \in PlanClaims(p)'}]_vars
  <2> SUFFICES ASSUME CInv, Next, NEW still, still = unsure \cap unsure',
                      NEW noPlan, noPlan = (plans' # plans => ~plans'[Len(plans')].planned)
               PROVE
           /\ UnsureKind({"confirm"}, still) # {} => confs' = confs /\ noPlan
           /\ UnsureKind({"declare", "reconcile"}, still) # {} =>
                  /\ execs' # execs => execs'[Len(execs')].disp = "BLOCKED"
                  /\ noPlan
                  /\ ~Submitted
                  /\ \A p \in DOMAIN plans :
                         {c.id : c \in PlanClaims(p)} \subseteq {c.id : c \in PlanClaims(p)'}
    BY Zenon
  <2>1. \A K : UnsureKind(K, still) \subseteq UnsureKind(K, unsure)
               /\ UnsureKind(K, still) \subseteq UnsureKind(K, unsure')
    BY DEF UnsureKind
  <2>2. ASSUME UNCHANGED <<plans, confs, execs>>
        PROVE  /\ confs' = confs /\ execs' = execs /\ noPlan /\ ~Submitted
               /\ \A p \in DOMAIN plans : PlanClaims(p)' = PlanClaims(p)
    BY <2>2, NothingSubmitted, ClaimsStay
  <2>3. CASE IsBroker
    BY <2>2, <2>3, BrokerStays
  <2>4. CASE IsRequest
    BY <2>2, <2>4 DEF IsRequest
  <2>5. CASE IsPlanning
    <3>1. PICK y, r, rep : plans' = Append(plans, y) /\ GoodPlan(y, r, rep)
      BY <2>5, PlanningIs
    <3>2. UNCHANGED <<confs, execs>>
      BY <2>5, PlanningIs
    <3>3. plans'[Len(plans')] = y
      BY <3>1, PlanAppended
    <3>4. ~Submitted /\ \A p \in DOMAIN plans : PlanClaims(p)' = PlanClaims(p)
      BY <3>2, NothingSubmitted, ClaimsStay
    <3>5. y.planned => /\ UnsureKind({"declare", "reconcile"}, still) = {}
                       /\ UnsureKind({"confirm"}, still) = {}
      BY <2>1, <3>1 DEF GoodPlan
    <3> QED
      BY <3>2, <3>3, <3>4, <3>5
  <2>6. CASE IsConfirmation
    <3>1. PICK cmd : \E others \in {unsure, unsure \ {cmd}} :
              cmd.kind = "confirm" /\ CommandOK(cmd) /\ Confirm(cmd, others)
      BY <2>6, Zenon DEF IsConfirmation
    <3>2. PICK others : cmd.kind = "confirm" /\ CommandOK(cmd) /\ Confirm(cmd, others)
      BY <3>1
    <3>3. PICK y : /\ confs' = Append(confs, y)
                   /\ y.plan = cmd.plan /\ y.op = cmd.op
                   /\ y.res = Kept(cmd, Len(confs) + 1)
                   /\ Reviewable(cmd, others)
                   /\ cmd.op = "SUBMIT" => Replays(cmd, others)
                   /\ unsure' = others
                   /\ UNCHANGED <<plans, execs>>
      BY <3>2, ConfirmIs
    <3>4. UnsureKind({"confirm"}, still) = {}
      BY <2>1, <3>3 DEF Reviewable, Admissible
    <3>5. noPlan /\ execs' = execs
      BY <3>3
    <3>6. ASSUME UnsureKind({"declare", "reconcile"}, still) # {}
          PROVE  /\ ~Submitted
                 /\ \A p \in DOMAIN plans :
                       {c.id : c \in PlanClaims(p)} \subseteq {c.id : c \in PlanClaims(p)'}
      <4>1. UnsureKind({"declare", "reconcile"}, unsure) # {}
        BY <2>1, <3>6
      <4>2. ~Replays(cmd, others)
        BY <4>1, Zenon DEF Replays, Planned, AllocationGates
      <4>3. ~Submitted
        <5>1. confs'[Len(confs')] = y
          BY <3>3, ConfAppended
        <5> QED
          BY <3>3, <4>2, <5>1 DEF Submitted
      <4>4. ReleasedBy(cmd) = {}
        BY <3>3, <4>1 DEF Reviewable, MayWithdraw
      <4>5. PriorRes(cmd) \subseteq Kept(cmd, Len(confs) + 1)
        BY <4>4 DEF ReleasedBy, Kept
      <4>6. ASSUME NEW p \in DOMAIN plans, NEW c \in PlanClaims(p)
            PROVE  \E d \in PlanClaims(p)' : d.id = c.id
        <5>1. PlanClaims(p)' = IF y.plan = p THEN y.res ELSE PlanClaims(p)
          BY <3>3, AfterConfirm
        <5>2. CASE y.plan # p
          BY <5>1, <5>2
        <5>3. CASE y.plan = p
          <6>1. PlanClaims(p)' = Kept(cmd, Len(confs) + 1) /\ cmd.plan = p
            BY <3>3, <5>1, <5>3
          <6>2. LatestConf(p) # 0 /\ ClaimsOK(PlanClaims(p), confs[LatestConf(p)].res)
            BY ClaimsAre
          <6>3. PriorRes(cmd) = confs[LatestConf(p)].res
            BY <6>1, <6>2 DEF PriorRes
          <6>4. PICK d \in PriorRes(cmd) : d.id = c.id
            BY <6>2, <6>3 DEF ClaimsOK
          <6> QED
            BY <4>5, <6>1, <6>4
        <5> QED
          BY <5>2, <5>3
      <4> QED
        BY <4>3, <4>6
    <3> QED
      BY <3>4, <3>5, <3>6
  <2>7. CASE IsExecution
    <3>1. PICK cmd : \E others \in {unsure, unsure \ {cmd}} :
              cmd.kind # "confirm" /\ CommandOK(cmd) /\ DecideExecution(cmd, others)
      BY <2>7, Zenon DEF IsExecution
    <3>2. PICK others : cmd.kind # "confirm" /\ CommandOK(cmd) /\ DecideExecution(cmd, others)
      BY <3>1
    <3>3. PICK x : /\ execs' = Append(execs, x) /\ ExecOK(x) /\ x.conf = cmd.conf
                   /\ Outcome(cmd, others, x)
                   /\ unsure' = others
                   /\ UNCHANGED <<plans, confs>>
      BY <3>2, Executes
    <3>4. confs' = confs /\ noPlan /\ ~Submitted
      BY <3>3, NothingSubmitted
    <3>5. ASSUME UnsureKind({"declare", "reconcile"}, still) # {}
          PROVE  /\ execs'[Len(execs')].disp = "BLOCKED"
                 /\ \A p \in DOMAIN plans : PlanClaims(p)' = PlanClaims(p)
      <4>1. ~Bound(cmd, others)
        BY <2>1, <3>3, <3>5 DEF Bound
      <4>2. x = Unsourced(cmd.conf) \/ \E disp, more : x = Copy(cmd.conf, disp, more)
                                                       /\ disp = "BLOCKED"
        BY <3>3, <4>1, Zenon DEF Outcome
      <4>3. cmd.conf \in DOMAIN confs
        BY <3>2 DEF CommandOK
      <4>4. x.disp = "BLOCKED"
        <5>1. CASE x = Unsourced(cmd.conf)
          BY <4>3, <5>1, UnsourcedIs
        <5>2. ASSUME NEW more, x = Copy(cmd.conf, "BLOCKED", more)
              PROVE  x.disp = "BLOCKED"
          BY <4>3, <5>2, CopyIs
        <5> QED
          BY <4>2, <5>1, <5>2
      <4>5. execs'[Len(execs')] = x
        BY <3>3, ExecAppended
      <4>6. x = Unsourced(cmd.conf) \/ (\E disp, more : x = Copy(cmd.conf, disp, more))
        BY <4>2
      <4>7. \A p \in DOMAIN plans : PlanClaims(p)' = PlanClaims(p)
        <5> TAKE p \in DOMAIN plans
        <5> QED
          BY <3>3, <4>6, CopyKeepsClaims
      <4> QED
        BY <4>4, <4>5, <4>7
    <3> QED
      BY <3>4, <3>5
  <2> QED
    BY <2>3, <2>4, <2>5, <2>6, <2>7, Steps
<1> QED
  BY <1>1, CommitmentsInvariant, PTL DEF Spec, UncertainBlocks

\* A leg is given back on proof that nothing was ordered or bought.
LEMMA WithdrawnByProof ==
    ASSUME CInv, NEW cmd, NEW others, Reviewable(cmd, others),
           ReleasedBy(cmd) # {} => NoOrderProof(cmd, fresh), NEW r \in ReleasedBy(cmd)
    PROVE  /\ \A o \in Unfinished(orders) : orders[o].sec # r.sec
           /\ Held(orders, r.sec) = Held(snaps[plans[cmd.plan].ver].orders, r.sec)
<1>1. MayWithdraw(cmd)
  BY DEF Reviewable
<1>2. cmd.ver = Newest /\ fresh
  BY DEF NoOrderProof
<1>3. snaps[cmd.ver].orders = orders
  BY <1>2 DEF CInv, BrokerOK
<1> QED
  BY <1>1, <1>3 DEF MayWithdraw

\* A leg of the latest confirmation that a reconciliation leaves out has ended.
LEMMA ReconciledAway ==
    ASSUME CInv, NEW cmd, cmd.conf \in DOMAIN confs, FactsComplete(cmd),
           NEW x, x = Reconciled(cmd), NEW p, confs[cmd.conf].plan = p,
           NEW c, NEW r \in confs[cmd.conf].res, r.id = c.id, r.sec = c.sec,
           \A d \in x.claims : d.id # c.id
    PROVE  EndedBy(x, p, c)
<1>1. PICK os : os = snaps[cmd.ver].orders
  OBVIOUS
<1>2. cmd.ver = Newest /\ Listed(cmd) \subseteq DOMAIN os /\ BookOK(os)
  BY <1>1, ReconciledIs
<1>3. PICK mine : mine = {o \in Listed(cmd) : Classify(cmd, o) = r.id}
  OBVIOUS
<1>4. x = [conf |-> cmd.conf, eid |-> Len(execs) + 1, named |-> TRUE,
           disp |-> "RECONCILED", claims |-> RemainingClaims(cmd),
           attr |-> Attribution(cmd), unfinished |-> Unfinished(snaps[cmd.ver].orders),
           unres |-> {}, wd |-> Withdrawn(cmd), ver |-> cmd.ver]
  BY DEF Reconciled
<1>5. /\ x.conf = cmd.conf /\ x.disp = "RECONCILED" /\ x.claims = RemainingClaims(cmd)
      /\ x.attr = Attribution(cmd) /\ x.wd = Withdrawn(cmd) /\ x.ver = cmd.ver
  BY <1>4
<1>6. DOMAIN x.attr = Listed(cmd) /\ \A o \in Listed(cmd) : x.attr[o] = Classify(cmd, o)
  BY <1>5 DEF Attribution
<1>7. mine = {o \in DOMAIN x.attr : x.attr[o] = c.id}
  BY <1>3, <1>6
<1>8. /\ Remainder(cmd, r).id = r.id
      /\ Remainder(cmd, r).qty \in Nat
      /\ Remainder(cmd, r).qty = 0 =>
           /\ mine \cap Unfinished(os) = {}
           /\ \/ SumFunction([o \in mine |-> os[o].filled]) >= r.qty
              \/ /\ \A o \in Listed(cmd) :
                       os[o].sec = r.sec => Classify(cmd, o) # Unknown
                 /\ \/ r.id \in Withdrawn(cmd)
                    \/ plans[confs[cmd.conf].plan].rel \notin snaps[cmd.ver].open
                    \/ confs[cmd.conf].plan \in corrected
                    \/ mine # {} /\ \A o \in mine : os[o].filled = 0
  <2>1. Remains(cmd, r, os, mine)
    BY <1>1, <1>2, <1>3, RemainderIs
  <2> QED
    BY <1>1, <2>1, Zenon DEF Remains
<1>9. Remainder(cmd, r).qty = 0
  <2>1. PICK m : m = Remainder(cmd, r)
    OBVIOUS
  <2>2. m \in {Remainder(cmd, q) : q \in confs[cmd.conf].res}
    BY <2>1
  <2>3. m \notin RemainingClaims(cmd)
    BY <1>5, <1>8, <2>1
  <2>4. ~(m.qty > 0)
    BY <2>2, <2>3 DEF RemainingClaims
  <2> QED
    BY <1>8, <2>1, <2>4
<1>10. mine \cap Unfinished(os) = {}
  BY <1>8, <1>9
<1>11. CASE SumFunction([o \in mine |-> os[o].filled]) >= r.qty
  BY <1>1, <1>2, <1>5, <1>7, <1>10, <1>11, Zenon DEF EndedBy
<1>12. CASE /\ \A o \in Listed(cmd) :
                   os[o].sec = r.sec => Classify(cmd, o) # Unknown
            /\ \/ r.id \in Withdrawn(cmd)
               \/ plans[confs[cmd.conf].plan].rel \notin snaps[cmd.ver].open
               \/ confs[cmd.conf].plan \in corrected
               \/ mine # {} /\ \A o \in mine : os[o].filled = 0
  <2>1. \A o \in DOMAIN x.attr : os[o].sec = c.sec => x.attr[o] # Unknown
    BY <1>6, <1>12
  <2>2. \/ c.id \in x.wd
        \/ plans[p].rel \notin snaps[x.ver].open
        \/ p \in corrected
        \/ mine # {} /\ \A o \in mine : os[o].filled = 0
    BY <1>5, <1>12
  <2> QED
    BY <1>1, <1>2, <1>5, <1>7, <1>10, <2>1, <2>2, Zenon DEF EndedBy
<1> QED
  BY <1>8, <1>9, <1>11, <1>12

\* A claim on capital is given up only on proof: by a confirmation when no
\* order for its security is working at the broker at that moment and nothing
\* was bought since the plan, or by a reconciliation on the newest facts that
\* leave no order for it working and show it bought in full, or withdrawn,
\* expired, corrected away or ordered in vain with no order in doubt
\* (candidate_confirmation.py, candidate_execution.py).
THEOREM ClaimsLeaveByProofTheorem == Spec => ClaimsLeaveByProof
<1>1. CInv /\ [Next]_vars =>
      [\A p \in DOMAIN plans : \A c \in PlanClaims(p) :
        (\A d \in PlanClaims(p)' : d.id # c.id) =>
            \/ /\ confs' # confs
               /\ \A o \in Unfinished(orders) : orders[o].sec # c.sec
               /\ Held(orders, c.sec) = Held(snaps[plans[p].ver].orders, c.sec)
            \/ /\ execs' # execs
               /\ EndedBy(execs'[Len(execs')], p, c)]_vars
  <2> SUFFICES ASSUME CInv, Next, NEW p \in DOMAIN plans, NEW c \in PlanClaims(p),
                      \A d \in PlanClaims(p)' : d.id # c.id
               PROVE  \/ /\ confs' # confs
                         /\ \A o \in Unfinished(orders) : orders[o].sec # c.sec
                         /\ Held(orders, c.sec) = Held(snaps[plans[p].ver].orders, c.sec)
                      \/ /\ execs' # execs
                         /\ EndedBy(execs'[Len(execs')], p, c)
    OBVIOUS
  <2>1. PlanClaims(p)' # PlanClaims(p)
    BY Zenon
  <2>2. ~UNCHANGED <<confs, execs>>
    BY <2>1, ClaimsStay
  <2>3. LatestConf(p) # 0 /\ ClaimsOK(PlanClaims(p), confs[LatestConf(p)].res)
    BY ClaimsAre
  <2>4. PICK r \in confs[LatestConf(p)].res : r.id = c.id /\ r.sec = c.sec
    BY <2>3 DEF ClaimsOK
  <2>5. CASE IsConfirmation
    <3>1. PICK cmd : \E others \in {unsure, unsure \ {cmd}} :
              cmd.kind = "confirm" /\ CommandOK(cmd) /\ Confirm(cmd, others)
      BY <2>5, Zenon DEF IsConfirmation
    <3>2. PICK others : cmd.kind = "confirm" /\ CommandOK(cmd) /\ Confirm(cmd, others)
      BY <3>1
    <3>3. PICK y : /\ confs' = Append(confs, y)
                   /\ y.plan = cmd.plan
                   /\ y.res = Kept(cmd, Len(confs) + 1)
                   /\ Reviewable(cmd, others)
                   /\ ReleasedBy(cmd) # {} => NoOrderProof(cmd, fresh)
                   /\ UNCHANGED execs
      BY <3>2, ConfirmIs
    <3>4. PlanClaims(p)' = IF y.plan = p THEN y.res ELSE PlanClaims(p)
      BY <3>3, AfterConfirm
    <3>5. cmd.plan = p /\ PlanClaims(p)' = Kept(cmd, Len(confs) + 1)
      BY <2>1, <3>3, <3>4
    <3>6. PriorRes(cmd) = confs[LatestConf(p)].res
      BY <2>3, <3>5 DEF PriorRes
    <3>7. r \notin Kept(cmd, Len(confs) + 1)
      BY <2>4, <3>5
    <3>8. r \in ReleasedBy(cmd)
      BY <2>4, <3>6, <3>7 DEF ReleasedBy, Kept
    <3>9. /\ \A o \in Unfinished(orders) : orders[o].sec # r.sec
          /\ Held(orders, r.sec) = Held(snaps[plans[cmd.plan].ver].orders, r.sec)
      BY <3>3, <3>8, WithdrawnByProof
    <3>10. confs' # confs
      BY <3>3, ConfAppended
    <3> QED
      BY <2>4, <3>5, <3>9, <3>10
  <2>6. CASE IsExecution
    <3>1. PICK cmd : \E others \in {unsure, unsure \ {cmd}} :
              cmd.kind # "confirm" /\ CommandOK(cmd) /\ DecideExecution(cmd, others)
      BY <2>6, Zenon DEF IsExecution
    <3>2. PICK others : cmd.kind # "confirm" /\ CommandOK(cmd) /\ DecideExecution(cmd, others)
      BY <3>1
    <3>3. PICK x : /\ execs' = Append(execs, x) /\ ExecOK(x) /\ x.conf = cmd.conf
                   /\ Outcome(cmd, others, x)
                   /\ UNCHANGED confs
      BY <3>2, Executes
    <3>4. cmd.conf \in DOMAIN confs
      BY <3>2 DEF CommandOK
    <3>5. ~(x = Unsourced(cmd.conf) \/ (\E disp, more : x = Copy(cmd.conf, disp, more)))
      BY <2>1, <3>3, CopyKeepsClaims
    <3>6. x = Reconciled(cmd) /\ FactsComplete(cmd)
      BY <3>3, <3>5, Zenon DEF Outcome
    <3>7. PlanClaims(p)' = IF x.named /\ x.conf = LatestConf(p) THEN x.claims ELSE PlanClaims(p)
      <4>1. x.conf \in DOMAIN confs /\ x.named \in BOOLEAN
        BY <3>3 DEF ExecOK
      <4> QED
        BY <3>3, <4>1, AfterExecution
    <3>8. cmd.conf = LatestConf(p) /\ PlanClaims(p)' = x.claims
      BY <2>1, <3>3, <3>7
    <3>9. confs[cmd.conf].plan = p
      BY <2>3, <3>8, LatestAre
    <3>10. r \in confs[cmd.conf].res /\ \A d \in x.claims : d.id # c.id
      BY <2>4, <3>8
    <3>11. EndedBy(x, p, c)
      BY <2>4, <3>4, <3>6, <3>9, <3>10, ReconciledAway
    <3>12. execs' # execs /\ execs'[Len(execs')] = x
      BY <3>3, ExecAppended
    <3> QED
      BY <3>11, <3>12
  <2>7. CASE IsPlanning
    BY <2>2, <2>7, PlanningIs
  <2>8. CASE IsBroker
    BY <2>2, <2>8, BrokerStays
  <2>9. CASE IsRequest
    BY <2>2, <2>9 DEF IsRequest
  <2> QED
    BY <2>5, <2>6, <2>7, <2>8, <2>9, Steps
<1> QED
  BY <1>1, CommitmentsInvariant, PTL DEF Spec, ClaimsLeaveByProof

-----------------------------------------------------------------------------
(* What is confirmed is paid for.                                          *)

\* A sum over renamed elements is no larger than the sum over all names.
LEMMA SumRenamed ==
    ASSUME NEW D, IsFiniteSet(D), NEW T, IsFiniteSet(T), NEW f \in [D -> T],
           \A x, y \in D : f[x] = f[y] => x = y,
           NEW g, NEW h, \A y \in T : h[y] \in Nat, \A x \in D : g[x] = h[f[x]]
    PROVE  SumTo(g, D) <= SumTo(h, T)
<1>0. \A s \in SUBSET D : IsFiniteSet(s) /\ {f[x] : x \in s} \in SUBSET T
                          /\ \A x \in s : g[x] \in Nat
  <2> TAKE s \in SUBSET D
  <2>1. IsFiniteSet(s)
    BY FS_Subset
  <2>2. \A x \in s : g[x] \in Nat
    OBVIOUS
  <2> QED
    BY <2>1, <2>2
<1>1. \A u \in SUBSET T : IsFiniteSet(u) /\ SumTo(h, u) \in Nat
  <2> TAKE u \in SUBSET T
  <2>1. IsFiniteSet(u)
    BY FS_Subset
  <2> QED
    BY <2>1, SumType
<1>2. \A s \in SUBSET D : SumTo(g, s) \in Nat
  BY <1>0, SumType
<1>3. PICK B : B = {s \in SUBSET D : ~(SumTo(g, s) <= SumTo(h, {f[x] : x \in s}))}
  OBVIOUS
<1>4. B = {}
  <2>1. SUFFICES ASSUME B # {} PROVE FALSE
    OBVIOUS
  <2>2. B \subseteq SUBSET D
    BY <1>3
  <2>3. PICK s \in B : \A t \in B : ~(t \subseteq s /\ t # s)
    BY ONLY <2>1, <2>2, IsFiniteSet(D), SmallestSubset
  <2>4. s \in SUBSET D /\ ~(SumTo(g, s) <= SumTo(h, {f[x] : x \in s}))
    BY <1>3
  <2>5. s # {}
    <3>1. ASSUME s = {} PROVE FALSE
      <4>1. SumTo(g, {}) = 0
        BY SumAlong, FS_EmptySet
      <4>2. SumTo(h, {f[x] : x \in s}) \in Nat
        BY <1>0, <1>1, <2>4
      <4> QED
        BY <2>4, <3>1, <4>1, <4>2
    <3> QED
      BY <3>1
  <2>6. PICK e \in s : TRUE
    BY <2>5
  <2>7. PICK t, u, v : t = s \ {e} /\ u = {f[x] : x \in t} /\ v = {f[x] : x \in s}
    OBVIOUS
  <2>8. t \in SUBSET D /\ t \subseteq s /\ t # s
    BY <2>4, <2>7
  <2>9. SumTo(g, t) <= SumTo(h, u)
    BY <1>3, <2>3, <2>7, <2>8
  <2>10. f[e] \in v /\ u = v \ {f[e]} /\ v \in SUBSET T /\ u \in SUBSET T
    BY <2>4, <2>7
  <2>11. SumTo(g, s) = g[e] + SumTo(g, t)
    <3>1. \A x \in s : g[x] \in Int
      BY <1>0, <2>4
    <3>2. IsFiniteSet(s)
      BY <1>0, <2>4
    <3> QED
      BY <2>7, <3>1, <3>2, SumAny
  <2>12. SumTo(h, v) = h[f[e]] + SumTo(h, u)
    <3>1. \A y \in v : h[y] \in Int
      BY <2>10
    <3>2. IsFiniteSet(v)
      BY <1>1, <2>10
    <3> QED
      BY <2>10, <3>1, <3>2, SumAny
  <2>13. g[e] = h[f[e]] /\ g[e] \in Nat /\ SumTo(g, t) \in Nat /\ SumTo(h, u) \in Nat
    BY <1>0, <1>1, <1>2, <2>4, <2>8, <2>10
  <2> QED
    BY <2>4, <2>7, <2>9, <2>11, <2>12, <2>13
<1>5. SumTo(g, D) <= SumTo(h, {f[x] : x \in D})
  BY <1>3, <1>4
<1>6. SumTo(h, {f[x] : x \in D}) <= SumTo(h, T)
  BY <1>0, SumJoins
<1>7. SumTo(g, D) \in Nat /\ SumTo(h, {f[x] : x \in D}) \in Nat /\ SumTo(h, T) \in Nat
  BY <1>0, <1>1, <1>2
<1> QED
  BY <1>5, <1>6, <1>7

\* A claim whose orders the snapshot shows.
Shown(os, c) ==
    c.qty \in Nat /\ c.hold \in Nat /\ IsFiniteSet(c.orders) /\ c.orders \subseteq DOMAIN os

\* What a claim takes out of the trading cash; a new leg takes its cost.
LEMMA DeductionIs ==
    ASSUME NEW os, BookOK(os), NEW c, Shown(os, c)
    PROVE  /\ Deduction(os, c) \in Nat
           /\ c.hold = 0 /\ c.orders = {} => Deduction(os, c) = c.qty * PriceCap
<1>0. PriceCap \in Nat
  BY CommitmentConstants
<1>1. PICK f : f = [o \in c.orders |-> Left(os, o) * PriceCap]
  OBVIOUS
<1>2. DOMAIN f = c.orders /\ \A o \in c.orders : f[o] \in Nat
  <2>1. \A o \in c.orders : Left(os, o) \in Nat
    BY BookIs DEF Shown
  <2>2. \A n \in Nat : n * PriceCap \in Nat
    BY <1>0
  <2> QED
    BY <1>1, <2>1, <2>2
<1>3. PICK frozen : frozen = FrozenCash(os, c)
  OBVIOUS
<1>4. frozen = SumFunction(f)
  BY <1>1, <1>3, Zenon DEF FrozenCash
<1>5. frozen \in Nat
  BY <1>2, <1>4, SumNat DEF Shown
<1>6. PICK cost : cost = c.qty * PriceCap
  OBVIOUS
<1>7. cost \in Nat
  BY <1>0, <1>6 DEF Shown
<1>8. PICK n : n = cost + c.hold - frozen
  OBVIOUS
<1>9. n \in Int
  BY <1>5, <1>7, <1>8 DEF Shown
<1>10. Deduction(os, c) = Max({0, n})
  BY <1>3, <1>6, <1>8, Zenon DEF Deduction
<1>11. (Max({0, n}) = 0 \/ Max({0, n}) = n) /\ Max({0, n}) >= 0 /\ Max({0, n}) >= n
  BY <1>9, LargerOf
<1>12. Deduction(os, c) \in Nat
  BY <1>9, <1>10, <1>11
<1>13. ASSUME c.hold = 0, c.orders = {} PROVE Deduction(os, c) = cost
  <2>1. SumTo(f, {}) = 0
    BY SumAlong, FS_EmptySet
  <2>2. frozen = 0
    BY <1>2, <1>4, <1>13, <2>1, SumIsSumTo
  <2>3. n = cost
    BY <1>7, <1>8, <1>13, <2>2
  <2> QED
    BY <1>7, <1>10, <1>11, <2>3
<1> QED
  BY <1>6, <1>12, <1>13

\* Deductions are a sum over the claims.
LEMMA DeductionsAre ==
    ASSUME NEW os, NEW D, IsFiniteSet(D), \A c \in D : Deduction(os, c) \in Nat
    PROVE  \E g : /\ \A c \in D : g[c] = Deduction(os, c)
                  /\ \A A \in SUBSET D : Deductions(os, A) = SumTo(g, A)
<1>1. PICK g : g = [c \in D |-> Deduction(os, c)]
  OBVIOUS
<1>2. ASSUME NEW A \in SUBSET D PROVE Deductions(os, A) = SumTo(g, A)
  <2>1. PICK f : f = [c \in A |-> Deduction(os, c)]
    OBVIOUS
  <2>2. DOMAIN f = A /\ \A c \in A : f[c] = g[c]
    BY <1>1, <2>1
  <2>3. IsFiniteSet(A)
    BY FS_Subset
  <2>4. SumFunction(f) = SumTo(g, A)
    BY <2>2, <2>3, SumOf
  <2>5. Deductions(os, A) = SumFunction(f)
    BY <2>1, Zenon DEF Deductions
  <2> QED
    BY <2>4, <2>5
<1> QED
  BY <1>1, <1>2

\* The trading cash a snapshot shows.
LEMMA TradingCashIs ==
    ASSUME CInv, NEW os, BookOK(os)
    PROVE  TradingCash(os) \in Int
<1>1. PICK f : f = [o \in DOMAIN os |-> os[o].filled * FillPrice + Left(os, o) * PriceCap]
  OBVIOUS
<1>2. PriceCap \in Nat /\ FillPrice \in Nat
  BY CommitmentConstants
<1>3. \A m, n \in Nat : m * FillPrice + n * PriceCap \in Nat
  BY <1>2
<1>4. DOMAIN f = DOMAIN os /\ \A o \in DOMAIN os : f[o] \in Nat
  BY <1>1, <1>3, BookIs
<1>5. IsFiniteSet(DOMAIN os)
  BY BookIs
<1>6. SumFunction(f) \in Nat
  BY <1>4, <1>5, SumNat
<1>7. TradingCash(os) = within.cash - SumFunction(f)
  BY <1>1, Zenon DEF TradingCash
<1> QED
  BY <1>6, <1>7, WithinIs

\* New legs within what the other claims leave of the cash.
LEMMA CashCovers ==
    ASSUME CInv, NEW os, BookOK(os), NEW R, IsFiniteSet(R), \A c \in R : Shown(os, c),
           NEW K, IsFiniteSet(K), NEW D, IsFiniteSet(D), NEW q \in [D -> Nat],
           \A c \in K : /\ Shown(os, c) /\ c.hold = 0 /\ c.orders = {}
                        /\ c.sec \in D /\ c.qty = q[c.sec],
           \A b, c \in K : b.sec = c.sec => b = c,
           SumFunction([s \in DOMAIN q |-> q[s] * PriceCap]) <= Margin(os, R)
    PROVE  Deductions(os, R \cup K) <= TradingCash(os)
<1>0. PriceCap \in Nat
  BY CommitmentConstants
<1>1. PICK A : A = R \cup K
  OBVIOUS
<1>2. IsFiniteSet(A) /\ R \in SUBSET A /\ K \in SUBSET A
  BY <1>1, FS_Union
<1>3. \A c \in A : Deduction(os, c) \in Nat
  BY <1>1, DeductionIs
<1>4. PICK g : /\ \A c \in A : g[c] = Deduction(os, c)
               /\ \A S \in SUBSET A : Deductions(os, S) = SumTo(g, S)
  BY <1>2, <1>3, DeductionsAre
<1>5. \A c \in A : g[c] \in Nat
  BY <1>3, <1>4
<1>6. SumTo(g, R \cup K) <= SumTo(g, R) + SumTo(g, K)
  BY <1>2, <1>5, SumJoins
<1>7. PICK h : h = [s \in D |-> q[s] * PriceCap]
  OBVIOUS
<1>8. DOMAIN h = D /\ \A s \in D : h[s] = q[s] * PriceCap /\ h[s] \in Nat
  <2>1. \A n \in Nat : n * PriceCap \in Nat
    BY <1>0
  <2> QED
    BY <1>7, <2>1
<1>9. PICK f : f = [c \in K |-> c.sec]
  OBVIOUS
<1>10. f \in [K -> D] /\ \A b, c \in K : f[b] = f[c] => b = c
  BY <1>9
<1>11. \A c \in K : g[c] = h[f[c]]
  <2> TAKE c \in K
  <2>1. g[c] = Deduction(os, c) /\ f[c] = c.sec
    BY <1>1, <1>4, <1>9
  <2>2. Deduction(os, c) = c.qty * PriceCap
    BY DeductionIs
  <2> QED
    BY <1>8, <2>1, <2>2
<1>12. SumTo(g, K) <= SumTo(h, D)
  <2>1. \A s \in D : h[s] \in Nat
    BY <1>8
  <2> QED
    BY <1>10, <1>11, <2>1, SumRenamed
<1>13. SumTo(h, D) <= Margin(os, R)
  <2>1. DOMAIN q = D
    OBVIOUS
  <2>2. SumFunction(h) <= Margin(os, R)
    BY <1>7, <2>1, Zenon
  <2> QED
    BY <1>8, <2>2, SumIsSumTo
<1>14. Margin(os, R) = TradingCash(os) - SumTo(g, R)
  BY <1>2, <1>4 DEF Margin
<1>15. SumTo(g, R) \in Nat /\ SumTo(g, K) \in Nat /\ SumTo(g, A) \in Nat
  <2>1. ASSUME NEW S \in SUBSET A PROVE SumTo(g, S) \in Nat
    <3>1. IsFiniteSet(S) /\ \A c \in S : g[c] \in Nat
      BY <1>2, <1>5, FS_Subset
    <3> QED
      BY <3>1, SumType
  <2> QED
    BY <1>2, <2>1
<1>16. SumTo(h, D) \in Nat
  BY <1>8, SumType
<1>17. TradingCash(os) \in Int
  BY TradingCashIs
<1>18. SumTo(g, A) <= TradingCash(os)
  BY <1>1, <1>6, <1>12, <1>13, <1>14, <1>15, <1>16, <1>17
<1> QED
  BY <1>1, <1>2, <1>4, <1>18

\* One new leg adds its quantity, at most, to what an issuer is promised.
LEMMA ExposureGrows ==
    ASSUME NEW os, BookOK(os), NEW R, IsFiniteSet(R), \A c \in R : c.qty \in Nat,
           NEW K, IsFiniteSet(K), \A c \in K : c.orders = {} /\ c.qty \in Nat,
           \A b, c \in K : b.sec = c.sec => b = c, NEW k \in K
    PROVE  /\ Exposure(os, R \cup K, k.sec) <= Exposure(os, R, k.sec) + k.qty
           /\ Exposure(os, R \cup K, k.sec) \in Nat /\ Exposure(os, R, k.sec) \in Nat
<1>1. PICK s, A : s = k.sec /\ A = R \cup K
  OBVIOUS
<1>2. PICK bound : bound = UNION {c.orders : c \in R}
  OBVIOUS
<1>3. UNION {c.orders : c \in A} = bound
  BY <1>1, <1>2
<1>4. IsFiniteSet(A)
  BY <1>1, FS_Union
<1>5. PICK g : g = [c \in A |-> c.qty]
  OBVIOUS
<1>6. \A c \in A : g[c] = c.qty /\ g[c] \in Nat
  BY <1>1, <1>5
<1>7. ASSUME NEW S \in SUBSET A
      PROVE  /\ SumFunction([c \in S |-> c.qty]) = SumTo(g, S)
             /\ SumTo(g, S) \in Nat
  <2>1. PICK f : f = [c \in S |-> c.qty]
    OBVIOUS
  <2>2. IsFiniteSet(S)
    BY <1>4, FS_Subset
  <2>3. DOMAIN f = S /\ \A c \in S : f[c] = g[c] /\ g[c] \in Nat
    BY <1>6, <2>1
  <2>4. SumFunction(f) = SumTo(g, S)
    BY <2>2, <2>3, SumOf
  <2>5. SumTo(g, S) \in Nat
    BY <2>2, <2>3, SumType
  <2> QED
    BY <2>1, <2>4, <2>5
<1>8. PICK As, Rs, Ks : /\ As = {x \in A : x.sec = s} /\ Rs = {x \in R : x.sec = s}
                        /\ Ks = {x \in K : x.sec = s}
  OBVIOUS
<1>9. As = Rs \cup Ks /\ As \in SUBSET A /\ Rs \in SUBSET A /\ Ks \in SUBSET A /\ Ks = {k}
  BY <1>1, <1>8
<1>10. SumTo(g, As) <= SumTo(g, Rs) + SumTo(g, Ks)
  BY <1>4, <1>6, <1>9, SumJoins
<1>11. SumTo(g, Ks) = k.qty
  <2>1. PICK one : one = {k}
    OBVIOUS
  <2>2. IsFiniteSet(one)
    BY <2>1, FS_Singleton
  <2>3. \A x \in one : g[x] = k.qty /\ g[x] \in Int
    BY <1>1, <1>6, <2>1
  <2>4. SumTo(g, one) = g[k] + SumTo(g, one \ {k})
    <3>1. k \in one
      BY <2>1
    <3>2. \A x \in one : g[x] \in Int
      BY <2>3
    <3> QED
      BY <2>2, <3>1, <3>2, SumAny
  <2>5. one \ {k} = {} /\ one = Ks
    BY <1>9, <2>1
  <2>6. SumTo(g, {}) = 0
    BY SumAlong, FS_EmptySet
  <2>7. SumTo(g, one \ {k}) = 0
    BY <2>5, <2>6, Zenon
  <2>8. SumTo(g, Ks) = SumTo(g, one)
    BY <2>5, Zenon
  <2>9. g[k] = k.qty /\ k.qty \in Nat
    BY <1>1, <1>6
  <2> QED
    BY <2>4, <2>7, <2>8, <2>9
<1>12. PICK open2 : open2 = {x \in DOMAIN os \ bound : os[x].sec = s}
  OBVIOUS
<1>13. PICK loose : loose = SumFunction([o \in open2 |-> Left(os, o)])
  OBVIOUS
<1>14. loose \in Nat
  <2>1. PICK f : f = [o \in open2 |-> Left(os, o)]
    OBVIOUS
  <2>2. IsFiniteSet(open2)
    <3>1. IsFiniteSet(DOMAIN os) /\ open2 \in SUBSET DOMAIN os
      BY <1>12, BookIs
    <3> QED
      BY <3>1, FS_Subset
  <2>3. DOMAIN f = open2 /\ \A o \in open2 : f[o] \in Nat
    BY <1>12, <2>1, BookIs
  <2>4. SumFunction(f) \in Nat
    BY <2>2, <2>3, SumNat
  <2> QED
    BY <1>13, <2>1, <2>4
<1>15. PICK held : held = Held(os, s)
  OBVIOUS
<1>16. held \in Nat
  <2>1. PICK mine : mine = {x \in DOMAIN os : os[x].sec = s}
    OBVIOUS
  <2>2. PICK f : f = [o \in mine |-> os[o].filled]
    OBVIOUS
  <2>3. IsFiniteSet(mine)
    <3>1. IsFiniteSet(DOMAIN os) /\ mine \in SUBSET DOMAIN os
      BY <2>1, BookIs
    <3> QED
      BY <3>1, FS_Subset
  <2>4. DOMAIN f = mine /\ \A o \in mine : f[o] \in Nat
    BY <2>1, <2>2, BookIs
  <2>5. SumFunction(f) \in Nat
    BY <2>3, <2>4, SumNat
  <2>6. held = SumFunction(f)
    BY <1>15, <2>1, <2>2, Zenon DEF Held
  <2> QED
    BY <2>5, <2>6
<1>17. Exposure(os, A, s) = held + SumTo(g, As) + loose
  <2>1. Exposure(os, A, s) = held + SumFunction([c \in As |-> c.qty]) + loose
    BY <1>3, <1>8, <1>12, <1>13, <1>15, Zenon DEF Exposure
  <2> QED
    BY <1>7, <1>9, <2>1
<1>18. Exposure(os, R, s) = held + SumTo(g, Rs) + loose
  <2>1. Exposure(os, R, s) = held + SumFunction([c \in Rs |-> c.qty]) + loose
    BY <1>2, <1>8, <1>12, <1>13, <1>15, Zenon DEF Exposure
  <2> QED
    BY <1>7, <1>9, <2>1
<1>19. SumTo(g, As) \in Nat /\ SumTo(g, Rs) \in Nat /\ k.qty \in Nat
  BY <1>7, <1>9
<1> QED
  BY <1>1, <1>10, <1>11, <1>14, <1>16, <1>17, <1>18, <1>19

\* What a submission was replayed on.
LEMMA ReplayIs ==
    ASSUME CInv, NEW cmd, NEW others, cmd.plan \in DOMAIN plans, Replays(cmd, others),
           NEW os, os = snaps[Newest].orders, NEW R, R = Retained(cmd.plan),
           NEW D, D = SecuritiesOf(plans[cmd.plan].rel), NEW q, q = plans[cmd.plan].alloc
    PROVE  /\ BookOK(os) /\ IsFiniteSet(R) /\ \A c \in R : Shown(os, c)
           /\ IsFiniteSet(D) /\ q \in [D -> Nat]
           /\ SumFunction([s \in DOMAIN q |-> q[s] * PriceCap]) <= Margin(os, R)
           /\ \A s \in D : q[s] > 0 => Exposure(os, R, s) + q[s] <= Target[s]
<1>1. PICK r : r = plans[cmd.plan].rel
  OBVIOUS
<1>2. cmd.ver = Newest
  BY DEF Replays
<1>3. PICK b : b = Basis(r, os, R)
  OBVIOUS
<1>4. PICK e : e = (r \in snaps[cmd.ver].elig)
  OBVIOUS
<1>5. Planned(r, cmd.ver, cmd.plan, others, e) /\ Quantities(r, cmd.ver, b) = q
  BY <1>1, <1>2, <1>3, <1>4 DEF Replays
<1>6. Verified(q, b) /\ AllocationGates(cmd.ver, R, others, e)
  BY <1>2, <1>3, <1>5 DEF Planned
<1>7. b.cash = Margin(os, R) /\ b.own = [s \in D |-> Exposure(os, R, s)]
  BY <1>1, <1>3 DEF Basis
<1>8. DOMAIN b.own = D /\ \A s \in D : b.own[s] = Exposure(os, R, s)
  BY <1>7
<1>9. q \in [D -> Nat]
  BY <1>6, <1>8 DEF Verified
<1>10. SumFunction([s \in DOMAIN q |-> q[s] * PriceCap]) <= Margin(os, R)
  BY <1>6, <1>7 DEF Verified
<1>11. \A s \in D : q[s] > 0 => Exposure(os, R, s) + q[s] <= Target[s]
  BY <1>6, <1>8, <1>9 DEF Verified
<1>12. BookOK(os)
  <2>1. DOMAIN snaps = 1 .. Newest /\ Newest \in Nat /\ Newest > 0
    BY Indices DEF CInv, BrokerOK, Newest
  <2>2. Newest \in DOMAIN snaps
    BY <2>1
  <2> QED
    BY <2>2 DEF CInv, BrokerOK
<1>13. \A c \in R : Shown(os, c)
  <2> TAKE c \in R
  <2>1. UNION {d.orders : d \in R} \subseteq Unfinished(os)
    BY <1>2, <1>6 DEF AllocationGates
  <2>2. c.orders \subseteq DOMAIN os
    BY <2>1 DEF Unfinished
  <2>3. c.qty \in Nat /\ c.hold \in Nat /\ IsFiniteSet(c.orders)
    BY RetainedAre
  <2> QED
    BY <2>2, <2>3 DEF Shown
<1>14. IsFiniteSet(R) /\ IsFiniteSet(D)
  BY RetainedAre, CandidatesAre
<1> QED
  BY <1>9, <1>10, <1>11, <1>12, <1>13, <1>14

\* After a confirmation of one plan, all claims are its legs and the claims of
\* the other plans.
LEMMA RetainedAfter ==
    ASSUME CInv, NEW y, confs' = Append(confs, y), UNCHANGED <<plans, execs>>,
           y.plan \in DOMAIN plans
    PROVE  Retained(0)' = Retained(y.plan) \cup y.res
<1>1. DOMAIN plans = 1 .. Len(plans) /\ DOMAIN plans' = DOMAIN plans
  BY Indices DEF CInv, PlansOK
<1>2. \A p : PlanClaims(p)' = IF y.plan = p THEN y.res ELSE PlanClaims(p)
  BY AfterConfirm
<1>3. DOMAIN plans \ {0} = DOMAIN plans
  BY <1>1
<1>4. Retained(0)' = UNION {PlanClaims(p)' : p \in DOMAIN plans}
  BY <1>1, <1>3 DEF Retained
<1>5. PICK F : F = [p \in DOMAIN plans |-> IF y.plan = p THEN y.res ELSE PlanClaims(p)]
  OBVIOUS
<1>6. Retained(0)' = UNION {F[p] : p \in DOMAIN plans}
  BY <1>2, <1>4, <1>5
<1>7. \A p \in DOMAIN plans : F[p] = IF y.plan = p THEN y.res ELSE PlanClaims(p)
  BY <1>5
<1>8. PICK G : G = Retained(y.plan)
  OBVIOUS
<1>9. \A c : c \in G <=> \E p \in DOMAIN plans \ {y.plan} : c \in PlanClaims(p)
  BY <1>8 DEF Retained
<1>10. \A c : c \in Retained(0)' <=> c \in G \cup y.res
  BY <1>6, <1>7, <1>9
<1> QED
  BY <1>8, <1>10

\* Right after a submission the cash the newest snapshot shows pays for every
\* claim of every plan, and no issuer of a submitted leg is promised more than
\* its entry target (adjudicate_candidate_confirmation replays the allocation
\* inside the commit transaction).
THEOREM ConfirmedIsCoveredTheorem == Spec => ConfirmedIsCovered
<1>1. CInv /\ [Next]_vars =>
      [Submitted =>
        LET os == snaps[Newest].orders IN
        /\ Deductions(os, Retained(0)') <= TradingCash(os)
        /\ \A c \in confs'[Len(confs')].res :
               Exposure(os, Retained(0)', c.sec) <= Target[c.sec]]_vars
  <2> SUFFICES ASSUME CInv, Next, Submitted, NEW os, os = snaps[Newest].orders
               PROVE  /\ Deductions(os, Retained(0)') <= TradingCash(os)
                      /\ \A c \in confs'[Len(confs')].res :
                             Exposure(os, Retained(0)', c.sec) <= Target[c.sec]
    BY Zenon
  <2>1. ~UNCHANGED confs
    BY DEF Submitted
  <2>2. IsConfirmation
    <3>1. ~IsPlanning
      BY <2>1, PlanningIs
    <3>2. ~IsBroker
      BY <2>1, BrokerStays
    <3>3. ~IsRequest
      BY <2>1 DEF IsRequest
    <3>4. ~IsExecution
      <4>1. SUFFICES ASSUME IsExecution PROVE FALSE
        OBVIOUS
      <4>2. PICK cmd : \E others \in {unsure, unsure \ {cmd}} :
                cmd.kind # "confirm" /\ CommandOK(cmd) /\ DecideExecution(cmd, others)
        BY <4>1, Zenon DEF IsExecution
      <4>3. PICK others : cmd.kind # "confirm" /\ CommandOK(cmd) /\ DecideExecution(cmd, others)
        BY <4>2
      <4> QED
        BY <2>1, <4>3, Executes
    <3> QED
      BY <3>1, <3>2, <3>3, <3>4, Steps
  <2>3. PICK cmd : \E others \in {unsure, unsure \ {cmd}} :
            cmd.kind = "confirm" /\ CommandOK(cmd) /\ Confirm(cmd, others)
    BY <2>2, Zenon DEF IsConfirmation
  <2>4. PICK others : cmd.kind = "confirm" /\ CommandOK(cmd) /\ Confirm(cmd, others)
    BY <2>3
  <2>5. PICK n : n = Len(confs) + 1
    OBVIOUS
  <2>6. PICK y : /\ confs' = Append(confs, y)
                 /\ y.plan = cmd.plan /\ y.op = cmd.op
                 /\ y.res = Kept(cmd, n)
                 /\ cmd.op = "SUBMIT" => Replays(cmd, others)
                 /\ UNCHANGED <<plans, execs>>
    BY <2>4, <2>5, ConfirmIs
  <2>7. confs'[Len(confs')] = y
    BY <2>6, ConfAppended
  <2>8. Replays(cmd, others)
    BY <2>6, <2>7 DEF Submitted
  <2>9. PICK p : p = cmd.plan
    OBVIOUS
  <2>10. PICK R, K, D, q : /\ R = Retained(p) /\ K = Kept(cmd, n)
                           /\ D = SecuritiesOf(plans[p].rel) /\ q = plans[p].alloc
    OBVIOUS
  <2>11. LegsOK(K, p, n) /\ p \in DOMAIN plans
    BY <2>4, <2>5, <2>9, <2>10, KeptIs
  <2>12. /\ BookOK(os) /\ IsFiniteSet(R) /\ \A c \in R : Shown(os, c)
         /\ IsFiniteSet(D) /\ q \in [D -> Nat]
         /\ SumFunction([s \in DOMAIN q |-> q[s] * PriceCap]) <= Margin(os, R)
         /\ \A s \in D : q[s] > 0 => Exposure(os, R, s) + q[s] <= Target[s]
    BY <2>8, <2>9, <2>10, <2>11, ReplayIs
  <2>13. /\ IsFiniteSet(K)
         /\ \A r \in K : /\ r.qty = q[r.sec] /\ r.qty \in Nat /\ r.qty > 0
                         /\ r.hold = 0 /\ r.orders = {}
                         /\ r.sec \in Positive(p)
    <3>1. n \in Nat
      <4>1. Len(confs) \in Nat
        BY Indices DEF CInv, ConfsOK
      <4> QED
        BY <2>5, <4>1
    <3>2. PlansOK
      BY DEF CInv
    <3> QED
      BY <2>10, <2>11, <3>1, <3>2, LegsAre
  <2>14. \A b, c \in K : b.sec = c.sec => b = c
    BY <2>11 DEF LegsOK
  <2>15. \A c \in K : /\ Shown(os, c) /\ c.hold = 0 /\ c.orders = {}
                      /\ c.sec \in D /\ c.qty = q[c.sec]
    <3> TAKE c \in K
    <3>1. c.qty = q[c.sec] /\ c.qty \in Nat /\ c.hold = 0 /\ c.orders = {}
          /\ c.sec \in Positive(p)
      BY <2>13
    <3>2. IsFiniteSet(c.orders)
      BY <3>1, FS_EmptySet
    <3>3. c.sec \in D
      BY <2>10, <2>12, <3>1 DEF Positive
    <3> QED
      BY <3>1, <3>2, <3>3 DEF Shown
  <2>16. Retained(0)' = R \cup K
    BY <2>6, <2>9, <2>10, <2>11, RetainedAfter
  <2>17. Deductions(os, R \cup K) <= TradingCash(os)
    BY <2>12, <2>13, <2>14, <2>15, CashCovers
  <2>18. ASSUME NEW c \in K PROVE Exposure(os, R \cup K, c.sec) <= Target[c.sec]
    <3>1. /\ Exposure(os, R \cup K, c.sec) <= Exposure(os, R, c.sec) + c.qty
          /\ Exposure(os, R \cup K, c.sec) \in Nat /\ Exposure(os, R, c.sec) \in Nat
      <4>1. \A x \in R : x.qty \in Nat
        BY <2>12 DEF Shown
      <4>2. \A x \in K : x.orders = {} /\ x.qty \in Nat
        BY <2>13
      <4> QED
        BY <2>12, <2>13, <2>14, <4>1, <4>2, ExposureGrows
    <3>2. c.sec \in D /\ c.qty = q[c.sec] /\ c.qty \in Nat /\ c.qty > 0
      BY <2>13, <2>15
    <3>3. Exposure(os, R, c.sec) + c.qty <= Target[c.sec]
      BY <2>12, <3>2
    <3>4. Target[c.sec] \in Nat
      <4>1. D \subseteq Securities
        BY <2>10, CandidatesAre
      <4> QED
        BY <3>2, <4>1, CommitmentConstants
    <3> QED
      BY <3>1, <3>2, <3>3, <3>4
  <2>19. confs'[Len(confs')].res = K
    BY <2>6, <2>7, <2>10
  <2>20. ASSUME NEW Z, Z = Retained(0)'
         PROVE  /\ Deductions(os, Z) <= TradingCash(os)
                /\ \A c \in K : Exposure(os, Z, c.sec) <= Target[c.sec]
    BY <2>16, <2>17, <2>18, <2>20
  <2> QED
    BY <2>19, <2>20
<1> QED
  BY <1>1, CommitmentsInvariant, PTL DEF Spec, ConfirmedIsCovered

=============================================================================
