-------------------------- MODULE PortfolioProofs --------------------------
(***************************************************************************)
(* What the modules of the portfolio's capital and of its monitoring       *)
(* guarantee.                                                              *)
(*                                                                         *)
(* PortfolioProtection, for every set of portfolios, scopes, budgets and   *)
(* prices, and for every number of authorizations, fills, corrections and  *)
(* assessments: which authorization was in force, and the obligation to    *)
(* sell.  MonitoringCases, for every set of securities, handoffs and       *)
(* requests: what may be confirmed is what is shown, a conclusion has one  *)
(* window and one chain of reminders, and no assessment weakens the        *)
(* targets of the ones before it.                                          *)
(***************************************************************************)
EXTENDS PortfolioProtection, MonitoringCases,
        FiniteSetTheorems, WellFoundedInduction, TLAPS

(***************************************************************************)
(* Authorizations and obligations: PortfolioProtection.                    *)
(***************************************************************************)

-----------------------------------------------------------------------------
(* The inductive invariant.                                                *)

IsSeq(s) == s \in Seq({s[i] : i \in DOMAIN s})

(* Histories are sequences, and what they date is in the past. *)
Dated ==
    /\ bound \in Cases
    /\ now \in Nat
    /\ IsSeq(ledger) /\ IsSeq(auths) /\ IsSeq(stress)
    /\ \A i \in DOMAIN ledger : ledger[i].at \in Nat /\ ledger[i].at <= now
    /\ \A i \in DOMAIN auths : auths[i].eff \in Nat /\ auths[i].budget \in bound.budgets
    /\ \A i \in DOMAIN stress : stress[i].cutoff \in Nat /\ stress[i].cutoff <= now

(* An authorization is the newest of its portfolio, or it has a successor  *)
(* that takes effect before every other later one.                         *)
Succeeded(i) ==
    \E k \in Lineage(auths[i].portfolio) :
        /\ k > i /\ auths[k].prev = i
        /\ \A j \in Lineage(auths[i].portfolio) : j > i => auths[k].eff <= auths[j].eff
Newest(i) == \A j \in Lineage(auths[i].portfolio) : j <= i

(* The authorizations of a portfolio are one chain. *)
Chained ==
    \A i \in DOMAIN auths :
        /\ auths[i].prev \in 0 .. (i - 1)
        /\ Newest(i) \/ Succeeded(i)
        /\ \E m \in Lineage(auths[i].portfolio) : Newest(m)

Obligations ==
    {NoObligation} \cup
    [status : {"OUTSTANDING", "SATISFIED"}, target : Int, trigger : Nat,
     fills : SUBSET Nat, corrections : SUBSET Nat]

(* What a stress record carries; only an assessment is ever calm. *)
Recorded ==
    \A i \in DOMAIN stress :
        /\ stress[i].portfolio \in bound.portfolios
        /\ stress[i].obligation \in Obligations
        /\ stress[i].denied \in BOOLEAN
        /\ stress[i].state = "NORMAL" => ~stress[i].denied

(* Assessments of a portfolio go forward in time. *)
Forwarded ==
    \A i, j \in DOMAIN stress :
        (i < j /\ stress[i].portfolio = stress[j].portfolio
         /\ ~stress[i].denied /\ ~stress[j].denied) => stress[i].cutoff < stress[j].cutoff

(* The sales that settled an obligation stand at the instant they did. *)
SalesStand ==
    \A i \in DOMAIN stress :
        (~stress[i].denied /\ stress[i].obligation.status = "SATISFIED")
           => SoldFor(stress[i].obligation, stress[i].cutoff)

(* An obligation outstanding is carried on by the assessment that follows. *)
CarriedOn ==
    \A i, j \in DOMAIN stress :
        (/\ i < j /\ stress[i].portfolio = stress[j].portfolio
         /\ ~stress[i].denied /\ ~stress[j].denied
         /\ stress[i].obligation.status = "OUTSTANDING"
         /\ \A k \in DOMAIN stress :
               (i < k /\ k < j /\ stress[k].portfolio = stress[i].portfolio) => stress[k].denied)
           => CarriedBy(stress[j].obligation, stress[i].obligation)

PInv == Dated /\ Chained /\ Recorded /\ Forwarded /\ SalesStand /\ CarriedOn

-----------------------------------------------------------------------------
(* Sequences and the last of a set of indices.                             *)

\* A history and what appending one record makes of it.
LEMMA Appended ==
    ASSUME NEW s, IsSeq(s), NEW x, NEW u, u = Append(s, x)
    PROVE  /\ IsSeq(u)
           /\ Len(s) \in Nat /\ Len(u) = Len(s) + 1
           /\ DOMAIN s = 1 .. Len(s) /\ DOMAIN u = 1 .. Len(u)
           /\ \A i \in DOMAIN s : u[i] = s[i]
           /\ u[Len(u)] = x
<1>1. PICK S : S = {s[i] : i \in DOMAIN s}
  OBVIOUS
<1>2. s \in Seq(S \cup {x})
  <2>1. s \in Seq(S)
    BY <1>1 DEF IsSeq
  <2> QED
    BY <2>1
<1>3. u \in Seq(S \cup {x}) /\ Len(u) = Len(s) + 1 /\ Len(s) \in Nat
  BY <1>2
<1>4. DOMAIN s = 1 .. Len(s) /\ DOMAIN u = 1 .. Len(u)
  BY <1>2, <1>3
<1>5. (\A i \in DOMAIN s : u[i] = s[i]) /\ u[Len(u)] = x
  BY <1>2, <1>3
<1>6. IsSeq(u)
  <2>1. PICK n \in Nat : n = Len(u)
    BY <1>3
  <2>2. PICK R : R = {u[i] : i \in DOMAIN u}
    OBVIOUS
  <2>3. \A i \in 1 .. n : u[i] \in R
    BY <1>4, <2>1, <2>2
  <2>4. PICK Z : Z = S \cup {x}
    OBVIOUS
  <2>5. u \in Seq(Z) /\ n = Len(u)
    BY <1>3, <2>1, <2>4
  <2>6. u \in [1 .. n -> Z]
    BY ONLY <2>5
  <2>7. u \in [1 .. n -> R]
    BY ONLY <2>3, <2>6
  <2>8. u \in Seq(R)
    BY ONLY <2>7, n \in Nat
  <2> QED
    BY <2>2, <2>8 DEF IsSeq
<1> QED
  BY <1>3, <1>4, <1>5, <1>6

\* A history's indices.
LEMMA Indices ==
    ASSUME NEW s, IsSeq(s)
    PROVE  DOMAIN s = 1 .. Len(s) /\ Len(s) \in Nat
BY DEF IsSeq

\* A nonempty set of indices has a last one.
LEMMA LastOf ==
    ASSUME NEW n \in Nat, NEW S, S \subseteq 1 .. n, S # {}
    PROVE  Max(S) \in S /\ \A y \in S : y <= Max(S)
<1>1. PICK T : T = {n - x : x \in S}
  OBVIOUS
<1>2. T \in SUBSET Nat /\ T # {}
  <2>1. \A x \in S : n - x \in Nat
    OBVIOUS
  <2> QED
    BY <1>1, <2>1
<1>3. PICK m \in T : \A y \in T : ~(<<y, m>> \in OpToRel(<, Nat))
  BY <1>2, NatLessThanWellFounded, WFMin, Zenon
<1>4. \A y \in T : ~(y < m)
  BY <1>2, <1>3 DEF OpToRel
<1>5. PICK x \in S : m = n - x
  BY <1>1
<1>6. \A y \in S : x >= y
  <2> SUFFICES ASSUME NEW y \in S PROVE x >= y
    OBVIOUS
  <2>1. n - y \in T
    BY <1>1
  <2>2. ~(n - y < n - x)
    BY <1>4, <1>5, <2>1
  <2>3. x \in Int /\ y \in Int
    OBVIOUS
  <2> QED
    BY <2>2, <2>3
<1>7. PICK z : z = Max(S)
  OBVIOUS
<1>8. z \in S /\ \A y \in S : z >= y
  BY <1>6, <1>7, Zenon DEF Max
<1>9. \A y \in S : y <= z
  <2> SUFFICES ASSUME NEW y \in S PROVE y <= z
    OBVIOUS
  <2>1. z >= y /\ z \in Int /\ y \in Int
    BY <1>8
  <2> QED
    BY <2>1
<1> QED
  BY <1>7, <1>8, <1>9

\* The smaller of two numbers.
LEMMA SmallerOf ==
    ASSUME NEW a \in Int, NEW b \in Int
    PROVE  Min({a, b}) \in Int /\ Min({a, b}) <= a /\ Min({a, b}) <= b
<1>1. \E x \in {a, b} : \A y \in {a, b} : x =< y
  BY SMT
<1>2. PICK z : z = Min({a, b})
  OBVIOUS
<1>3. z \in {a, b} /\ \A y \in {a, b} : z =< y
  BY <1>1, <1>2, Zenon DEF Min
<1> QED
  BY <1>2, <1>3

-----------------------------------------------------------------------------
(* Authorizations.                                                         *)

\* A single leaf is the leaf.
LEMMA LeafIs ==
    ASSUME NEW S, NEW m, Leaves(S) = {m}
    PROVE  Leaf(S) = m
<1>1. Cardinality(Leaves(S)) = 1
  BY FS_Singleton
<1> QED
  BY <1>1 DEF Leaf

\* A leaf that is an authorization has no successor in the set.
LEMMA LeafIsLast ==
    ASSUME NEW S, NEW a, a # 0, Leaf(S) = a
    PROVE  a \in Leaves(S)
<1>1. Cardinality(Leaves(S)) = 1 /\ a = CHOOSE i \in Leaves(S) : TRUE
  BY DEF Leaf
<1>2. Leaves(S) # {}
  BY <1>1, FS_EmptySet
<1> QED
  BY <1>1, <1>2

\* No leaf but zero, where there is nothing.
LEMMA LeafOfNone == Leaf({}) = 0
<1>1. Leaves({}) = {}
  BY DEF Leaves
<1>2. Cardinality({}) = 0
  BY FS_EmptySet
<1> QED
  BY <1>1, <1>2 DEF Leaf

\* The newest authorization of a portfolio is the one current one.
LEMMA NewestIsLeaf ==
    ASSUME Dated, Chained, NEW p, NEW m \in Lineage(p), Newest(m)
    PROVE  Leaf(Lineage(p)) = m
<1>1. DOMAIN auths = 1 .. Len(auths) /\ Len(auths) \in Nat
  BY Indices DEF Dated
<1>2. auths[m].portfolio = p /\ m \in DOMAIN auths /\ \A j \in Lineage(p) : j <= m
  BY DEF Lineage, Newest
<1>3. m \in Leaves(Lineage(p))
  <2> SUFFICES ASSUME NEW j \in Lineage(p), auths[j].prev = m PROVE FALSE
    BY DEF Leaves
  <2>1. m \in 0 .. (j - 1) /\ j \in DOMAIN auths
    BY DEF Chained, Lineage
  <2> QED
    BY <1>1, <1>2, <2>1
<1>4. ASSUME NEW i \in Leaves(Lineage(p)) PROVE i = m
  <2>1. i \in DOMAIN auths /\ auths[i].portfolio = p /\ i \in Lineage(p)
        /\ \A j \in Lineage(p) : auths[j].prev # i
    BY DEF Leaves, Lineage
  <2>2. ~Succeeded(i)
    BY <2>1 DEF Succeeded
  <2>3. Newest(i)
    BY <2>1, <2>2 DEF Chained
  <2>4. m <= i
    BY <2>1, <2>3 DEF Newest
  <2> QED
    BY <1>1, <1>2, <2>1, <2>4
<1>5. Leaves(Lineage(p)) = {m}
  BY <1>3, <1>4
<1> QED
  BY <1>5, LeafIs

\* What a confirmation finds current is the newest of its portfolio.
LEMMA CurrentIsNewest ==
    ASSUME Dated, Chained, NEW p
    PROVE  /\ Leaf(Lineage(p)) = 0 => Lineage(p) = {}
           /\ Leaf(Lineage(p)) # 0 => /\ Leaf(Lineage(p)) \in Lineage(p)
                                      /\ Newest(Leaf(Lineage(p)))
<1>1. CASE Lineage(p) = {}
  BY <1>1, LeafOfNone
<1>2. ASSUME NEW i \in Lineage(p)
      PROVE  /\ Leaf(Lineage(p)) \in Lineage(p) /\ Newest(Leaf(Lineage(p)))
             /\ Leaf(Lineage(p)) # 0
  <2>1. i \in DOMAIN auths /\ auths[i].portfolio = p
    BY DEF Lineage
  <2>2. PICK m \in Lineage(p) : Newest(m)
    BY <2>1 DEF Chained
  <2>3. Leaf(Lineage(p)) = m
    BY <2>2, NewestIsLeaf
  <2>4. m # 0
    <3>1. m \in DOMAIN auths
      BY DEF Lineage
    <3>2. DOMAIN auths = 1 .. Len(auths) /\ Len(auths) \in Nat
      BY Indices DEF Dated
    <3> QED
      BY <3>1, <3>2
  <2> QED
    BY <2>2, <2>3, <2>4
<1> QED
  BY <1>1, <1>2

\* An authorization that is active among all that is retained has no later one
\* of its portfolio in effect.
LEMMA ActiveIsCurrent ==
    ASSUME Dated, Chained, NEW p, NEW a \in Lineage(p), IsActive(Lineage(p), a),
           NEW i \in Lineage(p), i > a
    PROVE  auths[i].eff > now
<1>1. DOMAIN auths = 1 .. Len(auths) /\ Len(auths) \in Nat
  BY Indices DEF Dated
<1>2. a \in DOMAIN auths /\ auths[a].portfolio = p /\ i \in DOMAIN auths
  BY DEF Lineage
<1>3. a # 0
  BY <1>1, <1>2
<1>4. a \in Leaves(Effective(Lineage(p), now))
  BY <1>3, LeafIsLast DEF IsActive
<1>5. ~Newest(a)
  BY <1>1, <1>2 DEF Newest
<1>6. PICK k \in Lineage(p) : auths[k].prev = a /\ auths[k].eff <= auths[i].eff
  BY <1>2, <1>5 DEF Chained, Succeeded
<1>7. k \in DOMAIN auths
  BY DEF Lineage
<1>8. ~(auths[k].eff <= now)
  BY <1>4, <1>6 DEF Leaves, Effective
<1>9. auths[k].eff \in Nat /\ auths[i].eff \in Nat /\ now \in Nat
  BY <1>2, <1>7 DEF Dated
<1> QED
  BY <1>6, <1>8, <1>9

-----------------------------------------------------------------------------
(* Steps that leave a history alone, and reports.                          *)

\* The chain depends on the authorizations alone.
LEMMA ChainStays ==
    ASSUME Chained, auths' = auths
    PROVE  Chained'
BY DEF Chained, Newest, Succeeded, Lineage

\* Stress records stay what they were.
LEMMA RecordsStay ==
    ASSUME Recorded, Forwarded, stress' = stress, bound' = bound
    PROVE  Recorded' /\ Forwarded'
BY DEF Recorded, Forwarded

(* A ledger to which at most one entry of the next instant was added. *)
LedgerGrows ==
    \/ ledger' = ledger
    \/ \E x : ledger' = Append(ledger, x) /\ x.at = now + 1

\* What was reported by an instant that has passed never changes.
LEMMA ReportedStays ==
    ASSUME Dated, LedgerGrows, NEW t \in Nat, t <= now
    PROVE  Reported(t)' = Reported(t) /\ \A i \in Reported(t) : ledger'[i] = ledger[i]
<1>1. now \in Nat /\ IsSeq(ledger)
  BY DEF Dated
<1>2. CASE ledger' = ledger
  BY <1>2 DEF Reported
<1>3. ASSUME NEW x, ledger' = Append(ledger, x), x.at = now + 1
      PROVE  Reported(t)' = Reported(t) /\ \A i \in Reported(t) : ledger'[i] = ledger[i]
  <2>1. PICK l, n : l = ledger' /\ n = Len(ledger)
    OBVIOUS
  <2>2. /\ n \in Nat /\ DOMAIN ledger = 1 .. n /\ DOMAIN l = 1 .. (n + 1)
        /\ \A i \in DOMAIN ledger : l[i] = ledger[i]
        /\ l[n + 1] = x
    BY <1>1, <1>3, <2>1, Appended
  <2>3. ~(l[n + 1].at <= t)
    BY <1>1, <1>3, <2>2
  <2>4. Reported(t)' = {i \in DOMAIN l : l[i].at <= t}
    BY <2>1 DEF Reported
  <2>5. Reported(t) = {i \in DOMAIN ledger : ledger[i].at <= t}
    BY DEF Reported
  <2>6. \A i \in 1 .. (n + 1) : i \in 1 .. n \/ i = n + 1
    BY <2>2
  <2>7. \A i \in 1 .. n : i \in 1 .. (n + 1)
    BY <2>2
  <2>8. {i \in DOMAIN l : l[i].at <= t} = {i \in DOMAIN ledger : ledger[i].at <= t}
    BY <2>2, <2>3, <2>6, <2>7, Zenon
  <2> QED
    BY <2>1, <2>2, <2>4, <2>5, <2>8
<1> QED
  BY <1>2, <1>3 DEF LedgerGrows

\* Nor does what a fill came to by then.
LEMMA NetStays ==
    ASSUME Dated, LedgerGrows, NEW t \in Nat, t <= now, NEW f
    PROVE  NetQuantity(f, t)' = NetQuantity(f, t)
<1>1. PICK R, l, m : R = Reported(t) /\ l = ledger /\ m = ledger'
  OBVIOUS
<1>2. Reported(t)' = R /\ \A i \in R : m[i] = l[i]
  BY <1>1, ReportedStays
<1>3. Quantities(f, t) = [j \in {k \in R : k = f \/ l[k].root = f} |-> l[j].qty]
  BY <1>1 DEF Quantities
<1>4. Quantities(f, t)' = [j \in {k \in R : k = f \/ m[k].root = f} |-> m[j].qty]
  BY <1>1, <1>2 DEF Quantities
<1>5. {k \in R : k = f \/ l[k].root = f} = {k \in R : k = f \/ m[k].root = f}
  BY <1>2
<1>6. [j \in {k \in R : k = f \/ l[k].root = f} |-> l[j].qty]
        = [j \in {k \in R : k = f \/ m[k].root = f} |-> m[j].qty]
  BY <1>2, <1>5
<1>7. Quantities(f, t)' = Quantities(f, t)
  BY <1>3, <1>4, <1>6
<1> QED
  BY <1>7 DEF NetQuantity

\* So sales that settled an obligation still stand at the instant they did.
LEMMA SoldStays ==
    ASSUME Dated, LedgerGrows, NEW o, NEW t \in Nat, t <= now, SoldFor(o, t)
    PROVE  SoldFor(o, t)'
<1>1. PICK f \in Reported(t) :
        ledger[f].root = 0 /\ ledger[f].occurred > o.trigger /\ NetQuantity(f, t) < 0
  BY DEF SoldFor
<1>2. f \in Reported(t)' /\ ledger'[f] = ledger[f]
  BY ReportedStays
<1>3. NetQuantity(f, t)' < 0
  BY <1>1, NetStays
<1> QED
  BY <1>1, <1>2, <1>3 DEF SoldFor

\* Obligations stand through a step that adds no stress record.
LEMMA ObligationsStay ==
    ASSUME Dated, SalesStand, CarriedOn, LedgerGrows, stress' = stress
    PROVE  SalesStand' /\ CarriedOn'
<1>1. CarriedOn'
  BY DEF CarriedOn, CarriedBy
<1>2. ASSUME NEW i \in DOMAIN stress, ~stress[i].denied,
             stress[i].obligation.status = "SATISFIED"
      PROVE  SoldFor(stress[i].obligation, stress[i].cutoff)'
  <2>1. PICK o, t : o = stress[i].obligation /\ t = stress[i].cutoff
    OBVIOUS
  <2>2. SoldFor(o, t) /\ t \in Nat /\ t <= now
    BY <1>2, <2>1 DEF SalesStand, Dated
  <2>3. SoldFor(o, t)'
    BY <2>2, SoldStays
  <2> QED
    BY <2>1, <2>3 DEF SoldFor
<1>3. SalesStand'
  BY <1>2 DEF SalesStand
<1> QED
  BY <1>1, <1>3

\* Prices, fills and corrections keep the invariant.
LEMMA ReportKeeps ==
    ASSUME PInv, NEW price, NEW qty, NEW root, NEW occurred,
           Report(price, qty, root, occurred)
    PROVE  PInv'
<1>1. /\ now' = now + 1 /\ bound' = bound /\ auths' = auths /\ stress' = stress
      /\ LedgerGrows
  <2>1. now' = now + 1 /\ bound' = bound /\ auths' = auths /\ stress' = stress
    BY DEF Report
  <2>2. ledger' = ledger \/ \E cash : ledger' = Append(ledger, [qty |-> qty, cash |-> cash,
                                     root |-> root, occurred |-> occurred, at |-> now + 1])
    BY DEF Report
  <2>3. ASSUME NEW cash, ledger' = Append(ledger, [qty |-> qty, cash |-> cash,
                                     root |-> root, occurred |-> occurred, at |-> now + 1])
        PROVE  LedgerGrows
    <3>1. PICK x : x = [qty |-> qty, cash |-> cash, root |-> root, occurred |-> occurred,
                        at |-> now + 1]
      OBVIOUS
    <3>2. ledger' = Append(ledger, x) /\ x.at = now + 1
      BY <2>3, <3>1
    <3> QED
      BY <3>2 DEF LedgerGrows
  <2>4. LedgerGrows
    BY <2>2, <2>3 DEF LedgerGrows
  <2> QED
    BY <2>1, <2>4
<1>2. now \in Nat /\ IsSeq(ledger)
      /\ \A i \in DOMAIN ledger : ledger[i].at \in Nat /\ ledger[i].at <= now
  BY DEF PInv, Dated
<1>3. IsSeq(ledger') /\ \A i \in DOMAIN ledger' : ledger'[i].at \in Nat /\ ledger'[i].at <= now + 1
  <2>1. CASE ledger' = ledger
    BY <1>2, <2>1
  <2>2. ASSUME NEW x, ledger' = Append(ledger, x), x.at = now + 1
        PROVE  IsSeq(ledger') /\ \A i \in DOMAIN ledger' : ledger'[i].at \in Nat
                                                           /\ ledger'[i].at <= now + 1
    <3>1. PICK l, n : l = ledger' /\ n = Len(ledger)
      OBVIOUS
    <3>0. IsSeq(ledger) /\ l = Append(ledger, x)
      BY <1>2, <2>2, <3>1
    <3>2. /\ IsSeq(l) /\ n \in Nat /\ DOMAIN ledger = 1 .. n /\ DOMAIN l = 1 .. (n + 1)
          /\ \A i \in DOMAIN ledger : l[i] = ledger[i]
          /\ l[n + 1] = x
      <4>1. /\ Len(ledger) \in Nat /\ Len(l) = Len(ledger) + 1
            /\ DOMAIN ledger = 1 .. Len(ledger) /\ DOMAIN l = 1 .. Len(l)
            /\ \A i \in DOMAIN ledger : l[i] = ledger[i]
            /\ l[Len(l)] = x
        BY ONLY <3>0, Appended
      <4>2. IsSeq(l)
        BY ONLY <3>0, Appended
      <4> QED
        BY <3>1, <4>1, <4>2
    <3>3. \A i \in 1 .. (n + 1) : i \in 1 .. n \/ i = n + 1
      BY <3>2
    <3>4. ASSUME NEW i \in DOMAIN l PROVE l[i].at \in Nat /\ l[i].at <= now + 1
      <4>1. CASE i \in DOMAIN ledger
        <5>1. l[i].at \in Nat /\ l[i].at <= now /\ now \in Nat
          BY <1>2, <3>2, <4>1
        <5> QED
          BY <5>1
      <4>2. CASE i = n + 1
        <5>1. l[i].at = now + 1 /\ now \in Nat
          BY <1>2, <2>2, <3>2, <4>2
        <5> QED
          BY <5>1
      <4> QED
        BY <3>2, <3>3, <4>1, <4>2
    <3> QED
      BY <3>1, <3>2, <3>4
  <2> QED
    BY <1>1, <2>1, <2>2 DEF LedgerGrows
<1>4. Dated'
  BY <1>1, <1>2, <1>3 DEF PInv, Dated
<1> QED
  BY <1>1, <1>4, ChainStays, RecordsStay, ObligationsStay DEF PInv

\* So does the use of an authorization.
LEMMA UseKeeps ==
    ASSUME PInv, NEW p, NEW cutoff, NEW a, Use(p, cutoff, a)
    PROVE  PInv'
<1>1. bound' = bound /\ now' = now /\ ledger' = ledger /\ auths' = auths /\ stress' = stress
  BY DEF Use
<1>2. Dated' /\ LedgerGrows
  BY <1>1 DEF PInv, Dated, LedgerGrows
<1> QED
  BY <1>1, <1>2, ChainStays, RecordsStay, ObligationsStay DEF PInv

-----------------------------------------------------------------------------
(* Confirmation.                                                           *)

(* An authorization that may be appended: it follows the newest of its     *)
(* portfolio and takes effect after it.                                    *)
Joins(r, p, eff, b, prev) ==
    /\ auths' = Append(auths, r)
    /\ r.portfolio = p /\ r.eff = eff /\ r.budget = b /\ r.prev = prev
    /\ prev = 0 => Lineage(p) = {}
    /\ prev # 0 => prev \in Lineage(p) /\ Newest(prev) /\ eff > auths[prev].eff

\* A confirmation appends an authorization that follows the newest of its
\* portfolio and takes effect after it.
LEMMA ConfirmAppends ==
    ASSUME PInv, NEW p, NEW cutoff \in Nat, NEW conf \in Nat, NEW eff \in Nat,
           NEW b \in bound.budgets, NEW scope, NEW cash, NEW prev, NEW proved,
           Confirm(p, cutoff, conf, eff, b, scope, cash, prev, proved)
    PROVE  \E r : Joins(r, p, eff, b, prev)
<1>1. PICK r : r = [portfolio |-> p, conf |-> conf, eff |-> eff, budget |-> b,
                    scope |-> scope, cash |-> cash, prev |-> prev]
  OBVIOUS
<1>2. r.portfolio = p /\ r.eff = eff /\ r.budget = b /\ r.prev = prev
  BY <1>1
<1>3. auths' = Append(auths, r) /\ prev = Leaf(Lineage(p))
  BY <1>1 DEF Confirm
<1>4. prev # 0 => eff > auths[prev].eff
  BY <1>3 DEF Confirm, Forward
<1>5. /\ prev = 0 => Lineage(p) = {}
      /\ prev # 0 => prev \in Lineage(p) /\ Newest(prev)
  BY <1>3, CurrentIsNewest DEF PInv
<1> QED
  BY <1>2, <1>3, <1>4, <1>5 DEF Joins

\* It keeps the chain.
LEMMA ChainGrows ==
    ASSUME Dated, Chained, NEW p, NEW eff \in Nat, NEW prev, NEW r,
           auths' = Append(auths, r), r.portfolio = p, r.eff = eff, r.prev = prev,
           prev = 0 => Lineage(p) = {},
           prev # 0 => prev \in Lineage(p) /\ Newest(prev) /\ eff > auths[prev].eff
    PROVE  Chained'
<1>1. PICK a, n : a = auths' /\ n = Len(auths) + 1
  OBVIOUS
<1>2. /\ n \in Nat /\ n > 0 /\ DOMAIN auths = 1 .. (n - 1) /\ DOMAIN a = 1 .. n
      /\ \A i \in DOMAIN auths : a[i] = auths[i]
      /\ a[n] = r
  <2>1. IsSeq(auths) /\ a = Append(auths, r)
    BY <1>1 DEF Dated
  <2>2. /\ Len(auths) \in Nat /\ Len(a) = Len(auths) + 1
        /\ DOMAIN auths = 1 .. Len(auths) /\ DOMAIN a = 1 .. Len(a)
        /\ \A i \in DOMAIN auths : a[i] = auths[i]
        /\ a[Len(a)] = r
    BY ONLY <2>1, Appended
  <2> QED
    BY <1>1, <2>2
<1>3. \A i \in 1 .. n : i \in DOMAIN auths \/ i = n
  BY <1>2
<1>4. \A i \in DOMAIN auths : i \in 1 .. n /\ i < n /\ i # n
  BY <1>2
<1>5. ASSUME NEW q, q # p PROVE Lineage(q)' = Lineage(q)
  <2>1. Lineage(q)' = {i \in DOMAIN a : a[i].portfolio = q}
    BY <1>1 DEF Lineage
  <2>2. Lineage(q) = {i \in DOMAIN auths : auths[i].portfolio = q}
    BY DEF Lineage
  <2> QED
    BY <1>2, <1>3, <1>4, <1>5, <2>1, <2>2
<1>6. Lineage(p)' = Lineage(p) \cup {n}
  <2>1. Lineage(p)' = {i \in DOMAIN a : a[i].portfolio = p}
    BY <1>1 DEF Lineage
  <2>2. Lineage(p) = {i \in DOMAIN auths : auths[i].portfolio = p}
    BY DEF Lineage
  <2> QED
    BY <1>2, <1>3, <1>4, <2>1, <2>2
<1>7. \A i \in Lineage(p) : i \in DOMAIN auths /\ auths[i].eff \in Nat /\ auths[i].portfolio = p
  BY DEF Lineage, Dated
<1>8. prev # 0 => \A i \in Lineage(p) : i <= prev
  BY <1>7 DEF Newest
<1>9. prev \in 0 .. (n - 1)
  BY <1>2, <1>7
<1>10. \A j \in Lineage(p) \cup {n} : j <= n
  <2>1. \A i \in DOMAIN auths : i <= n
    BY <1>2
  <2> QED
    BY <1>2, <1>7, <2>1
<1>11. ASSUME NEW i \in Lineage(p), i # prev
       PROVE  \E k \in Lineage(p) : /\ k > i /\ a[k].prev = i
                                    /\ \A j \in Lineage(p) \cup {n} : j > i => a[k].eff <= a[j].eff
  <2>1. prev # 0 /\ prev \in Lineage(p) /\ i <= prev
    BY <1>8
  <2>2. ~Newest(i)
    <3>1. i < prev
      BY <1>2, <1>7, <2>1, <1>11
    <3>2. Newest(i) => prev <= i
      <4>1. auths[i].portfolio = p
        BY <1>7
      <4> QED
        BY <2>1, <4>1 DEF Newest
    <3> QED
      BY <1>2, <1>7, <2>1, <3>1, <3>2
  <2>3. PICK k \in Lineage(p) : /\ k > i /\ auths[k].prev = i
                                /\ \A j \in Lineage(p) : j > i => auths[k].eff <= auths[j].eff
    BY <1>7, <2>2 DEF Chained, Succeeded
  <2>4. i < prev
    BY <1>2, <1>7, <2>1, <1>11
  <2>5. auths[k].eff <= auths[prev].eff
    BY <1>2, <1>7, <2>1, <2>3, <2>4
  <2>6. auths[k].eff <= eff
    BY <1>7, <2>1, <2>3, <2>5
  <2>7. \A j \in Lineage(p) : a[j] = auths[j]
    BY <1>2, <1>7
  <2>8. a[k].eff <= a[n].eff
    BY <1>2, <2>3, <2>6, <2>7
  <2> QED
    BY <2>3, <2>7, <2>8
<1>12. ASSUME prev # 0
       PROVE  /\ n > prev /\ a[n].prev = prev
              /\ \A j \in Lineage(p) \cup {n} : j > prev => a[n].eff <= a[j].eff
  <2>1. n > prev
    BY <1>2, <1>9
  <2>2. \A j \in Lineage(p) : ~(j > prev)
    BY <1>2, <1>7, <1>8, <1>9, <1>12
  <2> QED
    BY <1>2, <2>1, <2>2
<1>13. ASSUME NEW i \in DOMAIN a
       PROVE  /\ a[i].prev \in 0 .. (i - 1)
              /\ Newest(i)' \/ Succeeded(i)'
              /\ \E m \in Lineage(a[i].portfolio)' : Newest(m)'
  <2>1. CASE i \in DOMAIN auths /\ auths[i].portfolio # p
    <3>1. PICK q : q = auths[i].portfolio
      OBVIOUS
    <3>2. Lineage(q)' = Lineage(q) /\ a[i] = auths[i]
      BY <1>2, <1>5, <2>1, <3>1
    <3>3. \A j \in Lineage(q) : j \in DOMAIN auths /\ auths[j].portfolio = q /\ a[j] = auths[j]
      BY <1>2 DEF Lineage
    <3>4. \A j \in Lineage(q) : Newest(j) => Newest(j)'
      BY <1>1, <3>2, <3>3 DEF Newest
    <3>5. i \in Lineage(q) /\ (Succeeded(i) => Succeeded(i)')
      <4>1. i \in Lineage(q)
        BY <2>1, <3>1 DEF Lineage
      <4>2. Succeeded(i) => Succeeded(i)'
        BY <1>1, <3>1, <3>2, <3>3 DEF Succeeded
      <4> QED
        BY <4>1, <4>2
    <3>6. \E m \in Lineage(q) : Newest(m)
      BY <2>1, <3>1 DEF Chained
    <3>7. a[i].prev \in 0 .. (i - 1) /\ (Newest(i) \/ Succeeded(i))
      BY <2>1, <3>2 DEF Chained
    <3> QED
      BY <3>1, <3>2, <3>4, <3>5, <3>6, <3>7
  <2>2. \A k \in Lineage(p)' : k \in DOMAIN a /\ a[k].portfolio = p
    BY <1>1 DEF Lineage
  <2>3. n \in Lineage(p)' /\ Newest(n)'
    BY <1>1, <1>2, <1>6, <1>10 DEF Newest
  <2>4. CASE i = n
    BY <1>2, <1>9, <2>3, <2>4
  <2>5. CASE i \in DOMAIN auths /\ auths[i].portfolio = p
    <3>1. i \in Lineage(p) /\ a[i] = auths[i] /\ a[i].portfolio = p
      BY <1>2, <2>5 DEF Lineage
    <3>2. Succeeded(i)'
      <4>1. CASE i = prev
        <5>1. prev # 0
          BY <1>2, <3>1, <1>7, <4>1
        <5> QED
          BY <1>1, <1>6, <1>12, <3>1, <4>1, <5>1 DEF Succeeded
      <4>2. CASE i # prev
        BY <1>1, <1>6, <1>11, <3>1, <4>2 DEF Succeeded
      <4> QED
        BY <4>1, <4>2
    <3>3. a[i].prev \in 0 .. (i - 1)
      BY <2>5, <3>1 DEF Chained
    <3> QED
      BY <2>3, <3>1, <3>2, <3>3
  <2> QED
    BY <1>2, <1>3, <2>1, <2>4, <2>5
<1> QED
  BY <1>1, <1>13 DEF Chained

\* A confirmation keeps the invariant.
LEMMA ConfirmKeeps ==
    ASSUME PInv, NEW p, NEW cutoff \in Nat, NEW conf \in Nat, NEW eff \in Nat,
           NEW b \in bound.budgets, NEW scope, NEW cash, NEW prev, NEW proved,
           Confirm(p, cutoff, conf, eff, b, scope, cash, prev, proved)
    PROVE  PInv'
<1>0. PICK r : Joins(r, p, eff, b, prev)
  BY ConfirmAppends
<1>1. /\ auths' = Append(auths, r)
      /\ r.portfolio = p /\ r.eff = eff /\ r.budget = b /\ r.prev = prev
      /\ prev = 0 => Lineage(p) = {}
      /\ prev # 0 => prev \in Lineage(p) /\ Newest(prev) /\ eff > auths[prev].eff
  BY <1>0 DEF Joins
<1>2. bound' = bound /\ now' = now /\ ledger' = ledger /\ stress' = stress
  <2>1. UNCHANGED <<bound, now, path, ledger, stress, usage>>
    BY Zenon DEF Confirm
  <2> QED
    BY ONLY <2>1
<1>3. Chained'
  BY <1>1, ChainGrows DEF PInv
<1>4. IsSeq(auths') /\ \A i \in DOMAIN auths' : auths'[i].eff \in Nat
                                              /\ auths'[i].budget \in bound.budgets
  <2>1. PICK l : l = auths'
    OBVIOUS
  <2>2. IsSeq(auths) /\ l = Append(auths, r)
    BY <1>1, <2>1 DEF PInv, Dated
  <2>3. /\ Len(auths) \in Nat /\ Len(l) = Len(auths) + 1
        /\ DOMAIN auths = 1 .. Len(auths) /\ DOMAIN l = 1 .. Len(l)
        /\ \A i \in DOMAIN auths : l[i] = auths[i]
        /\ l[Len(l)] = r
    BY ONLY <2>2, Appended
  <2>4. IsSeq(l)
    BY ONLY <2>2, Appended
  <2>5. \A i \in DOMAIN l : i \in DOMAIN auths \/ i = Len(l)
    BY <2>3
  <2>6. \A i \in DOMAIN auths : auths[i].eff \in Nat /\ auths[i].budget \in bound.budgets
    BY DEF PInv, Dated
  <2>7. \A i \in DOMAIN l : l[i].eff \in Nat /\ l[i].budget \in bound.budgets
    BY <1>1, <2>3, <2>5, <2>6
  <2> QED
    BY <2>1, <2>4, <2>7
<1>5. Dated' /\ LedgerGrows
  BY <1>2, <1>4 DEF PInv, Dated, LedgerGrows
<1> QED
  BY <1>2, <1>3, <1>5, RecordsStay, ObligationsStay DEF PInv

-----------------------------------------------------------------------------
(* Stress.                                                                 *)

\* An obligation that is owed or was settled has all its fields.
LEMMA Fields ==
    ASSUME NEW o \in Obligations
    PROVE  /\ o.status \in {"none", "OUTSTANDING", "SATISFIED"}
           /\ o.status # "none" => o \in [status : {"OUTSTANDING", "SATISFIED"}, target : Int,
                                          trigger : Nat, fills : SUBSET Nat,
                                          corrections : SUBSET Nat]
           /\ o.status = "none" => o = NoObligation
BY DEF Obligations, NoObligation

\* The fills and corrections of an instant are entries of the ledger.
LEMMA Entries ==
    ASSUME Dated, NEW after, NEW t
    PROVE  EffectiveSales(after, t) \subseteq Nat /\ Corrections(t) \subseteq Nat
<1>1. DOMAIN ledger = 1 .. Len(ledger) /\ Len(ledger) \in Nat
  BY Indices DEF Dated
<1>2. Reported(t) \subseteq Nat
  BY <1>1 DEF Reported
<1> QED
  BY <1>2 DEF EffectiveSales, Corrections

\* Effective sales are sales after the trigger that stand.
LEMMA SalesAreSold ==
    ASSUME NEW o, NEW t, EffectiveSales(o.trigger, t) # {}
    PROVE  SoldFor(o, t)
BY DEF EffectiveSales, SoldFor

\* What a review leaves of an obligation: what is outstanding stays, and what
\* stays satisfied is still sold.
LEMMA ReviewedIs ==
    ASSUME NEW o \in Obligations, NEW t, NEW reconciled, NEW v, v = Reviewed(o, t, reconciled)
    PROVE  /\ v \in Obligations
           /\ o.status # "SATISFIED" => v = o
           /\ v.status = "SATISFIED" => EffectiveSales(v.trigger, t) # {}
<1>1. CASE o.status # "SATISFIED"
  BY <1>1 DEF Reviewed
<1>2. CASE o.status = "SATISFIED"
  <2>1. o \in [status : {"OUTSTANDING", "SATISFIED"}, target : Int, trigger : Nat,
               fills : SUBSET Nat, corrections : SUBSET Nat]
    BY <1>2, Fields
  <2>2. CASE v = [o EXCEPT !.status = "OUTSTANDING"]
    <3>1. v.status = "OUTSTANDING"
      BY <2>1, <2>2
    <3>2. v \in [status : {"OUTSTANDING", "SATISFIED"}, target : Int, trigger : Nat,
                 fills : SUBSET Nat, corrections : SUBSET Nat]
      BY <2>1, <2>2
    <3> QED
      BY <1>2, <3>1, <3>2 DEF Obligations
  <2>3. CASE v = o /\ o.fills # {} /\ o.fills \subseteq EffectiveSales(o.trigger, t)
    BY <1>2, <2>3
  <2> QED
    BY <1>2, <2>2, <2>3 DEF Reviewed
<1> QED
  BY <1>1, <1>2

\* A budget in force may tighten the target of what is outstanding.
LEMMA TightenedIs ==
    ASSUME NEW o \in Obligations, NEW b, b.target \in Int, NEW v, v = Tightened(o, b)
    PROVE  /\ v \in Obligations /\ v.status = o.status
           /\ o.status # "OUTSTANDING" => v = o
           /\ o.status = "OUTSTANDING" => v.trigger = o.trigger /\ v.target <= o.target
<1>1. CASE o.status # "OUTSTANDING"
  BY <1>1 DEF Tightened
<1>2. CASE o.status = "OUTSTANDING"
  <2>1. o \in [status : {"OUTSTANDING", "SATISFIED"}, target : Int, trigger : Nat,
               fills : SUBSET Nat, corrections : SUBSET Nat]
    BY <1>2, Fields
  <2>2. PICK m : m = Min({o.target, b.target})
    OBVIOUS
  <2>3. m \in Int /\ m <= o.target
    BY <2>1, <2>2, SmallerOf
  <2>4. v = [o EXCEPT !.target = m]
    BY <1>2, <2>2 DEF Tightened
  <2>5. v.status = o.status /\ v.trigger = o.trigger /\ v.target = m
    BY <2>1, <2>4
  <2>6. v \in Obligations
    BY <2>1, <2>3, <2>4 DEF Obligations
  <2> QED
    BY <1>2, <2>3, <2>5, <2>6
<1> QED
  BY <1>1, <1>2

\* A breach raises an obligation unless one is outstanding.
LEMMA RaisedIs ==
    ASSUME NEW o \in Obligations, NEW t \in Nat, NEW b, b.target \in Int,
           NEW v, v = Raised(o, t, b)
    PROVE  /\ v \in Obligations
           /\ o.status = "OUTSTANDING" => v = o
           /\ v = o \/ v.status = "OUTSTANDING"
<1>1. CASE v = o
  BY <1>1
<1>2. CASE o.status # "OUTSTANDING" /\ v = [status |-> "OUTSTANDING", target |-> b.target,
           trigger |-> t, fills |-> {}, corrections |-> {}]
  <2>1. v.status = "OUTSTANDING"
    BY <1>2
  <2>2. v \in Obligations
    BY <1>2 DEF Obligations
  <2> QED
    BY <1>2, <2>1, <2>2
<1> QED
  BY <1>1, <1>2 DEF Raised

\* An obligation is settled by sales after its trigger, and is otherwise kept.
LEMMA SettledIs ==
    ASSUME Dated, NEW o \in Obligations, NEW t \in Nat, NEW reconciled,
           NEW v, v = Settled(o, t, reconciled)
    PROVE  /\ v \in Obligations
           /\ \/ v = o
              \/ /\ o.status # "none"
                 /\ v.status = "SATISFIED" /\ v.trigger = o.trigger /\ v.target = o.target
                 /\ EffectiveSales(v.trigger, t) # {}
<1>1. CASE v = o
  BY <1>1
<1>2. CASE /\ o.status # "none" /\ EffectiveSales(o.trigger, t) # {}
           /\ v = [o EXCEPT !.status = "SATISFIED", !.fills = EffectiveSales(o.trigger, t),
                            !.corrections = Corrections(t)]
  <2>1. o \in [status : {"OUTSTANDING", "SATISFIED"}, target : Int, trigger : Nat,
               fills : SUBSET Nat, corrections : SUBSET Nat]
    BY <1>2, Fields
  <2>2. PICK f, c : f = EffectiveSales(o.trigger, t) /\ c = Corrections(t)
    OBVIOUS
  <2>3. f \in SUBSET Nat /\ c \in SUBSET Nat
    BY <2>2, Entries
  <2>4. v = [o EXCEPT !.status = "SATISFIED", !.fills = f, !.corrections = c]
    BY <1>2, <2>2
  <2>5. v.status = "SATISFIED" /\ v.trigger = o.trigger /\ v.target = o.target
    BY <2>1, <2>4
  <2>6. v \in [status : {"OUTSTANDING", "SATISFIED"}, target : Int, trigger : Nat,
               fills : SUBSET Nat, corrections : SUBSET Nat]
    BY <2>1, <2>3, <2>4
  <2> QED
    BY <1>2, <2>5, <2>6 DEF Obligations
<1> QED
  BY <1>1, <1>2 DEF Settled

\* What is owed after an assessment carries what was outstanding on, and is
\* settled only by sales that stand.
LEMMA OwedIs ==
    ASSUME Dated, NEW o \in Obligations, NEW t \in Nat, NEW b, b.target \in Int,
           NEW denied, NEW assessed, NEW reconciled,
           NEW v, v = Owed(o, t, b, denied, assessed, reconciled)
    PROVE  /\ v \in Obligations
           /\ v.status = "SATISFIED" => SoldFor(v, t)
           /\ o.status = "OUTSTANDING" => CarriedBy(v, o)
<1>1. PICK r : r = Reviewed(o, t, reconciled)
  OBVIOUS
<1>2. /\ r \in Obligations
      /\ o.status # "SATISFIED" => r = o
      /\ r.status = "SATISFIED" => EffectiveSales(r.trigger, t) # {}
  BY <1>1, ReviewedIs
<1>3. PICK c : c = IF denied THEN r ELSE Tightened(r, b)
  OBVIOUS
<1>4. PICK u : u = Raised(c, t, b)
  OBVIOUS
<1>5. v = IF assessed THEN Settled(u, t, reconciled) ELSE c
  BY <1>1, <1>3, <1>4 DEF Owed
<1>6. /\ c \in Obligations
      /\ r.status # "OUTSTANDING" => c = r
      /\ r.status = "OUTSTANDING" => c.status = "OUTSTANDING" /\ c.trigger = r.trigger
                                     /\ c.target <= r.target
  <2>1. CASE denied
    <3>1. c = r
      BY <1>3, <2>1
    <3>2. r.status = "OUTSTANDING" => r.target \in Int
      BY <1>2, Fields
    <3> QED
      BY <1>2, <3>1, <3>2
  <2>2. CASE ~denied
    <3>1. c = Tightened(r, b)
      BY <1>3, <2>2
    <3> QED
      BY <1>2, <3>1, TightenedIs
  <2> QED
    BY <2>1, <2>2
<1>7. /\ u \in Obligations
      /\ c.status = "OUTSTANDING" => u = c
      /\ u = c \/ u.status = "OUTSTANDING"
  BY <1>4, <1>6, RaisedIs
<1>8. c.status = "SATISFIED" => EffectiveSales(c.trigger, t) # {}
  BY <1>2, <1>6
<1>9. o.status = "OUTSTANDING" => c.status = "OUTSTANDING" /\ CarriedBy(c, o)
  BY <1>2, <1>6 DEF CarriedBy
<1>10. CASE ~assessed
  <2>1. v = c
    BY <1>5, <1>10
  <2> QED
    BY <1>6, <1>8, <1>9, <2>1, SalesAreSold
<1>11. CASE assessed
  <2>1. v = Settled(u, t, reconciled)
    BY <1>5, <1>11
  <2>2. /\ v \in Obligations
        /\ \/ v = u
           \/ /\ u.status # "none"
              /\ v.status = "SATISFIED" /\ v.trigger = u.trigger /\ v.target = u.target
              /\ EffectiveSales(v.trigger, t) # {}
    BY <1>7, <2>1, SettledIs
  <2>3. v.status = "SATISFIED" => EffectiveSales(v.trigger, t) # {}
    BY <1>7, <1>8, <2>2
  <2>4. o.status = "OUTSTANDING" => CarriedBy(v, o)
    BY <1>7, <1>9, <2>2 DEF CarriedBy
  <2> QED
    BY <2>2, <2>3, <2>4, SalesAreSold
<1> QED
  BY <1>10, <1>11

\* The assessments of a portfolio are its lineage of stress records.
LEMMA LineageIsAssessments ==
    ASSUME NEW p
    PROVE  StressLineage(p) = Assessments(p)
BY DEF StressLineage, Assessments, InLineage

(* The last assessment of a portfolio. *)
LastAssessment(p, i) == \A k \in Assessments(p) : k <= i

\* An assessment is appended after those of earlier snapshots, and carries on
\* the obligation of the last one.
LEMMA AssessAppends ==
    ASSUME PInv, NEW p \in bound.portfolios, NEW t \in Nat, t <= now, NEW a,
           NEW allowed, NEW scope, NEW reconciled, NEW known,
           AssessStress(p, t, a, allowed, scope, reconciled, known)
    PROVE  \E r :
        /\ stress' = Append(stress, r)
        /\ r.portfolio = p /\ r.cutoff = t /\ r.denied \in BOOLEAN /\ r.obligation \in Obligations
        /\ r.state = "NORMAL" => ~r.denied
        /\ ~r.denied =>
              /\ \A i \in Assessments(p) : stress[i].cutoff < t
              /\ r.obligation.status = "SATISFIED" => SoldFor(r.obligation, t)
              /\ \A i \in Assessments(p) :
                    (LastAssessment(p, i) /\ stress[i].obligation.status = "OUTSTANDING")
                       => CarriedBy(r.obligation, stress[i].obligation)
<1>1. PICK denied : denied = Denied(p, t, a, allowed, scope)
  OBVIOUS
<1>2. denied \in BOOLEAN
  BY <1>1 DEF Denied
<1>3. PICK b : b = auths[a].budget
  OBVIOUS
<1>4. b.target \in Int
  <2>1. a \in DOMAIN auths
    BY DEF AssessStress
  <2> QED
    BY <1>3, <2>1, BudgetsAssumption DEF PInv, Dated
<1>5. PICK assessed : assessed = (~denied /\ known /\ NetEquity(t) > 0)
  OBVIOUS
<1>6. PICK owed : owed = IF Uncovered(p, scope) THEN NoObligation
                         ELSE Owed(Prior(p, t), t, b, denied, assessed, reconciled)
  OBVIOUS
<1>7. PICK verdict, blocked : stress' = Append(stress,
              [portfolio |-> p, cutoff |-> t, scope |-> scope, denied |-> denied,
               state |-> verdict, obligation |-> owed, blocked |-> blocked])
           /\ verdict = (IF assessed THEN StressState(t, b) ELSE "UNKNOWN")
  <2>1. PICK verdict : verdict = IF assessed THEN StressState(t, b) ELSE "UNKNOWN"
    OBVIOUS
  <2>2. PICK blocked : blocked = (\/ ~assessed \/ StressState(t, b) # "NORMAL"
                                  \/ owed.status = "OUTSTANDING"
                                  \/ now >= auths[a].eff + Duration)
    OBVIOUS
  <2>3. stress' = Append(stress,
              [portfolio |-> p, cutoff |-> t, scope |-> scope, denied |-> denied,
               state |-> verdict, obligation |-> owed, blocked |-> blocked])
    BY <1>1, <1>3, <1>5, <1>6, <2>1, <2>2 DEF AssessStress
  <2> QED
    BY <2>1, <2>3
<1>8. PICK r : r = [portfolio |-> p, cutoff |-> t, scope |-> scope, denied |-> denied,
                    state |-> verdict, obligation |-> owed, blocked |-> blocked]
  OBVIOUS
<1>9. stress' = Append(stress, r) /\ r.portfolio = p /\ r.cutoff = t /\ r.denied = denied
      /\ r.state = verdict /\ r.obligation = owed
  BY <1>7, <1>8
<1>10. verdict = "NORMAL" => ~denied
  BY <1>5, <1>7
<1>11. DOMAIN stress = 1 .. Len(stress) /\ Len(stress) \in Nat
  BY Indices DEF PInv, Dated
<1>12. \A i \in Assessments(p) : i \in DOMAIN stress /\ stress[i].cutoff \in Nat
                                 /\ stress[i].obligation \in Obligations
  BY DEF Assessments, StressOf, PInv, Dated, Recorded
<1>13. PICK E : E = {i \in Assessments(p) : stress[i].cutoff < t}
  OBVIOUS
<1>14. PICK o : o = Prior(p, t)
  OBVIOUS
<1>15. o = IF E = {} THEN NoObligation ELSE stress[Max(E)].obligation
  BY <1>13, <1>14, LineageIsAssessments DEF Prior
<1>16. E # {} => Max(E) \in E /\ \A y \in E : y <= Max(E)
  BY <1>11, <1>12, <1>13, LastOf
<1>17. o \in Obligations
  BY <1>12, <1>13, <1>15, <1>16 DEF Obligations
<1>18. PICK v : v = Owed(o, t, b, denied, assessed, reconciled)
  OBVIOUS
<1>19. /\ v \in Obligations
       /\ v.status = "SATISFIED" => SoldFor(v, t)
       /\ o.status = "OUTSTANDING" => CarriedBy(v, o)
  BY <1>4, <1>17, <1>18, OwedIs DEF PInv
<1>20. owed = NoObligation \/ owed = v
  BY <1>6, <1>14, <1>18
<1>21. owed \in Obligations
  BY <1>19, <1>20 DEF Obligations
<1>22. ASSUME ~denied
       PROVE  /\ \A i \in Assessments(p) : stress[i].cutoff < t
              /\ owed = v
  <2>1. ~Uncovered(p, scope) /\ \A i \in Assessments(p) : ~(stress[i].cutoff >= t)
    BY <1>1, <1>22, LineageIsAssessments DEF Denied
  <2> QED
    BY <1>6, <1>12, <1>14, <1>18, <2>1
<1>23. ASSUME ~denied, NEW i \in Assessments(p), LastAssessment(p, i),
              stress[i].obligation.status = "OUTSTANDING"
       PROVE  CarriedBy(owed, stress[i].obligation)
  <2>1. E = Assessments(p)
    BY <1>13, <1>22, <1>23
  <2>2. i <= Max(E) /\ Max(E) <= i
    BY <1>16, <1>23, <2>1 DEF LastAssessment
  <2>3. i = Max(E)
    <3>1. Max(E) \in Int /\ i \in Int
      BY <1>11, <1>12, <1>16, <1>23, <2>1
    <3> QED
      BY <2>2, <3>1
  <2>4. o = stress[i].obligation
    BY <1>15, <1>23, <2>1, <2>3
  <2> QED
    BY <1>19, <1>22, <1>23, <2>4
<1> QED
  BY <1>2, <1>9, <1>10, <1>19, <1>21, <1>22, <1>23

\* An assessment keeps the invariant.
LEMMA AssessKeeps ==
    ASSUME PInv, NEW p \in bound.portfolios, NEW t \in Nat, t <= now, NEW a,
           NEW allowed, NEW scope, NEW reconciled, NEW known,
           AssessStress(p, t, a, allowed, scope, reconciled, known)
    PROVE  PInv'
<1>1. PICK r :
        /\ stress' = Append(stress, r)
        /\ r.portfolio = p /\ r.cutoff = t /\ r.denied \in BOOLEAN /\ r.obligation \in Obligations
        /\ r.state = "NORMAL" => ~r.denied
        /\ ~r.denied =>
              /\ \A i \in Assessments(p) : stress[i].cutoff < t
              /\ r.obligation.status = "SATISFIED" => SoldFor(r.obligation, t)
              /\ \A i \in Assessments(p) :
                    (LastAssessment(p, i) /\ stress[i].obligation.status = "OUTSTANDING")
                       => CarriedBy(r.obligation, stress[i].obligation)
  BY AssessAppends
<1>2. bound' = bound /\ now' = now /\ ledger' = ledger /\ auths' = auths
  <2>1. UNCHANGED <<bound, now, path, ledger, auths, usage>>
    BY Zenon DEF AssessStress
  <2> QED
    BY ONLY <2>1
<1>3. PICK s, n : s = stress' /\ n = Len(stress) + 1
  OBVIOUS
<1>4. /\ n \in Nat /\ n > 0 /\ DOMAIN stress = 1 .. (n - 1) /\ DOMAIN s = 1 .. n
      /\ \A i \in DOMAIN stress : s[i] = stress[i]
      /\ s[n] = r
  <2>1. IsSeq(stress) /\ s = Append(stress, r)
    BY <1>1, <1>3 DEF PInv, Dated
  <2>2. /\ Len(stress) \in Nat /\ Len(s) = Len(stress) + 1
        /\ DOMAIN stress = 1 .. Len(stress) /\ DOMAIN s = 1 .. Len(s)
        /\ \A i \in DOMAIN stress : s[i] = stress[i]
        /\ s[Len(s)] = r
    BY ONLY <2>1, Appended
  <2> QED
    BY <1>3, <2>2
<1>5. IsSeq(s)
  <2>1. IsSeq(stress) /\ s = Append(stress, r)
    BY <1>1, <1>3 DEF PInv, Dated
  <2> QED
    BY ONLY <2>1, Appended
<1>6. /\ \A i \in 1 .. n : i \in DOMAIN stress \/ i = n
      /\ \A i \in DOMAIN stress : i \in 1 .. n /\ i < n /\ i # n
  BY <1>4
<1>7. Dated'
  <2>1. \A i \in DOMAIN stress : stress[i].cutoff \in Nat /\ stress[i].cutoff <= now
    BY DEF PInv, Dated
  <2>2. \A i \in DOMAIN s : s[i].cutoff \in Nat /\ s[i].cutoff <= now
    BY <1>1, <1>4, <1>6, <2>1
  <2> QED
    BY <1>2, <1>3, <1>5, <2>2 DEF PInv, Dated
<1>8. Recorded'
  <2>1. \A i \in DOMAIN stress :
          /\ stress[i].portfolio \in bound.portfolios
          /\ stress[i].obligation \in Obligations
          /\ stress[i].denied \in BOOLEAN
          /\ stress[i].state = "NORMAL" => ~stress[i].denied
    BY DEF PInv, Recorded
  <2>2. \A i \in DOMAIN s :
          /\ s[i].portfolio \in bound.portfolios
          /\ s[i].obligation \in Obligations
          /\ s[i].denied \in BOOLEAN
          /\ s[i].state = "NORMAL" => ~s[i].denied
    BY <1>1, <1>4, <1>6, <2>1
  <2> QED
    BY <1>2, <1>3, <2>2 DEF Recorded
<1>9. \A i \in DOMAIN stress : (stress[i].portfolio = p /\ ~stress[i].denied) => i \in Assessments(p)
  BY DEF Assessments, StressOf
<1>10. Forwarded'
  <2>1. ASSUME NEW i \in DOMAIN s, NEW j \in DOMAIN s, i < j, s[i].portfolio = s[j].portfolio,
               ~s[i].denied, ~s[j].denied
        PROVE  s[i].cutoff < s[j].cutoff
    <3>1. i \in DOMAIN stress /\ s[i] = stress[i]
      BY <1>4, <1>6, <2>1
    <3>2. CASE j \in DOMAIN stress
      BY <1>4, <2>1, <3>1, <3>2 DEF PInv, Forwarded
    <3>3. CASE j = n
      BY <1>1, <1>4, <1>9, <2>1, <3>1, <3>3
    <3> QED
      BY <1>4, <1>6, <3>2, <3>3
  <2> QED
    BY <1>3, <2>1 DEF Forwarded
<1>11. LedgerGrows
  BY <1>2 DEF LedgerGrows
<1>12. ASSUME NEW o, NEW q \in Nat, q <= now, SoldFor(o, q) PROVE SoldFor(o, q)'
  BY <1>11, <1>12, SoldStays DEF PInv
<1>13. SalesStand'
  <2>1. ASSUME NEW i \in DOMAIN s, ~s[i].denied, s[i].obligation.status = "SATISFIED"
        PROVE  SoldFor(s[i].obligation, s[i].cutoff)'
    <3>1. PICK o, q : o = s[i].obligation /\ q = s[i].cutoff
      OBVIOUS
    <3>2. CASE i \in DOMAIN stress
      <4>1. SoldFor(o, q) /\ q \in Nat /\ q <= now
        BY <1>4, <2>1, <3>1, <3>2 DEF PInv, SalesStand, Dated
      <4> QED
        BY <1>12, <3>1, <4>1
    <3>3. CASE i = n
      <4>1. SoldFor(o, q) /\ q \in Nat /\ q <= now
        BY <1>1, <1>4, <2>1, <3>1, <3>3
      <4> QED
        BY <1>12, <3>1, <4>1
    <3> QED
      BY <1>4, <1>6, <3>2, <3>3
  <2> QED
    BY <1>3, <2>1 DEF SalesStand
<1>14. CarriedOn'
  <2>1. ASSUME NEW i \in DOMAIN s, NEW j \in DOMAIN s, i < j, s[i].portfolio = s[j].portfolio,
               ~s[i].denied, ~s[j].denied, s[i].obligation.status = "OUTSTANDING",
               \A k \in DOMAIN s :
                  (i < k /\ k < j /\ s[k].portfolio = s[i].portfolio) => s[k].denied
        PROVE  CarriedBy(s[j].obligation, s[i].obligation)
    <3>1. i \in DOMAIN stress /\ s[i] = stress[i]
      BY <1>4, <1>6, <2>1
    <3>2. CASE j \in DOMAIN stress
      <4>1. \A k \in DOMAIN stress :
               (i < k /\ k < j /\ stress[k].portfolio = stress[i].portfolio) => stress[k].denied
        BY <1>4, <1>6, <2>1, <3>1
      <4>2. s[j] = stress[j]
        BY <1>4, <3>2
      <4> QED
        BY <2>1, <3>1, <3>2, <4>1, <4>2 DEF PInv, CarriedOn
    <3>3. CASE j = n
      <4>1. s[j] = r /\ stress[i].portfolio = p /\ i \in Assessments(p)
        BY <1>1, <1>4, <1>9, <2>1, <3>1, <3>3
      <4>2. ASSUME NEW k \in Assessments(p) PROVE k <= i
        <5>1. k \in DOMAIN stress /\ stress[k].portfolio = p /\ ~stress[k].denied
          BY DEF Assessments, StressOf
        <5>2. k \in DOMAIN s /\ s[k] = stress[k] /\ k < n
          BY <1>4, <1>6, <5>1
        <5>3. ~(i < k)
          BY <2>1, <3>1, <3>3, <4>1, <5>1, <5>2
        <5>4. k \in Int /\ i \in Int
          BY <1>4, <3>1, <5>1
        <5> QED
          BY <5>3, <5>4
      <4>3. LastAssessment(p, i)
        BY <4>2 DEF LastAssessment
      <4> QED
        BY <1>1, <2>1, <3>1, <4>1, <4>3
    <3> QED
      BY <1>4, <1>6, <3>2, <3>3
  <2> QED
    BY <1>3, <2>1 DEF CarriedOn, CarriedBy
<1> QED
  BY <1>2, <1>7, <1>8, <1>10, <1>13, <1>14, ChainStays DEF PInv

-----------------------------------------------------------------------------
(* The theorems.                                                           *)

\* Before anything is retained.
LEMMA NothingRetained ==
    ASSUME Init
    PROVE  PInv
<1>1. bound \in Cases /\ now = 1 /\ ledger = <<>> /\ auths = <<>> /\ stress = <<>>
  BY DEF Init
<1>2. IsSeq(<<>>)
  BY DEF IsSeq
<1>3. Dated
  BY <1>1, <1>2 DEF Dated
<1>4. Chained /\ Recorded /\ Forwarded /\ SalesStand /\ CarriedOn
  BY <1>1 DEF Chained, Recorded, Forwarded, SalesStand, CarriedOn
<1> QED
  BY <1>3, <1>4 DEF PInv

\* Every step keeps the invariant.
LEMMA StepKeeps ==
    ASSUME PInv, [Next]_vars
    PROVE  PInv'
<1>0. now \in Nat /\ \A x \in 1 .. now : x \in Nat /\ x <= now
  BY DEF PInv, Dated
<1>1. CASE UNCHANGED vars
  <2>1. bound' = bound /\ now' = now /\ ledger' = ledger /\ auths' = auths /\ stress' = stress
    BY <1>1 DEF vars
  <2>2. Dated' /\ LedgerGrows
    BY <2>1 DEF PInv, Dated, LedgerGrows
  <2> QED
    BY <2>1, <2>2, ChainStays, RecordsStay, ObligationsStay DEF PInv
<1>2. CASE \E p \in Prices : Move(p)
  BY <1>2, ReportKeeps DEF Move
<1>3. CASE \E q \in {-1, 1}, late \in BOOLEAN : Fill(q, late)
  BY <1>3, ReportKeeps DEF Fill
<1>4. CASE \E i \in DOMAIN ledger : Correct(i)
  BY <1>4, ReportKeeps DEF Correct
<1>5. CASE \E p \in bound.portfolios, cutoff, conf, eff \in 1 .. now, b \in bound.budgets,
              scope \in bound.scopes, cash \in bound.cash, proved \in BOOLEAN,
              prev \in 0 .. Len(auths) :
              Confirm(p, cutoff, conf, eff, b, scope, cash, prev, proved)
  BY <1>0, <1>5, ConfirmKeeps
<1>6. CASE \E p \in bound.portfolios, cutoff \in 1 .. now, a \in DOMAIN auths : Use(p, cutoff, a)
  BY <1>6, UseKeeps
<1>7. CASE \E p \in bound.portfolios, t \in 1 .. now, a \in DOMAIN auths, scope \in bound.scopes,
              reconciled, known \in BOOLEAN :
              \E allowed \in {ProtectionAllowed(p, cutoff, a) : cutoff \in t .. now} :
                 AssessStress(p, t, a, allowed, scope, reconciled, known)
  <2>1. PICK p \in bound.portfolios, t \in 1 .. now, a \in DOMAIN auths,
             scope \in bound.scopes, reconciled \in BOOLEAN, known \in BOOLEAN :
             \E allowed \in {ProtectionAllowed(p, cutoff, a) : cutoff \in t .. now} :
                AssessStress(p, t, a, allowed, scope, reconciled, known)
    BY <1>7
  <2>2. PICK allowed :
               AssessStress(p, t, a, allowed, scope, reconciled, known)
    BY <2>1
  <2> QED
    BY <1>0, <2>1, <2>2, AssessKeeps
<1> QED
  BY <1>1, <1>2, <1>3, <1>4, <1>5, <1>6, <1>7 DEF Next

\* The inductive invariant of authorizations and stress.
THEOREM ProtectionInvariant == Spec => []PInv
<1>1. Init => PInv
  BY NothingRetained
<1>2. PInv /\ [Next]_vars => PInv'
  BY StepKeeps
<1> QED
  BY <1>1, <1>2, PTL DEF Spec

\* New exposure is allowed only under an authorization that nothing retained
\* and in effect has superseded, and within its budget's life.
THEOREM ExposureIsCurrentTheorem == Spec => ExposureIsCurrent
<1>1. PInv /\ [Next]_vars =>
        [(usage' # usage /\ usage'.allowed) =>
           /\ \A i \in Lineage(auths[usage'.auth].portfolio) :
                  i > usage'.auth => auths[i].eff > now
           /\ now < auths[usage'.auth].eff + Duration]_vars
  <2> SUFFICES ASSUME PInv, Next, usage' # usage, usage'.allowed
               PROVE  /\ \A i \in Lineage(auths[usage'.auth].portfolio) :
                             i > usage'.auth => auths[i].eff > now
                      /\ now < auths[usage'.auth].eff + Duration
    BY DEF vars
  <2>1. PICK p, cutoff, a : Use(p, cutoff, a)
    <3>1. CASE \E x \in Prices : Move(x)
      BY <3>1 DEF Move, Report
    <3>2. CASE \E q \in {-1, 1}, late \in BOOLEAN : Fill(q, late)
      BY <3>2 DEF Fill, Report
    <3>3. CASE \E i \in DOMAIN ledger : Correct(i)
      BY <3>3 DEF Correct, Report
    <3>4. ASSUME NEW p, NEW cutoff, NEW conf, NEW eff, NEW b, NEW scope, NEW cash, NEW prev,
                 NEW proved, Confirm(p, cutoff, conf, eff, b, scope, cash, prev, proved)
          PROVE  FALSE
      <4>1. UNCHANGED <<bound, now, path, ledger, stress, usage>>
        BY <3>4, Zenon DEF Confirm
      <4> QED
        BY <4>1
    <3>5. ASSUME NEW p, NEW t, NEW a, NEW allowed, NEW scope, NEW reconciled, NEW known,
                 AssessStress(p, t, a, allowed, scope, reconciled, known)
          PROVE  FALSE
      <4>1. UNCHANGED <<bound, now, path, ledger, auths, usage>>
        BY <3>5, Zenon DEF AssessStress
      <4> QED
        BY <4>1
    <3> QED
      BY <3>1, <3>2, <3>3, <3>4, <3>5, Zenon DEF Next
  <2>2. ExposureAllowed(p, cutoff, a) /\ usage' = [allowed |-> TRUE, auth |-> a, at |-> now]
    <3>1. usage' = IF ExposureAllowed(p, cutoff, a)
                   THEN [allowed |-> TRUE, auth |-> a, at |-> now] ELSE NoUsage
      BY <2>1 DEF Use
    <3>2. ~NoUsage.allowed
      BY DEF NoUsage
    <3> QED
      BY <3>1, <3>2
  <2>3. usage'.auth = a
    BY <2>2
  <2>4. /\ a \in Lineage(p) /\ auths[a].portfolio = p /\ IsActive(Lineage(p), a)
        /\ now < auths[a].eff + Duration
    BY <2>2 DEF ExposureAllowed, Visible, Lineage
  <2>5. \A i \in Lineage(p) : i > a => auths[i].eff > now
    BY <2>4, ActiveIsCurrent DEF PInv
  <2> QED
    BY <2>3, <2>4, <2>5
<1> QED
  BY <1>1, ProtectionInvariant, PTL DEF Spec, ExposureIsCurrent

\* An obligation to sell is carried from assessment to assessment, no looser,
\* until sales after its trigger, net of corrections, are on the ledger.
THEOREM ObligationsAreKeptTheorem == Spec => []ObligationsAreKept
<1>1. PInv => ObligationsAreKept
  <2> SUFFICES ASSUME PInv, NEW p \in bound.portfolios, NEW i \in Assessments(p)
               PROVE  /\ stress[i].obligation.status = "SATISFIED" =>
                            SoldFor(stress[i].obligation, stress[i].cutoff)
                      /\ stress[i].obligation.status = "OUTSTANDING" =>
                            \A j \in Assessments(p) : Follows(p, i, j) =>
                               CarriedBy(stress[j].obligation, stress[i].obligation)
    BY DEF ObligationsAreKept
  <2>1. \A k \in DOMAIN stress :
          stress[k].portfolio = p => (k \in Assessments(p) <=> ~stress[k].denied)
    BY DEF Assessments, StressOf
  <2>2. \A k \in Assessments(p) : k \in DOMAIN stress /\ stress[k].portfolio = p
                                  /\ ~stress[k].denied
    BY DEF Assessments, StressOf
  <2>3. stress[i].obligation.status = "SATISFIED" =>
            SoldFor(stress[i].obligation, stress[i].cutoff)
    BY <2>2 DEF PInv, SalesStand
  <2>4. ASSUME stress[i].obligation.status = "OUTSTANDING", NEW j \in Assessments(p),
               Follows(p, i, j)
        PROVE  CarriedBy(stress[j].obligation, stress[i].obligation)
    <3>1. DOMAIN stress = 1 .. Len(stress) /\ Len(stress) \in Nat
      BY Indices DEF PInv, Dated
    <3>2. ASSUME NEW k \in DOMAIN stress, i < k, k < j, stress[k].portfolio = stress[i].portfolio
          PROVE  stress[k].denied
      <4>1. \A x \in Assessments(p) : x <= i \/ j <= x
        BY <2>4 DEF Follows
      <4>2. k \in Int /\ i \in Int /\ j \in Int
        BY <2>2, <2>4, <3>1
      <4>3. k \notin Assessments(p)
        BY <3>2, <4>1, <4>2
      <4> QED
        BY <2>1, <2>2, <3>2, <4>3
    <3>3. i < j
      BY <2>4 DEF Follows
    <3> QED
      BY <2>2, <2>4, <3>2, <3>3 DEF PInv, CarriedOn
  <2> QED
    BY <2>3, <2>4
<1> QED
  BY <1>1, ProtectionInvariant, PTL

\* A budget is relaxed only while no obligation of the portfolio is outstanding.
THEOREM RelaxedWhenRestoredTheorem == Spec => RelaxedWhenRestored
<1>1. PInv /\ [Next]_vars =>
        [Len(auths') > Len(auths) =>
           LET new == auths'[Len(auths')]
               L == Assessments(new.portfolio)
           IN  (L # {} /\ new.prev # 0 /\ Relaxes(new.budget, auths[new.prev].budget))
                  => stress[Max(L)].obligation.status # "OUTSTANDING"]_vars
  <2> SUFFICES ASSUME PInv, Next, Len(auths') > Len(auths), NEW new, new = auths'[Len(auths')],
                      NEW L, L = Assessments(new.portfolio), L # {}, new.prev # 0,
                      Relaxes(new.budget, auths[new.prev].budget)
               PROVE  stress[Max(L)].obligation.status # "OUTSTANDING"
    BY DEF vars
  <2>1. DOMAIN auths = 1 .. Len(auths) /\ Len(auths) \in Nat /\ IsSeq(auths)
    BY Indices DEF PInv, Dated
  <2>2. auths' # auths
    BY <2>1
  <2>3. PICK p, cutoff, conf, eff, b, scope, cash, prev, proved :
           Confirm(p, cutoff, conf, eff, b, scope, cash, prev, proved)
    <3>1. CASE \E x \in Prices : Move(x)
      BY <2>2, <3>1 DEF Move, Report
    <3>2. CASE \E q \in {-1, 1}, late \in BOOLEAN : Fill(q, late)
      BY <2>2, <3>2 DEF Fill, Report
    <3>3. CASE \E i \in DOMAIN ledger : Correct(i)
      BY <2>2, <3>3 DEF Correct, Report
    <3>4. ASSUME NEW p, NEW cutoff, NEW a, Use(p, cutoff, a) PROVE FALSE
      BY <2>2, <3>4 DEF Use
    <3>5. ASSUME NEW p, NEW t, NEW a, NEW allowed, NEW scope, NEW reconciled, NEW known,
                 AssessStress(p, t, a, allowed, scope, reconciled, known)
          PROVE  FALSE
      <4>1. UNCHANGED <<bound, now, path, ledger, auths, usage>>
        BY <3>5, Zenon DEF AssessStress
      <4> QED
        BY <2>2, <4>1
    <3> QED
      BY <3>1, <3>2, <3>3, <3>4, <3>5, Zenon DEF Next
  <2>4. PICK r : r = [portfolio |-> p, conf |-> conf, eff |-> eff, budget |-> b,
                      scope |-> scope, cash |-> cash, prev |-> prev]
    OBVIOUS
  <2>5. auths' = Append(auths, r) /\ prev = Leaf(Lineage(p))
    BY <2>3, <2>4 DEF Confirm
  <2>6. new = r
    <3>1. PICK l : l = auths'
      OBVIOUS
    <3>2. l = Append(auths, r) /\ IsSeq(auths) /\ new = l[Len(l)]
      BY <2>1, <2>5, <3>1
    <3>3. l[Len(l)] = r
      BY ONLY <3>2, Appended
    <3> QED
      BY <3>2, <3>3
  <2>7. new.portfolio = p /\ new.budget = b /\ new.prev = prev
    BY <2>4, <2>6
  <2>8. RelaxationAllowed(p, cutoff, conf, proved)
    BY <2>3, <2>5, <2>7 DEF Confirm
  <2>9. StressOf(p) # {} => Clear(stress[Max(StressOf(p))])
    BY <2>8 DEF RelaxationAllowed, Restored
  <2>10. \A k \in L : k \in StressOf(p) /\ k \in DOMAIN stress
    BY <2>7 DEF Assessments, StressOf
  <2>11. DOMAIN stress = 1 .. Len(stress) /\ Len(stress) \in Nat
    BY Indices DEF PInv, Dated
  <2>12. PICK S : S = StressOf(p)
    OBVIOUS
  <2>13. S # {} /\ S \subseteq 1 .. Len(stress)
    BY <2>10, <2>11, <2>12 DEF StressOf
  <2>14. Max(S) \in S /\ \A y \in S : y <= Max(S)
    BY <2>11, <2>13, LastOf
  <2>15. PICK m : m = Max(S)
    OBVIOUS
  <2>16. m \in L
    <3>1. m \in DOMAIN stress /\ stress[m].state = "NORMAL"
      BY <2>9, <2>12, <2>13, <2>14, <2>15, <2>11 DEF Clear
    <3>2. ~stress[m].denied
      BY <3>1 DEF PInv, Recorded
    <3> QED
      BY <2>7, <2>12, <2>14, <2>15, <3>2 DEF Assessments
  <2>17. L \subseteq 1 .. Len(stress) /\ \A k \in L : k \in S
    BY <2>10, <2>11, <2>12
  <2>18. Max(L) \in L /\ \A y \in L : y <= Max(L)
    BY <2>11, <2>17, LastOf
  <2>19. Max(L) = m
    <3>1. m <= Max(L) /\ Max(L) <= m
      BY <2>14, <2>15, <2>16, <2>17, <2>18
    <3>2. m \in Int /\ Max(L) \in Int
      BY <2>16, <2>17, <2>18
    <3> QED
      BY <3>1, <3>2
  <2> QED
    BY <2>9, <2>12, <2>13, <2>15, <2>19 DEF Clear
<1> QED
  BY <1>1, ProtectionInvariant, PTL DEF Spec, RelaxedWhenRestored

(***************************************************************************)
(* Monitoring: MonitoringCases.                                            *)
(***************************************************************************)

-----------------------------------------------------------------------------
(* The inductive invariant.                                                *)

\* An identity that no conclusion has.
Identified(id) == id[1] = 0 => \E o \in id[2] : o[1] # "conclusion"

RiskCase(c) == {"id", "pri"} \subseteq DOMAIN c /\ c.pri # "P2" /\ Identified(c.id)
Delivery(c, e) == /\ c.pri = "P2" /\ c.id = <<0, {Conclusion(e.src)}>>
                  /\ c.win = e.win /\ e.from = e.src
RiskCases(q) == IsSeq(q) /\ \A k \in DOMAIN q : RiskCase(q[k])
CasesOf(e) == /\ IsSeq(e.cases)
              /\ \A k \in DOMAIN e.cases : RiskCase(e.cases[k]) \/ Delivery(e.cases[k], e)

\* Targets of a plan name no conclusion, targets of an action not only one.
Free(t) == \A s \in DOMAIN t : \A o \in t[s].obs : o[1] # "conclusion"
Mixed(t) == \A s \in DOMAIN t : t[s].obs = {} \/ \E o \in t[s].obs : o[1] # "conclusion"

PlanEntry(e) == e.kind = "PLAN" => "targets" \in DOMAIN e /\ Free(e.targets)
ActEntry(e) ==
    e.kind = "ACTION" =>
        /\ {"targets", "own", "sec"} \subseteq DOMAIN e
        /\ Mixed(e.targets) /\ DOMAIN e.own \subseteq {e.sec}
ReviewEntry(e, n) ==
    e.kind \in AssessmentKinds =>
        /\ {"src", "win", "reason", "cases", "from"} \subseteq DOMAIN e
        /\ e.src \in 1 .. (n - 1)
        /\ CasesOf(e)
        /\ Rejected(e) => e.cases = <<>>
Sent(e, f) ==
    \A a \in e.sent : \E c \in ToSet(f.cases) :
        a.id = c.id /\ a.pri = c.pri /\ (c.pri = "P2" => e.at < c.win)
NoticeEntry(L, n) ==
    L[n].kind = "NOTIFY" =>
        /\ L[n].src \in 1 .. (n - 1) /\ L[L[n].src].kind \in AssessmentKinds
        /\ Rejected(L[n]) => L[n].sent = {} /\ L[n].due = {}
        /\ Sent(L[n], L[L[n].src])
ReportEntry(L, n) ==
    L[n].kind = "REPORT" => L[n].src \in 1 .. (n - 1) /\ L[L[n].src].kind \in AssessmentKinds

\* A correction repeats an original.
Repeats(e, f) ==
    /\ f.fixes = 0 /\ e.kind = f.kind /\ e.cut = f.cut
    /\ e.kind \in AssessmentKinds =>
          /\ e.src = f.src /\ e.win = f.win /\ e.cases = f.cases /\ e.from = f.from

Entry(L, n) ==
    /\ L[n].kind \in {"PLAN", "ACTION", "FACT"} \cup Monitoring
    /\ {"kind", "fixes", "cut"} \subseteq DOMAIN L[n]
    /\ L[n].cut \in Nat
    /\ L[n].fixes \in 0 .. (n - 1)
    /\ L[n].fixes # 0 => Repeats(L[n], L[L[n].fixes])
    /\ PlanEntry(L[n]) /\ ActEntry(L[n]) /\ ReviewEntry(L[n], n)
    /\ NoticeEntry(L, n) /\ ReportEntry(L, n)

WellKept ==
    /\ limits \in ReviewCases
    /\ clock \in Nat
    /\ IsSeq(log)
    /\ \A n \in DOMAIN log : Entry(log, n)

\* The two ways to select the current assessment agree.
OneCurrent ==
    /\ Latest = Shown
    /\ \/ Latest = 0 /\ Of(AssessmentKinds) = {}
       \/ Latest \in Of(AssessmentKinds) \cap History

\* A conclusion is first delivered once.
OneDelivery ==
    \A m, n \in Of(AssessmentKinds) :
        (/\ log[m].fixes = 0 /\ log[n].fixes = 0 /\ log[m].src = log[n].src
         /\ HasP2(m) /\ HasP2(n)) => m = n

\* While a conclusion holds, the notices that reached or owe somebody are one
\* chain.
Reaching(n) == log[n].sent # {} \/ log[n].due # {}
OneChain ==
    \A m, n \in Of({"NOTIFY"}) :
        (/\ log[m].src = log[n].src /\ Reaching(m) /\ Reaching(n)
         /\ HasP2(log[m].src) /\ StatisticsCurrent(log[m].src)) => log[m].key = log[n].key
OneKey ==
    \A m, n \in Of({"NOTIFY"}) : \A a \in log[m].sent, b \in log[n].sent :
        (a.pri = "P2" /\ a.id = b.id /\ log[m].src = log[n].src) => log[m].key = log[n].key

ReviewInv == WellKept /\ OneCurrent /\ OneDelivery /\ OneChain /\ OneKey
\* A set of numbers has a smallest member.
LEMMA SmallestIsThere ==
    ASSUME NEW S, S \subseteq Nat, S # {}
    PROVE  \E x \in S : \A y \in S : x <= y
<1>1. PICK x \in S : \A y \in S : ~(<<y, x>> \in OpToRel(<, Nat))
  BY NatLessThanWellFounded, WFMin, Zenon
<1>2. \A y \in S : x <= y
  <2> TAKE y \in S
  <2>1. ~(y < x)
    BY <1>1 DEF OpToRel
  <2> QED
    BY <2>1
<1> QED
  BY <1>2

-----------------------------------------------------------------------------
(* Values computed one after the other.                                    *)

Stepped(f, N, D, b, G) ==
    f \in [0 .. N -> D] /\ f[0] = b /\ \A k \in 1 .. N : f[k] = G[k][f[k - 1]]
Steps(N, D, G) == \A k \in 1 .. N : G[k] \in [D -> D]

\* There are such values.
LEMMA StepsExist ==
    ASSUME NEW N \in Nat, NEW D, NEW b \in D, NEW G, Steps(N, D, G)
    PROVE  \E f : Stepped(f, N, D, b, G)
<1> DEFINE P(f, i) == f \in [0 .. N -> D] /\ f[0] = b
                      /\ \A k \in 1 .. N : k <= i => f[k] = G[k][f[k - 1]]
           Bad == {i \in Nat : i <= N /\ ~\E f : P(f, i)}
<1>0. \A k \in 1 .. N : G[k] \in [D -> D]
  BY DEF Steps
<1>1. SUFFICES ASSUME Bad # {} PROVE FALSE
  <2> HIDE DEF P
  <2>1. N \notin Bad
    BY <1>1, Zenon
  <2>2. PICK f : P(f, N)
    BY <2>1
  <2> USE DEF P
  <2>3. \A k \in 1 .. N : k <= N
    OBVIOUS
  <2> QED
    BY <2>2, <2>3 DEF Stepped
<1>2. PICK i \in Bad : \A j \in Bad : i <= j
  <2>1. Bad \subseteq Nat
    OBVIOUS
  <2> QED
    BY <1>1, <2>1, SmallestIsThere
<1>3. i \in Nat /\ i <= N /\ ~\E f : P(f, i)
  OBVIOUS
<1>4. i # 0
  <2>1. P([k \in 0 .. N |-> b], 0)
    OBVIOUS
  <2> QED
    BY <1>3, <2>1
<1>5. PICK f : P(f, i - 1)
  <2>1. i - 1 \in Nat /\ ~(i <= i - 1) /\ i - 1 <= N
    BY <1>3, <1>4
  <2>2. i - 1 \in Bad => i <= i - 1
    BY <1>2
  <2> QED
    BY <2>1, <2>2
<1>6. PICK v : v = G[i][f[i - 1]]
  OBVIOUS
<1>7. v \in D
  <2>1. i \in 1 .. N /\ i - 1 \in 0 .. N
    BY <1>3, <1>4
  <2>2. G[i] \in [D -> D]
    BY <1>0, <2>1, Zenon
  <2>3. f[i - 1] \in D
    BY <1>5, <2>1
  <2> QED
    BY <1>6, <2>2, <2>3
<1>8. PICK g : g = [k \in 0 .. N |-> IF k = i THEN v ELSE f[k]]
  OBVIOUS
<1>9. g \in [0 .. N -> D] /\ g[0] = b
  BY <1>3, <1>4, <1>5, <1>7, <1>8
<1>10. ASSUME NEW k \in 1 .. N, k <= i PROVE g[k] = G[k][g[k - 1]]
  <2>1. k - 1 \in 0 .. N /\ k - 1 # i /\ k \in 0 .. N
    BY <1>3, <1>10
  <2>2. g[k - 1] = f[k - 1]
    BY <1>8, <2>1
  <2>3. CASE k = i
    BY <1>6, <1>8, <2>1, <2>2, <2>3
  <2>4. CASE k # i
    <3>1. k <= i - 1 /\ g[k] = f[k]
      BY <1>3, <1>8, <1>10, <2>1, <2>4
    <3> QED
      BY <1>5, <2>2, <3>1
  <2> QED
    BY <2>3, <2>4
<1>11. P(g, i)
  BY <1>9, <1>10
<1> QED
  BY <1>3, <1>11

\* Values computed by steps that stay in a set are in it.
LEMMA StepsStay ==
    ASSUME NEW N \in Nat, NEW D, NEW h, h[0] \in D,
           \A k \in 1 .. N : h[k - 1] \in D => h[k] \in D
    PROVE  \A k \in 0 .. N : h[k] \in D
<1> DEFINE Bad == {i \in Nat : i <= N /\ h[i] \notin D}
<1>1. SUFFICES ASSUME Bad # {} PROVE FALSE
  <2>1. \A k \in 0 .. N : k \in Nat /\ k <= N
    OBVIOUS
  <2> QED
    BY <1>1, <2>1
<1>2. PICK i \in Bad : \A j \in Bad : i <= j
  <2>1. Bad \subseteq Nat
    OBVIOUS
  <2> QED
    BY <1>1, <2>1, SmallestIsThere
<1>3. i \in Nat /\ i <= N /\ h[i] \notin D /\ i # 0
  OBVIOUS
<1>4. i - 1 \in Nat /\ i - 1 <= N /\ ~(i <= i - 1) /\ i \in 1 .. N
  BY <1>3
<1>5. h[i - 1] \in D
  BY <1>2, <1>4
<1> QED
  BY <1>3, <1>4, <1>5

\* Equal steps compute equal values.
LEMMA StepsAgree ==
    ASSUME NEW N \in Nat, NEW f, NEW h, f[0] = h[0],
           \A k \in 1 .. N : f[k - 1] = h[k - 1] => f[k] = h[k]
    PROVE  \A k \in 0 .. N : f[k] = h[k]
<1> DEFINE Bad == {i \in Nat : i <= N /\ f[i] # h[i]}
<1>1. SUFFICES ASSUME Bad # {} PROVE FALSE
  <2>1. \A k \in 0 .. N : k \in Nat /\ k <= N
    OBVIOUS
  <2> QED
    BY <1>1, <2>1
<1>2. PICK i \in Bad : \A j \in Bad : i <= j
  <2>1. Bad \subseteq Nat
    OBVIOUS
  <2> QED
    BY <1>1, <2>1, SmallestIsThere
<1>3. i \in Nat /\ i <= N /\ f[i] # h[i] /\ i # 0
  OBVIOUS
<1>4. i - 1 \in Nat /\ i - 1 <= N /\ ~(i <= i - 1) /\ i \in 1 .. N
  BY <1>3
<1>5. f[i - 1] = h[i - 1]
  BY <1>2, <1>4
<1> QED
  BY <1>3, <1>4, <1>5

-----------------------------------------------------------------------------
(* The latest assessment, and the one shown.                               *)

\* The selection of monitoring_history, event by event.
LEMMA LatestSteps ==
    ASSUME NEW L, IsSeq(L)
    PROVE  /\ LatestOf(L)[0] = 0
           /\ \A k \in 1 .. Len(L) :
                 LatestOf(L)[k] = IF Counts(L[k], LatestOf(L)[k - 1]) THEN k ELSE LatestOf(L)[k - 1]
<1>0. PICK N \in Nat : N = Len(L)
  BY Indices
<1> DEFINE step(k, x) == IF Counts(L[k], x) THEN k ELSE x
           G == [k \in 1 .. N |-> [x \in Nat |-> step(k, x)]]
<1>1. PICK f : Stepped(f, N, Nat, 0, G)
  <2>1. \A k \in 1 .. N : \A x \in Nat : step(k, x) \in Nat
    OBVIOUS
  <2> HIDE DEF step
  <2>2. Steps(N, Nat, G)
    BY <2>1 DEF Steps
  <2>3. 0 \in Nat
    OBVIOUS
  <2> HIDE DEF G
  <2> QED
    BY <1>0, <2>2, <2>3, StepsExist, Zenon
<1>2. \E h : h = [n \in 0 .. Len(L) |-> IF n = 0 THEN 0
                                        ELSE IF Counts(L[n], h[n - 1]) THEN n ELSE h[n - 1]]
  <2>1. \A k \in 1 .. N : f[k] = IF Counts(L[k], f[k - 1]) THEN k ELSE f[k - 1]
    <3> TAKE k \in 1 .. N
    <3>1. f[k - 1] \in Nat
      BY <1>0, <1>1 DEF Stepped
    <3>2. f[k] = G[k][f[k - 1]]
      BY <1>1 DEF Stepped
    <3> QED
      BY <3>1, <3>2
  <2>2. \A k \in 0 .. N : k = 0 \/ k \in 1 .. N
    BY <1>0
  <2>3. \A n \in 0 .. N : f[n] = IF n = 0 THEN 0 ELSE IF Counts(L[n], f[n - 1]) THEN n ELSE f[n - 1]
    BY <1>1, <2>1, <2>2 DEF Stepped
  <2>4. f = [n \in 0 .. N |-> IF n = 0 THEN 0 ELSE IF Counts(L[n], f[n - 1]) THEN n ELSE f[n - 1]]
    BY <1>1, <2>3 DEF Stepped
  <2> QED
    BY <1>0, <2>4
<1>3. LatestOf(L) = [n \in 0 .. Len(L) |-> IF n = 0 THEN 0
                       ELSE IF Counts(L[n], LatestOf(L)[n - 1]) THEN n ELSE LatestOf(L)[n - 1]]
  BY <1>2, Zenon DEF LatestOf
<1>4. PICK h : h = LatestOf(L)
  OBVIOUS
<1>5. h = [n \in 0 .. N |-> IF n = 0 THEN 0 ELSE IF Counts(L[n], h[n - 1]) THEN n ELSE h[n - 1]]
  BY <1>0, <1>3, <1>4, Zenon
<1>6. h[0] = 0
  BY <1>5
<1>7. \A k \in 1 .. N : h[k] = IF Counts(L[k], h[k - 1]) THEN k ELSE h[k - 1]
  BY <1>5
<1> QED
  BY <1>0, <1>4, <1>6, <1>7

\* One more event leaves the selections before it as they were.
LEMMA LatestExtends ==
    ASSUME NEW L, IsSeq(L), NEW e, NEW U, U = Append(L, e)
    PROVE  /\ \A k \in DOMAIN L : LatestOf(U)[k] = LatestOf(L)[k]
           /\ LatestOf(U)[Len(U)] = IF Counts(e, LatestOf(L)[Len(L)]) THEN Len(U)
                                    ELSE LatestOf(L)[Len(L)]
<1>1. /\ Len(L) \in Nat /\ Len(U) = Len(L) + 1 /\ DOMAIN L = 1 .. Len(L)
      /\ \A i \in DOMAIN L : U[i] = L[i]
      /\ U[Len(U)] = e
  BY ONLY IsSeq(L), U = Append(L, e), Appended
<1>0. IsSeq(U)
  BY ONLY IsSeq(L), U = Append(L, e), Appended
<1>2. PICK N \in Nat : N = Len(L)
  BY <1>1
<1>3. PICK f : f = LatestOf(L)
  OBVIOUS
<1>4. PICK h : h = LatestOf(U)
  OBVIOUS
<1>5. /\ f[0] = 0
      /\ \A k \in 1 .. N : f[k] = IF Counts(L[k], f[k - 1]) THEN k ELSE f[k - 1]
  BY <1>2, <1>3, LatestSteps
<1>6. /\ h[0] = 0
      /\ \A k \in 1 .. N + 1 : h[k] = IF Counts(U[k], h[k - 1]) THEN k ELSE h[k - 1]
  BY <1>0, <1>1, <1>2, <1>4, LatestSteps
<1>7. \A k \in 1 .. N : U[k] = L[k] /\ k \in 1 .. N + 1
  BY <1>1, <1>2
<1>8. \A k \in 1 .. N : f[k - 1] = h[k - 1] => f[k] = h[k]
  BY <1>5, <1>6, <1>7
<1>9. \A k \in 0 .. N : f[k] = h[k]
  <2>1. N \in Nat /\ f[0] = h[0]
    BY <1>2, <1>5, <1>6
  <2> QED
    BY ONLY <1>8, <2>1, StepsAgree
<1>10. h[N + 1] = IF Counts(e, h[N]) THEN N + 1 ELSE h[N]
  <2>1. N + 1 \in 1 .. N + 1 /\ (N + 1) - 1 = N /\ U[N + 1] = e
    BY <1>1, <1>2
  <2> QED
    BY <1>6, <2>1
<1>11. N \in 0 .. N /\ \A k \in DOMAIN L : k \in 0 .. N
  BY <1>1, <1>2
<1> QED
  BY <1>1, <1>2, <1>3, <1>4, <1>9, <1>10, <1>11

\* The selection of project_workspace, event by event.
LEMMA ShownSteps ==
    ASSUME NEW L, IsSeq(L)
    PROVE  /\ ShownOf(L)[0] = 0
           /\ \A k \in 1 .. Len(L) :
                 ShownOf(L)[k] = IF Replaces(L, k, ShownOf(L)[k - 1]) THEN k ELSE ShownOf(L)[k - 1]
<1>0. PICK N \in Nat : N = Len(L)
  BY Indices
<1> DEFINE step(k, x) == IF Replaces(L, k, x) THEN k ELSE x
           G == [k \in 1 .. N |-> [x \in Nat |-> step(k, x)]]
<1>1. PICK f : Stepped(f, N, Nat, 0, G)
  <2>1. \A k \in 1 .. N : \A x \in Nat : step(k, x) \in Nat
    OBVIOUS
  <2> HIDE DEF step
  <2>2. Steps(N, Nat, G)
    BY <2>1 DEF Steps
  <2>3. 0 \in Nat
    OBVIOUS
  <2> HIDE DEF G
  <2> QED
    BY <1>0, <2>2, <2>3, StepsExist, Zenon
<1>2. \E h : h = [n \in 0 .. Len(L) |-> IF n = 0 THEN 0
                                        ELSE IF Replaces(L, n, h[n - 1]) THEN n ELSE h[n - 1]]
  <2>1. \A k \in 1 .. N : f[k] = IF Replaces(L, k, f[k - 1]) THEN k ELSE f[k - 1]
    <3> TAKE k \in 1 .. N
    <3>1. f[k - 1] \in Nat
      BY <1>0, <1>1 DEF Stepped
    <3>2. f[k] = G[k][f[k - 1]]
      BY <1>1 DEF Stepped
    <3> QED
      BY <3>1, <3>2
  <2>2. \A k \in 0 .. N : k = 0 \/ k \in 1 .. N
    BY <1>0
  <2>3. \A n \in 0 .. N : f[n] = IF n = 0 THEN 0 ELSE IF Replaces(L, n, f[n - 1]) THEN n ELSE f[n - 1]
    BY <1>1, <2>1, <2>2 DEF Stepped
  <2>4. f = [n \in 0 .. N |-> IF n = 0 THEN 0 ELSE IF Replaces(L, n, f[n - 1]) THEN n ELSE f[n - 1]]
    BY <1>1, <2>3 DEF Stepped
  <2> QED
    BY <1>0, <2>4
<1>3. ShownOf(L) = [n \in 0 .. Len(L) |-> IF n = 0 THEN 0
                       ELSE IF Replaces(L, n, ShownOf(L)[n - 1]) THEN n ELSE ShownOf(L)[n - 1]]
  BY <1>2, Zenon DEF ShownOf
<1>4. PICK h : h = ShownOf(L)
  OBVIOUS
<1>5. h = [n \in 0 .. N |-> IF n = 0 THEN 0 ELSE IF Replaces(L, n, h[n - 1]) THEN n ELSE h[n - 1]]
  BY <1>0, <1>3, <1>4, Zenon
<1>6. h[0] = 0
  BY <1>5
<1>7. \A k \in 1 .. N : h[k] = IF Replaces(L, k, h[k - 1]) THEN k ELSE h[k - 1]
  BY <1>5
<1> QED
  BY <1>0, <1>4, <1>6, <1>7

\* One more event leaves the selections before it as they were.
LEMMA ShownExtends ==
    ASSUME NEW L, IsSeq(L), NEW e, NEW U, U = Append(L, e)
    PROVE  /\ ShownOf(L)[Len(L)] \in 0 .. Len(L)
           /\ \A k \in DOMAIN L : ShownOf(U)[k] = ShownOf(L)[k]
           /\ ShownOf(U)[Len(U)] = IF Replaces(U, Len(U), ShownOf(L)[Len(L)]) THEN Len(U)
                                    ELSE ShownOf(L)[Len(L)]
<1>1. /\ Len(L) \in Nat /\ Len(U) = Len(L) + 1 /\ DOMAIN L = 1 .. Len(L)
      /\ \A i \in DOMAIN L : U[i] = L[i]
      /\ U[Len(U)] = e
  BY ONLY IsSeq(L), U = Append(L, e), Appended
<1>0. IsSeq(U)
  BY ONLY IsSeq(L), U = Append(L, e), Appended
<1>2. PICK N \in Nat : N = Len(L)
  BY <1>1
<1>3. PICK f : f = ShownOf(L)
  OBVIOUS
<1>4. PICK h : h = ShownOf(U)
  OBVIOUS
<1>5. /\ f[0] = 0
      /\ \A k \in 1 .. N : f[k] = IF Replaces(L, k, f[k - 1]) THEN k ELSE f[k - 1]
  BY <1>2, <1>3, ShownSteps
<1>6. /\ h[0] = 0
      /\ \A k \in 1 .. N + 1 : h[k] = IF Replaces(U, k, h[k - 1]) THEN k ELSE h[k - 1]
  BY <1>0, <1>1, <1>2, <1>4, ShownSteps
<1>7. \A k \in 1 .. N : U[k] = L[k] /\ k \in 1 .. N + 1
  BY <1>1, <1>2
<1>8. \A k \in 0 .. N : f[k] \in 0 .. N
  <2>1. 0 \in 0 .. N
    BY <1>2
  <2>2. \A k \in 1 .. N : f[k - 1] \in 0 .. N => f[k] \in 0 .. N
    BY <1>2, <1>5
  <2> QED
    BY <1>2, <1>5, <2>1, <2>2, StepsStay
<1>12. ASSUME NEW k \in 1 .. N, f[k - 1] = h[k - 1] PROVE f[k] = h[k]
  <2>1. k - 1 \in 0 .. N
    BY <1>2
  <2>2. PICK x : x = f[k - 1]
    OBVIOUS
  <2>3. x \in 0 .. N
    BY <1>8, <2>1, <2>2
  <2>4. x # 0 => U[x] = L[x]
    BY <1>2, <1>7, <2>3
  <2>5. Replaces(U, k, x) <=> Replaces(L, k, x)
    BY <1>7, <2>4 DEF Replaces
  <2>6. f[k] = IF Replaces(L, k, x) THEN k ELSE x
    BY <1>5, <2>2
  <2>7. h[k] = IF Replaces(U, k, x) THEN k ELSE x
    BY <1>6, <1>7, <1>12, <2>2
  <2> QED
    BY <2>5, <2>6, <2>7
<1>9. \A k \in 0 .. N : f[k] = h[k]
  <2>1. N \in Nat /\ f[0] = h[0]
    BY <1>2, <1>5, <1>6
  <2> QED
    BY ONLY <1>12, <2>1, StepsAgree
<1>10. h[N + 1] = IF Replaces(U, N + 1, h[N]) THEN N + 1 ELSE h[N]
  <2>1. N + 1 \in 1 .. N + 1 /\ (N + 1) - 1 = N /\ U[N + 1] = e
    BY <1>1, <1>2
  <2> QED
    BY <1>6, <2>1
<1>11. N \in 0 .. N /\ \A k \in DOMAIN L : k \in 0 .. N
  BY <1>1, <1>2
<1> QED
  BY <1>1, <1>2, <1>3, <1>4, <1>8, <1>9, <1>10, <1>11

-----------------------------------------------------------------------------
(* Lists of cases.                                                         *)

\* The items up to each place that were chosen.
ChosenBy(h, items, places) ==
    /\ h[0] = <<>>
    /\ \A k \in 1 .. Len(items) :
          h[k] = IF k \in places THEN Append(h[k - 1], items[k]) ELSE h[k - 1]

\* The items at some places, one after the other.
LEMMA ChosenSteps ==
    ASSUME NEW items, IsSeq(items), NEW places, NEW T, \A k \in DOMAIN items : k \in places => items[k] \in T
    PROVE  \E h : /\ Chosen(items, places) = h[Len(items)]
                  /\ ChosenBy(h, items, places)
                  /\ \A k \in 0 .. Len(items) : h[k] \in Seq(T)
<1>0. PICK N \in Nat : N = Len(items)
  BY Indices
<1>a. PICK D : D = Seq(T)
  OBVIOUS
<1> DEFINE step(k, x) == IF k \in places THEN Append(x, items[k]) ELSE x
           G == [k \in 1 .. N |-> [x \in D |-> step(k, x)]]
<1>1. <<>> \in D
  BY <1>a
<1>2. \A k \in 1 .. N : \A x \in D : step(k, x) \in D
  <2> TAKE k \in 1 .. N
  <2> TAKE x \in D
  <2>1. k \in DOMAIN items
    BY <1>0, Indices
  <2>2. k \in places => items[k] \in T
    BY <2>1
  <2> QED
    BY <1>a, <2>2
<1>3. PICK f : Stepped(f, N, D, <<>>, G)
  <2> HIDE DEF step
  <2>1. Steps(N, D, G)
    BY <1>2 DEF Steps
  <2> HIDE DEF G
  <2> QED
    BY <1>0, <1>1, <2>1, StepsExist, Zenon
<1>4. \A k \in 1 .. N : f[k] = step(k, f[k - 1])
  <2> TAKE k \in 1 .. N
  <2> HIDE DEF step
  <2>1. f[k - 1] \in D
    BY <1>0, <1>3 DEF Stepped
  <2>2. f[k] = G[k][f[k - 1]]
    BY <1>3 DEF Stepped
  <2> QED
    BY <2>1, <2>2
<1>5. \A k \in 0 .. N : f[k] = IF k = 0 THEN <<>> ELSE IF k \in places THEN Append(f[k - 1], items[k]) ELSE f[k - 1]
  <2>1. \A k \in 0 .. N : k = 0 \/ k \in 1 .. N
    BY <1>0
  <2>2. f[0] = <<>>
    BY <1>3 DEF Stepped
  <2> TAKE k \in 0 .. N
  <2>3. CASE k = 0
    BY <2>2, <2>3
  <2>4. CASE k # 0 /\ k \in 1 .. N
    <3>1. f[k] = step(k, f[k - 1])
      BY <1>4, <2>4
    <3> QED
      BY <2>4, <3>1, Zenon
  <2> QED
    BY <2>1, <2>3, <2>4
<1>6. f = [k \in 0 .. Len(items) |-> IF k = 0 THEN <<>> ELSE IF k \in places THEN Append(f[k - 1], items[k]) ELSE f[k - 1]]
  <2> HIDE DEF step, G
  <2>1. f = [k \in 0 .. N |-> f[k]]
    BY <1>3 DEF Stepped
  <2>2. [k \in 0 .. N |-> f[k]] = [k \in 0 .. N |-> IF k = 0 THEN <<>> ELSE IF k \in places THEN Append(f[k - 1], items[k]) ELSE f[k - 1]]
    BY <1>5, Zenon
  <2> QED
    BY <1>0, <2>1, <2>2, Zenon
<1>7. PICK h : h = CHOOSE g : g = [k \in 0 .. Len(items) |-> IF k = 0 THEN <<>> ELSE IF k \in places THEN Append(g[k - 1], items[k]) ELSE g[k - 1]]
  OBVIOUS
<1>8. h = [k \in 0 .. Len(items) |-> IF k = 0 THEN <<>> ELSE IF k \in places THEN Append(h[k - 1], items[k]) ELSE h[k - 1]]
  BY <1>6, <1>7, Zenon
<1>9. Chosen(items, places) = h[Len(items)]
  BY <1>7, Zenon DEF Chosen
<1>10. h[0] = <<>> /\ \A k \in 1 .. N : h[k] = step(k, h[k - 1])
  <2> HIDE DEF step
  <2>1. \A k \in 1 .. N : k \in 0 .. N /\ k # 0
    BY <1>0
  <2>2. 0 \in 0 .. N
    BY <1>0
  <2>3. h = [k \in 0 .. N |-> IF k = 0 THEN <<>> ELSE step(k, h[k - 1])]
    BY <1>0, <1>8, Zenon DEF step
  <2> QED
    BY <2>1, <2>2, <2>3, Zenon
<1>11. \A k \in 0 .. N : h[k] \in D
  <2> HIDE DEF step
  <2>1. \A k \in 1 .. N : h[k - 1] \in D => h[k] \in D
    BY <1>2, <1>10
  <2>2. h[0] \in D
    BY <1>1, <1>10
  <2>3. N \in Nat
    BY <1>0
  <2> QED
    BY ONLY <2>1, <2>2, <2>3, StepsStay
<1>12. \A k \in 1 .. N : h[k] = IF k \in places THEN Append(h[k - 1], items[k]) ELSE h[k - 1]
  BY <1>10
<1>13. ChosenBy(h, items, places)
  BY <1>0, <1>10, <1>12 DEF ChosenBy
<1> QED
  BY <1>0, <1>9, <1>11, <1>13, <1>a

\* The items at some places are what they are.
LEMMA ChosenIn ==
    ASSUME NEW items, IsSeq(items), NEW places, NEW T, \A k \in DOMAIN items : k \in places => items[k] \in T
    PROVE  Chosen(items, places) \in Seq(T)
<1>1. PICK h : /\ Chosen(items, places) = h[Len(items)]
               /\ \A k \in 0 .. Len(items) : h[k] \in Seq(T)
  BY ChosenSteps
<1>2. Len(items) \in 0 .. Len(items)
  BY Indices
<1> QED
  BY <1>1, <1>2

\* One more item, in its place.
LEMMA PutIn ==
    ASSUME NEW T, NEW items \in Seq(T), NEW item \in T
    PROVE  Put(items, item) \in Seq(T)
<1>1. CASE \E k \in DOMAIN items : items[k].id = item.id
  <2>1. PICK n \in Nat : n = Len(items)
    OBVIOUS
  <2>2. items \in [1 .. n -> T] /\ DOMAIN items = 1 .. n
    BY <2>1
  <2>3. PICK u : u = [k \in 1 .. n |-> IF items[k].id = item.id THEN item ELSE items[k]]
    OBVIOUS
  <2>4. u \in [1 .. n -> T]
    BY <2>2, <2>3
  <2>5. Put(items, item) = u
    BY <1>1, <2>2, <2>3, Zenon DEF Put
  <2> QED
    BY ONLY <2>4, <2>5, n \in Nat
<1>2. CASE ~\E k \in DOMAIN items : items[k].id = item.id
  <2>1. Put(items, item) = Append(items, item)
    BY <1>2, Zenon DEF Put
  <2> QED
    BY <2>1
<1> QED
  BY <1>1, <1>2

\* What h holds after each of more, from items on.
PutAllBy(h, items, more) ==
    /\ h[0] = items
    /\ \A k \in 1 .. Len(more) : h[k] = Put(h[k - 1], more[k])

\* Many more, one after the other.
LEMMA PutAllSteps ==
    ASSUME NEW T, NEW items \in Seq(T), NEW more \in Seq(T)
    PROVE  \E h : /\ PutAll(items, more) = h[Len(more)]
                  /\ PutAllBy(h, items, more)
                  /\ \A k \in 0 .. Len(more) : h[k] \in Seq(T)
<1>0. PICK N \in Nat : N = Len(more)
  OBVIOUS
<1>a. PICK D : D = Seq(T)
  OBVIOUS
<1> DEFINE step(k, x) == Put(x, more[k])
           G == [k \in 1 .. N |-> [x \in D |-> step(k, x)]]
<1>1. items \in D
  BY <1>a
<1>2. \A k \in 1 .. N : \A x \in D : step(k, x) \in D
  <2> TAKE k \in 1 .. N
  <2> TAKE x \in D
  <2>1. more[k] \in T
    BY <1>0
  <2> QED
    BY <1>a, <2>1, PutIn
<1>3. PICK f : Stepped(f, N, D, items, G)
  <2> HIDE DEF step
  <2>1. Steps(N, D, G)
    BY <1>2 DEF Steps
  <2> HIDE DEF G
  <2> QED
    BY <1>0, <1>1, <2>1, StepsExist, Zenon
<1>4. \A k \in 1 .. N : f[k] = step(k, f[k - 1])
  <2> TAKE k \in 1 .. N
  <2> HIDE DEF step
  <2>1. f[k - 1] \in D
    BY <1>0, <1>3 DEF Stepped
  <2>2. f[k] = G[k][f[k - 1]]
    BY <1>3 DEF Stepped
  <2> QED
    BY <2>1, <2>2
<1>5. \A k \in 0 .. N : f[k] = IF k = 0 THEN items ELSE Put(f[k - 1], more[k])
  <2>1. \A k \in 0 .. N : k = 0 \/ k \in 1 .. N
    BY <1>0
  <2>2. f[0] = items
    BY <1>3 DEF Stepped
  <2> TAKE k \in 0 .. N
  <2>3. CASE k = 0
    BY <2>2, <2>3
  <2>4. CASE k # 0 /\ k \in 1 .. N
    <3>1. f[k] = step(k, f[k - 1])
      BY <1>4, <2>4
    <3> QED
      BY <2>4, <3>1, Zenon
  <2> QED
    BY <2>1, <2>3, <2>4
<1>6. f = [k \in 0 .. Len(more) |-> IF k = 0 THEN items ELSE Put(f[k - 1], more[k])]
  <2> HIDE DEF step, G
  <2>1. f = [k \in 0 .. N |-> f[k]]
    BY <1>3 DEF Stepped
  <2>2. [k \in 0 .. N |-> f[k]] = [k \in 0 .. N |-> IF k = 0 THEN items ELSE Put(f[k - 1], more[k])]
    BY <1>5, Zenon
  <2> QED
    BY <1>0, <2>1, <2>2, Zenon
<1>7. PICK h : h = CHOOSE g : g = [k \in 0 .. Len(more) |-> IF k = 0 THEN items ELSE Put(g[k - 1], more[k])]
  OBVIOUS
<1>8. h = [k \in 0 .. Len(more) |-> IF k = 0 THEN items ELSE Put(h[k - 1], more[k])]
  BY <1>6, <1>7, Zenon
<1>9. PutAll(items, more) = h[Len(more)]
  BY <1>7, Zenon DEF PutAll
<1>10. h[0] = items /\ \A k \in 1 .. N : h[k] = step(k, h[k - 1])
  <2> HIDE DEF step
  <2>1. \A k \in 1 .. N : k \in 0 .. N /\ k # 0
    BY <1>0
  <2>2. 0 \in 0 .. N
    BY <1>0
  <2>3. h = [k \in 0 .. N |-> IF k = 0 THEN items ELSE step(k, h[k - 1])]
    BY <1>0, <1>8, Zenon DEF step
  <2> QED
    BY <2>1, <2>2, <2>3, Zenon
<1>11. \A k \in 0 .. N : h[k] \in D
  <2> HIDE DEF step
  <2>1. \A k \in 1 .. N : h[k - 1] \in D => h[k] \in D
    BY <1>2, <1>10
  <2>2. h[0] \in D
    BY <1>1, <1>10
  <2>3. N \in Nat
    BY <1>0
  <2> QED
    BY ONLY <2>1, <2>2, <2>3, StepsStay
<1>12. PutAllBy(h, items, more)
  BY <1>0, <1>10 DEF PutAllBy
<1>13. \A k \in 0 .. Len(more) : h[k] \in Seq(T)
  BY <1>0, <1>11, <1>a, Zenon
<1> QED
  BY <1>9, <1>12, <1>13, Zenon

\* Items put among items.
LEMMA PutAllIn ==
    ASSUME NEW T, NEW items \in Seq(T), NEW more \in Seq(T)
    PROVE  PutAll(items, more) \in Seq(T)
<1>1. PICK h : /\ PutAll(items, more) = h[Len(more)]
               /\ \A k \in 0 .. Len(more) : h[k] \in Seq(T)
  BY PutAllSteps
<1>2. Len(more) \in 0 .. Len(more)
  OBVIOUS
<1> QED
  BY <1>1, <1>2

\* The cases earlier assessments left, one assessment after the other.
LEMMA RetainedSteps ==
    ASSUME IsSeq(log), NEW T,
           \A n \in DOMAIN log : log[n].kind \in AssessmentKinds =>
               /\ IsSeq(log[n].cases)
               /\ \A k \in DOMAIN log[n].cases : log[n].cases[k].pri # "P2" => log[n].cases[k] \in T
    PROVE  \E h : /\ RetainedCases = h[Len(log)]
                  /\ h[0] = <<>>
                  /\ \A k \in 1 .. Len(log) :
                        h[k] = IF k \in History /\ log[k].kind \in AssessmentKinds
                               THEN PutAll(h[k - 1], Risk(log[k].cases)) ELSE h[k - 1]
                  /\ \A k \in 0 .. Len(log) : h[k] \in Seq(T)
<1>0. PICK N \in Nat : N = Len(log)
  BY Indices
<1>a. PICK D : D = Seq(T)
  OBVIOUS
<1> DEFINE step(k, x) == IF k \in History /\ log[k].kind \in AssessmentKinds
                   THEN PutAll(x, Risk(log[k].cases)) ELSE x
           G == [k \in 1 .. N |-> [x \in D |-> step(k, x)]]
<1>1. <<>> \in D
  BY <1>a
<1>2. \A k \in 1 .. N : \A x \in D : step(k, x) \in D
  <2> TAKE k \in 1 .. N
  <2> TAKE x \in D
  <2>1. k \in DOMAIN log
    BY <1>0, Indices
  <2>2. ASSUME log[k].kind \in AssessmentKinds PROVE PutAll(x, Risk(log[k].cases)) \in D
    <3>1. PICK q : q = log[k].cases
      OBVIOUS
    <3>2. IsSeq(q) /\ \A j \in DOMAIN q : j \in {i \in DOMAIN q : q[i].pri # "P2"} => q[j] \in T
      BY <2>1, <2>2, <3>1
    <3>3. Risk(q) \in Seq(T)
      BY <3>2, ChosenIn, Zenon DEF Risk
    <3> QED
      BY <1>a, <3>1, <3>3, PutAllIn
  <2> QED
    BY <2>2
<1>3. PICK f : Stepped(f, N, D, <<>>, G)
  <2> HIDE DEF step
  <2>1. Steps(N, D, G)
    BY <1>2 DEF Steps
  <2> HIDE DEF G
  <2> QED
    BY <1>0, <1>1, <2>1, StepsExist, Zenon
<1>4. \A k \in 1 .. N : f[k] = step(k, f[k - 1])
  <2> TAKE k \in 1 .. N
  <2> HIDE DEF step
  <2>1. f[k - 1] \in D
    BY <1>0, <1>3 DEF Stepped
  <2>2. f[k] = G[k][f[k - 1]]
    BY <1>3 DEF Stepped
  <2> QED
    BY <2>1, <2>2
<1>5. \A n \in 0 .. N : f[n] = IF n = 0 THEN <<>> ELSE IF n \in History /\ log[n].kind \in AssessmentKinds
                   THEN PutAll(f[n - 1], Risk(log[n].cases)) ELSE f[n - 1]
  <2>1. \A k \in 0 .. N : k = 0 \/ k \in 1 .. N
    BY <1>0
  <2>2. f[0] = <<>>
    BY <1>3 DEF Stepped
  <2> TAKE n \in 0 .. N
  <2>3. CASE n = 0
    BY <2>2, <2>3
  <2>4. CASE n # 0 /\ n \in 1 .. N
    <3>1. f[n] = step(n, f[n - 1])
      BY <1>4, <2>4
    <3> QED
      BY <2>4, <3>1, Zenon
  <2> QED
    BY <2>1, <2>3, <2>4
<1>6. f = [n \in 0 .. Len(log) |-> IF n = 0 THEN <<>> ELSE IF n \in History /\ log[n].kind \in AssessmentKinds
                   THEN PutAll(f[n - 1], Risk(log[n].cases)) ELSE f[n - 1]]
  <2> HIDE DEF step, G
  <2>1. f = [n \in 0 .. N |-> f[n]]
    BY <1>3 DEF Stepped
  <2>2. [n \in 0 .. N |-> f[n]] = [n \in 0 .. N |-> IF n = 0 THEN <<>> ELSE IF n \in History /\ log[n].kind \in AssessmentKinds
                   THEN PutAll(f[n - 1], Risk(log[n].cases)) ELSE f[n - 1]]
    BY <1>5, Zenon
  <2> QED
    BY <1>0, <2>1, <2>2, Zenon
<1>7. PICK h : h = CHOOSE g : g = [n \in 0 .. Len(log) |-> IF n = 0 THEN <<>> ELSE IF n \in History /\ log[n].kind \in AssessmentKinds
                   THEN PutAll(g[n - 1], Risk(log[n].cases)) ELSE g[n - 1]]
  OBVIOUS
<1>8. h = [n \in 0 .. Len(log) |-> IF n = 0 THEN <<>> ELSE IF n \in History /\ log[n].kind \in AssessmentKinds
                   THEN PutAll(h[n - 1], Risk(log[n].cases)) ELSE h[n - 1]]
  BY <1>6, <1>7, Zenon
<1>9. RetainedCases = h[Len(log)]
  BY <1>7, Zenon DEF RetainedCases
<1>10. h[0] = <<>> /\ \A k \in 1 .. N : h[k] = step(k, h[k - 1])
  <2> HIDE DEF step
  <2>1. \A k \in 1 .. N : k \in 0 .. N /\ k # 0
    BY <1>0
  <2>2. 0 \in 0 .. N
    BY <1>0
  <2>3. h = [n \in 0 .. N |-> IF n = 0 THEN <<>> ELSE step(n, h[n - 1])]
    BY <1>0, <1>8, Zenon DEF step
  <2> QED
    BY <2>1, <2>2, <2>3, Zenon
<1>11. \A k \in 0 .. N : h[k] \in D
  <2> HIDE DEF step
  <2>1. \A k \in 1 .. N : h[k - 1] \in D => h[k] \in D
    BY <1>2, <1>10
  <2>2. h[0] \in D
    BY <1>1, <1>10
  <2>3. N \in Nat
    BY <1>0
  <2> QED
    BY ONLY <2>1, <2>2, <2>3, StepsStay
<1>12. \A k \in 1 .. N : h[k] = IF k \in History /\ log[k].kind \in AssessmentKinds
                               THEN PutAll(h[k - 1], Risk(log[k].cases)) ELSE h[k - 1]
  BY <1>10
<1> QED
  BY <1>0, <1>9, <1>10, <1>11, <1>12, <1>a

\* The cases earlier assessments left are cases they had.
LEMMA RetainedIn ==
    ASSUME IsSeq(log), NEW T,
           \A n \in DOMAIN log : log[n].kind \in AssessmentKinds =>
               /\ IsSeq(log[n].cases)
               /\ \A k \in DOMAIN log[n].cases : log[n].cases[k].pri # "P2" => log[n].cases[k] \in T
    PROVE  RetainedCases \in Seq(T)
<1>1. PICK h : /\ RetainedCases = h[Len(log)]
               /\ \A k \in 0 .. Len(log) : h[k] \in Seq(T)
  BY RetainedSteps
<1>2. Len(log) \in 0 .. Len(log)
  BY Indices
<1> QED
  BY <1>1, <1>2

-----------------------------------------------------------------------------
(* Cases that are no conclusions.                                          *)

\* A sequence over a set is one, and its items are in the set.
LEMMA IsSeqOf ==
    ASSUME NEW T, NEW q \in Seq(T)
    PROVE  IsSeq(q) /\ \A k \in DOMAIN q : q[k] \in T
<1>1. PICK n \in Nat : n = Len(q)
  OBVIOUS
<1>2. PICK R : R = {q[i] : i \in DOMAIN q}
  OBVIOUS
<1>3. q \in [1 .. n -> T] /\ DOMAIN q = 1 .. n
  BY <1>1
<1>4. \A i \in 1 .. n : q[i] \in R
  BY <1>2, <1>3
<1>5. q \in [1 .. n -> R]
  BY ONLY <1>3, <1>4
<1>6. q \in Seq(R)
  BY ONLY <1>5, n \in Nat
<1> QED
  BY <1>2, <1>3, <1>6 DEF IsSeq

\* A list of risk cases holds risk cases.
LEMMA RiskFrom ==
    ASSUME NEW T, \A x \in T : RiskCase(x), NEW q \in Seq(T)
    PROVE  RiskCases(q)
<1>1. IsSeq(q) /\ \A k \in DOMAIN q : q[k] \in T
  BY IsSeqOf
<1> QED
  BY <1>1 DEF RiskCases

\* A list of risk cases is one over a set of them.
LEMMA RiskItems ==
    ASSUME NEW q, RiskCases(q)
    PROVE  \E T : q \in Seq(T) /\ \A x \in T : RiskCase(x)
<1>1. PICK T : T = {q[i] : i \in DOMAIN q}
  OBVIOUS
<1>2. q \in Seq(T)
  BY <1>1, Zenon DEF RiskCases, IsSeq
<1>3. \A x \in T : RiskCase(x)
  BY <1>1 DEF RiskCases
<1> QED
  BY <1>2, <1>3

\* A risk case added to risk cases.
LEMMA RiskAppend ==
    ASSUME NEW q, RiskCases(q), NEW x, RiskCase(x)
    PROVE  RiskCases(Append(q, x))
<1>1. PICK T : q \in Seq(T) /\ \A y \in T : RiskCase(y)
  BY RiskItems
<1>2. PICK U : U = T \cup {x}
  OBVIOUS
<1>3. Append(q, x) \in Seq(U)
  <2>1. q \in Seq(U)
    BY <1>1, <1>2
  <2> QED
    BY <1>2, <2>1
<1>4. \A y \in U : RiskCase(y)
  BY <1>1, <1>2
<1> QED
  BY <1>3, <1>4, RiskFrom, Zenon

\* A risk case put among risk cases.
LEMMA RiskPut ==
    ASSUME NEW q, RiskCases(q), NEW x, RiskCase(x)
    PROVE  RiskCases(Put(q, x))
<1>1. PICK T : q \in Seq(T) /\ \A y \in T : RiskCase(y)
  BY RiskItems
<1>2. PICK U : U = T \cup {x}
  OBVIOUS
<1>3. Put(q, x) \in Seq(U)
  <2>1. q \in Seq(U) /\ x \in U
    BY <1>1, <1>2
  <2> QED
    BY <2>1, PutIn
<1>4. \A y \in U : RiskCase(y)
  BY <1>1, <1>2
<1> QED
  BY <1>3, <1>4, RiskFrom, Zenon

\* Some of the risk cases of a list.
LEMMA RiskChosen ==
    ASSUME NEW q, RiskCases(q), NEW places
    PROVE  RiskCases(Chosen(q, places))
<1>1. PICK T : T = {q[i] : i \in DOMAIN q}
  OBVIOUS
<1>2. IsSeq(q) /\ \A k \in DOMAIN q : k \in places => q[k] \in T
  BY <1>1 DEF RiskCases
<1>3. Chosen(q, places) \in Seq(T)
  BY <1>2, ChosenIn, Zenon
<1>4. \A x \in T : RiskCase(x)
  BY <1>1 DEF RiskCases
<1> QED
  BY <1>3, <1>4, RiskFrom, Zenon

\* Risk cases replaced by risk cases.
LEMMA RiskMapped ==
    ASSUME NEW q, RiskCases(q), NEW u, u = [k \in DOMAIN q |-> u[k]],
           \A k \in DOMAIN q : RiskCase(u[k])
    PROVE  RiskCases(u)
<1>1. PICK n \in Nat : DOMAIN q = 1 .. n
  BY Indices DEF RiskCases
<1>2. PICK T : T = {u[k] : k \in 1 .. n}
  OBVIOUS
<1>3. u = [k \in 1 .. n |-> u[k]]
  BY <1>1
<1>4. u \in [1 .. n -> T]
  BY <1>2, <1>3
<1>5. u \in Seq(T)
  BY ONLY <1>4, n \in Nat
<1>6. \A x \in T : RiskCase(x)
  BY <1>1, <1>2
<1> QED
  BY <1>5, <1>6, RiskFrom, Zenon

\* The least of a set of numbers is one of them.
LEMMA LeastIn ==
    ASSUME NEW S, S \subseteq Nat, S # {}
    PROVE  Least(S) \in S
<1>1. \E x \in S : \A y \in S : x <= y
  BY SmallestIsThere
<1> QED
  BY <1>1, Zenon DEF Least

\* What earlier assessments left.
LEMMA RetainedRisk ==
    ASSUME WellKept
    PROVE  RiskCases(RetainedCases) /\ RiskCases(Unplanned(RetainedCases))
<1>0. IsSeq(log) /\ \A n \in DOMAIN log : Entry(log, n)
  BY DEF WellKept
<1>1. PICK T : T = {x \in UNION {{log[n].cases[k] : k \in DOMAIN log[n].cases} : n \in DOMAIN log} : RiskCase(x)}
  OBVIOUS
<1>2. ASSUME NEW n \in DOMAIN log, log[n].kind \in AssessmentKinds
      PROVE  /\ IsSeq(log[n].cases)
             /\ \A k \in DOMAIN log[n].cases : log[n].cases[k].pri # "P2" => log[n].cases[k] \in T
  <2>1. CasesOf(log[n])
    BY <1>0, <1>2 DEF Entry, ReviewEntry
  <2>2. ASSUME NEW k \in DOMAIN log[n].cases, log[n].cases[k].pri # "P2" PROVE log[n].cases[k] \in T
    <3>1. RiskCase(log[n].cases[k])
      BY <2>1, <2>2 DEF CasesOf, Delivery
    <3> QED
      BY <1>1, <3>1
  <2> QED
    BY <2>1, <2>2 DEF CasesOf
<1>3. RetainedCases \in Seq(T)
  BY <1>0, <1>2, RetainedIn
<1>4. \A x \in T : RiskCase(x)
  BY <1>1
<1>5. RiskCases(RetainedCases)
  BY <1>3, <1>4, RiskFrom, Zenon
<1>6. PICK q : q = RetainedCases
  OBVIOUS
<1>7. PICK u : u = [k \in DOMAIN q |-> [q[k] EXCEPT !.plan = 0]]
  OBVIOUS
<1>8. \A k \in DOMAIN q : RiskCase(u[k])
  <2> TAKE k \in DOMAIN q
  <2>1. RiskCase(q[k]) /\ u[k] = [q[k] EXCEPT !.plan = 0]
    BY <1>5, <1>6, <1>7 DEF RiskCases
  <2>2. DOMAIN u[k] = DOMAIN q[k] /\ u[k].id = q[k].id /\ u[k].pri = q[k].pri
    BY <2>1 DEF RiskCase
  <2> QED
    BY <2>1, <2>2 DEF RiskCase
<1>9. RiskCases(u)
  <2>1. u = [k \in DOMAIN q |-> u[k]]
    BY <1>7
  <2> QED
    BY <1>5, <1>6, <1>8, <2>1, RiskMapped, Zenon
<1>10. u = Unplanned(RetainedCases)
  BY <1>6, <1>7, Zenon DEF Unplanned
<1> QED
  BY <1>5, <1>9, <1>10

\* A new case that is neither statistical nor named after a conclusion.
LEMMA NewRisk ==
    ASSUME NEW id, Identified(id), NEW src, NEW srcs, NEW obs, NEW pri, pri # "P2", NEW plan, NEW req
    PROVE  RiskCase(NewCase(id, src, srcs, obs, pri, plan, req))
BY DEF RiskCase, NewCase

\* A case a later plan takes over stays a risk case (assess_monitoring).
LEMMA ReviewedRisk ==
    ASSUME NEW c, RiskCase(c), NEW ids, NEW src
    PROVE  RiskCase(CaseReviewed(c, ids, src))
<1>1. PICK plan : plan = log[src]
  OBVIOUS
<1>2. PICK all : all = UNION {plan.targets[s].obs : s \in DOMAIN plan.targets}
  OBVIOUS
<1>3. PICK pri : pri = IF Elevated(plan, ids) \/ c.pri = "P0" THEN "P0" ELSE "P1"
  OBVIOUS
<1>4. pri # "P2" /\ Identified(c.id)
  BY <1>3 DEF RiskCase
<1>5. CaseReviewed(c, ids, src) =
        IF ids \cap all = {} THEN [c EXCEPT !.obs = ids]
        ELSE IF ids \subseteq all
        THEN NewCase(c.id, src, {src}, ids, pri, src, Touching(plan.targets, ids))
        ELSE NewCase(c.id, src, c.srcs, ids, pri, 0, c.req)
  BY <1>1, <1>2, <1>3, Zenon DEF CaseReviewed
<1>6. RiskCase([c EXCEPT !.obs = ids])
  BY DEF RiskCase
<1>7. RiskCase(NewCase(c.id, src, {src}, ids, pri, src, Touching(plan.targets, ids)))
  BY <1>4, NewRisk, Zenon
<1>8. RiskCase(NewCase(c.id, src, c.srcs, ids, pri, 0, c.req))
  BY <1>4, NewRisk, Zenon
<1> QED
  BY <1>5, <1>6, <1>7, <1>8, Zenon

\* The cases of a plan are risk cases.
LEMMA PlanCasesRisk ==
    ASSUME RiskCases(RetainedCases), NEW src, Free(log[src].targets)
    PROVE  RiskCases(PlanCases(src))
<1> DEFINE plan == log[src]
           all == UNION {plan.targets[s].obs : s \in DOMAIN plan.targets}
           new == all \ UNION {c.obs : c \in ToSet(RetainedCases)}
           own == Chosen(RetainedCases, {k \in DOMAIN RetainedCases : Assigned(RetainedCases[k]) # {}})
           old == [k \in DOMAIN own |-> CaseReviewed(own[k], Assigned(own[k]), src)]
           item == NewCase(<<0, new>>, src, {}, new, IF Elevated(plan, new) THEN "P0" ELSE "P1",
                           src, Touching(plan.targets, new))
<1>7. PlanCases(src) = IF all = {} THEN RetainedCases ELSE IF new = {} THEN old ELSE Put(old, item)
  BY Zenon DEF PlanCases
<1>2. all = UNION {plan.targets[s].obs : s \in DOMAIN plan.targets}
  OBVIOUS
<1>3. new \subseteq all
  OBVIOUS
<1>4. own = Chosen(RetainedCases, {k \in DOMAIN RetainedCases : Assigned(RetainedCases[k]) # {}})
  OBVIOUS
<1>5. old = [k \in DOMAIN own |-> CaseReviewed(own[k], Assigned(own[k]), src)]
  OBVIOUS
<1>6. item = NewCase(<<0, new>>, src, {}, new, IF Elevated(plan, new) THEN "P0" ELSE "P1",
                     src, Touching(plan.targets, new))
  OBVIOUS
<1>1. plan = log[src]
  OBVIOUS
<1> HIDE DEF plan, all, new, own, old, item
<1>8. RiskCases(own)
  BY <1>4, RiskChosen, Zenon
<1>9. RiskCases(old)
  <2>1. \A k \in DOMAIN own : RiskCase(old[k])
    <3> TAKE k \in DOMAIN own
    <3>1. RiskCase(own[k])
      BY <1>8 DEF RiskCases
    <3>2. old[k] = CaseReviewed(own[k], Assigned(own[k]), src)
      BY <1>5
    <3> QED
      BY <3>1, <3>2, ReviewedRisk
  <2>2. old = [k \in DOMAIN own |-> old[k]]
    BY <1>5
  <2> QED
    BY <1>8, <2>1, <2>2, RiskMapped, Zenon
<1>10. ASSUME new # {} PROVE RiskCase(item)
  <2>1. PICK o \in new : TRUE
    BY <1>10
  <2>2. PICK s \in DOMAIN plan.targets : o \in plan.targets[s].obs
    BY <1>2, <1>3, <2>1
  <2>3. o[1] # "conclusion"
    BY <1>1, <2>2 DEF Free
  <2>4. PICK id : id = <<0, new>>
    OBVIOUS
  <2>5. Identified(id)
    BY <2>1, <2>3, <2>4 DEF Identified
  <2>6. PICK pri : pri = IF Elevated(plan, new) THEN "P0" ELSE "P1"
    OBVIOUS
  <2>7. pri # "P2"
    BY <2>6
  <2> QED
    BY <1>6, <2>4, <2>5, <2>6, <2>7, NewRisk, Zenon
<1> QED
  BY <1>7, <1>9, <1>10, RiskPut

-----------------------------------------------------------------------------
(* What an assessment lists.                                               *)

\* One risk case replaced by another.
LEMMA ReplacedRisk ==
    ASSUME NEW q, RiskCases(q), NEW k, NEW y, k \in DOMAIN q => RiskCase(y)
    PROVE  RiskCases([q EXCEPT ![k] = y])
<1>1. PICK u : u = [q EXCEPT ![k] = y]
  OBVIOUS
<1>2. DOMAIN u = DOMAIN q /\ \A j \in DOMAIN q : u[j] = IF j = k THEN y ELSE q[j]
  BY <1>1
<1>3. u = [j \in DOMAIN q |-> u[j]]
  BY <1>1, <1>2
<1>4. \A j \in DOMAIN q : RiskCase(u[j])
  BY <1>2, Zenon DEF RiskCases
<1>5. RiskCases(u)
  BY <1>3, <1>4, RiskMapped, Zenon
<1> QED
  BY <1>1, <1>5

\* A case that asks for one security more.
LEMMA ExtendedRisk ==
    ASSUME NEW c, RiskCase(c), NEW s, NEW req
    PROVE  RiskCase(Extended(c, s, req))
<1>1. PICK e : e = Extended(c, s, req)
  OBVIOUS
<1>2. DOMAIN e = DOMAIN c /\ e.id = c.id /\ e.pri = c.pri
  BY <1>1 DEF Extended, RiskCase
<1> QED
  BY <1>1, <1>2 DEF RiskCase

\* A security joins a case, or establishes one of its own.
LEMMA JoinRisk ==
    ASSUME NEW q, RiskCases(q), NEW s, s # 0, NEW req
    PROVE  RiskCases(Join(q, s, req))
<1> DEFINE t == OwnedBy(req)[s]
           k == First({j \in DOMAIN q : q[j].obs \cap t.obs # {}})
           item == NewCase(<<s, t.obs>>, Least(SourcesOf(req, s)), SourcesOf(req, s), t.obs,
                           IF s \in req.shield THEN "P0" ELSE "P1", 0, Only(s, t.qty, t.obs))
<1>1. Join(q, s, req) = IF k = 0 THEN Put(q, item) ELSE [q EXCEPT ![k] = Extended(q[k], s, req)]
  BY Zenon DEF Join
<1>2. RiskCase(item)
  <2>1. PICK id : id = <<s, t.obs>>
    OBVIOUS
  <2>2. Identified(id)
    BY <2>1 DEF Identified
  <2>3. PICK pri : pri = IF s \in req.shield THEN "P0" ELSE "P1"
    OBVIOUS
  <2>4. pri # "P2"
    BY <2>3
  <2> HIDE DEF t
  <2> QED
    BY <2>1, <2>2, <2>3, <2>4, NewRisk, Zenon
<1> HIDE DEF item, k
<1>3. RiskCases(Put(q, item))
  BY <1>2, RiskPut, Zenon
<1>4. k \in DOMAIN q => RiskCase(Extended(q[k], s, req))
  BY ExtendedRisk DEF RiskCases
<1>5. RiskCases([q EXCEPT ![k] = Extended(q[k], s, req)])
  BY <1>4, ReplacedRisk, Zenon
<1> QED
  BY <1>1, <1>3, <1>5, Zenon

Covered == UNION {DOMAIN c.req : c \in ToSet(RetainedCases)}

\* What h holds after each security, from the retained cases on.
JoinedBy(h, req) ==
    /\ h[0] = RetainedCases
    /\ \A k \in 1 .. Cardinality(Securities) :
          h[k] = IF k \in DOMAIN OwnedBy(req) \ Covered THEN Join(h[k - 1], k, req) ELSE h[k - 1]

\* Securities join the cases one after the other.
LEMMA JoinedSteps ==
    ASSUME NEW req
    PROVE  \E h : Joined(req) = h[Cardinality(Securities)] /\ JoinedBy(h, req)
<1>0. PICK N \in Nat : N = Cardinality(Securities)
  <2>1. Cardinality(Securities) \in Nat
    BY MonitoringConstants, FS_CardinalityType
  <2> QED
    BY <2>1
<1> DEFINE step(k, x) == IF k \in DOMAIN OwnedBy(req) \ UNION {DOMAIN c.req : c \in ToSet(RetainedCases)}
                   THEN Join(x, k, req) ELSE x
           P(f, i) == f = [s \in 0 .. i |-> IF s = 0 THEN RetainedCases ELSE step(s, f[s - 1])]
           Bad == {i \in Nat : ~\E f : P(f, i)}
<1> HIDE DEF step
<1>1. Bad = {}
  <2>1. SUFFICES ASSUME Bad # {} PROVE FALSE
    OBVIOUS
  <2>2. PICK i \in Bad : \A j \in Bad : i <= j
    <3>1. Bad \subseteq Nat
      OBVIOUS
    <3> QED
      BY <2>1, <3>1, SmallestIsThere
  <2>3. i \in Nat /\ ~\E f : P(f, i)
    OBVIOUS
  <2>4. i # 0
    <3>1. PICK f : f = [s \in 0 .. 0 |-> RetainedCases]
      OBVIOUS
    <3>2. \A s \in 0 .. 0 : s = 0
      OBVIOUS
    <3>3. P(f, 0)
      BY <3>1, <3>2
    <3> QED
      BY <2>3, <3>3
  <2>5. PICK f : P(f, i - 1)
    <3>1. i - 1 \in Nat /\ ~(i <= i - 1)
      BY <2>3, <2>4
    <3>2. i - 1 \in Bad => i <= i - 1
      BY <2>2
    <3> QED
      BY <3>1, <3>2
  <2>6. PICK y : y = step(i, f[i - 1])
    OBVIOUS
  <2>7. PICK g : g = [s \in 0 .. i |-> IF s = i THEN y ELSE f[s]]
    OBVIOUS
  <2>8. ASSUME NEW s \in 0 .. i PROVE g[s] = IF s = 0 THEN RetainedCases ELSE step(s, g[s - 1])
    <3>1. g[s] = IF s = i THEN y ELSE f[s]
      BY <2>7
    <3>2. CASE s = 0
      BY <2>3, <2>4, <2>5, <3>1, <3>2
    <3>3. CASE s # 0
      <4>1. s - 1 \in 0 .. i /\ s - 1 # i
        BY <2>3, <3>3
      <4>2. g[s - 1] = f[s - 1]
        BY <2>7, <4>1
      <4>3. CASE s = i
        BY <2>6, <3>1, <3>3, <4>2, <4>3
      <4>4. CASE s # i
        <5>1. s \in 0 .. i - 1
          BY <2>3, <4>4
        <5>2. f[s] = step(s, f[s - 1])
          BY <2>5, <3>3, <5>1
        <5> QED
          BY <3>1, <3>3, <4>2, <4>4, <5>2
      <4> QED
        BY <4>3, <4>4
    <3> QED
      BY <3>2, <3>3
  <2>9. P(g, i)
    <3>1. g = [s \in 0 .. i |-> g[s]]
      BY <2>7
    <3>2. [s \in 0 .. i |-> g[s]] = [s \in 0 .. i |-> IF s = 0 THEN RetainedCases ELSE step(s, g[s - 1])]
      BY <2>8, Zenon
    <3> QED
      BY <3>1, <3>2, Zenon
  <2> QED
    BY <2>3, <2>9
<1>2. PICK f : P(f, N)
  <2> HIDE DEF P
  <2>1. N \notin Bad
    BY <1>1
  <2> QED
    BY <1>0, <2>1, Zenon
<1>3. PICK h : h = CHOOSE g : g = [s \in 0 .. Cardinality(Securities) |-> IF s = 0 THEN RetainedCases ELSE IF s \in DOMAIN OwnedBy(req) \ UNION {DOMAIN c.req : c \in ToSet(RetainedCases)}
                   THEN Join(g[s - 1], s, req) ELSE g[s - 1]]
  OBVIOUS
<1>4. h = [s \in 0 .. Cardinality(Securities) |-> IF s = 0 THEN RetainedCases ELSE IF s \in DOMAIN OwnedBy(req) \ UNION {DOMAIN c.req : c \in ToSet(RetainedCases)}
                   THEN Join(h[s - 1], s, req) ELSE h[s - 1]]
  <2>1. f = [s \in 0 .. Cardinality(Securities) |-> IF s = 0 THEN RetainedCases ELSE IF s \in DOMAIN OwnedBy(req) \ UNION {DOMAIN c.req : c \in ToSet(RetainedCases)}
                   THEN Join(f[s - 1], s, req) ELSE f[s - 1]]
    BY <1>0, <1>2, Zenon DEF step
  <2> QED
    BY <1>3, <2>1, Zenon
<1>5. Joined(req) = h[Cardinality(Securities)]
  BY <1>3, Zenon DEF Joined
<1>6. h = [s \in 0 .. N |-> IF s = 0 THEN RetainedCases ELSE step(s, h[s - 1])]
  BY <1>0, <1>4, Zenon DEF step
<1>7. h[0] = RetainedCases /\ \A k \in 1 .. N : h[k] = step(k, h[k - 1])
  <2>1. \A k \in 1 .. N : k \in 0 .. N /\ k # 0
    BY <1>0
  <2>2. 0 \in 0 .. N
    BY <1>0
  <2> QED
    BY <1>6, <2>1, <2>2, Zenon
<1>8. \A k \in 1 .. N :
        h[k] = IF k \in DOMAIN OwnedBy(req) \ Covered THEN Join(h[k - 1], k, req) ELSE h[k - 1]
  BY <1>7, Zenon DEF step, Covered
<1>9. JoinedBy(h, req)
  BY <1>0, <1>7, <1>8, Zenon DEF JoinedBy
<1> QED
  BY <1>0, <1>5, <1>9, Zenon

\* They leave risk cases.
LEMMA JoinedRisk ==
    ASSUME NEW req, RiskCases(RetainedCases)
    PROVE  RiskCases(Joined(req))
<1>0. PICK N \in Nat : N = Cardinality(Securities)
  BY MonitoringConstants, FS_CardinalityType
<1>1. PICK h : /\ Joined(req) = h[N]
               /\ h[0] = RetainedCases
               /\ \A k \in 1 .. N :
                     h[k] = IF k \in DOMAIN OwnedBy(req) \ Covered THEN Join(h[k - 1], k, req) ELSE h[k - 1]
  <2>1. PICK h : Joined(req) = h[Cardinality(Securities)] /\ JoinedBy(h, req)
    BY JoinedSteps
  <2> QED
    BY <1>0, <2>1, Zenon DEF JoinedBy
<1>8. RiskCases(RetainedCases)
  OBVIOUS
<1>9. ASSUME NEW k \in 1 .. N, RiskCases(h[k - 1]) PROVE RiskCases(h[k])
  <2>1. k # 0
    BY <1>0
  <2>2. RiskCases(Join(h[k - 1], k, req))
    BY <1>9, <2>1, JoinRisk, Zenon
  <2> QED
    BY <1>1, <1>9, <2>2
<1>10. PICK D : D = {x \in {h[j] : j \in 0 .. N} : RiskCases(x)}
  OBVIOUS
<1>11. \A k \in 0 .. N : h[k] \in D
  <2>1. 0 \in 0 .. N /\ N \in Nat /\ \A k \in 1 .. N : k \in 0 .. N
    BY <1>0
  <2>2. h[0] \in D
    BY <1>1, <1>8, <1>10, <2>1
  <2>3. \A k \in 1 .. N : h[k - 1] \in D => h[k] \in D
    BY <1>9, <1>10, <2>1
  <2> QED
    BY ONLY <2>1, <2>2, <2>3, StepsStay
<1>12. N \in 0 .. N
  BY <1>0
<1> QED
  BY <1>1, <1>10, <1>11, <1>12

\* A case that protective events raise.
LEMMA ShieldedRisk ==
    ASSUME NEW c, RiskCase(c), NEW req
    PROVE  RiskCase(Shielded(c, req))
<1> DEFINE owned == OwnedBy(req)
           here == DOMAIN c.req \cap DOMAIN owned
           srcs == (UNION {SourcesOf(req, s) : s \in here})
                   \cup IF DOMAIN c.req \subseteq here THEN {} ELSE Sources(c)
           obs == c.obs \cup UNION {owned[s].obs : s \in here}
           pri == IF DOMAIN c.req \cap req.shield # {} THEN "P0" ELSE c.pri
           to == [s \in DOMAIN c.req |-> IF s \in here THEN owned[s] ELSE c.req[s]]
<1>1. Shielded(c, req) = NewCase(c.id, Least(srcs), srcs, obs, pri, 0, to)
  BY Zenon DEF Shielded
<1>2. pri # "P2" /\ Identified(c.id)
  BY DEF RiskCase
<1> HIDE DEF srcs, obs, pri, to
<1> QED
  BY <1>1, <1>2, NewRisk, Zenon

\* The fields of an outcome.
LEMMA OutcomeIs ==
    ASSUME NEW disp, NEW reason, NEW cases, NEW from
    PROVE  /\ Outcome(disp, reason, cases, from).cases = cases
           /\ Outcome(disp, reason, cases, from).reason = reason
           /\ Outcome(disp, reason, cases, from).from = from
BY DEF Outcome

\* A blocked assessment repeats what earlier ones left.
LEMMA BlockedRisk ==
    ASSUME RiskCases(Unplanned(RetainedCases)), NEW reason
    PROVE  RiskCases(Blocked(reason).cases) /\ Blocked(reason).reason = reason
BY OutcomeIs DEF Blocked

\* An assessment of protective events leaves risk cases.
LEMMA ProtectionRisk ==
    ASSUME NEW req, RiskCases(RetainedCases), RiskCases(Unplanned(RetainedCases))
    PROVE  RiskCases(AssessProtection(req).cases) /\ AssessProtection(req).reason # "NOT_FORWARD"
<1>1. PICK q : q = Joined(req)
  OBVIOUS
<1>2. PICK u : u = [k \in DOMAIN q |-> Shielded(q[k], req)]
  OBVIOUS
<1>3. RiskCases(q)
  BY <1>1, JoinedRisk
<1>4. \A k \in DOMAIN q : RiskCase(u[k])
  BY <1>2, <1>3, ShieldedRisk DEF RiskCases
<1>5. RiskCases(u)
  <2>1. u = [k \in DOMAIN q |-> u[k]]
    BY <1>2
  <2> QED
    BY <1>3, <1>4, <2>1, RiskMapped, Zenon
<1>6. \/ AssessProtection(req) = Blocked("UNAVAILABLE")
      \/ AssessProtection(req) = Blocked("TARGET")
      \/ AssessProtection(req) = Blocked("WEAKENING")
      \/ AssessProtection(req) = Outcome("ASSESSED", "UNVERIFIED", [k \in DOMAIN Joined(req) |-> Shielded(Joined(req)[k], req)], 0)
  BY Zenon DEF AssessProtection
<1>7. \/ AssessProtection(req) = Blocked("UNAVAILABLE")
      \/ AssessProtection(req) = Blocked("TARGET")
      \/ AssessProtection(req) = Blocked("WEAKENING")
      \/ AssessProtection(req) = Outcome("ASSESSED", "UNVERIFIED", u, 0)
  BY <1>1, <1>2, <1>6, Zenon
<1> QED
  BY <1>5, <1>7 DEF Blocked, Outcome

\* An assessment of a plan leaves risk cases.
LEMMA AssessPlanRisk ==
    ASSUME NEW req, RiskCases(RetainedCases), RiskCases(Unplanned(RetainedCases)),
           PlanEntry(log[req.src])
    PROVE  RiskCases(AssessPlan(req).cases) /\ AssessPlan(req).reason # "NOT_FORWARD"
<1>1. \/ AssessPlan(req) = Blocked("UNAVAILABLE")
      \/ AssessPlan(req) = Blocked("EVIDENCE")
      \/ AssessPlan(req) = Blocked("WEAKENING")
      \/ log[req.src].kind = "PLAN" /\ AssessPlan(req) = Outcome("ASSESSED", "", PlanCases(req.src), 0)
  BY Zenon DEF AssessPlan
<1>2. ASSUME log[req.src].kind = "PLAN" PROVE RiskCases(PlanCases(req.src))
  <2>1. Free(log[req.src].targets)
    BY <1>2 DEF PlanEntry
  <2> QED
    BY <2>1, PlanCasesRisk
<1>3. CASE log[req.src].kind = "PLAN" /\ AssessPlan(req) = Outcome("ASSESSED", "", PlanCases(req.src), 0)
  <2>0. PICK r : r = ""
    BY Zenon
  <2>2. r # "NOT_FORWARD"
    BY <2>0, Zenon
  <2>3. AssessPlan(req) = Outcome("ASSESSED", r, PlanCases(req.src), 0)
    BY <1>3, <2>0, Zenon
  <2>1. AssessPlan(req).cases = PlanCases(req.src) /\ AssessPlan(req).reason = r
    BY <2>3, OutcomeIs
  <2> QED
    BY <1>2, <1>3, <2>1, <2>2
<1>4. CASE \/ AssessPlan(req) = Blocked("UNAVAILABLE")
           \/ AssessPlan(req) = Blocked("EVIDENCE")
           \/ AssessPlan(req) = Blocked("WEAKENING")
  BY <1>4, BlockedRisk
<1> QED
  BY <1>1, <1>3, <1>4

\* A target delivered takes the name of the case it replaces or one of its own.
LEMMA DeliverRisk ==
    ASSUME NEW q, RiskCases(q), NEW s, NEW src, Mixed(log[src].targets),
           s \in DOMAIN OwedTargets(log[src].targets)
    PROVE  RiskCases(Deliver(q, s, src))
<1> DEFINE act == log[src]
           t == act.targets[s]
           places == {j \in DOMAIN q : q[j].obs \cap t.obs # {}}
           k == First(places)
           high == \/ act.capital
                   \/ s = act.sec /\ act.hard
                   \/ \E o \in t.obs : o[1] = "gate"
                   \/ k # 0 /\ q[k].pri = "P0"
           id == IF k = 0 THEN <<0, t.obs>> ELSE q[k].id
           pri == IF high THEN "P0" ELSE "P1"
           item == NewCase(id, src, {}, t.obs, pri, src, Only(s, t.qty, t.obs))
<1>1. Deliver(q, s, src) = Append(Chosen(q, DOMAIN q \ {k}), item)
  BY Zenon DEF Deliver
<1>2. s \in DOMAIN act.targets /\ t.obs # {}
  BY DEF OwedTargets
<1>3. pri # "P2"
  OBVIOUS
<1>4. Identified(id)
  <2>1. CASE k = 0
    <3>1. \E o \in t.obs : o[1] # "conclusion"
      BY <1>2 DEF Mixed
    <3>2. PICK obs : obs = t.obs
      OBVIOUS
    <3>3. \E o \in obs : o[1] # "conclusion"
      BY <3>1, <3>2
    <3>4. id = <<0, obs>>
      BY <2>1, <3>2
    <3> HIDE DEF id
    <3> QED
      BY <3>3, <3>4 DEF Identified
  <2>2. CASE k # 0
    <3>1. places \subseteq DOMAIN q /\ DOMAIN q \subseteq Nat
      BY Indices DEF RiskCases
    <3>2. places # {}
      BY <2>2 DEF First
    <3>3. k \in DOMAIN q
      <4>1. PICK S : S = places
        OBVIOUS
      <4>2. S \subseteq Nat /\ S # {} /\ S \subseteq DOMAIN q
        BY <3>1, <3>2, <4>1
      <4>3. Least(S) \in S
        BY <4>2, LeastIn
      <4>4. First(S) = Least(S)
        BY <4>2 DEF First
      <4> QED
        BY <4>1, <4>2, <4>3, <4>4
    <3> HIDE DEF k
    <3>4. Identified(q[k].id)
      BY <3>3 DEF RiskCases, RiskCase
    <3> QED
      BY <2>2, <3>4
  <2> QED
    BY <2>1, <2>2
<1> HIDE DEF id, pri, k
<1>5. RiskCase(item)
  BY <1>3, <1>4, NewRisk, Zenon
<1>6. RiskCases(Chosen(q, DOMAIN q \ {k}))
  BY RiskChosen, Zenon
<1> HIDE DEF item
<1> QED
  BY <1>1, <1>5, <1>6, RiskAppend, Zenon

\* The targets of an action are delivered one after the other.
LEMMA DeliveredSteps ==
    ASSUME NEW src
    PROVE  \E h : /\ Delivered(src) = h[Cardinality(Securities)]
                  /\ h[0] = Unplanned(RetainedCases)
                  /\ \A k \in 1 .. Cardinality(Securities) :
                        h[k] = IF k \in DOMAIN OwedTargets(log[src].targets)
                               THEN Deliver(h[k - 1], k, src) ELSE h[k - 1]
<1>0. PICK N \in Nat : N = Cardinality(Securities)
  <2>1. Cardinality(Securities) \in Nat
    BY MonitoringConstants, FS_CardinalityType
  <2> QED
    BY <2>1
<1> DEFINE step(k, x) == IF k \in DOMAIN OwedTargets(log[src].targets) THEN Deliver(x, k, src)
                   ELSE x
           P(f, i) == f = [s \in 0 .. i |-> IF s = 0 THEN Unplanned(RetainedCases) ELSE step(s, f[s - 1])]
           Bad == {i \in Nat : ~\E f : P(f, i)}
<1> HIDE DEF step
<1>1. Bad = {}
  <2>1. SUFFICES ASSUME Bad # {} PROVE FALSE
    OBVIOUS
  <2>2. PICK i \in Bad : \A j \in Bad : i <= j
    <3>1. Bad \subseteq Nat
      OBVIOUS
    <3> QED
      BY <2>1, <3>1, SmallestIsThere
  <2>3. i \in Nat /\ ~\E f : P(f, i)
    OBVIOUS
  <2>4. i # 0
    <3>1. PICK f : f = [s \in 0 .. 0 |-> Unplanned(RetainedCases)]
      OBVIOUS
    <3>2. \A s \in 0 .. 0 : s = 0
      OBVIOUS
    <3>3. P(f, 0)
      BY <3>1, <3>2
    <3> QED
      BY <2>3, <3>3
  <2>5. PICK f : P(f, i - 1)
    <3>1. i - 1 \in Nat /\ ~(i <= i - 1)
      BY <2>3, <2>4
    <3>2. i - 1 \in Bad => i <= i - 1
      BY <2>2
    <3> QED
      BY <3>1, <3>2
  <2>6. PICK y : y = step(i, f[i - 1])
    OBVIOUS
  <2>7. PICK g : g = [s \in 0 .. i |-> IF s = i THEN y ELSE f[s]]
    OBVIOUS
  <2>8. ASSUME NEW s \in 0 .. i PROVE g[s] = IF s = 0 THEN Unplanned(RetainedCases) ELSE step(s, g[s - 1])
    <3>1. g[s] = IF s = i THEN y ELSE f[s]
      BY <2>7
    <3>2. CASE s = 0
      BY <2>3, <2>4, <2>5, <3>1, <3>2
    <3>3. CASE s # 0
      <4>1. s - 1 \in 0 .. i /\ s - 1 # i
        BY <2>3, <3>3
      <4>2. g[s - 1] = f[s - 1]
        BY <2>7, <4>1
      <4>3. CASE s = i
        BY <2>6, <3>1, <3>3, <4>2, <4>3
      <4>4. CASE s # i
        <5>1. s \in 0 .. i - 1
          BY <2>3, <4>4
        <5>2. f[s] = step(s, f[s - 1])
          BY <2>5, <3>3, <5>1
        <5> QED
          BY <3>1, <3>3, <4>2, <4>4, <5>2
      <4> QED
        BY <4>3, <4>4
    <3> QED
      BY <3>2, <3>3
  <2>9. P(g, i)
    <3>1. g = [s \in 0 .. i |-> g[s]]
      BY <2>7
    <3>2. [s \in 0 .. i |-> g[s]] = [s \in 0 .. i |-> IF s = 0 THEN Unplanned(RetainedCases) ELSE step(s, g[s - 1])]
      BY <2>8, Zenon
    <3> QED
      BY <3>1, <3>2, Zenon
  <2> QED
    BY <2>3, <2>9
<1>2. PICK f : P(f, N)
  <2> HIDE DEF P
  <2>1. N \notin Bad
    BY <1>1
  <2> QED
    BY <1>0, <2>1, Zenon
<1>3. PICK h : h = CHOOSE g : g = [s \in 0 .. Cardinality(Securities) |-> IF s = 0 THEN Unplanned(RetainedCases) ELSE IF s \in DOMAIN OwedTargets(log[src].targets) THEN Deliver(g[s - 1], s, src)
                   ELSE g[s - 1]]
  OBVIOUS
<1>4. h = [s \in 0 .. Cardinality(Securities) |-> IF s = 0 THEN Unplanned(RetainedCases) ELSE IF s \in DOMAIN OwedTargets(log[src].targets) THEN Deliver(h[s - 1], s, src)
                   ELSE h[s - 1]]
  <2>1. f = [s \in 0 .. Cardinality(Securities) |-> IF s = 0 THEN Unplanned(RetainedCases) ELSE IF s \in DOMAIN OwedTargets(log[src].targets) THEN Deliver(f[s - 1], s, src)
                   ELSE f[s - 1]]
    BY <1>0, <1>2, Zenon DEF step
  <2> QED
    BY <1>3, <2>1, Zenon
<1>5. Delivered(src) = h[Cardinality(Securities)]
  BY <1>3, Zenon DEF Delivered
<1>6. h = [s \in 0 .. N |-> IF s = 0 THEN Unplanned(RetainedCases) ELSE step(s, h[s - 1])]
  BY <1>0, <1>4, Zenon DEF step
<1>7. h[0] = Unplanned(RetainedCases) /\ \A k \in 1 .. N : h[k] = step(k, h[k - 1])
  <2>1. \A k \in 1 .. N : k \in 0 .. N /\ k # 0
    BY <1>0
  <2>2. 0 \in 0 .. N
    BY <1>0
  <2> QED
    BY <1>6, <2>1, <2>2, Zenon
<1>8. \A k \in 1 .. N :
        h[k] = IF k \in DOMAIN OwedTargets(log[src].targets) THEN Deliver(h[k - 1], k, src) ELSE h[k - 1]
  BY <1>7, Zenon DEF step
<1> QED
  BY <1>0, <1>5, <1>7, <1>8, Zenon

\* They leave risk cases.
LEMMA DeliveredRisk ==
    ASSUME NEW src, Mixed(log[src].targets), RiskCases(Unplanned(RetainedCases))
    PROVE  RiskCases(Delivered(src))
<1>0. PICK N \in Nat : N = Cardinality(Securities)
  BY MonitoringConstants, FS_CardinalityType
<1>1. PICK h : /\ Delivered(src) = h[N]
               /\ h[0] = Unplanned(RetainedCases)
               /\ \A k \in 1 .. N :
                     h[k] = IF k \in DOMAIN OwedTargets(log[src].targets)
                            THEN Deliver(h[k - 1], k, src) ELSE h[k - 1]
  <2>1. \E h : /\ Delivered(src) = h[Cardinality(Securities)]
               /\ h[0] = Unplanned(RetainedCases)
               /\ \A k \in 1 .. Cardinality(Securities) :
                     h[k] = IF k \in DOMAIN OwedTargets(log[src].targets)
                            THEN Deliver(h[k - 1], k, src) ELSE h[k - 1]
    BY DeliveredSteps
  <2> QED
    BY <1>0, <2>1, Zenon
<1>8. RiskCases(Unplanned(RetainedCases))
  OBVIOUS
<1>9. ASSUME NEW k \in 1 .. N, RiskCases(h[k - 1]) PROVE RiskCases(h[k])
  <2>1. CASE k \in DOMAIN OwedTargets(log[src].targets)
    <3>1. RiskCases(Deliver(h[k - 1], k, src))
      BY <1>9, <2>1, DeliverRisk
    <3> QED
      BY <1>1, <2>1, <3>1
  <2>2. CASE k \notin DOMAIN OwedTargets(log[src].targets)
    BY <1>1, <1>9, <2>2
  <2> QED
    BY <2>1, <2>2
<1>10. PICK D : D = {x \in {h[j] : j \in 0 .. N} : RiskCases(x)}
  OBVIOUS
<1>11. \A k \in 0 .. N : h[k] \in D
  <2>1. 0 \in 0 .. N /\ N \in Nat /\ \A k \in 1 .. N : k \in 0 .. N
    BY <1>0
  <2>2. h[0] \in D
    BY <1>1, <1>8, <1>10, <2>1
  <2>3. \A k \in 1 .. N : h[k - 1] \in D => h[k] \in D
    BY <1>9, <1>10, <2>1
  <2> QED
    BY ONLY <2>1, <2>2, <2>3, StepsStay
<1>12. N \in 0 .. N
  BY <1>0
<1> QED
  BY <1>1, <1>10, <1>11, <1>12

\* A result: risk cases, and at most a conclusion not delivered before.
Delivers(out, src, win) ==
    \E q : /\ RiskCases(q)
           /\ out.cases = Append(q, Statistical(src, win)) /\ out.from = src
           /\ PreviousDeliveries(src) = {}

\* An assessment of an action leaves risk cases, and may deliver a conclusion
\* that no assessment delivered (project_position_action).
LEMMA AssessActionRisk ==
    ASSUME NEW req, RiskCases(Unplanned(RetainedCases)), Mixed(log[req.src].targets)
    PROVE  /\ AssessAction(req).reason # "NOT_FORWARD"
           /\ \/ RiskCases(AssessAction(req).cases)
              \/ Delivers(AssessAction(req), req.src, req.win)
<1>1. PICK items : items = Delivered(req.src)
  OBVIOUS
<1>2. RiskCases(items)
  BY <1>1, DeliveredRisk
<1>3. PICK more : more = Append(items, Statistical(req.src, req.win))
  OBVIOUS
<1>4. \/ AssessAction(req) = Blocked("NOT_CURRENT")
      \/ AssessAction(req) = Outcome("BLOCKED", "EVIDENCE", items, req.src)
      \/ AssessAction(req) = Outcome("BLOCKED", "WINDOW", items, req.src)
      \/ AssessAction(req) = Outcome("ASSESSED", "", items, req.src)
      \/ /\ PreviousDeliveries(req.src) = {}
         /\ AssessAction(req) = Outcome("ASSESSED", "", more, req.src)
  BY <1>1, <1>3, Zenon DEF AssessAction
<1>5. ASSUME PreviousDeliveries(req.src) = {}, AssessAction(req) = Outcome("ASSESSED", "", more, req.src)
      PROVE  Delivers(AssessAction(req), req.src, req.win) /\ AssessAction(req).reason # "NOT_FORWARD"
  <2>0. PICK r : r = ""
    BY Zenon
  <2>2. r # "NOT_FORWARD"
    BY <2>0, Zenon
  <2>3. AssessAction(req) = Outcome("ASSESSED", r, more, req.src)
    BY <1>5, <2>0, Zenon
  <2>1. /\ AssessAction(req).cases = more /\ AssessAction(req).from = req.src
        /\ AssessAction(req).reason = r
    BY <2>3, OutcomeIs
  <2> QED
    BY <1>2, <1>3, <1>5, <2>1, <2>2, Zenon DEF Delivers
<1>6. CASE AssessAction(req) = Blocked("NOT_CURRENT")
  BY <1>6, BlockedRisk
<1>7. ASSUME NEW disp, NEW reason, reason # "NOT_FORWARD",
             AssessAction(req) = Outcome(disp, reason, items, req.src)
      PROVE  RiskCases(AssessAction(req).cases) /\ AssessAction(req).reason # "NOT_FORWARD"
  <2>1. AssessAction(req).cases = items /\ AssessAction(req).reason = reason
    BY <1>7, OutcomeIs
  <2> QED
    BY <1>2, <1>7, <2>1
<1> QED
  BY <1>4, <1>5, <1>6, <1>7

\* Every assessment: refused exactly when later ones were there.
LEMMA AssessedRisk ==
    ASSUME WellKept, NEW kind, NEW req, req.src \in DOMAIN log
    PROVE  LET out == Assessed(kind, req) IN
           /\ out.reason = "NOT_FORWARD" => Backdated(req.cut) /\ out.cases = <<>>
           /\ out.reason # "NOT_FORWARD" => ~Backdated(req.cut)
           /\ RiskCases(out.cases) \/ Delivers(out, req.src, req.win)
<1>1. RiskCases(RetainedCases) /\ RiskCases(Unplanned(RetainedCases))
  BY RetainedRisk
<1>2. PlanEntry(log[req.src]) /\ ActEntry(log[req.src])
  BY DEF WellKept, Entry
<1>3. CASE Backdated(req.cut)
  <2>1. Assessed(kind, req) = Refused
    BY <1>3 DEF Assessed
  <2>2. RiskCases(<<>>)
    BY DEF RiskCases, IsSeq
  <2> QED
    BY <1>3, <2>1, <2>2 DEF Refused, Outcome
<1>4. CASE ~Backdated(req.cut) /\ log[req.src].kind = "ACTION"
  <2>1. Mixed(log[req.src].targets)
    BY <1>2, <1>4 DEF ActEntry
  <2>2. Assessed(kind, req) = Blocked("SOURCE") \/ Assessed(kind, req) = AssessAction(req)
    BY <1>4 DEF Assessed
  <2>3. CASE Assessed(kind, req) = Blocked("SOURCE")
    BY <1>1, <1>4, <2>3 DEF Blocked, Outcome
  <2>4. CASE Assessed(kind, req) = AssessAction(req)
    BY <1>1, <1>4, <2>1, <2>4, AssessActionRisk
  <2> QED
    BY <2>2, <2>3, <2>4
<1>5. CASE ~Backdated(req.cut) /\ log[req.src].kind # "ACTION"
  <2>1. \/ Assessed(kind, req) = Blocked("SOURCE")
        \/ Assessed(kind, req) = AssessProtection(req)
        \/ Assessed(kind, req) = AssessPlan(req)
    BY <1>5 DEF Assessed
  <2>2. CASE Assessed(kind, req) = Blocked("SOURCE")
    BY <1>1, <1>5, <2>2 DEF Blocked, Outcome
  <2>3. CASE Assessed(kind, req) = AssessProtection(req)
    BY <1>1, <1>5, <2>3, ProtectionRisk
  <2>4. CASE Assessed(kind, req) = AssessPlan(req)
    BY <1>1, <1>2, <1>5, <2>4, AssessPlanRisk
  <2> QED
    BY <2>1, <2>2, <2>3, <2>4
<1> QED
  BY <1>3, <1>4, <1>5

-----------------------------------------------------------------------------
(* Targets.                                                                *)

Plain(obs) == obs = {} \/ \E o \in obs : o[1] # "conclusion"
MixedAt(t, s) == s \in DOMAIN t => Plain(t[s].obs)

\* A target that has an obligation has one that is no conclusion.
LEMMA MixedIs ==
    ASSUME NEW t
    PROVE  Mixed(t) <=> \A s : MixedAt(t, s)
BY DEF Mixed, MixedAt, Plain

\* A conjunction is about the securities of its parts.
LEMMA ConjoinIs ==
    ASSUME NEW S
    PROVE  /\ DOMAIN Conjoin(S) = UNION {DOMAIN t : t \in S}
           /\ \A s \in DOMAIN Conjoin(S) :
                 Conjoin(S)[s].obs = UNION {t[s].obs : t \in {u \in S : s \in DOMAIN u}}
<1> DEFINE on(s) == {t \in S : s \in DOMAIN t}
<1>1. Conjoin(S) = [s \in UNION {DOMAIN t : t \in S} |->
           [qty |-> Least({t[s].qty : t \in on(s)}), obs |-> UNION {t[s].obs : t \in on(s)}]]
  BY Zenon DEF Conjoin
<1>2. PICK D : D = UNION {DOMAIN t : t \in S}
  OBVIOUS
<1>3. DOMAIN Conjoin(S) = D
  BY <1>1, <1>2
<1>4. ASSUME NEW s \in D PROVE Conjoin(S)[s].obs = UNION {t[s].obs : t \in on(s)}
  <2>1. PICK q : q = Least({t[s].qty : t \in on(s)})
    OBVIOUS
  <2>2. PICK o : o = UNION {t[s].obs : t \in on(s)}
    OBVIOUS
  <2>3. Conjoin(S)[s] = [qty |-> q, obs |-> o]
    BY <1>1, <1>2, <2>1, <2>2, Zenon
  <2>4. Conjoin(S)[s].obs = o
    BY <2>3
  <2> QED
    BY <2>2, <2>4, Zenon
<1> QED
  BY <1>2, <1>3, <1>4, Zenon

\* A conjunction is plain where one of its targets names an obligation that
\* is no conclusion, and where all of them are plain.
LEMMA ConjoinPlain ==
    ASSUME NEW S, NEW s,
           \/ \A t \in S : MixedAt(t, s)
           \/ \E t \in S : s \in DOMAIN t /\ \E o \in t[s].obs : o[1] # "conclusion"
    PROVE  MixedAt(Conjoin(S), s)
<1>1. SUFFICES ASSUME s \in DOMAIN Conjoin(S) PROVE Plain(Conjoin(S)[s].obs)
  BY DEF MixedAt
<1>2. PICK all : all = Conjoin(S)[s].obs
  OBVIOUS
<1>3. all = UNION {t[s].obs : t \in {u \in S : s \in DOMAIN u}}
  BY <1>1, <1>2, ConjoinIs
<1>4. CASE \A t \in S : MixedAt(t, s)
  <2>1. SUFFICES ASSUME all # {} PROVE \E o \in all : o[1] # "conclusion"
    BY <1>2 DEF Plain
  <2>2. PICK o \in all : TRUE
    BY <2>1
  <2>3. PICK t \in S : s \in DOMAIN t /\ o \in t[s].obs
    BY <1>3, <2>2
  <2>4. \E p \in t[s].obs : p[1] # "conclusion"
    BY <1>4, <2>3 DEF MixedAt, Plain
  <2> QED
    BY <1>3, <2>3, <2>4
<1>5. CASE \E t \in S : s \in DOMAIN t /\ \E o \in t[s].obs : o[1] # "conclusion"
  <2>1. PICK t \in S : s \in DOMAIN t /\ \E o \in t[s].obs : o[1] # "conclusion"
    BY <1>5
  <2>2. \E o \in all : o[1] # "conclusion"
    BY <1>3, <2>1
  <2> QED
    BY <1>2, <2>2 DEF Plain
<1> QED
  BY <1>4, <1>5

\* Targets without conclusions conjoin to targets without conclusions.
LEMMA ConjoinFree ==
    ASSUME NEW S, \A t \in S : Free(t)
    PROVE  Free(Conjoin(S))
<1>1. SUFFICES ASSUME NEW s \in DOMAIN Conjoin(S), NEW o \in Conjoin(S)[s].obs
      PROVE  o[1] # "conclusion"
  BY DEF Free
<1>2. o \in UNION {t[s].obs : t \in {u \in S : s \in DOMAIN u}}
  BY <1>1, ConjoinIs
<1>3. PICK t \in S : s \in DOMAIN t /\ o \in t[s].obs
  BY <1>2
<1> QED
  BY <1>3 DEF Free

\* Targets that are owed are some of the targets.
LEMMA OwedTargetsAre ==
    ASSUME NEW t
    PROVE  /\ DOMAIN OwedTargets(t) \subseteq DOMAIN t
           /\ \A s \in DOMAIN OwedTargets(t) : OwedTargets(t)[s] = t[s]
BY DEF OwedTargets

\* They name no conclusion where the targets name none.
LEMMA OwedFree ==
    ASSUME NEW t, Free(t)
    PROVE  Free(OwedTargets(t))
BY OwedTargetsAre DEF Free

\* Each of them names more than a conclusion where the targets do.
LEMMA OwedMixed ==
    ASSUME NEW t, Mixed(t)
    PROVE  Mixed(OwedTargets(t))
BY OwedTargetsAre DEF Mixed

\* Targets that name no conclusion are plain.
LEMMA FreePlain ==
    ASSUME NEW t, Free(t), NEW s
    PROVE  MixedAt(t, s)
BY DEF Free, MixedAt, Plain

\* The handoffs and the plans of the past.
LEMMA PlansAreFree ==
    ASSUME WellKept, NEW hand \in limits.hands
    PROVE  /\ \A n \in PlanHistory : Free(OwedTargets(log[n].targets))
           /\ Free(hand.targets) /\ \A o \in hand.ids : o[1] # "conclusion"
<1>1. ASSUME NEW n \in PlanHistory PROVE Free(OwedTargets(log[n].targets))
  <2>1. n \in DOMAIN log /\ log[n].kind = "PLAN"
    BY DEF PlanHistory, Of
  <2>2. Free(log[n].targets)
    BY <2>1 DEF WellKept, Entry, PlanEntry
  <2> QED
    BY <2>2, OwedFree
<1>2. limits \in ReviewCases
  BY DEF WellKept
<1>3. Free(hand.targets)
  BY <1>2, MonitoringConstants DEF Free
<1>4. \A o \in hand.ids : o[1] # "conclusion"
  BY <1>2, MonitoringConstants
<1> QED
  BY <1>1, <1>3, <1>4

PlanParts(hand, extra) == {OwedTargets(log[n].targets) : n \in PlanHistory} \cup {hand.targets} \cup extra

\* The targets of a plan: none, the conjunction, or one for every holding.
LEMMA PlanTargetsAre ==
    ASSUME NEW cut, NEW hand, NEW extra, NEW cap, NEW kept, kept = Conjoin(PlanParts(hand, extra))
    PROVE  \/ DOMAIN PlanTargets(cut, hand, extra, cap) = {}
           \/ PlanTargets(cut, hand, extra, cap) = kept
           \/ /\ DOMAIN PlanTargets(cut, hand, extra, cap) = Securities
              /\ \A s \in Securities :
                    PlanTargets(cut, hand, extra, cap)[s].obs
                      = hand.ids \cup IF s \in DOMAIN kept THEN kept[s].obs ELSE {}
<1> DEFINE all == [s \in Securities |->
                [qty |-> Least({Held} \cup (IF s \in DOMAIN kept THEN {kept[s].qty} ELSE {})
                                      \cup (IF hand.ids # {} THEN {cap} ELSE {})),
                 obs |-> hand.ids \cup IF s \in DOMAIN kept THEN kept[s].obs ELSE {}]]
<1>1. \/ PlanTargets(cut, hand, extra, cap) = <<>>
      \/ PlanTargets(cut, hand, extra, cap) = kept
      \/ PlanTargets(cut, hand, extra, cap) = all
  BY Zenon DEF PlanTargets, PlanParts
<1>2. DOMAIN <<>> = {}
  OBVIOUS
<1>3. DOMAIN all = Securities
  OBVIOUS
<1>4. ASSUME NEW s \in Securities
      PROVE  all[s].obs = hand.ids \cup IF s \in DOMAIN kept THEN kept[s].obs ELSE {}
  <2>1. PICK q : q = Least({Held} \cup (IF s \in DOMAIN kept THEN {kept[s].qty} ELSE {})
                                      \cup (IF hand.ids # {} THEN {cap} ELSE {}))
    OBVIOUS
  <2>2. PICK o : o = hand.ids \cup IF s \in DOMAIN kept THEN kept[s].obs ELSE {}
    OBVIOUS
  <2>3. all[s] = [qty |-> q, obs |-> o]
    BY <2>1, <2>2, Zenon
  <2>4. all[s].obs = o
    BY <2>3
  <2> QED
    BY <2>2, <2>4, Zenon
<1> HIDE DEF all
<1> QED
  BY <1>1, <1>2, <1>3, <1>4, Zenon

\* A plan tightens no target by a conclusion.
LEMMA PlanPlain ==
    ASSUME WellKept, NEW cut, NEW hand \in limits.hands, NEW extra, NEW cap, NEW s,
           \/ \A t \in extra : MixedAt(t, s)
           \/ \E t \in extra : s \in DOMAIN t /\ \E o \in t[s].obs : o[1] # "conclusion"
    PROVE  MixedAt(PlanTargets(cut, hand, extra, cap), s)
<1>1. PICK parts : parts = PlanParts(hand, extra)
  OBVIOUS
<1>2. PICK kept : kept = Conjoin(parts)
  OBVIOUS
<1>3. extra \subseteq parts
  BY <1>1 DEF PlanParts
<1>4. \A t \in parts \ extra : MixedAt(t, s)
  <2> TAKE t \in parts \ extra
  <2>1. t = hand.targets \/ \E n \in PlanHistory : t = OwedTargets(log[n].targets)
    BY <1>1 DEF PlanParts
  <2>2. Free(t)
    BY <2>1, PlansAreFree
  <2> QED
    BY <2>2, FreePlain
<1>5. MixedAt(kept, s)
  <2>1. \/ \A t \in parts : MixedAt(t, s)
        \/ \E t \in parts : s \in DOMAIN t /\ \E o \in t[s].obs : o[1] # "conclusion"
    BY <1>3, <1>4
  <2> QED
    BY <1>2, <2>1, ConjoinPlain
<1>6. PICK t : t = PlanTargets(cut, hand, extra, cap)
  OBVIOUS
<1>7. \/ DOMAIN t = {}
      \/ t = kept
      \/ DOMAIN t = Securities /\ \A x \in Securities :
             t[x].obs = hand.ids \cup IF x \in DOMAIN kept THEN kept[x].obs ELSE {}
  <2>1. kept = Conjoin(PlanParts(hand, extra))
    BY <1>1, <1>2
  <2> QED
    BY <1>6, <2>1, PlanTargetsAre
<1>8. CASE /\ DOMAIN t = Securities
           /\ \A x \in Securities : t[x].obs = hand.ids \cup IF x \in DOMAIN kept THEN kept[x].obs ELSE {}
  <2>1. SUFFICES ASSUME s \in Securities PROVE Plain(t[s].obs)
    BY <1>6, <1>8 DEF MixedAt
  <2>2. \A o \in hand.ids : o[1] # "conclusion"
    BY PlansAreFree
  <2>3. PICK obs : obs = IF s \in DOMAIN kept THEN kept[s].obs ELSE {}
    OBVIOUS
  <2>4. Plain(obs)
    BY <1>5, <2>3 DEF MixedAt, Plain
  <2>5. t[s].obs = hand.ids \cup obs
    BY <1>8, <2>1, <2>3
  <2> QED
    BY <2>2, <2>4, <2>5 DEF Plain
<1> QED
  BY <1>5, <1>6, <1>7, <1>8 DEF MixedAt

\* The targets of an execution plan name no conclusion.
LEMMA PlanFree ==
    ASSUME WellKept, NEW cut, NEW hand \in limits.hands, NEW cap
    PROVE  Free(PlanTargets(cut, hand, {}, cap))
<1>1. PICK parts : parts = PlanParts(hand, {})
  OBVIOUS
<1>2. PICK kept : kept = Conjoin(parts)
  OBVIOUS
<1>3. \A t \in parts : Free(t)
  <2> TAKE t \in parts
  <2>1. t = hand.targets \/ \E n \in PlanHistory : t = OwedTargets(log[n].targets)
    BY <1>1 DEF PlanParts
  <2> QED
    BY <2>1, PlansAreFree
<1>4. Free(kept)
  BY <1>2, <1>3, ConjoinFree
<1>5. PICK t : t = PlanTargets(cut, hand, {}, cap)
  OBVIOUS
<1>6. \/ DOMAIN t = {}
      \/ t = kept
      \/ DOMAIN t = Securities /\ \A x \in Securities :
             t[x].obs = hand.ids \cup IF x \in DOMAIN kept THEN kept[x].obs ELSE {}
  <2>1. kept = Conjoin(PlanParts(hand, {}))
    BY <1>1, <1>2
  <2> QED
    BY <1>5, <2>1, PlanTargetsAre
<1>7. \A o \in hand.ids : o[1] # "conclusion"
  BY PlansAreFree
<1>8. CASE /\ DOMAIN t = Securities
           /\ \A x \in Securities : t[x].obs = hand.ids \cup IF x \in DOMAIN kept THEN kept[x].obs ELSE {}
  <2>1. SUFFICES ASSUME NEW s \in Securities, NEW o \in t[s].obs PROVE o[1] # "conclusion"
    BY <1>5, <1>8 DEF Free
  <2>2. o \in hand.ids \/ (s \in DOMAIN kept /\ o \in kept[s].obs)
    BY <1>8, <2>1
  <2> QED
    BY <1>4, <1>7, <2>2 DEF Free
<1> QED
  BY <1>4, <1>5, <1>6, <1>8 DEF Free

\* What an action saves beside its conclusion never rests on a conclusion alone.
LEMMA DeterministicMixed ==
    ASSUME WellKept, NEW s, NEW cut, NEW hand \in limits.hands, NEW hard, NEW cap, NEW n
    PROVE  Mixed(Deterministic(s, cut, hand, hard, cap, n))
<1>1. PICK zero : zero = Only(s, 0, {Gate(n)})
  OBVIOUS
<1>2. DOMAIN zero = {s} /\ \E o \in zero[s].obs : o[1] # "conclusion"
  BY <1>1 DEF Only, Gate
<1>3. PICK base : base = PlanTargets(cut, hand, Inherited(s, cut), cap)
  OBVIOUS
<1>4. ASSUME NEW m \in ActionHistory(s)
      PROVE  /\ Mixed(OwedTargets(log[m].targets))
             /\ DOMAIN OwedTargets(log[m].own) \subseteq {s}
  <2>1. m \in DOMAIN log /\ log[m].kind = "ACTION" /\ log[m].sec = s
    BY DEF ActionHistory, Of
  <2>2. Mixed(log[m].targets) /\ DOMAIN log[m].own \subseteq {s}
    BY <2>1 DEF WellKept, Entry, ActEntry
  <2> QED
    BY <2>2, OwedMixed, OwedTargetsAre
<1>5. Mixed(base)
  <2>1. ASSUME NEW x PROVE MixedAt(base, x)
    <3>1. \A t \in Inherited(s, cut) : MixedAt(t, x)
      BY <1>4, MixedIs DEF Inherited
    <3> QED
      BY <1>3, <3>1, PlanPlain
  <2> QED
    BY <2>1, MixedIs
<1>6. Mixed(Beside(zero, base))
  <2>1. ASSUME NEW x PROVE MixedAt(Beside(zero, base), x)
    <3>1. x \in DOMAIN Beside(zero, base) => x \in DOMAIN zero \/ x \in DOMAIN base
      BY DEF Beside
    <3>2. x \in DOMAIN Beside(zero, base) =>
            Beside(zero, base)[x] = IF x \in DOMAIN zero THEN zero[x] ELSE base[x]
      BY DEF Beside
    <3>3. CASE x \in DOMAIN zero
      BY <1>2, <3>2, <3>3 DEF MixedAt, Plain
    <3>4. CASE x \notin DOMAIN zero
      <4>1. MixedAt(base, x)
        BY <1>5, MixedIs
      <4> QED
        BY <3>1, <3>2, <3>4, <4>1 DEF MixedAt
    <3> QED
      BY <3>3, <3>4
  <2> QED
    BY <2>1, MixedIs
<1>7. PICK extra : extra = OwnHistory(s) \cup {zero}
  OBVIOUS
<1>8. Mixed(PlanTargets(cut, hand, extra, cap))
  <2>1. ASSUME NEW x PROVE MixedAt(PlanTargets(cut, hand, extra, cap), x)
    <3>1. \/ \A t \in extra : MixedAt(t, x)
          \/ \E t \in extra : x \in DOMAIN t /\ \E o \in t[x].obs : o[1] # "conclusion"
      <4>1. CASE x = s
        <5>1. zero \in extra /\ x \in DOMAIN zero /\ \E o \in zero[x].obs : o[1] # "conclusion"
          BY <1>2, <1>7, <4>1
        <5> QED
          BY <5>1
      <4>2. CASE x # s
        <5>1. ASSUME NEW t \in extra PROVE x \notin DOMAIN t
          <6>1. t = zero \/ \E m \in ActionHistory(s) : t = OwedTargets(log[m].own)
            BY <1>7 DEF OwnHistory
          <6> QED
            BY <1>2, <1>4, <4>2, <6>1
        <5> QED
          BY <5>1 DEF MixedAt
      <4> QED
        BY <4>1, <4>2
    <3> QED
      BY <3>1, PlanPlain
  <2> QED
    BY <2>1, MixedIs
<1>9. \/ Deterministic(s, cut, hand, hard, cap, n) = base
      \/ Deterministic(s, cut, hand, hard, cap, n) = Beside(zero, base)
      \/ Deterministic(s, cut, hand, hard, cap, n) = PlanTargets(cut, hand, extra, cap)
  BY <1>1, <1>3, <1>7, Zenon DEF Deterministic
<1> QED
  BY <1>5, <1>6, <1>8, <1>9

-----------------------------------------------------------------------------
(* One more event.                                                         *)

\* An assessment is refused exactly when later ones were there, and delivers
\* a conclusion that none delivered before.
Fresh(e) ==
    e.kind \in AssessmentKinds /\ e.fixes = 0 =>
        /\ Rejected(e) <=> Backdated(e.cut)
        /\ (\E c \in ToSet(e.cases) : c.pri = "P2") => PreviousDeliveries(e.src) = {}

\* A notice continues the chain of its assessment.
Linked(e) ==
    e.kind = "NOTIFY" =>
        /\ (\E a \in e.sent : a.pri = "P2") => HasP2(e.src) /\ StatisticsCurrent(e.src)
        /\ ((e.sent # {} \/ e.due # {}) /\ HasP2(e.src) /\ StatisticsCurrent(e.src)) =>
              \A m \in Of({"NOTIFY"}) : (log[m].src = e.src /\ Reaching(m)) => log[m].key = e.key

\* The log and what one more event makes of it.
LEMMA Grown ==
    ASSUME IsSeq(log), NEW e, log' = Append(log, e)
    PROVE  /\ IsSeq(log') /\ Len(log) \in Nat /\ Len(log') = Len(log) + 1
           /\ DOMAIN log = 1 .. Len(log) /\ DOMAIN log' = 1 .. Len(log) + 1
           /\ \A i \in DOMAIN log : log'[i] = log[i]
           /\ log'[Len(log) + 1] = e
<1>1. PICK L : L = log
  OBVIOUS
<1>2. PICK U : U = log'
  OBVIOUS
<1>3. IsSeq(L) /\ U = Append(L, e)
  BY <1>1, <1>2
<1>4. /\ Len(L) \in Nat /\ Len(U) = Len(L) + 1
      /\ DOMAIN L = 1 .. Len(L) /\ DOMAIN U = 1 .. Len(U)
      /\ \A i \in DOMAIN L : U[i] = L[i]
      /\ U[Len(U)] = e
  BY ONLY <1>3, Appended
<1>5. IsSeq(U)
  BY ONLY <1>3, Appended
<1> QED
  BY <1>1, <1>2, <1>4, <1>5

\* What holds of an event holds of it in a longer log.
LEMMA EntryStays ==
    ASSUME NEW N \in Nat, NEW L, NEW U, \A i \in 1 .. N : U[i] = L[i],
           NEW n \in 1 .. N, Entry(L, n)
    PROVE  Entry(U, n)
<1>1. U[n] = L[n]
  OBVIOUS
<1>2. \A i \in 1 .. (n - 1) : U[i] = L[i]
  OBVIOUS
<1>3. L[n].fixes # 0 => U[L[n].fixes] = L[L[n].fixes]
  <2>1. PICK f : f = L[n].fixes
    OBVIOUS
  <2>2. f \in 0 .. (n - 1)
    BY <2>1 DEF Entry
  <2> QED
    BY <1>2, <2>1, <2>2
<1>4. NoticeEntry(U, n) /\ ReportEntry(U, n)
  BY <1>1, <1>2 DEF Entry, NoticeEntry, ReportEntry
<1> QED
  BY <1>1, <1>3, <1>4 DEF Entry

\* One more event of its kind keeps the log well kept.
LEMMA LogGrows ==
    ASSUME WellKept, NEW e, log' = Append(log, e), limits' = limits, clock' = clock,
           Entry(log', Len(log) + 1)
    PROVE  WellKept'
<1>0. IsSeq(log) /\ \A n \in DOMAIN log : Entry(log, n)
  BY DEF WellKept
<1>1. PICK N \in Nat : N = Len(log)
  BY <1>0, Indices
<1>2. /\ IsSeq(log') /\ DOMAIN log = 1 .. N /\ DOMAIN log' = 1 .. N + 1
      /\ \A i \in 1 .. N : log'[i] = log[i]
  BY <1>0, <1>1, Grown
<1>3. \A n \in 1 .. N : Entry(log', n)
  <2> TAKE n \in 1 .. N
  <2>1. PICK L : L = log
    OBVIOUS
  <2>2. PICK U : U = log'
    OBVIOUS
  <2>3. Entry(L, n) /\ \A i \in 1 .. N : U[i] = L[i]
    BY <1>0, <1>2, <2>1, <2>2
  <2>4. Entry(U, n)
    BY <2>3, EntryStays
  <2> QED
    BY <2>2, <2>4
<1>4. \A n \in 1 .. N + 1 : Entry(log', n)
  <2>1. \A n \in 1 .. N + 1 : n \in 1 .. N \/ n = N + 1
    OBVIOUS
  <2> QED
    BY <1>1, <1>3, <2>1
<1> QED
  BY <1>2, <1>4 DEF WellKept

\* What the log says of one event, as facts about it.
LEMMA EntryIs ==
    ASSUME WellKept, NEW n \in DOMAIN log
    PROVE  Entry(log, n)
BY DEF WellKept

\* Originals that were not refused are in the history.
LEMMA OriginalsCount ==
    ASSUME WellKept, NEW n \in DOMAIN log, log[n].kind \in AssessmentKinds,
           log[n].fixes = 0, ~Rejected(log[n])
    PROVE  n \in History
<1>1. n \in 1 .. Len(log) /\ IsSeq(log)
  BY Indices DEF WellKept
<1>2. Counts(log[n], LatestOf(log)[n - 1])
  BY DEF Counts
<1>3. LatestOf(log)[n] = n
  BY <1>1, <1>2, LatestSteps
<1>4. log[n].kind \in Monitoring
  BY DEF Monitoring
<1> QED
  BY <1>3, <1>4 DEF History

\* Before the first assessment there is no history.
LEMMA HistoryBegins ==
    ASSUME WellKept, Of(AssessmentKinds) = {}
    PROVE  History = {}
<1>1. SUFFICES ASSUME NEW n \in History PROVE FALSE
  OBVIOUS
<1>2. n \in DOMAIN log /\ log[n].kind \in Monitoring
  BY DEF History
<1>3. log[n].kind = "NOTIFY" \/ log[n].kind = "REPORT"
  BY <1>2 DEF Monitoring, Of
<1>4. Entry(log, n) /\ DOMAIN log = 1 .. Len(log) /\ Len(log) \in Nat
  BY <1>2, Indices DEF WellKept
<1>5. log[n].src \in 1 .. (n - 1) /\ log[log[n].src].kind \in AssessmentKinds
  BY <1>3, <1>4 DEF Entry, NoticeEntry, ReportEntry
<1>6. log[n].src \in DOMAIN log
  BY <1>2, <1>4, <1>5
<1> QED
  BY <1>5, <1>6 DEF Of

\* One more event: both selections take it, or neither does.
LEMMA CurrentGrows ==
    ASSUME WellKept, OneCurrent, NEW e, log' = Append(log, e),
           Entry(log', Len(log) + 1), Fresh(e)
    PROVE  OneCurrent'
<1>0. IsSeq(log)
  BY DEF WellKept
<1>1. PICK N \in Nat : N = Len(log)
  BY <1>0, Indices
<1>2. /\ IsSeq(log') /\ Len(log') = N + 1
      /\ DOMAIN log = 1 .. N /\ DOMAIN log' = 1 .. N + 1
      /\ \A i \in 1 .. N : log'[i] = log[i]
      /\ log'[N + 1] = e
  BY <1>0, <1>1, Grown
<1>3. PICK l : l = Latest
  OBVIOUS
<1>4. /\ l = LatestOf(log)[N] /\ l = ShownOf(log)[N]
      /\ \/ l = 0 /\ Of(AssessmentKinds) = {}
         \/ l \in Of(AssessmentKinds) /\ l \in History
  BY <1>1, <1>3 DEF OneCurrent, Latest, Shown
<1>5. /\ \A k \in DOMAIN log : LatestOf(log')[k] = LatestOf(log)[k]
      /\ Latest' = IF Counts(e, l) THEN N + 1 ELSE l
  <2>1. PICK L : L = log
    OBVIOUS
  <2>2. PICK U : U = log'
    OBVIOUS
  <2>3. IsSeq(L) /\ U = Append(L, e)
    BY <1>0, <2>1, <2>2
  <2>4. /\ \A k \in DOMAIN L : LatestOf(U)[k] = LatestOf(L)[k]
        /\ LatestOf(U)[Len(U)] = IF Counts(e, LatestOf(L)[Len(L)]) THEN Len(U)
                                 ELSE LatestOf(L)[Len(L)]
    BY ONLY <2>3, LatestExtends
  <2> QED
    BY <1>1, <1>2, <1>4, <2>1, <2>2, <2>4, Zenon DEF Latest
<1>6. Shown' = IF Replaces(log', N + 1, l) THEN N + 1 ELSE l
  <2>1. PICK L : L = log
    OBVIOUS
  <2>2. PICK U : U = log'
    OBVIOUS
  <2>3. IsSeq(L) /\ U = Append(L, e)
    BY <1>0, <2>1, <2>2
  <2>4. ShownOf(U)[Len(U)] = IF Replaces(U, Len(U), ShownOf(L)[Len(L)]) THEN Len(U)
                             ELSE ShownOf(L)[Len(L)]
    BY ONLY <2>3, ShownExtends
  <2> QED
    BY <1>1, <1>2, <1>4, <2>1, <2>2, <2>4, Zenon DEF Shown
<1>7. Entry(log', N + 1)
  BY <1>1
<1>8. l # 0 => l \in 1 .. N /\ log'[l] = log[l] /\ log[l].kind \in AssessmentKinds /\ log[l].cut \in Nat
  <2>1. l # 0 => l \in DOMAIN log /\ log[l].kind \in AssessmentKinds
    BY <1>4 DEF Of
  <2>2. l # 0 => Entry(log, l)
    BY <2>1, EntryIs
  <2> QED
    BY <1>2, <2>1, <2>2 DEF Entry
<1>9. Counts(e, l) <=> Replaces(log', N + 1, l)
  <2>1. e.cut \in Nat /\ e.fixes \in 0 .. N
    BY <1>2, <1>7 DEF Entry
  <2>2. CASE e.kind \notin AssessmentKinds
    BY <1>2, <2>2 DEF Counts, Replaces
  <2>3. CASE e.kind \in AssessmentKinds /\ e.fixes = 0 /\ l = 0
    <3>1. ~Backdated(e.cut)
      BY <1>4, <1>8, <2>3, HistoryBegins DEF Backdated, Of
    <3>2. ~Rejected(e)
      BY <2>3, <3>1 DEF Fresh
    <3> QED
      BY <1>2, <2>3, <3>2 DEF Counts, Replaces
  <2>4. CASE e.kind \in AssessmentKinds /\ e.fixes = 0 /\ l # 0
    <3>1. ~Rejected(e) => log[l].cut <= e.cut
      <4>1. ~Rejected(e) => ~(log[l].cut > e.cut)
        BY <1>4, <2>4 DEF Fresh, Backdated
      <4>2. PICK x \in Nat : x = log[l].cut
        BY <1>8, <2>4
      <4>3. PICK y \in Nat : y = e.cut
        BY <2>1
      <4> QED
        BY <4>1, <4>2, <4>3
    <3>2. Counts(e, l) <=> ~Rejected(e)
      BY <2>4 DEF Counts
    <3>3. Replaces(log', N + 1, l) <=> (e.cut >= log[l].cut /\ ~Rejected(e))
      BY <1>2, <1>8, <2>4 DEF Replaces
    <3>4. log[l].cut \in Nat
      BY <1>8, <2>4
    <3> QED
      BY <2>1, <3>1, <3>2, <3>3, <3>4
  <2>5. CASE e.kind \in AssessmentKinds /\ e.fixes # 0
    <3>1. Repeats(e, log'[e.fixes])
      BY <1>2, <1>7, <2>5 DEF Entry
    <3>2. PICK f : f = e.fixes
      OBVIOUS
    <3>3. f \in 1 .. N /\ log'[f] = log[f]
      BY <1>2, <2>1, <2>5, <3>2
    <3>4. log[f].kind = e.kind /\ log[f].cut = e.cut
      BY <3>1, <3>2, <3>3 DEF Repeats
    <3>5. l # 0
      BY <1>2, <1>4, <2>5, <3>3, <3>4 DEF Of
    <3>6. Counts(e, l) <=> (~Rejected(e) /\ f = l)
      BY <2>5, <3>2 DEF Counts
    <3>7. Replaces(log', N + 1, l) <=> (e.cut >= log[l].cut /\ ~Rejected(e) /\ f = l)
      BY <1>2, <1>8, <2>5, <3>2, <3>5 DEF Replaces
    <3>8. f = l => e.cut = log[l].cut
      BY <3>4
    <3> QED
      BY <2>1, <3>6, <3>7, <3>8
  <2> QED
    BY <2>2, <2>3, <2>4, <2>5
<1>10. Latest' = Shown'
  BY <1>5, <1>6, <1>9
<1>11. CASE Counts(e, l)
  <2>1. Latest' = N + 1 /\ N + 1 \in DOMAIN log'
    BY <1>2, <1>5, <1>11
  <2>2. e.kind \in AssessmentKinds /\ e.kind \in Monitoring /\ ~Rejected(e)
    BY <1>11 DEF Counts, Monitoring
  <2>3. LatestOf(log')[N + 1] = N + 1
    BY <1>2, <2>1 DEF Latest
  <2>4. N + 1 \in Of(AssessmentKinds)' /\ N + 1 \in History'
    BY <1>2, <2>1, <2>2, <2>3 DEF Of, History
  <2> QED
    BY <1>10, <2>1, <2>4 DEF OneCurrent
<1>12. CASE ~Counts(e, l) /\ l # 0
  <2>1. Latest' = l /\ l \in DOMAIN log /\ l \in DOMAIN log' /\ log'[l] = log[l]
    BY <1>2, <1>5, <1>8, <1>12
  <2>2. l \in Of(AssessmentKinds) /\ l \in History
    BY <1>4, <1>12
  <2>3. l \in Of(AssessmentKinds)' /\ l \in History'
    BY <1>5, <2>1, <2>2 DEF Of, History
  <2> QED
    BY <1>10, <2>1, <2>3 DEF OneCurrent
<1>13. CASE ~Counts(e, l) /\ l = 0
  <2>1. Of(AssessmentKinds) = {}
    BY <1>4, <1>8, <1>13 DEF Of
  <2>2. e.kind \notin AssessmentKinds
    <3>1. SUFFICES ASSUME e.kind \in AssessmentKinds PROVE FALSE
      OBVIOUS
    <3>2. CASE e.fixes = 0
      <4>1. ~Backdated(e.cut)
        BY <2>1, HistoryBegins DEF Backdated
      <4> QED
        BY <1>13, <3>1, <3>2, <4>1 DEF Counts, Fresh
    <3>3. CASE e.fixes # 0
      <4>1. Repeats(e, log'[e.fixes]) /\ e.fixes \in 1 .. N
        BY <1>2, <1>7, <3>3 DEF Entry
      <4>2. log[e.fixes].kind = e.kind
        BY <1>2, <4>1 DEF Repeats
      <4> QED
        BY <1>2, <2>1, <3>1, <4>1, <4>2 DEF Of
    <3> QED
      BY <3>2, <3>3
  <2>3. Of(AssessmentKinds)' = {}
    <3>1. \A i \in 1 .. N + 1 : i \in 1 .. N \/ i = N + 1
      OBVIOUS
    <3> QED
      BY <1>2, <2>1, <2>2, <3>1 DEF Of
  <2>4. Latest' = 0
    BY <1>5, <1>13
  <2> QED
    BY <1>10, <2>3, <2>4 DEF OneCurrent
<1> QED
  BY <1>11, <1>12, <1>13

\* A conclusion among the cases, by its place.
LEMMA HasP2Is ==
    ASSUME NEW n
    PROVE  HasP2(n) <=> \E k \in DOMAIN log[n].cases : log[n].cases[k].pri = "P2"
BY DEF HasP2, ToSet

\* One more event delivers no conclusion a second time.
LEMMA DeliveryGrows ==
    ASSUME WellKept, OneDelivery, NEW e, log' = Append(log, e), Fresh(e)
    PROVE  OneDelivery'
<1>0. IsSeq(log)
  BY DEF WellKept
<1>1. PICK N \in Nat : N = Len(log)
  BY <1>0, Indices
<1>2. /\ DOMAIN log = 1 .. N /\ DOMAIN log' = 1 .. N + 1
      /\ \A i \in 1 .. N : log'[i] = log[i]
      /\ log'[N + 1] = e
  BY <1>0, <1>1, Grown
<1>3. ASSUME NEW m \in 1 .. N, log[m].kind \in AssessmentKinds, log[m].fixes = 0,
             HasP2(m), e.kind \in AssessmentKinds, e.fixes = 0, e.src = log[m].src,
             \E c \in ToSet(e.cases) : c.pri = "P2"
      PROVE  FALSE
  <2>1. ~Rejected(log[m])
    <3>1. SUFFICES ASSUME Rejected(log[m]) PROVE FALSE
      OBVIOUS
    <3>2. log[m].cases = <<>>
      BY <1>2, <1>3, <3>1, EntryIs DEF Entry, ReviewEntry
    <3>3. PICK q : q = log[m].cases
      OBVIOUS
    <3>4. \E k \in DOMAIN q : TRUE
      BY <1>3, <3>3, HasP2Is
    <3> QED
      BY <3>2, <3>3, <3>4
  <2>2. m \in History
    BY <1>2, <1>3, <2>1, OriginalsCount
  <2>3. m \in PreviousDeliveries(e.src)
    BY <1>3, <2>2 DEF PreviousDeliveries
  <2> QED
    BY <1>3, <2>3 DEF Fresh
<1>4. SUFFICES ASSUME NEW m \in Of(AssessmentKinds)', NEW n \in Of(AssessmentKinds)',
                      log'[m].fixes = 0, log'[n].fixes = 0, log'[m].src = log'[n].src,
                      HasP2(m)', HasP2(n)'
      PROVE  m = n
  BY DEF OneDelivery
<1>5. /\ m \in 1 .. N + 1 /\ log'[m].kind \in AssessmentKinds
      /\ n \in 1 .. N + 1 /\ log'[n].kind \in AssessmentKinds
  BY <1>2, <1>4 DEF Of
<1>6. CASE m \in 1 .. N /\ n \in 1 .. N
  <2>1. m \in Of(AssessmentKinds) /\ n \in Of(AssessmentKinds)
    BY <1>2, <1>5, <1>6 DEF Of
  <2>2. HasP2(m) /\ HasP2(n)
    BY <1>2, <1>4, <1>6 DEF HasP2
  <2> QED
    BY <1>2, <1>4, <1>6, <2>1, <2>2 DEF OneDelivery
<1>7. CASE m \in 1 .. N /\ n = N + 1
  <2>1. HasP2(m) /\ \E c \in ToSet(e.cases) : c.pri = "P2"
    BY <1>2, <1>4, <1>7 DEF HasP2
  <2> QED
    BY <1>2, <1>3, <1>4, <1>5, <1>7, <2>1
<1>8. CASE n \in 1 .. N /\ m = N + 1
  <2>1. HasP2(n) /\ \E c \in ToSet(e.cases) : c.pri = "P2"
    BY <1>2, <1>4, <1>8 DEF HasP2
  <2> QED
    BY <1>2, <1>3, <1>4, <1>5, <1>8, <2>1
<1>9. m \in 1 .. N \/ m = N + 1
  BY <1>5
<1>10. n \in 1 .. N \/ n = N + 1
  BY <1>5
<1> QED
  BY <1>6, <1>7, <1>8, <1>9, <1>10

\* A conclusion that holds now held before.
LEMMA CurrentBefore ==
    ASSUME \A i \in DOMAIN log : i \in DOMAIN log' /\ log'[i] = log[i], lapsed \subseteq lapsed',
           NEW n \in DOMAIN log, StatisticsCurrent(n)'
    PROVE  StatisticsCurrent(n)
<1>1. log'[n] = log[n]
  OBVIOUS
<1>2. PICK f : f = log[n].from
  OBVIOUS
<1>3. /\ f # 0 /\ <<f, "evidence">> \notin lapsed' /\ <<f, "authority">> \notin lapsed'
      /\ <<n, "evidence">> \notin lapsed' /\ InputsUnchanged(f)'
  BY <1>1, <1>2 DEF StatisticsCurrent, ExecutionCurrent
<1>4. InputsUnchanged(f)
  <2>1. /\ \A k \in DOMAIN log' : k > f => log'[k].kind \in Monitoring
        /\ ~\E k \in DOMAIN log' : log'[k].fixes = f
    BY <1>3 DEF InputsUnchanged, Corrected
  <2>2. \A k \in DOMAIN log : k > f => log[k].kind \in Monitoring
    BY <2>1
  <2>3. ~\E k \in DOMAIN log : log[k].fixes = f
    BY <2>1
  <2> QED
    BY <2>2, <2>3 DEF InputsUnchanged, Corrected
<1> QED
  BY <1>2, <1>3, <1>4 DEF StatisticsCurrent, ExecutionCurrent

\* What has a conclusion's identity is the conclusion.
LEMMA ConclusionIs ==
    ASSUME WellKept, NEW n \in DOMAIN log, log[n].kind \in AssessmentKinds,
           NEW c \in ToSet(log[n].cases), NEW m \in DOMAIN log, log[m].kind \in AssessmentKinds,
           NEW d \in ToSet(log[m].cases), c.pri = "P2", c.id = d.id
    PROVE  /\ d.pri = "P2" /\ log[m].src = log[n].src
           /\ c.win = log[n].win /\ d.win = log[m].win
<1>1. CasesOf(log[n]) /\ CasesOf(log[m])
  BY EntryIs DEF Entry, ReviewEntry
<1>2. RiskCase(c) \/ Delivery(c, log[n])
  BY <1>1 DEF CasesOf, ToSet
<1>3. RiskCase(d) \/ Delivery(d, log[m])
  BY <1>1 DEF CasesOf, ToSet
<1>4. c.id = <<0, {Conclusion(log[n].src)}>> /\ c.win = log[n].win
  BY <1>2 DEF RiskCase, Delivery
<1>5. ~RiskCase(d)
  <2>1. SUFFICES ASSUME Identified(d.id) PROVE FALSE
    BY DEF RiskCase
  <2>2. PICK S : S = {Conclusion(log[n].src)}
    OBVIOUS
  <2>3. PICK id : id = <<0, S>>
    OBVIOUS
  <2>4. id[1] = 0 /\ id[2] = S /\ d.id = id
    BY <1>4, <2>2, <2>3
  <2>5. PICK o \in S : o[1] # "conclusion"
    BY <2>1, <2>4 DEF Identified
  <2> QED
    BY <2>2, <2>5 DEF Conclusion
<1>6. d.pri = "P2" /\ d.id = <<0, {Conclusion(log[m].src)}>> /\ d.win = log[m].win
  BY <1>3, <1>5 DEF Delivery
<1>7. log[m].src = log[n].src
  <2>1. PICK x : x = Conclusion(log[n].src)
    OBVIOUS
  <2>2. PICK y : y = Conclusion(log[m].src)
    OBVIOUS
  <2>3. <<0, {x}>> = <<0, {y}>>
    BY <1>4, <1>6, <2>1, <2>2
  <2>4. {x} = {y}
    BY <2>3
  <2>5. x = y
    BY <2>4
  <2> QED
    BY <2>1, <2>2, <2>5 DEF Conclusion
<1> QED
  BY <1>4, <1>6, <1>7

\* What was sent of a conclusion is a case of the assessment.
LEMMA SentIs ==
    ASSUME WellKept, NEW n \in Of({"NOTIFY"})
    PROVE  /\ log[n].src \in DOMAIN log /\ log[log[n].src].kind \in AssessmentKinds
           /\ Sent(log[n], log[log[n].src])
<1>1. n \in DOMAIN log /\ log[n].kind = "NOTIFY"
  BY DEF Of
<1>2. Entry(log, n) /\ DOMAIN log = 1 .. Len(log) /\ Len(log) \in Nat
  BY <1>1, Indices DEF WellKept
<1>3. /\ log[n].src \in 1 .. (n - 1) /\ log[log[n].src].kind \in AssessmentKinds
      /\ Sent(log[n], log[log[n].src])
  BY <1>1, <1>2 DEF Entry, NoticeEntry
<1> QED
  BY <1>1, <1>2, <1>3

\* One more event keeps the notices of a conclusion that holds one chain.
LEMMA NoticesGrow ==
    ASSUME WellKept, OneChain, NEW e, log' = Append(log, e), lapsed' = lapsed,
           Entry(log', Len(log) + 1), Linked(e)
    PROVE  OneChain'
<1>0. IsSeq(log)
  BY DEF WellKept
<1>1. PICK N \in Nat : N = Len(log)
  BY <1>0, Indices
<1>2. /\ DOMAIN log = 1 .. N /\ DOMAIN log' = 1 .. N + 1
      /\ \A i \in 1 .. N : log'[i] = log[i]
      /\ log'[N + 1] = e
  BY <1>0, <1>1, Grown
<1>3. SUFFICES ASSUME NEW m \in Of({"NOTIFY"})', NEW n \in Of({"NOTIFY"})',
                      log'[m].src = log'[n].src, Reaching(m)', Reaching(n)',
                      HasP2(log[m].src)', StatisticsCurrent(log[m].src)'
      PROVE  log'[m].key = log'[n].key
  BY DEF OneChain
<1>4. PICK s : s = log'[m].src
  OBVIOUS
<1>5. /\ m \in 1 .. N + 1 /\ log'[m].kind = "NOTIFY"
      /\ n \in 1 .. N + 1 /\ log'[n].kind = "NOTIFY"
  BY <1>2, <1>3 DEF Of
<1>6. s \in 1 .. N
  <2>1. m \in 1 .. N \/ m = N + 1
    BY <1>5
  <2>2. CASE m \in 1 .. N
    <3>1. m \in Of({"NOTIFY"})
      BY <1>2, <1>5, <2>2 DEF Of
    <3> QED
      BY <1>2, <1>4, <2>2, <3>1, SentIs
  <2>3. CASE m = N + 1
    <3>1. Entry(log', N + 1)
      BY <1>1
    <3>2. e.kind = "NOTIFY"
      BY <1>2, <1>5, <2>3
    <3>3. e.src \in 1 .. (N + 1 - 1)
      BY <1>2, <3>1, <3>2 DEF Entry, NoticeEntry
    <3> QED
      BY <1>2, <1>4, <2>3, <3>3
  <2> QED
    BY <2>1, <2>2, <2>3
<1>7. HasP2(s) /\ StatisticsCurrent(s)
  <2>1. HasP2(s)
    BY <1>2, <1>3, <1>4, <1>6 DEF HasP2
  <2>2. \A i \in DOMAIN log : i \in DOMAIN log' /\ log'[i] = log[i]
    BY <1>2
  <2>3. s \in DOMAIN log /\ lapsed \subseteq lapsed'
    BY <1>2, <1>6
  <2>4. StatisticsCurrent(s)'
    BY <1>3, <1>4 DEF StatisticsCurrent, ExecutionCurrent, InputsUnchanged, Corrected
  <2> QED
    BY <2>1, <2>2, <2>3, <2>4, CurrentBefore
<1>8. ASSUME NEW i \in 1 .. N, log[i].kind = "NOTIFY", Reaching(i)', log'[i].src = s
      PROVE  i \in Of({"NOTIFY"}) /\ Reaching(i) /\ log[i].src = s
  BY <1>2, <1>8 DEF Of, Reaching
<1>9. ASSUME e.kind = "NOTIFY", e.src = s, e.sent # {} \/ e.due # {},
             NEW i \in Of({"NOTIFY"}), Reaching(i), log[i].src = s
      PROVE  log[i].key = e.key
  BY <1>7, <1>9 DEF Linked
<1>10. CASE m \in 1 .. N /\ n \in 1 .. N
  <2>1. m \in Of({"NOTIFY"}) /\ Reaching(m) /\ n \in Of({"NOTIFY"}) /\ Reaching(n)
        /\ log[m].src = s /\ log[n].src = s
    BY <1>2, <1>3, <1>4, <1>5, <1>8, <1>10
  <2>2. log[m].key = log[n].key
    BY <1>7, <2>1 DEF OneChain
  <2> QED
    BY <1>2, <1>10, <2>2
<1>11. CASE m \in 1 .. N /\ n = N + 1
  <2>1. m \in Of({"NOTIFY"}) /\ Reaching(m) /\ log[m].src = s
    BY <1>2, <1>3, <1>4, <1>5, <1>8, <1>11
  <2>2. e.kind = "NOTIFY" /\ e.src = s /\ (e.sent # {} \/ e.due # {})
    BY <1>2, <1>3, <1>4, <1>5, <1>11 DEF Reaching
  <2> QED
    BY <1>2, <1>9, <1>11, <2>1, <2>2
<1>12. CASE n \in 1 .. N /\ m = N + 1
  <2>1. n \in Of({"NOTIFY"}) /\ Reaching(n) /\ log[n].src = s
    BY <1>2, <1>3, <1>4, <1>5, <1>8, <1>12
  <2>2. e.kind = "NOTIFY" /\ e.src = s /\ (e.sent # {} \/ e.due # {})
    BY <1>2, <1>3, <1>4, <1>5, <1>12 DEF Reaching
  <2> QED
    BY <1>2, <1>9, <1>12, <2>1, <2>2
<1>13. (m \in 1 .. N \/ m = N + 1) /\ (n \in 1 .. N \/ n = N + 1)
  BY <1>5
<1> QED
  BY <1>10, <1>11, <1>12, <1>13

\* One more event keeps the attempts that told of a conclusion one chain.
LEMMA KeyGrows ==
    ASSUME WellKept, OneKey, NEW e, log' = Append(log, e),
           Entry(log', Len(log) + 1), Linked(e)
    PROVE  OneKey'
<1>0. IsSeq(log)
  BY DEF WellKept
<1>1. PICK N \in Nat : N = Len(log)
  BY <1>0, Indices
<1>2. /\ DOMAIN log = 1 .. N /\ DOMAIN log' = 1 .. N + 1
      /\ \A i \in 1 .. N : log'[i] = log[i]
      /\ log'[N + 1] = e
  BY <1>0, <1>1, Grown
<1>3. SUFFICES ASSUME NEW m \in Of({"NOTIFY"})', NEW n \in Of({"NOTIFY"})',
                      NEW a \in log'[m].sent, NEW b \in log'[n].sent,
                      a.pri = "P2", a.id = b.id, log'[m].src = log'[n].src
      PROVE  log'[m].key = log'[n].key
  BY DEF OneKey
<1>4. /\ m \in 1 .. N + 1 /\ log'[m].kind = "NOTIFY"
      /\ n \in 1 .. N + 1 /\ log'[n].kind = "NOTIFY"
  BY <1>2, <1>3 DEF Of
<1>5. (m \in 1 .. N \/ m = N + 1) /\ (n \in 1 .. N \/ n = N + 1)
  BY <1>4
<1>6. CASE m \in 1 .. N /\ n \in 1 .. N
  <2>1. m \in Of({"NOTIFY"}) /\ n \in Of({"NOTIFY"})
    BY <1>2, <1>4, <1>6 DEF Of
  <2> QED
    BY <1>2, <1>3, <1>6, <2>1 DEF OneKey
<1>7. Entry(log', N + 1)
  BY <1>1
<1>8. ASSUME e.kind = "NOTIFY"
      PROVE  /\ e.src \in 1 .. N /\ log[e.src].kind \in AssessmentKinds
             /\ Sent(e, log[e.src])
  <2>1. NoticeEntry(log', N + 1)
    BY <1>7 DEF Entry
  <2>2. e.src \in 1 .. (N + 1 - 1) /\ log'[e.src].kind \in AssessmentKinds /\ Sent(e, log'[e.src])
    BY <1>2, <1>8, <2>1 DEF NoticeEntry
  <2> QED
    BY <1>2, <2>2
<1>9. ASSUME e.kind = "NOTIFY", \E x \in e.sent : x.pri = "P2",
             NEW i \in 1 .. N, log[i].kind = "NOTIFY", log[i].src = e.src, log[i].sent # {}
      PROVE  log[i].key = e.key
  <2>1. i \in Of({"NOTIFY"}) /\ Reaching(i)
    BY <1>2, <1>9 DEF Of, Reaching
  <2>2. HasP2(e.src) /\ StatisticsCurrent(e.src) /\ (e.sent # {} \/ e.due # {})
    BY <1>9 DEF Linked
  <2> QED
    BY <1>9, <2>1, <2>2 DEF Linked
<1>10. CASE m = N + 1 /\ n \in 1 .. N
  <2>1. e.kind = "NOTIFY" /\ a \in e.sent
    BY <1>2, <1>3, <1>4, <1>10
  <2>2. log[n].kind = "NOTIFY" /\ log[n].src = e.src /\ log[n].sent # {}
    BY <1>2, <1>3, <1>4, <1>10
  <2>3. log[n].key = e.key
    BY <1>3, <1>9, <1>10, <2>1, <2>2
  <2> QED
    BY <1>2, <1>10, <2>3
<1>11. CASE m \in 1 .. N /\ n = N + 1
  <2>1. e.kind = "NOTIFY" /\ b \in e.sent /\ a \in log[m].sent /\ log[m].src = e.src /\ log[m].kind = "NOTIFY"
    BY <1>2, <1>3, <1>4, <1>11
  <2>2. PICK s : s = e.src
    OBVIOUS
  <2>3. s \in DOMAIN log /\ log[s].kind \in AssessmentKinds /\ Sent(e, log[s])
    BY <1>2, <1>8, <2>1, <2>2
  <2>4. Sent(log[m], log[s])
    <3>1. m \in Of({"NOTIFY"})
      BY <1>2, <1>11, <2>1 DEF Of
    <3> QED
      BY <2>1, <2>2, <3>1, SentIs
  <2>5. PICK c \in ToSet(log[s].cases) : a.id = c.id /\ a.pri = c.pri
    BY <2>1, <2>4 DEF Sent
  <2>6. PICK d \in ToSet(log[s].cases) : b.id = d.id /\ b.pri = d.pri
    BY <2>1, <2>3 DEF Sent
  <2>7. d.pri = "P2"
    BY <1>3, <2>3, <2>5, <2>6, ConclusionIs
  <2>8. log[m].key = e.key
    BY <1>9, <1>11, <2>1, <2>6, <2>7
  <2> QED
    BY <1>2, <1>11, <2>8
<1>12. CASE m = N + 1 /\ n = N + 1
  BY <1>12
<1> QED
  BY <1>5, <1>6, <1>10, <1>11, <1>12

\* One more event that is well formed, fresh and linked keeps the invariant.
LEMMA ReviewGrows ==
    ASSUME ReviewInv, NEW e, log' = Append(log, e), UNCHANGED <<limits, clock, lapsed>>,
           Entry(log', Len(log) + 1), Fresh(e), Linked(e)
    PROVE  ReviewInv'
<1>1. WellKept'
  BY LogGrows DEF ReviewInv
<1>2. OneCurrent'
  BY CurrentGrows DEF ReviewInv
<1>3. OneDelivery'
  BY DeliveryGrows DEF ReviewInv
<1>4. OneChain'
  BY NoticesGrow DEF ReviewInv
<1>5. OneKey'
  BY KeyGrows DEF ReviewInv
<1> QED
  BY <1>1, <1>2, <1>3, <1>4, <1>5 DEF ReviewInv

-----------------------------------------------------------------------------
(* One lemma for each operation.                                           *)

\* An original that is neither an assessment nor a notice.
LEMMA OriginalGrows ==
    ASSUME ReviewInv, NEW e, log' = Append(log, e), UNCHANGED <<limits, clock, lapsed>>,
           e.kind \in {"PLAN", "ACTION", "FACT", "REPORT"}, e.fixes = 0, e.cut \in Nat,
           {"kind", "fixes", "cut"} \subseteq DOMAIN e, PlanEntry(e), ActEntry(e),
           e.kind = "REPORT" => e.src \in Of(AssessmentKinds)
    PROVE  ReviewInv'
<1>0. IsSeq(log)
  BY DEF ReviewInv, WellKept
<1>1. PICK N \in Nat : N = Len(log)
  BY <1>0, Indices
<1>2. /\ DOMAIN log = 1 .. N /\ DOMAIN log' = 1 .. N + 1
      /\ \A i \in 1 .. N : log'[i] = log[i]
      /\ log'[N + 1] = e
  BY <1>0, <1>1, Grown
<1>3. e.kind \notin AssessmentKinds /\ e.kind # "NOTIFY"
      /\ e.kind \in {"PLAN", "ACTION", "FACT"} \cup Monitoring
  BY DEF AssessmentKinds, Monitoring
<1>4. NoticeEntry(log', N + 1) /\ ReviewEntry(e, N + 1)
  BY <1>2, <1>3 DEF NoticeEntry, ReviewEntry
<1>5. ReportEntry(log', N + 1)
  <2>1. SUFFICES ASSUME e.kind = "REPORT"
        PROVE  e.src \in 1 .. (N + 1 - 1) /\ log'[e.src].kind \in AssessmentKinds
    BY <1>2 DEF ReportEntry
  <2>2. e.src \in 1 .. N /\ log[e.src].kind \in AssessmentKinds
    BY <1>2, <2>1 DEF Of
  <2> QED
    BY <1>2, <2>2
<1>6. Entry(log', N + 1)
  <2>1. e.fixes \in 0 .. (N + 1 - 1)
    OBVIOUS
  <2> QED
    BY <1>2, <1>3, <1>4, <1>5, <2>1 DEF Entry
<1>7. Fresh(e) /\ Linked(e)
  BY <1>3 DEF Fresh, Linked
<1> QED
  BY <1>1, <1>6, <1>7, ReviewGrows

\* A cutoff is an instant.
LEMMA InstantIs ==
    ASSUME ReviewInv, NEW cut \in 0 .. clock
    PROVE  cut \in Nat
BY DEF ReviewInv, WellKept

\* Fact.
LEMMA FactStep ==
    ASSUME ReviewInv, Fact
    PROVE  ReviewInv'
<1>1. PICK e : e = [kind |-> "FACT", fixes |-> 0, cut |-> clock]
  OBVIOUS
<1>2. log' = Append(log, e) /\ UNCHANGED <<limits, clock, lapsed>>
  BY <1>1 DEF Fact, Append1
<1>3. clock \in Nat
  BY DEF ReviewInv, WellKept
<1>4. e.kind = "FACT" /\ e.fixes = 0 /\ e.cut \in Nat /\ {"kind", "fixes", "cut"} \subseteq DOMAIN e
  BY <1>1, <1>3
<1>5. PlanEntry(e) /\ ActEntry(e)
  BY <1>4 DEF PlanEntry, ActEntry
<1> QED
  BY <1>2, <1>4, <1>5, OriginalGrows

\* Plan: its targets name no conclusion.
LEMMA PlanStep ==
    ASSUME ReviewInv, Plan
    PROVE  ReviewInv'
<1>1. PICK cut \in 0 .. clock, hand \in limits.hands, cap \in 0 .. Held :
        log' = Append(log, [kind |-> "PLAN", fixes |-> 0, cut |-> cut,
                            targets |-> PlanTargets(cut, hand, {}, cap),
                            p0 |-> hand.p0, capital |-> hand.capital,
                            ready |-> hand.whole /\ PlanTargets(cut, hand, {}, cap) # <<>>])
  BY DEF Plan, Append1
<1>2. UNCHANGED <<limits, clock, lapsed>>
  BY DEF Plan
<1>3. PICK t : t = PlanTargets(cut, hand, {}, cap)
  OBVIOUS
<1>4. Free(t)
  BY <1>3, PlanFree DEF ReviewInv
<1>5. PICK e : e = [kind |-> "PLAN", fixes |-> 0, cut |-> cut, targets |-> t,
                    p0 |-> hand.p0, capital |-> hand.capital, ready |-> hand.whole /\ t # <<>>]
  OBVIOUS
<1>6. log' = Append(log, e)
  BY <1>1, <1>3, <1>5
<1>7. cut \in Nat
  BY <1>1, InstantIs
<1>8. /\ e.kind = "PLAN" /\ e.fixes = 0 /\ e.cut = cut /\ e.targets = t
      /\ {"kind", "fixes", "cut", "targets"} \subseteq DOMAIN e
  BY <1>5
<1>9. PlanEntry(e) /\ ActEntry(e)
  BY <1>4, <1>8 DEF PlanEntry, ActEntry
<1> QED
  BY <1>2, <1>6, <1>7, <1>8, <1>9, OriginalGrows

\* Act: its targets rest on more than a conclusion, its own are about its security.
LEMMA ActStep ==
    ASSUME ReviewInv, Act
    PROVE  ReviewInv'
<1>1. PICK cut \in 0 .. clock, s \in Securities, hand \in limits.hands, cap \in 0 .. Held,
           hard \in BOOLEAN, reduce \in BOOLEAN :
         /\ hand.ids = {} \/ ~hand.whole => cap = Held
         /\ LET n == Len(log) + 1
                t == Deterministic(s, cut, hand, hard, cap, n)
                stat == reduce /\ ConclusionCounts(s, cut, hand, hard, t)
                own == IF s \in DOMAIN t THEN OwedTargets(Only(s, t[s].qty, t[s].obs)) ELSE <<>>
            IN  /\ reduce => stat
                /\ Append1([kind |-> "ACTION", fixes |-> 0, cut |-> cut, sec |-> s, targets |-> t,
                            own |-> IF stat THEN Conjoin({own, Only(s, 1, {Conclusion(Anchor(s, n))})})
                                    ELSE own,
                            hard |-> hard, capital |-> hand.capital, stat |-> stat,
                            p0 |-> hand.p0, ready |-> hand.whole /\ t # <<>>])
  BY Zenon DEF Act
<1>2. UNCHANGED <<limits, clock, lapsed>>
  BY DEF Act
<1>3. PICK n : n = Len(log) + 1
  OBVIOUS
<1>4. PICK t : t = Deterministic(s, cut, hand, hard, cap, n)
  OBVIOUS
<1>5. PICK stat : stat = (reduce /\ ConclusionCounts(s, cut, hand, hard, t))
  OBVIOUS
<1>6. PICK bare : bare = Only(s, t[s].qty, t[s].obs)
  OBVIOUS
<1>7. PICK own : own = IF s \in DOMAIN t THEN OwedTargets(bare) ELSE <<>>
  OBVIOUS
<1>8. PICK more : more = Only(s, 1, {Conclusion(Anchor(s, n))})
  OBVIOUS
<1>9. PICK both : both = IF stat THEN Conjoin({own, more}) ELSE own
  OBVIOUS
<1>10. PICK ready : ready = (hand.whole /\ t # <<>>)
  OBVIOUS
<1>11. PICK e : e = [kind |-> "ACTION", fixes |-> 0, cut |-> cut, sec |-> s, targets |-> t,
                     own |-> both, hard |-> hard, capital |-> hand.capital, stat |-> stat,
                     p0 |-> hand.p0, ready |-> ready]
  OBVIOUS
<1>12. log' = Append(log, e)
  BY <1>1, <1>3, <1>4, <1>5, <1>6, <1>7, <1>8, <1>9, <1>10, <1>11, Zenon DEF Append1
<1>13. Mixed(t)
  BY <1>1, <1>4, DeterministicMixed DEF ReviewInv
<1>14. DOMAIN own \subseteq {s}
  <2>1. DOMAIN bare = {s}
    BY <1>6 DEF Only
  <2>2. DOMAIN OwedTargets(bare) \subseteq {s}
    BY <2>1, OwedTargetsAre
  <2>3. DOMAIN <<>> = {}
    OBVIOUS
  <2> QED
    BY <1>7, <2>2, <2>3
<1>15. DOMAIN both \subseteq {s}
  <2>1. DOMAIN more = {s}
    BY <1>8 DEF Only
  <2>2. PICK S : S = {own, more}
    OBVIOUS
  <2>3. DOMAIN Conjoin(S) = UNION {DOMAIN u : u \in S}
    BY ConjoinIs
  <2>4. \A u \in S : DOMAIN u \subseteq {s}
    BY <1>14, <2>1, <2>2
  <2>5. DOMAIN Conjoin(S) \subseteq {s}
    BY <2>3, <2>4
  <2> QED
    BY <1>9, <1>14, <2>2, <2>5
<1>16. cut \in Nat
  BY <1>1, InstantIs
<1>17. /\ e.kind = "ACTION" /\ e.fixes = 0 /\ e.cut = cut /\ e.targets = t /\ e.own = both /\ e.sec = s
       /\ {"kind", "fixes", "cut", "targets", "own", "sec"} \subseteq DOMAIN e
  BY <1>11
<1>18. PlanEntry(e) /\ ActEntry(e)
  BY <1>13, <1>15, <1>17 DEF PlanEntry, ActEntry
<1> QED
  BY <1>2, <1>12, <1>16, <1>17, <1>18, OriginalGrows

\* ReportReview.
LEMMA ReportStep ==
    ASSUME ReviewInv, ReportReview
    PROVE  ReviewInv'
<1>1. PICK src \in Of(AssessmentKinds), cut \in 0 .. clock :
        log' = Append(log, [kind |-> "REPORT", fixes |-> 0, cut |-> cut, src |-> src,
                     reason |-> IF Backdated(cut) THEN "NOT_FORWARD" ELSE "",
                     cases |-> IF Backdated(cut) THEN <<>> ELSE log[src].cases])
  BY Zenon DEF ReportReview, Append1
<1>2. UNCHANGED <<limits, clock, lapsed>>
  BY DEF ReportReview
<1>3. PICK reason : reason = IF Backdated(cut) THEN "NOT_FORWARD" ELSE ""
  BY Zenon
<1>4. PICK cases : cases = IF Backdated(cut) THEN <<>> ELSE log[src].cases
  OBVIOUS
<1>5. PICK e : e = [kind |-> "REPORT", fixes |-> 0, cut |-> cut, src |-> src,
                    reason |-> reason, cases |-> cases]
  OBVIOUS
<1>6. log' = Append(log, e)
  BY <1>1, <1>3, <1>4, <1>5, Zenon
<1>7. cut \in Nat
  BY <1>1, InstantIs
<1>8. /\ e.kind = "REPORT" /\ e.fixes = 0 /\ e.cut = cut /\ e.src = src
      /\ {"kind", "fixes", "cut"} \subseteq DOMAIN e
  BY <1>5
<1>9. PlanEntry(e) /\ ActEntry(e)
  BY <1>8 DEF PlanEntry, ActEntry
<1> QED
  BY <1>1, <1>2, <1>6, <1>7, <1>8, <1>9, OriginalGrows

\* The case that delivers a conclusion is named after it.
LEMMA StatisticalIs ==
    ASSUME NEW src, NEW win
    PROVE  /\ Statistical(src, win).pri = "P2"
           /\ Statistical(src, win).id = <<0, {Conclusion(src)}>>
           /\ Statistical(src, win).win = win
BY DEF Statistical, NewCase

\* The record of an assessment is well formed and fresh.
LEMMA RecordStep ==
    ASSUME ReviewInv, NEW kind \in AssessmentKinds, NEW cut \in 0 .. clock, NEW src \in DOMAIN log,
           NEW win, NEW req, req.src = src, req.cut = cut, req.win = win,
           Record(kind, cut, src, win, Assessed(kind, req)), UNCHANGED <<limits, clock, lapsed>>
    PROVE  ReviewInv'
<1>0. WellKept /\ IsSeq(log)
  BY DEF ReviewInv, WellKept
<1>1. PICK N \in Nat : N = Len(log)
  BY <1>0, Indices
<1>2. PICK out : out = Assessed(kind, req)
  OBVIOUS
<1>3. /\ out.reason = "NOT_FORWARD" => Backdated(cut) /\ out.cases = <<>>
      /\ out.reason # "NOT_FORWARD" => ~Backdated(cut)
      /\ RiskCases(out.cases) \/ Delivers(out, src, win)
  BY <1>0, <1>2, AssessedRisk
<1>4. PICK e : e = [kind |-> kind, fixes |-> 0, cut |-> cut, src |-> src, win |-> win,
                    disp |-> out.disp, reason |-> out.reason, cases |-> out.cases, from |-> out.from]
  OBVIOUS
<1>5. log' = Append(log, e)
  BY <1>2, <1>4 DEF Record, Append1
<1>6. /\ DOMAIN log = 1 .. N /\ DOMAIN log' = 1 .. N + 1
      /\ \A i \in 1 .. N : log'[i] = log[i]
      /\ log'[N + 1] = e
  BY <1>0, <1>1, <1>5, Grown
<1>7. /\ e.kind = kind /\ e.fixes = 0 /\ e.cut = cut /\ e.src = src /\ e.win = win
      /\ e.reason = out.reason /\ e.cases = out.cases /\ e.from = out.from
      /\ {"kind", "fixes", "cut", "src", "win", "reason", "cases", "from"} \subseteq DOMAIN e
  BY <1>4
<1>8. cut \in Nat
  BY InstantIs
<1>9. e.kind \in Monitoring /\ (Rejected(e) <=> out.reason = "NOT_FORWARD")
  BY <1>7 DEF Monitoring, Rejected
<1>10. CasesOf(e) /\ ((\E c \in ToSet(e.cases) : c.pri = "P2") => PreviousDeliveries(src) = {})
  <2>1. CASE RiskCases(out.cases)
    <3>1. IsSeq(e.cases) /\ \A k \in DOMAIN e.cases : RiskCase(e.cases[k])
      BY <1>7, <2>1 DEF RiskCases
    <3>2. ~\E c \in ToSet(e.cases) : c.pri = "P2"
      BY <3>1 DEF RiskCase, ToSet
    <3> QED
      BY <3>1, <3>2 DEF CasesOf
  <2>2. CASE Delivers(out, src, win)
    <3>1. PICK q : /\ RiskCases(q) /\ out.cases = Append(q, Statistical(src, win)) /\ out.from = src
                   /\ PreviousDeliveries(src) = {}
      BY <2>2 DEF Delivers
    <3>2. PICK c : c = Statistical(src, win)
      OBVIOUS
    <3>3. c.pri = "P2" /\ c.id = <<0, {Conclusion(src)}>> /\ c.win = win
      BY <3>2, StatisticalIs
    <3>4. Delivery(c, e)
      BY <1>7, <3>1, <3>3 DEF Delivery
    <3>5. PICK u : u = e.cases
      OBVIOUS
    <3>6. u = Append(q, c) /\ IsSeq(q)
      BY <1>7, <3>1, <3>2, <3>5 DEF RiskCases
    <3>7. /\ Len(q) \in Nat /\ Len(u) = Len(q) + 1
          /\ DOMAIN q = 1 .. Len(q) /\ DOMAIN u = 1 .. Len(u)
          /\ \A i \in DOMAIN q : u[i] = q[i]
          /\ u[Len(u)] = c
      BY ONLY <3>6, Appended
    <3>8. IsSeq(u)
      BY ONLY <3>6, Appended
    <3>9. \A k \in DOMAIN u : RiskCase(u[k]) \/ Delivery(u[k], e)
      <4>1. PICK l \in Nat : l = Len(q)
        BY <3>7
      <4>2. \A k \in DOMAIN u : k \in 1 .. l \/ k = l + 1
        BY <3>7, <4>1
      <4>3. \A k \in 1 .. l : RiskCase(u[k])
        BY <3>1, <3>7, <4>1 DEF RiskCases
      <4>4. Delivery(u[l + 1], e)
        BY <3>4, <3>7, <4>1
      <4> QED
        BY <4>2, <4>3, <4>4
    <3> QED
      BY <3>1, <3>5, <3>8, <3>9 DEF CasesOf
  <2> QED
    BY <1>3, <2>1, <2>2
<1>11. Entry(log', N + 1)
  <2>1. e.kind \notin {"PLAN", "ACTION", "NOTIFY", "REPORT"}
    BY <1>7 DEF AssessmentKinds
  <2>2. e.src \in 1 .. (N + 1 - 1) /\ e.fixes \in 0 .. (N + 1 - 1)
    BY <1>6, <1>7
  <2>3. ReviewEntry(e, N + 1)
    BY <1>3, <1>7, <1>9, <1>10, <2>2 DEF ReviewEntry
  <2>4. PlanEntry(e) /\ ActEntry(e) /\ NoticeEntry(log', N + 1) /\ ReportEntry(log', N + 1)
    BY <1>6, <2>1 DEF PlanEntry, ActEntry, NoticeEntry, ReportEntry
  <2> QED
    BY <1>6, <1>7, <1>8, <1>9, <2>2, <2>3, <2>4 DEF Entry
<1>12. Fresh(e)
  BY <1>3, <1>7, <1>9, <1>10 DEF Fresh
<1>13. Linked(e)
  BY <1>7 DEF Linked, AssessmentKinds
<1> QED
  BY <1>1, <1>5, <1>11, <1>12, <1>13, ReviewGrows

\* AssessDaily.
LEMMA DailyStep ==
    ASSUME ReviewInv, AssessDaily
    PROVE  ReviewInv'
<1>1. PICK src \in DOMAIN log, cut \in 0 .. clock, evidence \in limits.evidence \ {"partial"},
           win \in limits.windows :
         Record("DAILY", cut, src, win,
                Assessed("DAILY", [src |-> src, cut |-> cut, evidence |-> evidence, win |-> win,
                                   hit |-> {}, shield |-> {}]))
  BY Zenon DEF AssessDaily
<1>2. PICK req : req = [src |-> src, cut |-> cut, evidence |-> evidence, win |-> win,
                        hit |-> {}, shield |-> {}]
  OBVIOUS
<1>3. req.src = src /\ req.cut = cut /\ req.win = win
  BY <1>2
<1>4. Record("DAILY", cut, src, win, Assessed("DAILY", req))
  BY <1>1, <1>2
<1>5. UNCHANGED <<limits, clock, lapsed>>
  BY DEF AssessDaily
<1>6. "DAILY" \in AssessmentKinds
  BY DEF AssessmentKinds
<1> QED
  BY <1>1, <1>3, <1>4, <1>5, <1>6, RecordStep

\* AssessEvent.
LEMMA EventStep ==
    ASSUME ReviewInv, AssessEvent
    PROVE  ReviewInv'
<1>1. PICK src \in DOMAIN log, cut \in 0 .. clock, evidence \in limits.evidence,
           win \in limits.windows, mark \in limits.marks :
         Record("EVENT", cut, src, win,
                Assessed("EVENT", [src |-> src, cut |-> cut, evidence |-> evidence, win |-> win,
                                   hit |-> mark.hit, shield |-> mark.shield]))
  BY Zenon DEF AssessEvent
<1>2. PICK req : req = [src |-> src, cut |-> cut, evidence |-> evidence, win |-> win,
                        hit |-> mark.hit, shield |-> mark.shield]
  OBVIOUS
<1>3. req.src = src /\ req.cut = cut /\ req.win = win
  BY <1>2
<1>4. Record("EVENT", cut, src, win, Assessed("EVENT", req))
  BY <1>1, <1>2
<1>5. UNCHANGED <<limits, clock, lapsed>>
  BY DEF AssessEvent
<1>6. "EVENT" \in AssessmentKinds
  BY DEF AssessmentKinds
<1> QED
  BY <1>1, <1>3, <1>4, <1>5, <1>6, RecordStep

\* CorrectReview: a correction repeats the original it fixes.
LEMMA CorrectStep ==
    ASSUME ReviewInv, CorrectReview
    PROVE  ReviewInv'
<1>0. WellKept /\ IsSeq(log)
  BY DEF ReviewInv, WellKept
<1>1. PICK N \in Nat : N = Len(log)
  BY <1>0, Indices
<1>2. PICK n \in Of({"PLAN", "ACTION"} \cup AssessmentKinds) :
        log[n].fixes = 0 /\ log' = Append(log, [log[n] EXCEPT !.fixes = n])
  BY Zenon DEF CorrectReview, Append1
<1>3. UNCHANGED <<limits, clock, lapsed>>
  BY DEF CorrectReview
<1>4. PICK f : f = log[n]
  OBVIOUS
<1>5. PICK e : e = [f EXCEPT !.fixes = n]
  OBVIOUS
<1>6. log' = Append(log, e)
  BY <1>2, <1>4, <1>5
<1>7. /\ DOMAIN log = 1 .. N /\ DOMAIN log' = 1 .. N + 1
      /\ \A i \in 1 .. N : log'[i] = log[i]
      /\ log'[N + 1] = e
  BY <1>0, <1>1, <1>6, Grown
<1>8. n \in 1 .. N /\ f.kind \in {"PLAN", "ACTION"} \cup AssessmentKinds /\ f.fixes = 0
  BY <1>2, <1>4, <1>7 DEF Of
<1>9. /\ f.kind \in {"PLAN", "ACTION", "FACT"} \cup Monitoring
      /\ {"kind", "fixes", "cut"} \subseteq DOMAIN f /\ f.cut \in Nat
      /\ PlanEntry(f) /\ ActEntry(f) /\ ReviewEntry(f, n)
  BY <1>0, <1>4, <1>7, <1>8, EntryIs DEF Entry
<1>10. DOMAIN e = DOMAIN f /\ \A x \in DOMAIN f : x # "fixes" => e[x] = f[x]
  BY <1>5
<1>11. e.fixes = n
  BY <1>5, <1>9
<1>12. e.kind = f.kind /\ e.cut = f.cut
  BY <1>5, <1>9
<1>13. PlanEntry(e)
  BY <1>5, <1>9, <1>12 DEF PlanEntry
<1>14. ActEntry(e)
  BY <1>5, <1>9, <1>12 DEF ActEntry
<1>15. f.kind \in AssessmentKinds =>
         /\ e.src = f.src /\ e.win = f.win /\ e.reason = f.reason /\ e.cases = f.cases
         /\ e.from = f.from
  BY <1>5, <1>9 DEF ReviewEntry
<1>16. ReviewEntry(e, N + 1)
  <2>1. SUFFICES ASSUME f.kind \in AssessmentKinds
        PROVE  /\ {"src", "win", "reason", "cases", "from"} \subseteq DOMAIN e
               /\ e.src \in 1 .. (N + 1 - 1)
               /\ CasesOf(e)
               /\ Rejected(e) => e.cases = <<>>
    BY <1>12 DEF ReviewEntry
  <2>2. /\ {"src", "win", "reason", "cases", "from"} \subseteq DOMAIN f
        /\ f.src \in 1 .. (n - 1) /\ CasesOf(f) /\ (Rejected(f) => f.cases = <<>>)
    BY <1>9, <2>1 DEF ReviewEntry
  <2>3. e.src \in 1 .. (N + 1 - 1)
    BY <1>8, <1>15, <2>1, <2>2
  <2>4. CasesOf(e)
    BY <1>15, <2>1, <2>2 DEF CasesOf, Delivery
  <2>5. Rejected(e) => e.cases = <<>>
    BY <1>12, <1>15, <2>1, <2>2 DEF Rejected
  <2> QED
    BY <1>10, <2>2, <2>3, <2>4, <2>5
<1>17. Repeats(e, f)
  BY <1>8, <1>12, <1>15 DEF Repeats
<1>18. e.kind \notin {"NOTIFY", "REPORT"}
  BY <1>8, <1>12 DEF AssessmentKinds
<1>19. Entry(log', N + 1)
  <2>1. NoticeEntry(log', N + 1) /\ ReportEntry(log', N + 1)
    BY <1>7, <1>18 DEF NoticeEntry, ReportEntry
  <2>2. e.fixes \in 0 .. (N + 1 - 1) /\ log'[e.fixes] = f
    BY <1>4, <1>7, <1>8, <1>11
  <2> QED
    BY <1>7, <1>9, <1>10, <1>12, <1>13, <1>14, <1>16, <1>17, <2>1, <2>2 DEF Entry
<1>20. Fresh(e) /\ Linked(e)
  BY <1>8, <1>11, <1>18 DEF Fresh, Linked
<1> QED
  BY <1>1, <1>3, <1>6, <1>19, <1>20, ReviewGrows


-----------------------------------------------------------------------------
(* Notices.                                                                *)

\* The cases a notice tells of.
ToldOf(src) == IF HasP2(src) /\ ~StatisticsCurrent(src) THEN Risk(log[src].cases) ELSE log[src].cases

\* What a notice may say of a conclusion: what the workspace still shows.
LEMMA ToldIs ==
    ASSUME WellKept, NEW src \in DOMAIN log, log[src].kind \in AssessmentKinds
    PROVE  /\ ToSet(ToldOf(src)) \subseteq ToSet(log[src].cases)
           /\ (\E c \in ToSet(ToldOf(src)) : c.pri = "P2") <=> (HasP2(src) /\ StatisticsCurrent(src))
<1>1. PICK q : q = log[src].cases
  OBVIOUS
<1>2. IsSeq(q)
  BY <1>1, EntryIs DEF Entry, ReviewEntry, CasesOf
<1>3. HasP2(src) <=> \E k \in DOMAIN q : q[k].pri = "P2"
  BY <1>1, HasP2Is
<1>4. CASE HasP2(src) /\ ~StatisticsCurrent(src)
  <2>1. PICK T : T = {q[k] : k \in {j \in DOMAIN q : q[j].pri # "P2"}}
    OBVIOUS
  <2>2. PICK places : places = {k \in DOMAIN q : q[k].pri # "P2"}
    OBVIOUS
  <2>3. \A k \in DOMAIN q : k \in places => q[k] \in T
    BY <2>1, <2>2
  <2>4. Chosen(q, places) \in Seq(T)
    BY <1>2, <2>3, ChosenIn
  <2>5. PICK u : u = ToldOf(src)
    OBVIOUS
  <2>6. u = Chosen(q, places)
    BY <1>1, <1>4, <2>2, <2>5 DEF ToldOf, Risk
  <2>7. u \in Seq(T)
    BY <2>4, <2>6
  <2>8. \A k \in DOMAIN u : u[k] \in T
    BY <2>7
  <2>9. \A c \in ToSet(u) : c.pri # "P2" /\ c \in ToSet(q)
    BY <2>1, <2>8 DEF ToSet
  <2> QED
    BY <1>1, <1>4, <2>5, <2>9
<1>5. CASE ~(HasP2(src) /\ ~StatisticsCurrent(src))
  <2>1. ToldOf(src) = q
    BY <1>1, <1>5 DEF ToldOf
  <2> QED
    BY <1>1, <1>3, <1>5, <2>1 DEF ToSet
<1> QED
  BY <1>4, <1>5

\* An attempt is about a case, and about a conclusion only inside its window.
LEMMA AttemptsIs ==
    ASSUME NEW cases, NEW window, NEW quiet, NEW immediate, NEW persistent,
           NEW a \in Attempts(cases, window, quiet, immediate, persistent)
    PROVE  \E c \in cases : a.id = c.id /\ a.pri = c.pri /\ (c.pri = "P2" => clock < c.win)
<1>1. PICK T : T = {c \in cases :
                      /\ c.pri = "P2" => clock < c.win
                      /\ clock < quiet /\ c.pri # "P0" => c.pri # "P2" /\ window <= quiet}
  OBVIOUS
<1>2. \A c \in T : c \in cases /\ (c.pri = "P2" => clock < c.win)
  BY <1>1
<1>3. \/ a \in {[id |-> c.id, pri |-> c.pri, role |-> "IMMEDIATE", ok |-> immediate] : c \in T}
      \/ a \in {[id |-> c.id, pri |-> c.pri, role |-> "PERSISTENT", ok |-> persistent]
                 : c \in {x \in T : x.pri = "P0" \/ (x.pri = "P1" /\ ~immediate)}}
  BY <1>1, Zenon DEF Attempts
<1>4. \E c \in T : a.id = c.id /\ a.pri = c.pri
  <2>1. CASE a \in {[id |-> c.id, pri |-> c.pri, role |-> "IMMEDIATE", ok |-> immediate] : c \in T}
    BY <2>1
  <2>2. CASE a \in {[id |-> c.id, pri |-> c.pri, role |-> "PERSISTENT", ok |-> persistent]
                      : c \in {x \in T : x.pri = "P0" \/ (x.pri = "P1" /\ ~immediate)}}
    <3>1. PICK c \in {x \in T : x.pri = "P0" \/ (x.pri = "P1" /\ ~immediate)} :
            a = [id |-> c.id, pri |-> c.pri, role |-> "PERSISTENT", ok |-> persistent]
      BY <2>2, Zenon
    <3>2. c \in T
      BY <3>1, Zenon
    <3>3. a.id = c.id /\ a.pri = c.pri
      BY <3>1
    <3> QED
      BY <3>2, <3>3
  <2> QED
    BY <1>3, <2>1, <2>2
<1> QED
  BY <1>2, <1>4

\* A notice reaches nobody, or tells what is left to tell: first, or after the
\* attempt it follows.
LEMMA NotifiedIs ==
    ASSUME NEW req
    PROVE  \/ Notified(req).sent = {} /\ Notified(req).due = {}
           \/ /\ Notified(req).reason # "NOT_FORWARD"
              /\ \/ Notified(req).sent = {}
                 \/ Notified(req).sent = Attempts(ToSet(ToldOf(req.src)), log[req.src].win, req.quiet,
                                                  req.immediate, req.persistent)
              /\ req.attempt > 1 => FollowsNotice(req)
              /\ req.attempt = 1 => \/ NotificationsOf(req.src) = {}
                                    \/ ~\E c \in ToSet(ToldOf(req.src)) : c.pri = "P2"
<1> DEFINE told(reason, cases, sent, due) ==
              [reason |-> reason, cases |-> cases, sent |-> sent, due |-> due]
           cases == IF HasP2(req.src) /\ ~StatisticsCurrent(req.src)
                    THEN Risk(log[req.src].cases) ELSE log[req.src].cases
           sent == Attempts(ToSet(cases), log[req.src].win, req.quiet, req.immediate, req.persistent)
           owed == Due(ToSet(cases), sent, req.quiet)
<1>1. Notified(req) =
        IF Backdated(req.cut) THEN told("NOT_FORWARD", <<>>, {}, {})
        ELSE IF Corrected(req.src) \/ Latest # req.src
        THEN told("SUPERSEDED", Unplanned(RetainedCases), {}, {})
        ELSE IF /\ req.attempt = 1
                /\ NotificationsOf(req.src) # {}
                /\ \E c \in ToSet(cases) : c.pri = "P2"
        THEN told("REGISTERED", cases, {}, {})
        ELSE IF req.attempt > 1 /\ ~FollowsNotice(req) THEN told("NOT_DUE", Unplanned(RetainedCases), {}, {})
        ELSE IF req.attempt > 1 /\ clock < Least(log[req.prev].due)
        THEN told("DEFERRED", cases, {}, log[req.prev].due)
        ELSE told("", cases, sent, IF owed = {} THEN {} ELSE {Least(owed)})
  BY Zenon DEF Notified
<1>2. \A r, c, x, d : told(r, c, x, d).reason = r /\ told(r, c, x, d).sent = x /\ told(r, c, x, d).due = d
  OBVIOUS
<1>3. cases = ToldOf(req.src)
  BY DEF ToldOf
<1>4. PICK blank : blank = ""
  BY Zenon
<1>5. blank # "NOT_FORWARD"
  BY <1>4, Zenon
<1>6. PICK left : left = IF owed = {} THEN {} ELSE {Least(owed)}
  OBVIOUS
<1> HIDE DEF told, owed, sent, cases
<1>7. \/ Notified(req) = told("NOT_FORWARD", <<>>, {}, {})
      \/ Notified(req) = told("SUPERSEDED", Unplanned(RetainedCases), {}, {})
      \/ Notified(req) = told("REGISTERED", cases, {}, {})
      \/ Notified(req) = told("NOT_DUE", Unplanned(RetainedCases), {}, {})
      \/ /\ ~(/\ req.attempt = 1
              /\ NotificationsOf(req.src) # {}
              /\ \E c \in ToSet(cases) : c.pri = "P2")
         /\ ~(req.attempt > 1 /\ ~FollowsNotice(req))
         /\ \/ Notified(req) = told("DEFERRED", cases, {}, log[req.prev].due)
            \/ Notified(req) = told(blank, cases, sent, left)
  BY <1>1, <1>4, <1>6, Zenon
<1>8. CASE \/ Notified(req) = told("NOT_FORWARD", <<>>, {}, {})
           \/ Notified(req) = told("SUPERSEDED", Unplanned(RetainedCases), {}, {})
           \/ Notified(req) = told("REGISTERED", cases, {}, {})
           \/ Notified(req) = told("NOT_DUE", Unplanned(RetainedCases), {}, {})
  BY <1>2, <1>8
<1>9. CASE /\ ~(/\ req.attempt = 1
                /\ NotificationsOf(req.src) # {}
                /\ \E c \in ToSet(cases) : c.pri = "P2")
           /\ ~(req.attempt > 1 /\ ~FollowsNotice(req))
           /\ \/ Notified(req) = told("DEFERRED", cases, {}, log[req.prev].due)
              \/ Notified(req) = told(blank, cases, sent, left)
  <2>1. Notified(req).reason # "NOT_FORWARD"
    BY <1>2, <1>5, <1>9
  <2>2. Notified(req).sent = {} \/ Notified(req).sent = sent
    BY <1>2, <1>9
  <2>3. sent = Attempts(ToSet(ToldOf(req.src)), log[req.src].win, req.quiet, req.immediate, req.persistent)
    BY <1>3 DEF sent
  <2> QED
    BY <1>3, <1>9, <2>1, <2>2, <2>3
<1> QED
  BY <1>7, <1>8, <1>9

\* The notices that reach or owe somebody for the assessment have the key of
\* the request.
LEMMA ChainIsKept ==
    ASSUME WellKept, OneChain, NEW src \in DOMAIN log, log[src].kind \in AssessmentKinds,
           HasP2(src), StatisticsCurrent(src), NEW req, req.src = src,
           req.attempt > 1 \/ req.attempt = 1,
           req.attempt > 1 => FollowsNotice(req),
           req.attempt = 1 => \/ NotificationsOf(req.src) = {}
                              \/ ~\E c \in ToSet(ToldOf(req.src)) : c.pri = "P2",
           NEW m \in Of({"NOTIFY"}), log[m].src = src, Reaching(m)
    PROVE  log[m].key = req.key
<1>1. CASE req.attempt > 1
  <2>1. PICK p : p = req.prev
    OBVIOUS
  <2>2. p \in NotificationsOf(src) /\ log[p].key = req.key /\ log[p].due # {}
    BY <1>1, <2>1 DEF FollowsNotice
  <2>3. p \in Of({"NOTIFY"}) /\ log[p].src = src /\ Reaching(p)
    BY <2>2 DEF NotificationsOf, Reaching
  <2>4. log[m].key = log[p].key
    BY <2>3 DEF OneChain
  <2> QED
    BY <2>2, <2>4
<1>2. CASE req.attempt = 1
  <2>1. NotificationsOf(src) = {}
    BY <1>2, ToldIs
  <2>2. Rejected(log[m])
    BY <2>1 DEF NotificationsOf
  <2>3. m \in DOMAIN log /\ log[m].kind = "NOTIFY"
    BY DEF Of
  <2>4. log[m].sent = {} /\ log[m].due = {}
    BY <2>2, <2>3, EntryIs DEF Entry, NoticeEntry
  <2> QED
    BY <2>4 DEF Reaching
<1> QED
  BY <1>1, <1>2

\* Notify: the notice continues the chain of its assessment.
LEMMA NotifyStep ==
    ASSUME ReviewInv, Notify
    PROVE  ReviewInv'
<1>0. WellKept /\ OneChain /\ IsSeq(log)
  BY DEF ReviewInv, WellKept
<1>1. PICK N \in Nat : N = Len(log)
  BY <1>0, Indices
<1>2. PICK src \in Of(AssessmentKinds), cut \in 0..clock, key \in limits.keys, attempt \in 1..limits.notices,
          prev \in {0} \cup Of({"NOTIFY"}), quiet \in limits.quiet, immediate \in BOOLEAN, persistent \in BOOLEAN :
        LET req == [src |-> src, cut |-> cut, key |-> key, attempt |-> attempt, prev |-> prev,
                    quiet |-> quiet, immediate |-> immediate, persistent |-> persistent]
            out == Notified(req)
        IN  /\ log[src].cut <= cut
            /\ log[src].cases # <<>>
            /\ attempt = 1 => prev = 0
            /\ \A n \in Of({"NOTIFY"}) :
                   <<log[n].src, log[n].key, log[n].attempt>> # <<src, key, attempt>>
            /\ Append1([kind |-> "NOTIFY", fixes |-> 0, cut |-> cut, src |-> src, key |-> key,
                        attempt |-> attempt, reason |-> out.reason, cases |-> out.cases,
                        sent |-> out.sent, due |-> out.due, at |-> clock])
  BY Zenon DEF Notify
<1>3. UNCHANGED <<limits, clock, lapsed>>
  BY DEF Notify
<1>4. PICK req : req = [src |-> src, cut |-> cut, key |-> key, attempt |-> attempt, prev |-> prev,
                        quiet |-> quiet, immediate |-> immediate, persistent |-> persistent]
  OBVIOUS
<1>5. req.src = src /\ req.key = key /\ req.attempt = attempt
  BY <1>4
<1>6. PICK out : out = Notified(req)
  OBVIOUS
<1>7. PICK e : e = [kind |-> "NOTIFY", fixes |-> 0, cut |-> cut, src |-> src, key |-> key,
                    attempt |-> attempt, reason |-> out.reason, cases |-> out.cases,
                    sent |-> out.sent, due |-> out.due, at |-> clock]
  OBVIOUS
<1>8. log' = Append(log, e)
  BY <1>2, <1>4, <1>6, <1>7, Zenon DEF Append1
<1>9. /\ DOMAIN log = 1 .. N /\ DOMAIN log' = 1 .. N + 1
      /\ \A i \in 1 .. N : log'[i] = log[i]
      /\ log'[N + 1] = e
  BY <1>0, <1>1, <1>8, Grown
<1>10. /\ e.kind = "NOTIFY" /\ e.fixes = 0 /\ e.cut = cut /\ e.src = src /\ e.key = key
       /\ e.reason = out.reason /\ e.sent = out.sent /\ e.due = out.due /\ e.at = clock
       /\ {"kind", "fixes", "cut"} \subseteq DOMAIN e
  BY <1>7
<1>11. src \in 1 .. N /\ log[src].kind \in AssessmentKinds
  BY <1>2, <1>9 DEF Of
<1>12. attempt > 1 \/ attempt = 1
  BY <1>2
<1>13. PICK sent : sent = Attempts(ToSet(ToldOf(src)), log[src].win, req.quiet, req.immediate, req.persistent)
  OBVIOUS
<1>14. \/ e.sent = {} /\ e.due = {}
       \/ /\ e.reason # "NOT_FORWARD"
          /\ e.sent = {} \/ e.sent = sent
          /\ req.attempt > 1 => FollowsNotice(req)
          /\ req.attempt = 1 => \/ NotificationsOf(req.src) = {}
                                \/ ~\E c \in ToSet(ToldOf(req.src)) : c.pri = "P2"
  BY <1>5, <1>6, <1>10, <1>13, NotifiedIs
<1>15. /\ ToSet(ToldOf(src)) \subseteq ToSet(log[src].cases)
       /\ (\E c \in ToSet(ToldOf(src)) : c.pri = "P2") <=> (HasP2(src) /\ StatisticsCurrent(src))
  BY <1>0, <1>9, <1>11, ToldIs
<1>16. ASSUME NEW a \in e.sent
       PROVE  \E c \in ToSet(ToldOf(src)) : a.id = c.id /\ a.pri = c.pri /\ (c.pri = "P2" => e.at < c.win)
  BY <1>10, <1>13, <1>14, AttemptsIs
<1>17. Sent(e, log[src])
  BY <1>15, <1>16 DEF Sent
<1>18. Entry(log', N + 1)
  <2>1. e.kind \notin {"PLAN", "ACTION", "REPORT"} \cup AssessmentKinds
    BY <1>10 DEF AssessmentKinds
  <2>2. PlanEntry(e) /\ ActEntry(e) /\ ReviewEntry(e, N + 1) /\ ReportEntry(log', N + 1)
    BY <1>9, <2>1 DEF PlanEntry, ActEntry, ReviewEntry, ReportEntry
  <2>3. Rejected(e) => e.sent = {} /\ e.due = {}
    BY <1>14 DEF Rejected
  <2>4. e.src \in 1 .. (N + 1 - 1) /\ e.fixes \in 0 .. (N + 1 - 1)
    BY <1>10, <1>11
  <2>5. log'[e.src].kind \in AssessmentKinds /\ Sent(e, log'[e.src])
    BY <1>9, <1>10, <1>11, <1>17
  <2>6. NoticeEntry(log', N + 1)
    BY <1>9, <2>3, <2>4, <2>5 DEF NoticeEntry
  <2>7. e.kind \in Monitoring /\ e.cut \in Nat
    BY <1>2, <1>10, InstantIs DEF Monitoring
  <2> QED
    BY <1>9, <1>10, <2>2, <2>4, <2>6, <2>7 DEF Entry
<1>19. Fresh(e)
  BY <1>10 DEF Fresh, AssessmentKinds
<1>20. Linked(e)
  <2>1. (\E a \in e.sent : a.pri = "P2") => HasP2(src) /\ StatisticsCurrent(src)
    BY <1>15, <1>16
  <2>2. ASSUME e.sent # {} \/ e.due # {}, HasP2(src), StatisticsCurrent(src),
               NEW m \in Of({"NOTIFY"}), log[m].src = src, Reaching(m)
        PROVE  log[m].key = e.key
    <3>1. /\ req.attempt > 1 => FollowsNotice(req)
          /\ req.attempt = 1 => \/ NotificationsOf(req.src) = {}
                                \/ ~\E c \in ToSet(ToldOf(req.src)) : c.pri = "P2"
      BY <1>14, <2>2
    <3>2. src \in DOMAIN log /\ (req.attempt > 1 \/ req.attempt = 1)
      BY <1>5, <1>9, <1>11, <1>12
    <3>3. log[m].key = req.key
      BY <1>0, <1>5, <1>11, <2>2, <3>1, <3>2, ChainIsKept
    <3> QED
      BY <1>5, <1>10, <3>3
  <2> QED
    BY <1>10, <2>1, <2>2 DEF Linked
<1> QED
  BY <1>1, <1>3, <1>8, <1>18, <1>19, <1>20, ReviewGrows

-----------------------------------------------------------------------------
(* Time passes, evidence and authority end.                                *)

\* Without a new event, no conclusion begins to hold.
LEMMA LogStays ==
    ASSUME ReviewInv, log' = log, limits' = limits, clock' \in Nat, lapsed \subseteq lapsed'
    PROVE  ReviewInv'
<1>1. WellKept'
  BY DEF ReviewInv, WellKept
<1>2. \A K : Of(K)' = Of(K)
  BY DEF Of
<1>3. OneCurrent'
  <2>1. Latest' = Latest /\ Shown' = Shown
    BY DEF Latest, Shown
  <2>2. History' = History
    BY DEF History
  <2>3. OneCurrent
    BY DEF ReviewInv
  <2>4. Of(AssessmentKinds)' = Of(AssessmentKinds)
    BY DEF Of
  <2> QED
    BY <2>1, <2>2, <2>3, <2>4 DEF OneCurrent
<1>4. OneDelivery'
  <2>1. \A n : HasP2(n)' <=> HasP2(n)
    BY DEF HasP2
  <2> QED
    BY <2>1 DEF ReviewInv, OneDelivery, Of, HasP2
<1>5. OneChain'
  <2>1. SUFFICES ASSUME NEW m \in Of({"NOTIFY"})', NEW n \in Of({"NOTIFY"})',
                        log'[m].src = log'[n].src, Reaching(m)', Reaching(n)',
                        HasP2(log[m].src)', StatisticsCurrent(log[m].src)'
        PROVE  log'[m].key = log'[n].key
    BY DEF OneChain
  <2>2. m \in Of({"NOTIFY"}) /\ n \in Of({"NOTIFY"}) /\ Reaching(m) /\ Reaching(n)
    BY <2>1 DEF Of, Reaching
  <2>3. PICK s : s = log[m].src
    OBVIOUS
  <2>4. HasP2(s)
    BY <2>1, <2>3 DEF HasP2
  <2>5. StatisticsCurrent(s)
    <3>1. s \in DOMAIN log
      BY <2>2, <2>3, SentIs DEF ReviewInv
    <3>2. StatisticsCurrent(s)'
      BY <2>1, <2>3 DEF StatisticsCurrent, ExecutionCurrent, InputsUnchanged, Corrected
    <3> QED
      BY <3>1, <3>2, CurrentBefore
  <2> QED
    BY <2>1, <2>2, <2>3, <2>4, <2>5 DEF ReviewInv, OneChain
<1>6. OneKey'
  BY DEF ReviewInv, OneKey, Of
<1> QED
  BY <1>1, <1>3, <1>4, <1>5, <1>6 DEF ReviewInv

\* Tick.
LEMMA TickStep ==
    ASSUME ReviewInv, Tick
    PROVE  ReviewInv'
<1>1. clock \in Nat /\ clock' = clock + 1
  BY DEF ReviewInv, WellKept, Tick
<1>2. log' = log /\ limits' = limits /\ lapsed' = lapsed
  BY DEF Tick
<1> QED
  BY <1>1, <1>2, LogStays

\* Lapse.
LEMMA LapseStep ==
    ASSUME ReviewInv, Lapse
    PROVE  ReviewInv'
<1>1. log' = log /\ limits' = limits /\ clock' = clock /\ lapsed \subseteq lapsed'
  BY DEF Lapse
<1>2. clock \in Nat
  BY DEF ReviewInv, WellKept
<1> QED
  BY <1>1, <1>2, LogStays

-----------------------------------------------------------------------------
(* The invariant.                                                          *)

\* The empty log.
LEMMA NothingReviewed ==
    ASSUME ReviewInit
    PROVE  ReviewInv
<1>1. PICK none : none = <<>>
  OBVIOUS
<1>2. IsSeq(none) /\ Len(none) = 0 /\ DOMAIN none = {}
  BY <1>1 DEF IsSeq
<1>3. log = none /\ limits \in ReviewCases /\ clock = 0
  BY <1>1 DEF ReviewInit
<1>4. WellKept
  BY <1>2, <1>3 DEF WellKept
<1>5. \A K : Of(K) = {}
  BY <1>2, <1>3 DEF Of
<1>6. LatestOf(none)[0] = 0 /\ ShownOf(none)[0] = 0
  BY <1>2, LatestSteps, ShownSteps
<1>7. OneCurrent
  <2>1. Latest = 0 /\ Shown = 0
    BY <1>2, <1>3, <1>6 DEF Latest, Shown
  <2> QED
    BY <1>5, <2>1 DEF OneCurrent
<1> QED
  BY <1>4, <1>5, <1>7 DEF ReviewInv, OneDelivery, OneChain, OneKey

\* Every step keeps the invariant.
LEMMA ReviewStep ==
    ASSUME ReviewInv, [ReviewNext]_reviewVars
    PROVE  ReviewInv'
<1>1. CASE Plan
  BY <1>1, PlanStep
<1>2. CASE Act
  BY <1>2, ActStep
<1>3. CASE Fact
  BY <1>3, FactStep
<1>4. CASE AssessDaily
  BY <1>4, DailyStep
<1>5. CASE AssessEvent
  BY <1>5, EventStep
<1>6. CASE CorrectReview
  BY <1>6, CorrectStep
<1>7. CASE Notify
  BY <1>7, NotifyStep
<1>8. CASE ReportReview
  BY <1>8, ReportStep
<1>9. CASE Tick
  BY <1>9, TickStep
<1>10. CASE Lapse
  BY <1>10, LapseStep
<1>11. CASE UNCHANGED reviewVars
  <2>1. clock \in Nat
    BY DEF ReviewInv, WellKept
  <2> QED
    BY <1>11, <2>1, LogStays DEF reviewVars
<1> QED
  BY <1>1, <1>2, <1>3, <1>4, <1>5, <1>6, <1>7, <1>8, <1>9, <1>10, <1>11 DEF ReviewNext

\* Every committed event is of its kind and points back, both selections of
\* the current assessment agree, a conclusion is delivered once, and what was
\* sent or is owed of it is one chain.
THEOREM ReviewInvHolds == ReviewSpec => []ReviewInv
<1>1. ReviewInit => ReviewInv
  BY NothingReviewed
<1>2. ReviewInv /\ [ReviewNext]_reviewVars => ReviewInv'
  BY ReviewStep
<1> QED
  BY <1>1, <1>2, PTL DEF ReviewSpec

-----------------------------------------------------------------------------
(* The property.                                                           *)

\* Both selections agree, and what may be confirmed still holds.
LEMMA ConfirmedIsShown ==
    ASSUME ReviewInv
    PROVE  ConfirmableIsShown
<1>1. SUFFICES ASSUME NEW n \in DOMAIN log, Confirmable(n)
      PROVE  n = Shown /\ ToSet(log[n].cases) \subseteq Inbox
  BY DEF ConfirmableIsShown
<1>2. Latest = n /\ Shown = n
  BY <1>1 DEF Confirmable, ReviewInv, OneCurrent
<1>3. /\ log[n].kind \in AssessmentKinds /\ clock < log[n].win
      /\ log[n].from # 0 /\ HasP2(n) => StatisticsCurrent(n)
  BY <1>1 DEF Confirmable
<1>4. n # 0
  BY <1>1, Indices DEF ReviewInv, WellKept
<1>5. CasesOf(log[n]) /\ log[n].src \in 1 .. (n - 1)
  BY <1>3, EntryIs DEF ReviewInv, Entry, ReviewEntry
<1>6. ASSUME NEW c \in ToSet(log[n].cases), c.pri = "P2"
      PROVE  clock < c.win /\ StatisticsCurrent(n)
  <2>1. RiskCase(c) \/ Delivery(c, log[n])
    BY <1>5 DEF CasesOf, ToSet
  <2>2. c.win = log[n].win /\ log[n].from = log[n].src
    BY <1>6, <2>1 DEF RiskCase, Delivery
  <2>3. HasP2(n)
    BY <1>6 DEF HasP2
  <2>4. log[n].src # 0
    <3>1. 0 \notin 1 .. (n - 1)
      OBVIOUS
    <3> QED
      BY <1>5, <3>1
  <2> QED
    BY <1>3, <2>2, <2>3, <2>4
<1> QED
  BY <1>2, <1>4, <1>6 DEF Inbox

\* A correction has the subject, the window and the conclusions of its original.
LEMMA OriginIs ==
    ASSUME WellKept, NEW n \in DOMAIN log, log[n].kind \in AssessmentKinds
    PROVE  /\ Origin(n) \in Of(AssessmentKinds) /\ log[Origin(n)].fixes = 0
           /\ log[Origin(n)].src = log[n].src /\ log[Origin(n)].win = log[n].win
           /\ HasP2(Origin(n)) <=> HasP2(n)
<1>1. Entry(log, n) /\ DOMAIN log = 1 .. Len(log) /\ Len(log) \in Nat
  BY Indices DEF WellKept
<1>2. CASE log[n].fixes = 0
  BY <1>2 DEF Origin, Of
<1>3. CASE log[n].fixes # 0
  <2>1. PICK f : f = log[n].fixes
    OBVIOUS
  <2>2. f \in 0 .. (n - 1) /\ Repeats(log[n], log[f])
    BY <1>1, <1>3, <2>1 DEF Entry
  <2>3. f \in DOMAIN log /\ Origin(n) = f
    BY <1>1, <1>3, <2>1, <2>2 DEF Origin
  <2>4. log[f].kind \in AssessmentKinds /\ log[f].fixes = 0 /\ log[n].src = log[f].src
        /\ log[n].win = log[f].win /\ log[n].cases = log[f].cases
    BY <2>2 DEF Repeats
  <2>5. HasP2(f) <=> HasP2(n)
    BY <2>4 DEF HasP2
  <2> QED
    BY <2>3, <2>4, <2>5 DEF Of
<1> QED
  BY <1>2, <1>3

\* One window and one chain for each conclusion, and no attempt outside the window.
LEMMA NotRenewed ==
    ASSUME ReviewInv
    PROVE  ConclusionsAreNotRenewed
<1>0. WellKept /\ OneDelivery /\ OneKey
  BY DEF ReviewInv
<1>1. ASSUME NEW m \in Of(AssessmentKinds), NEW n \in Of(AssessmentKinds),
             NEW c \in ToSet(log[m].cases), NEW d \in ToSet(log[n].cases), c.pri = "P2", c.id = d.id
      PROVE  c.win = d.win
  <2>1. /\ m \in DOMAIN log /\ log[m].kind \in AssessmentKinds
        /\ n \in DOMAIN log /\ log[n].kind \in AssessmentKinds
    BY DEF Of
  <2>2. d.pri = "P2" /\ log[n].src = log[m].src /\ c.win = log[m].win /\ d.win = log[n].win
    BY <1>0, <1>1, <2>1, ConclusionIs
  <2>3. HasP2(m) /\ HasP2(n)
    BY <1>1, <2>2 DEF HasP2
  <2>4. PICK x : x = Origin(m)
    OBVIOUS
  <2>5. PICK y : y = Origin(n)
    OBVIOUS
  <2>6. x \in Of(AssessmentKinds) /\ log[x].fixes = 0 /\ log[x].src = log[m].src
        /\ log[x].win = log[m].win /\ HasP2(x)
    BY <1>0, <2>1, <2>3, <2>4, OriginIs
  <2>7. y \in Of(AssessmentKinds) /\ log[y].fixes = 0 /\ log[y].src = log[n].src
        /\ log[y].win = log[n].win /\ HasP2(y)
    BY <1>0, <2>1, <2>3, <2>5, OriginIs
  <2>8. x = y
    BY <1>0, <2>2, <2>6, <2>7 DEF OneDelivery
  <2> QED
    BY <2>2, <2>6, <2>7, <2>8
<1>2. ASSUME NEW m \in Of({"NOTIFY"}), NEW n \in Of({"NOTIFY"}),
             NEW a \in log[m].sent, NEW b \in log[n].sent,
             a.pri = "P2", a.id = b.id, log[m].src = log[n].src
      PROVE  log[m].key = log[n].key
  BY <1>0, <1>2 DEF OneKey
<1>3. ASSUME NEW n \in Of({"NOTIFY"}), NEW a \in log[n].sent,
             NEW c \in ToSet(log[log[n].src].cases), a.pri = "P2", c.id = a.id
      PROVE  log[n].at < c.win
  <2>1. PICK s : s = log[n].src
    OBVIOUS
  <2>2. s \in DOMAIN log /\ log[s].kind \in AssessmentKinds /\ Sent(log[n], log[s])
    BY <1>0, <2>1, SentIs
  <2>3. PICK d \in ToSet(log[s].cases) : a.id = d.id /\ a.pri = d.pri /\ (d.pri = "P2" => log[n].at < d.win)
    BY <2>2 DEF Sent
  <2>4. d.pri = "P2" /\ d.id = c.id /\ c \in ToSet(log[s].cases)
    BY <1>3, <2>1, <2>3
  <2>5. d.win = log[s].win /\ c.win = log[s].win
    BY <1>0, <2>2, <2>4, ConclusionIs
  <2> QED
    BY <2>3, <2>4, <2>5
<1> QED
  BY <1>1, <1>2, <1>3 DEF ConclusionsAreNotRenewed

\* The owner is asked to act only on what still holds and is in view
\* (confirmation_permitted, project_workspace, project_position_action,
\* route_synthetic_notifications).
THEOREM ReviewsAreSoundHolds == ReviewSpec => []ReviewsAreSound
<1>1. ReviewInv => ReviewsAreSound
  BY ConfirmedIsShown, NotRenewed DEF ReviewsAreSound
<1> QED
  BY <1>1, ReviewInvHolds, PTL

-----------------------------------------------------------------------------
(* Lists whose items have identities of their own.                         *)

\* No two items of a list have one identity.
Distinct(q) == \A j, k \in DOMAIN q : q[j].id = q[k].id => j = k

\* What every step passes on reaches the last one.
LEMMA StepsReach ==
    ASSUME NEW N \in Nat, NEW D, 0 \in D, \A k \in 1 .. N : k - 1 \in D => k \in D
    PROVE  \A k \in 0 .. N : k \in D
<1>1. PICK h : h = [k \in 0 .. N |-> k]
  OBVIOUS
<1>2. h[0] \in D /\ \A k \in 1 .. N : h[k - 1] = k - 1 /\ h[k] = k
  BY <1>1
<1>3. \A k \in 1 .. N : h[k - 1] \in D => h[k] \in D
  BY <1>2
<1>4. \A k \in 0 .. N : h[k] \in D
  BY ONLY <1>2, <1>3, N \in Nat, StepsStay
<1> QED
  BY <1>1, <1>4

\* The chosen items are distinct where those at the places are, and are all of them.
LEMMA ChosenAll ==
    ASSUME NEW items, IsSeq(items), NEW places,
           \A j, k \in DOMAIN items : j \in places /\ k \in places /\ items[j].id = items[k].id => j = k
    PROVE  /\ IsSeq(Chosen(items, places)) /\ Distinct(Chosen(items, places))
           /\ ToSet(Chosen(items, places)) = {items[k] : k \in DOMAIN items \cap places}
<1>0. PICK N \in Nat : N = Len(items) /\ DOMAIN items = 1 .. N
  BY Indices
<1>1. PICK T : T = {items[k] : k \in DOMAIN items}
  OBVIOUS
<1>2. PICK h : /\ Chosen(items, places) = h[N]
               /\ h[0] = <<>>
               /\ \A k \in 1 .. N : h[k] = IF k \in places THEN Append(h[k - 1], items[k]) ELSE h[k - 1]
               /\ \A k \in 0 .. N : h[k] \in Seq(T)
  <2>1. \A k \in DOMAIN items : k \in places => items[k] \in T
    BY <1>1
  <2>2. PICK h : /\ Chosen(items, places) = h[Len(items)]
                 /\ ChosenBy(h, items, places)
                 /\ \A k \in 0 .. Len(items) : h[k] \in Seq(T)
    BY <2>1, ChosenSteps
  <2>3. /\ h[0] = <<>>
        /\ \A k \in 1 .. N : h[k] = IF k \in places THEN Append(h[k - 1], items[k]) ELSE h[k - 1]
    BY <1>0, <2>2, Zenon DEF ChosenBy
  <2>4. N = Len(items) /\ \A k \in 0 .. N : h[k] \in Seq(T)
    BY <1>0, <2>2
  <2> QED
    BY <2>2, <2>3, <2>4, Zenon
<1> DEFINE From(x, k) == \A i \in DOMAIN x : \E m \in 1 .. k : m \in places /\ x[i] = items[m]
           Every(x, k) == \A m \in 1 .. k : m \in places => \E i \in DOMAIN x : x[i] = items[m]
           D == {k \in 0 .. N : Distinct(h[k]) /\ From(h[k], k) /\ Every(h[k], k)}
<1>3. 0 \in D
  <2>1. DOMAIN h[0] = {} /\ 1 .. 0 = {} /\ 0 \in 0 .. N
    BY <1>0, <1>2
  <2> QED
    BY <2>1 DEF Distinct
<1>4. ASSUME NEW k \in 1 .. N, k - 1 \in D PROVE k \in D
  <2>1. PICK x \in Seq(T) : x = h[k - 1]
    BY <1>0, <1>2
  <2>2. Distinct(x) /\ From(x, k - 1) /\ Every(x, k - 1)
    BY <1>4, <2>1
  <2>3. k \in 0 .. N /\ items[k] \in T /\ 1 .. k = (1 .. (k - 1)) \cup {k} /\ k \notin 1 .. (k - 1)
    BY <1>0, <1>1
  <2>4. CASE k \notin places
    <3>1. h[k] = x
      BY <1>2, <2>1, <2>4
    <3>2. From(x, k) /\ Every(x, k)
      BY <2>2, <2>3, <2>4
    <3> QED
      BY <2>2, <2>3, <3>1, <3>2
  <2>5. CASE k \in places
    <3>1. PICK y : y = Append(x, items[k])
      OBVIOUS
    <3>2. h[k] = y
      BY <1>2, <2>1, <2>5, <3>1
    <3>3. PICK n \in Nat : n = Len(x)
      OBVIOUS
    <3>4. /\ DOMAIN x = 1 .. n /\ DOMAIN y = 1 .. n + 1 /\ y[n + 1] = items[k]
          /\ \A i \in 1 .. n : y[i] = x[i]
      BY <2>1, <2>3, <3>1, <3>3
    <3>5. DOMAIN y = (DOMAIN x) \cup {n + 1} /\ n + 1 \notin DOMAIN x
      BY <3>3, <3>4
    <3>6. \A i \in DOMAIN x : y[i].id # y[n + 1].id
      <4> TAKE i \in DOMAIN x
      <4>1. PICK m \in 1 .. (k - 1) : m \in places /\ x[i] = items[m]
        BY <2>2
      <4>2. m \in DOMAIN items /\ k \in DOMAIN items /\ m # k
        BY <1>0, <2>3, <4>1
      <4>3. items[m].id # items[k].id
        BY <2>5, <4>1, <4>2
      <4> QED
        BY <3>4, <4>1, <4>3
    <3>7. Distinct(y)
      BY <2>2, <3>4, <3>5, <3>6 DEF Distinct
    <3>8. From(y, k)
      BY <2>2, <2>3, <2>5, <3>4, <3>5
    <3>9. Every(y, k)
      BY <2>2, <2>3, <3>4, <3>5
    <3> QED
      BY <2>3, <3>2, <3>7, <3>8, <3>9
  <2> QED
    BY <2>4, <2>5
<1>5. N \in D
  <2>1. N \in 0 .. N
    BY <1>0
  <2> HIDE DEF D
  <2> QED
    BY <1>0, <1>3, <1>4, <2>1, StepsReach
<1>6. PICK q \in Seq(T) : q = Chosen(items, places) /\ q = h[N]
  BY <1>0, <1>2
<1>7. Distinct(q) /\ From(q, N) /\ Every(q, N)
  <2>1. Distinct(h[N]) /\ From(h[N], N) /\ Every(h[N], N)
    BY <1>5
  <2> HIDE DEF From, Every
  <2> QED
    BY <1>6, <2>1, Zenon
<1>8. IsSeq(q)
  BY IsSeqOf
<1>9. ToSet(q) = {items[k] : k \in DOMAIN items \cap places}
  <2>1. \A i \in DOMAIN q : \E m \in DOMAIN items \cap places : q[i] = items[m]
    BY <1>0, <1>7
  <2>2. \A m \in DOMAIN items \cap places : \E i \in DOMAIN q : q[i] = items[m]
    BY <1>0, <1>7
  <2> QED
    BY <2>1, <2>2 DEF ToSet
<1> QED
  BY <1>6, <1>7, <1>8, <1>9, Zenon

\* One item put among distinct ones replaces the one of its identity.
LEMMA PutOne ==
    ASSUME NEW T, NEW items \in Seq(T), NEW item \in T, Distinct(items), NEW q, q = Put(items, item)
    PROVE  /\ q \in Seq(T) /\ Distinct(q) /\ item \in ToSet(q)
           /\ \A x \in ToSet(items) : x.id # item.id => x \in ToSet(q)
           /\ \A x \in ToSet(q) : x = item \/ x \in ToSet(items)
           /\ item \in ToSet(items) => q = items
<1>0. PICK n \in Nat : n = Len(items) /\ DOMAIN items = 1 .. n
  OBVIOUS
<1>1. q \in Seq(T)
  BY PutIn
<1>2. CASE \E k \in DOMAIN items : items[k].id = item.id
  <2>1. q = [k \in DOMAIN items |-> IF items[k].id = item.id THEN item ELSE items[k]]
    BY <1>2, Zenon DEF Put
  <2>2. PICK k \in DOMAIN items : items[k].id = item.id
    BY <1>2
  <2>3. DOMAIN q = DOMAIN items /\ q[k] = item /\ \A j \in DOMAIN items : j # k => q[j] = items[j]
    BY <2>1, <2>2 DEF Distinct
  <2>4. Distinct(q)
    BY <2>2, <2>3 DEF Distinct
  <2>5. item \in ToSet(items) => q = items
    <3>1. ASSUME item \in ToSet(items) PROVE q = items
      <4>1. PICK j \in DOMAIN items : items[j] = item
        BY <3>1 DEF ToSet
      <4>2. j = k
        BY <2>2, <4>1 DEF Distinct
      <4>3. \A i \in DOMAIN items : q[i] = items[i]
        BY <2>3, <4>1, <4>2
      <4>4. q \in [1 .. n -> T] /\ items \in [1 .. n -> T]
        BY <1>0, <1>1, <2>3
      <4> QED
        BY <1>0, <4>3, <4>4
    <3> QED
      BY <3>1
  <2> QED
    BY <1>1, <2>2, <2>3, <2>4, <2>5 DEF ToSet
<1>3. CASE ~\E k \in DOMAIN items : items[k].id = item.id
  <2>1. q = Append(items, item)
    BY <1>3, Zenon DEF Put
  <2>2. /\ DOMAIN q = 1 .. n + 1 /\ q[n + 1] = item
        /\ \A i \in 1 .. n : q[i] = items[i]
    BY <1>0, <2>1
  <2>3. DOMAIN q = DOMAIN items \cup {n + 1} /\ n + 1 \notin DOMAIN items
    BY <1>0, <2>2
  <2>4. Distinct(q)
    BY <1>0, <1>3, <2>2, <2>3 DEF Distinct
  <2>5. item \notin ToSet(items)
    BY <1>3 DEF ToSet
  <2> QED
    BY <1>0, <1>1, <2>2, <2>3, <2>4, <2>5 DEF ToSet
<1> QED
  BY <1>2, <1>3

\* Distinct items put among distinct ones are all there.
LEMMA PutMany ==
    ASSUME NEW T, NEW items \in Seq(T), NEW more \in Seq(T), Distinct(items), Distinct(more),
           NEW q, q = PutAll(items, more)
    PROVE  /\ q \in Seq(T) /\ Distinct(q)
           /\ ToSet(more) \subseteq ToSet(q) /\ ToSet(q) \subseteq ToSet(items) \cup ToSet(more)
           /\ ToSet(more) \subseteq ToSet(items) => q = items
<1>0. PICK N \in Nat : N = Len(more) /\ DOMAIN more = 1 .. N
  OBVIOUS
<1>1. PICK h : /\ q = h[N]
               /\ h[0] = items
               /\ \A k \in 1 .. N : h[k] = Put(h[k - 1], more[k])
               /\ \A k \in 0 .. N : h[k] \in Seq(T)
  <2>1. PICK h : /\ PutAll(items, more) = h[Len(more)]
                 /\ PutAllBy(h, items, more)
                 /\ \A k \in 0 .. Len(more) : h[k] \in Seq(T)
    BY PutAllSteps
  <2>2. /\ h[0] = items
        /\ \A k \in 1 .. N : h[k] = Put(h[k - 1], more[k])
    BY <1>0, <2>1, Zenon DEF PutAllBy
  <2>3. N = Len(more) /\ \A k \in 0 .. N : h[k] \in Seq(T)
    BY <1>0, <2>1
  <2> QED
    BY <2>1, <2>2, <2>3, Zenon
<1> DEFINE There(x, k) == \A m \in 1 .. k : more[m] \in ToSet(x)
           From(x) == \A y \in ToSet(x) : y \in ToSet(items) \/ y \in ToSet(more)
           Same(x) == ToSet(more) \subseteq ToSet(items) => x = items
           D == {k \in 0 .. N : Distinct(h[k]) /\ There(h[k], k) /\ From(h[k]) /\ Same(h[k])}
<1>2. 0 \in D
  <2>1. 1 .. 0 = {} /\ 0 \in 0 .. N
    BY <1>0
  <2> QED
    BY <1>1, <2>1
<1>3. ASSUME NEW k \in 1 .. N, k - 1 \in D PROVE k \in D
  <2>1. PICK x \in Seq(T) : x = h[k - 1]
    BY <1>0, <1>1
  <2>2. Distinct(x) /\ There(x, k - 1) /\ From(x) /\ Same(x)
    BY <1>3, <2>1
  <2>3. k \in 0 .. N /\ more[k] \in T /\ 1 .. k = (1 .. (k - 1)) \cup {k} /\ k \notin 1 .. (k - 1)
        /\ more[k] \in ToSet(more)
    <3>1. k \in DOMAIN more
      BY <1>0
    <3>2. more[k] \in T /\ more[k] \in ToSet(more)
      BY <3>1 DEF ToSet
    <3>3. k \in 0 .. N /\ k \notin 1 .. (k - 1) /\ 1 .. k = (1 .. (k - 1)) \cup {k}
      BY ONLY k \in 1 .. N, N \in Nat
    <3> QED
      BY <3>2, <3>3
  <2>4. PICK item \in T : item = more[k]
    BY <2>3
  <2>5. PICK y : y = Put(x, item)
    OBVIOUS
  <2>6. h[k] = y
    BY <1>1, <2>1, <2>4, <2>5
  <2>7. /\ Distinct(y) /\ item \in ToSet(y)
        /\ \A z \in ToSet(x) : z.id # item.id => z \in ToSet(y)
        /\ \A z \in ToSet(y) : z = item \/ z \in ToSet(x)
        /\ item \in ToSet(x) => y = x
    BY ONLY x \in Seq(T), item \in T, <2>2, <2>5, PutOne
  <2>8. There(y, k)
    <3> SUFFICES ASSUME NEW m \in 1 .. k PROVE more[m] \in ToSet(y)
      OBVIOUS
    <3>1. CASE m = k
      BY <2>4, <2>7, <3>1
    <3>2. CASE m # k
      <4>1. m \in 1 .. (k - 1) /\ m \in DOMAIN more /\ k \in DOMAIN more
        BY <1>0, <2>3, <3>2
      <4>2. more[m].id # item.id
        BY <2>4, <3>2, <4>1 DEF Distinct
      <4> QED
        BY <2>2, <2>7, <4>1, <4>2
    <3> QED
      BY <3>1, <3>2
  <2>9. From(y) /\ Same(y)
    BY <2>2, <2>3, <2>4, <2>7
  <2> QED
    BY <2>3, <2>6, <2>7, <2>8, <2>9
<1>4. N \in D
  <2>1. N \in 0 .. N
    BY <1>0
  <2> HIDE DEF D
  <2> QED
    BY <1>0, <1>2, <1>3, <2>1, StepsReach
<1>5. q \in Seq(T)
  BY <1>0, <1>1
<1>6. Distinct(q) /\ There(q, N) /\ From(q) /\ Same(q)
  BY <1>1, <1>4
<1>7. ToSet(more) \subseteq ToSet(q)
  BY <1>0, <1>6 DEF ToSet
<1> QED
  BY <1>5, <1>6, <1>7

-----------------------------------------------------------------------------
(* What is retained, event by event.                                       *)

\* What earlier assessments left, assessment by assessment.
LEMMA RetainedNow ==
    WellKept => \E h : /\ RetainedCases = h[Len(log)]
                       /\ h[0] = <<>>
                       /\ \A k \in 1 .. Len(log) :
                             h[k] = IF k \in History /\ log[k].kind \in AssessmentKinds
                                    THEN PutAll(h[k - 1], Risk(log[k].cases)) ELSE h[k - 1]
<1> SUFFICES ASSUME WellKept
             PROVE  \E h : /\ RetainedCases = h[Len(log)]
                           /\ h[0] = <<>>
                           /\ \A k \in 1 .. Len(log) :
                                 h[k] = IF k \in History /\ log[k].kind \in AssessmentKinds
                                        THEN PutAll(h[k - 1], Risk(log[k].cases)) ELSE h[k - 1]
  OBVIOUS
<1>1. IsSeq(log) /\ \A n \in DOMAIN log : Entry(log, n)
  BY DEF WellKept
<1>2. PICK T : T = UNION {{log[n].cases[k] : k \in DOMAIN log[n].cases} : n \in DOMAIN log}
  OBVIOUS
<1>3. \A n \in DOMAIN log : log[n].kind \in AssessmentKinds =>
               /\ IsSeq(log[n].cases)
               /\ \A k \in DOMAIN log[n].cases : log[n].cases[k].pri # "P2" => log[n].cases[k] \in T
  <2> SUFFICES ASSUME NEW n \in DOMAIN log, log[n].kind \in AssessmentKinds
               PROVE  /\ IsSeq(log[n].cases)
                      /\ \A k \in DOMAIN log[n].cases : log[n].cases[k] \in T
    OBVIOUS
  <2>1. IsSeq(log[n].cases)
    BY <1>1 DEF Entry, ReviewEntry, CasesOf
  <2> QED
    BY <1>2, <2>1
<1>4. PICK h : /\ RetainedCases = h[Len(log)]
               /\ h[0] = <<>>
               /\ \A k \in 1 .. Len(log) :
                     h[k] = IF k \in History /\ log[k].kind \in AssessmentKinds
                            THEN PutAll(h[k - 1], Risk(log[k].cases)) ELSE h[k - 1]
               /\ \A k \in 0 .. Len(log) : h[k] \in Seq(T)
  BY ONLY <1>1, <1>3, RetainedSteps, Zenon
<1> QED
  BY <1>4

\* The same after a step.
LEMMA RetainedNext ==
    (WellKept => \E h : /\ RetainedCases = h[Len(log)]
                        /\ h[0] = <<>>
                        /\ \A k \in 1 .. Len(log) :
                              h[k] = IF k \in History /\ log[k].kind \in AssessmentKinds
                                     THEN PutAll(h[k - 1], Risk(log[k].cases)) ELSE h[k - 1])'
BY RetainedNow, PTL

\* One more event: an assessment that counts adds its risk cases.
LEMMA RetainedGrows ==
    ASSUME WellKept, WellKept', NEW e, log' = Append(log, e)
    PROVE  /\ RetainedCases' = IF Counts(e, Latest) THEN PutAll(RetainedCases, Risk(e.cases)) ELSE RetainedCases
           /\ Latest' = IF Counts(e, Latest) THEN Len(log) + 1 ELSE Latest
<1>0. IsSeq(log)
  BY DEF WellKept
<1>1. PICK N \in Nat : N = Len(log)
  BY <1>0, Indices
<1>2. /\ DOMAIN log = 1 .. N /\ DOMAIN log' = 1 .. N + 1 /\ Len(log') = N + 1
      /\ \A i \in 1 .. N : log'[i] = log[i]
      /\ log'[N + 1] = e
  BY <1>0, <1>1, Grown
<1>3. /\ \A k \in 1 .. N : LatestOf(log')[k] = LatestOf(log)[k]
      /\ LatestOf(log')[N + 1] = IF Counts(e, Latest) THEN N + 1 ELSE Latest
  <2>1. PICK L : L = log
    OBVIOUS
  <2>2. PICK U : U = log'
    OBVIOUS
  <2>3. IsSeq(L) /\ U = Append(L, e)
    BY <1>0, <2>1, <2>2
  <2>4. /\ \A k \in DOMAIN L : LatestOf(U)[k] = LatestOf(L)[k]
        /\ LatestOf(U)[Len(U)] = IF Counts(e, LatestOf(L)[Len(L)]) THEN Len(U)
                                 ELSE LatestOf(L)[Len(L)]
    BY ONLY <2>3, LatestExtends
  <2> QED
    BY <1>1, <1>2, <2>1, <2>2, <2>4, Zenon DEF Latest
<1>4. Latest' = IF Counts(e, Latest) THEN N + 1 ELSE Latest
  BY <1>2, <1>3 DEF Latest
<1>5. \A k \in 1 .. N : k \in History' <=> k \in History
  BY <1>2, <1>3 DEF History, Rejected
<1>6. (N + 1 \in History' /\ e.kind \in AssessmentKinds) <=> Counts(e, Latest)
  <2>1. N + 1 \in 1 .. N + 1 /\ e.kind \in AssessmentKinds => e.kind \in Monitoring
    BY <1>1 DEF Monitoring
  <2>2. ASSUME Counts(e, Latest) PROVE N + 1 \in History' /\ e.kind \in AssessmentKinds
    BY <1>2, <1>3, <2>1, <2>2 DEF History, Counts, Rejected
  <2>3. ASSUME N + 1 \in History', e.kind \in AssessmentKinds PROVE Counts(e, Latest)
    <3>1. LatestOf(log')[N + 1] = N + 1
      BY <1>2, <2>3 DEF History
    <3>2. SUFFICES ASSUME ~Counts(e, Latest) PROVE FALSE
      OBVIOUS
    <3>3. Latest = N + 1
      BY <1>3, <3>1, <3>2
    <3>4. PICK f : f = LatestOf(log)
      OBVIOUS
    <3>5. f[0] = 0 /\ \A k \in 1 .. N : f[k] = IF Counts(log[k], f[k - 1]) THEN k ELSE f[k - 1]
      BY <1>0, <1>1, <3>4, LatestSteps
    <3>6. \A k \in 1 .. N : f[k - 1] \in 0 .. N => f[k] \in 0 .. N
      BY <1>1, <3>5
    <3>7. \A k \in 0 .. N : f[k] \in 0 .. N
      <4>1. f[0] \in 0 .. N
        BY <1>1, <3>5
      <4> QED
        BY ONLY <3>6, <4>1, N \in Nat, StepsStay
    <3>8. Latest \in 0 .. N
      BY <1>1, <3>4, <3>7 DEF Latest
    <3> QED
      BY <1>1, <3>3, <3>8
  <2> QED
    BY <2>2, <2>3
<1>7. PICK f : /\ RetainedCases = f[N]
               /\ f[0] = <<>>
               /\ \A k \in 1 .. N : f[k] = IF k \in History /\ log[k].kind \in AssessmentKinds
                                           THEN PutAll(f[k - 1], Risk(log[k].cases)) ELSE f[k - 1]
  BY <1>1, RetainedNow
<1>8. PICK h : /\ RetainedCases' = h[N + 1]
               /\ h[0] = <<>>
               /\ \A k \in 1 .. N + 1 : h[k] = IF k \in History' /\ log'[k].kind \in AssessmentKinds
                                           THEN PutAll(h[k - 1], Risk(log'[k].cases)) ELSE h[k - 1]
  BY <1>1, <1>2, RetainedNext DEF AssessmentKinds
<1>9. \A k \in 1 .. N : k \in 1 .. N + 1
  BY <1>1
<1>10. \A k \in 1 .. N : f[k - 1] = h[k - 1] => f[k] = h[k]
  BY <1>2, <1>5, <1>7, <1>8, <1>9
<1>11. f[N] = h[N]
  <2>1. f[0] = h[0] /\ N \in 0 .. N
    BY <1>1, <1>7, <1>8
  <2> QED
    BY ONLY <1>10, <2>1, N \in Nat, StepsAgree
<1>12. h[N + 1] = IF N + 1 \in History' /\ e.kind \in AssessmentKinds
                  THEN PutAll(h[N], Risk(e.cases)) ELSE h[N]
  <2>1. N + 1 \in 1 .. N + 1 /\ N + 1 - 1 = N
    BY <1>1
  <2> QED
    BY <1>2, <1>8, <2>1
<1> QED
  BY <1>1, <1>4, <1>6, <1>7, <1>8, <1>11, <1>12

\* Every obligation the retained cases hold is assigned to one of them, of P0
\* where a case of P0 holds it.
LEMMA AssignedToOne ==
    ASSUME RiskCases(RetainedCases), Distinct(RetainedCases), NEW c \in ToSet(RetainedCases), NEW o \in c.obs
    PROVE  \E f \in ToSet(RetainedCases) : o \in Assigned(f) /\ (c.pri = "P0" => f.pri = "P0")
<1>1. PICK R : R = RetainedCases
  OBVIOUS
<1>2. PICK p0 : p0 = {k \in DOMAIN R : R[k].pri = "P0"}
  OBVIOUS
<1>3. PICK p1 : p1 = {k \in DOMAIN R : R[k].pri # "P0"}
  OBVIOUS
<1>4. PICK u : u = Chosen(R, p0)
  OBVIOUS
<1>5. PICK v : v = Chosen(R, p1)
  OBVIOUS
<1>6. PICK w : w = u \o v
  OBVIOUS
<1>7. w = Ordered(R)
  BY <1>2, <1>3, <1>4, <1>5, <1>6, Zenon DEF Ordered
<1>8. /\ u \in Seq({R[k] : k \in p0}) /\ v \in Seq({R[k] : k \in p1})
  <2>1. IsSeq(R)
    BY <1>1 DEF RiskCases
  <2>2. PICK S0 : S0 = {R[k] : k \in p0}
    OBVIOUS
  <2>3. PICK S1 : S1 = {R[k] : k \in p1}
    OBVIOUS
  <2>4. \A k \in DOMAIN R : (k \in p0 => R[k] \in S0) /\ (k \in p1 => R[k] \in S1)
    BY <2>2, <2>3
  <2>5. u \in Seq(S0)
    BY <1>4, <2>1, <2>4, ChosenIn
  <2>6. v \in Seq(S1)
    BY <1>5, <2>1, <2>4, ChosenIn
  <2> QED
    BY <2>2, <2>3, <2>5, <2>6
<1>9. PICK m \in Nat : m = Len(u)
  BY <1>8
<1>10. PICK n \in Nat : n = Len(v)
  BY <1>8
<1>11. /\ DOMAIN u = 1 .. m /\ DOMAIN v = 1 .. n /\ DOMAIN w = 1 .. m + n
       /\ \A i \in 1 .. m : w[i] = u[i]
       /\ \A i \in 1 .. n : w[m + i] = v[i]
  BY <1>6, <1>8, <1>9, <1>10
<1>12. /\ \A i \in 1 .. m : w[i].pri = "P0"
       /\ \A i \in 1 .. m + n : i > m => w[i].pri # "P0"
  <2>1. \A i \in 1 .. m : u[i] \in {R[k] : k \in p0}
    BY <1>8, <1>11
  <2>2. \A i \in 1 .. n : v[i] \in {R[k] : k \in p1}
    BY <1>8, <1>11
  <2>3. \A i \in 1 .. m + n : i > m => i - m \in 1 .. n /\ i = m + (i - m)
    OBVIOUS
  <2>4. \A i \in 1 .. m + n : i > m => w[i] = v[i - m]
    BY <1>11, <2>3
  <2> QED
    BY <1>2, <1>3, <1>11, <2>1, <2>2, <2>3, <2>4
<1>13. ToSet(w) = ToSet(R)
  <2>1. IsSeq(R) /\ Distinct(R)
    BY <1>1 DEF RiskCases
  <2>2. \A places : ToSet(Chosen(R, places)) = {R[k] : k \in DOMAIN R \cap places}
    <3> TAKE places
    <3> QED
      BY <2>1, ChosenAll DEF Distinct
  <2>3. ToSet(u) = {R[k] : k \in DOMAIN R \cap p0} /\ ToSet(v) = {R[k] : k \in DOMAIN R \cap p1}
    BY <1>4, <1>5, <2>2
  <2>4. DOMAIN R = (DOMAIN R \cap p0) \cup (DOMAIN R \cap p1)
    BY <1>2, <1>3
  <2>5. ToSet(R) = ToSet(u) \cup ToSet(v)
    BY <2>3, <2>4 DEF ToSet
  <2>6. \A i \in 1 .. m + n : i \in 1 .. m \/ (i - m \in 1 .. n /\ i = m + (i - m))
    OBVIOUS
  <2>7. \A i \in 1 .. n : m + i \in 1 .. m + n
    OBVIOUS
  <2>8. \A i \in 1 .. m : i \in 1 .. m + n
    OBVIOUS
  <2>9. ASSUME NEW x PROVE x \in ToSet(w) <=> x \in ToSet(u) \/ x \in ToSet(v)
    <3>1. x \in ToSet(w) <=> \E i \in 1 .. m + n : x = w[i]
      BY <1>11 DEF ToSet
    <3>2. x \in ToSet(u) <=> \E i \in 1 .. m : x = u[i]
      BY <1>11 DEF ToSet
    <3>3. x \in ToSet(v) <=> \E i \in 1 .. n : x = v[i]
      BY <1>11 DEF ToSet
    <3>4. x \in ToSet(u) \/ x \in ToSet(v) => x \in ToSet(w)
      BY <1>11, <2>7, <2>8, <3>1, <3>2, <3>3
    <3>5. ASSUME x \in ToSet(w) PROVE x \in ToSet(u) \/ x \in ToSet(v)
      <4>1. PICK i \in 1 .. m + n : x = w[i]
        BY <3>1, <3>5
      <4>2. CASE i \in 1 .. m
        BY <1>11, <3>2, <4>1, <4>2
      <4>3. CASE i - m \in 1 .. n /\ i = m + (i - m)
        BY <1>11, <3>3, <4>1, <4>3
      <4> QED
        BY <2>6, <4>2, <4>3
    <3> QED
      BY <3>4, <3>5
  <2> QED
    BY <2>5, <2>9
<1>14. PICK i \in 1 .. m + n : o \in w[i].obs /\ \A j \in 1 .. m + n : o \in w[j].obs => i <= j
  <2>1. PICK S : S = {j \in 1 .. m + n : o \in w[j].obs}
    OBVIOUS
  <2>2. c \in ToSet(w)
    BY <1>1, <1>13
  <2>3. S # {} /\ S \subseteq Nat
    BY <1>11, <2>1, <2>2 DEF ToSet
  <2>4. PICK i \in S : \A j \in S : i <= j
    BY <2>3, SmallestIsThere
  <2> QED
    BY <2>1, <2>4
<1>15. PICK f : f = w[i]
  OBVIOUS
<1>16. f \in ToSet(RetainedCases)
  <2>1. f \in ToSet(w)
    BY <1>11, <1>14, <1>15 DEF ToSet
  <2> QED
    BY <1>1, <1>13, <2>1
<1>17. o \in Assigned(f)
  <2> DEFINE before == {k \in DOMAIN Ordered(RetainedCases) :
                            \A j \in 1 .. k : Ordered(RetainedCases)[j].id # f.id}
  <2>1. Assigned(f) = f.obs \ UNION {Ordered(RetainedCases)[k].obs : k \in before}
    BY Zenon DEF Assigned
  <2>2. \A k \in before : k \in DOMAIN w /\ \A j \in 1 .. k : w[j].id # f.id
    BY <1>1, <1>7
  <2> HIDE DEF before
  <2>3. ASSUME NEW k \in before PROVE o \notin w[k].obs
    <3>1. k \in 1 .. m + n /\ \A j \in 1 .. k : w[j].id # f.id
      BY <1>11, <2>2
    <3>2. i \notin 1 .. k
      BY <1>15, <3>1
    <3>3. ~(i <= k)
      BY <1>14, <3>1, <3>2
    <3> QED
      BY <1>14, <3>1, <3>3
  <2> QED
    BY <1>1, <1>7, <1>14, <1>15, <2>1, <2>3
<1>18. ASSUME c.pri = "P0" PROVE f.pri = "P0"
  <2>1. PICK j \in 1 .. m + n : c = w[j]
    BY <1>1, <1>11, <1>13 DEF ToSet
  <2>2. i <= j /\ ~(j > m)
    BY <1>12, <1>14, <1>18, <2>1
  <2>3. i \in 1 .. m
    BY <1>14, <2>1, <2>2
  <2> QED
    BY <1>12, <1>15, <2>3
<1> QED
  BY <1>16, <1>17, <1>18

-----------------------------------------------------------------------------
(* Targets that pass from assessment to assessment.                        *)

\* What targets say: an obligation on a security.
Said(t) == UNION {{<<s, o>> : o \in t[s].obs} : s \in DOMAIN t}

\* What execution plans said so far.
Told == UNION {Said(log[n].targets) : n \in PlanHistory}

\* The obligations that cases hold.
Carried(q) == UNION {c.obs : c \in ToSet(q)}

\* A case that asks for what plans said, and whose obligations are in O.
KeptCase(c, O, P) ==
    /\ {"id", "pri", "obs", "req", "plan"} \subseteq DOMAIN c
    /\ c.id[2] # {} /\ c.id[2] \subseteq O
    /\ c.obs \subseteq {p[2] : p \in P}
    /\ \A s \in DOMAIN c.req :
          /\ c.req[s].qty \in Nat
          /\ c.req[s].obs # {} /\ c.req[s].obs \subseteq O
          /\ \A o \in c.req[s].obs : <<s, o>> \in P

KeptList(q, P) == Distinct(q) /\ \A c \in ToSet(q) : KeptCase(c, Carried(q), P)

\* Corrections repeat an original, and later originals say no less.
PlansKept ==
    /\ \A n \in Of({"PLAN"}) :
          /\ \A s \in DOMAIN log[n].targets : log[n].targets[s].qty \in Nat
          /\ Origin(n) \in Of({"PLAN"}) /\ log[Origin(n)].fixes = 0
          /\ log[Origin(n)].targets = log[n].targets /\ log[Origin(n)].cut = log[n].cut
    /\ \A m, n \in PlanHistory :
          m < n => log[m].cut <= log[n].cut /\ Said(log[m].targets) \subseteq Said(log[n].targets)

\* The pairs that targets say.
LEMMA SaidIs ==
    ASSUME NEW t, NEW s, NEW o
    PROVE  <<s, o>> \in Said(t) <=> s \in DOMAIN t /\ o \in t[s].obs
BY DEF Said

\* What targets say are pairs.
LEMMA SaidPair ==
    ASSUME NEW t, NEW p \in Said(t)
    PROVE  \E s \in DOMAIN t : \E o \in t[s].obs : p = <<s, o>>
BY DEF Said

\* A case is kept among more obligations and after more plans.
LEMMA KeptMore ==
    ASSUME NEW c, NEW O, NEW P, KeptCase(c, O, P), NEW U, O \subseteq U, NEW Q, P \subseteq Q
    PROVE  KeptCase(c, U, Q)
<1>1. {p[2] : p \in P} \subseteq {p[2] : p \in Q}
  OBVIOUS
<1> QED
  BY <1>1 DEF KeptCase

\* A plan says what is told, and all of it where no later plan overtook it.
LEMMA PlanTold ==
    ASSUME WellKept, PlansKept, NEW src \in DOMAIN log, log[src].kind = "PLAN"
    PROVE  /\ Said(log[src].targets) \subseteq Told
           /\ ~Outdated(src) /\ log[src].targets # <<>> => Told \subseteq Said(log[src].targets)
<1>1. DOMAIN log = 1 .. Len(log) /\ Len(log) \in Nat
  BY Indices DEF WellKept
<1>2. PICK f : f = Origin(src)
  OBVIOUS
<1>3. src \in Of({"PLAN"})
  BY DEF Of
<1>4. /\ f \in Of({"PLAN"}) /\ log[f].fixes = 0
      /\ log[f].targets = log[src].targets /\ log[f].cut = log[src].cut
  BY <1>2, <1>3 DEF PlansKept
<1>5. CASE log[src].targets = <<>>
  <2>1. DOMAIN <<>> = {}
    OBVIOUS
  <2>2. Said(log[src].targets) = {}
    BY <1>5, <2>1 DEF Said
  <2> QED
    BY <1>5, <2>2
<1>6. CASE log[src].targets # <<>>
  <2>1. f \in PlanHistory
    BY <1>4, <1>6 DEF PlanHistory
  <2>2. Said(log[src].targets) \subseteq Told
    BY <1>4, <2>1 DEF Told
  <2>3. ASSUME ~Outdated(src), NEW m \in PlanHistory PROVE Said(log[m].targets) \subseteq Said(log[src].targets)
    <3>1. m \in Of({"PLAN"}) /\ log[m].fixes = 0 /\ m \in DOMAIN log /\ f \in DOMAIN log
      BY <1>4 DEF PlanHistory, Of
    <3>2. CASE m > f
      <4>1. log[f].cut <= log[m].cut
        BY <1>1, <2>1, <3>1, <3>2 DEF PlansKept
      <4>2. log[f].cut \in Nat /\ log[m].cut \in Nat
        BY <3>1 DEF WellKept, Entry
      <4>3. log[m].cut >= log[src].cut
        BY <1>4, <4>1, <4>2
      <4> QED
        BY <1>2, <2>3, <3>1, <3>2, <4>3 DEF Outdated
    <3>3. CASE m = f
      BY <1>4, <3>3
    <3>4. CASE m < f
      BY <1>4, <2>1, <3>4 DEF PlansKept
    <3> QED
      BY <1>1, <3>1, <3>2, <3>3, <3>4
  <2> QED
    BY <2>2, <2>3 DEF Told
<1> QED
  BY <1>5, <1>6

\* The obligations of a plan.
Names(src) == UNION {log[src].targets[s].obs : s \in DOMAIN log[src].targets}

\* What a plan makes of a case it takes over.
LEMMA CaseIsReviewed ==
    ASSUME NEW c, {"id", "pri", "obs", "req", "plan"} \subseteq DOMAIN c, NEW ids, ids # {}, NEW src,
           NEW d, d = CaseReviewed(c, ids, src)
    PROVE  /\ {"id", "pri", "obs", "req", "plan"} \subseteq DOMAIN d
           /\ d.id = c.id /\ d.obs = ids
           /\ c.pri = "P0" => d.pri = "P0"
           /\ ids \subseteq Names(src) => d.req = Touching(log[src].targets, ids)
           /\ ~(ids \subseteq Names(src)) => d.req = c.req
  <1>0. PICK all : all = Names(src)
    OBVIOUS
  <1>1. PICK level : level = IF Elevated(log[src], ids) \/ c.pri = "P0" THEN "P0" ELSE "P1"
    BY Zenon
  <1>2. PICK t : t = Touching(log[src].targets, ids)
    OBVIOUS
  <1>3. d = IF ids \cap all = {} THEN [c EXCEPT !.obs = ids]
            ELSE IF ids \subseteq all THEN NewCase(c.id, src, {src}, ids, level, src, t)
            ELSE NewCase(c.id, src, c.srcs, ids, level, 0, c.req)
    BY <1>0, <1>1, <1>2, Zenon DEF CaseReviewed, Names
  <1>4. c.pri = "P0" => level = "P0"
    BY <1>1
  <1>5. CASE ids \cap all = {}
    <2>1. d = [c EXCEPT !.obs = ids] /\ ~(ids \subseteq all)
      BY <1>3, <1>5
    <2>2. DOMAIN d = DOMAIN c /\ d.id = c.id /\ d.pri = c.pri /\ d.req = c.req /\ d.obs = ids
      BY <2>1
    <2> QED
      BY <1>0, <2>1, <2>2
  <1>6. CASE ids \cap all # {} /\ ids \subseteq all
    <2>1. d = NewCase(c.id, src, {src}, ids, level, src, t)
      BY <1>3, <1>6
    <2> QED
      BY <1>0, <1>2, <1>4, <1>6, <2>1 DEF NewCase
  <1>7. CASE ids \cap all # {} /\ ~(ids \subseteq all)
    <2>1. d = NewCase(c.id, src, c.srcs, ids, level, 0, c.req)
      BY <1>3, <1>7
    <2> QED
      BY <1>0, <1>4, <1>7, <2>1 DEF NewCase
  <1>8. QED
    BY <1>5, <1>6, <1>7

\* The targets that rest on some obligations.
LEMMA TouchingIs ==
    ASSUME NEW t, NEW ids
    PROVE  /\ DOMAIN Touching(t, ids) = {s \in DOMAIN t : t[s].obs \cap ids # {}}
           /\ \A s \in DOMAIN Touching(t, ids) : Touching(t, ids)[s] = t[s]
BY DEF Touching, Restricted

-----------------------------------------------------------------------------
(* The cases of a plan.                                                    *)

\* The obligations of a plan that no retained case holds.
Unheld(src) == Names(src) \ Carried(RetainedCases)
NewOf(src) ==
    NewCase(<<0, Unheld(src)>>, src, {}, Unheld(src),
            IF Elevated(log[src], Unheld(src)) THEN "P0" ELSE "P1", src,
            Touching(log[src].targets, Unheld(src)))

\* The cases of a plan: each retained one that is assigned something, and one
\* for what no retained case holds.
LEMMA PlanCasesAre ==
    ASSUME RiskCases(RetainedCases), KeptList(RetainedCases, Told), NEW src,
           Free(log[src].targets), Names(src) # {},
           NEW q, q = PlanCases(src)
    PROVE  /\ Distinct(q)
           /\ \A c \in ToSet(RetainedCases) : Assigned(c) # {} => CaseReviewed(c, Assigned(c), src) \in ToSet(q)
           /\ Unheld(src) # {} => NewOf(src) \in ToSet(q)
           /\ \A d \in ToSet(q) :
                 \/ \E c \in ToSet(RetainedCases) : Assigned(c) # {} /\ d = CaseReviewed(c, Assigned(c), src)
                 \/ Unheld(src) # {} /\ d = NewOf(src)
<1> DEFINE places == {k \in DOMAIN RetainedCases : Assigned(RetainedCases[k]) # {}}
           own == Chosen(RetainedCases, places)
           old == [k \in DOMAIN own |-> CaseReviewed(own[k], Assigned(own[k]), src)]
<1>1. q = IF Unheld(src) = {} THEN old ELSE Put(old, NewOf(src))
  BY Zenon DEF PlanCases, Unheld, NewOf, Names, Carried
<1>2. Distinct(RetainedCases) /\ \A c \in ToSet(RetainedCases) : KeptCase(c, Carried(RetainedCases), Told)
  BY DEF KeptList
<1>3. DOMAIN own = DOMAIN old /\ \A k \in DOMAIN own : old[k] = CaseReviewed(own[k], Assigned(own[k]), src)
  OBVIOUS
<1>4. places \subseteq DOMAIN RetainedCases /\ \A k \in DOMAIN RetainedCases : k \in places <=> Assigned(RetainedCases[k]) # {}
  OBVIOUS
<1>5. PICK w : w = own
  OBVIOUS
<1>6. PICK u : u = old
  OBVIOUS
<1> HIDE DEF places, own, old
<1>7. Distinct(w) /\ ToSet(w) = {RetainedCases[k] : k \in DOMAIN RetainedCases \cap places}
  <2>1. IsSeq(RetainedCases)
    BY DEF RiskCases
  <2>2. \A j, k \in DOMAIN RetainedCases :
           j \in places /\ k \in places /\ RetainedCases[j].id = RetainedCases[k].id => j = k
    BY <1>2 DEF Distinct
  <2> QED
    BY <1>5, <2>1, <2>2, ChosenAll DEF own
<1>8. \A c : c \in ToSet(w) <=> c \in ToSet(RetainedCases) /\ Assigned(c) # {}
  <2>1. ASSUME NEW c PROVE c \in ToSet(RetainedCases) <=> \E k \in DOMAIN RetainedCases : c = RetainedCases[k]
    BY DEF ToSet
  <2> QED
    BY <1>4, <1>7, <2>1
<1>9. \A k \in DOMAIN w : w[k] \in ToSet(w) /\ u[k] = CaseReviewed(w[k], Assigned(w[k]), src)
  BY <1>3, <1>5, <1>6 DEF ToSet
<1>10. DOMAIN u = DOMAIN w
  BY <1>3, <1>5, <1>6
<1>11. \A c \in ToSet(RetainedCases) : Assigned(c) # {} => CaseReviewed(c, Assigned(c), src).id = c.id
  <2> SUFFICES ASSUME NEW c \in ToSet(RetainedCases), Assigned(c) # {}
               PROVE  CaseReviewed(c, Assigned(c), src).id = c.id
    OBVIOUS
  <2>1. {"id", "pri", "obs", "req", "plan"} \subseteq DOMAIN c
    BY <1>2 DEF KeptCase
  <2>2. PICK ids : ids = Assigned(c)
    OBVIOUS
  <2>3. PICK d : d = CaseReviewed(c, ids, src)
    OBVIOUS
  <2>4. ids # {}
    BY <2>2
  <2>5. d.id = c.id
    BY ONLY <2>1, <2>3, <2>4, CaseIsReviewed
  <2> QED
    BY <2>2, <2>3, <2>5
<1>12. \A k \in DOMAIN w : u[k].id = w[k].id
  BY <1>8, <1>9, <1>11
<1>13. Distinct(u)
  BY <1>7, <1>10, <1>12 DEF Distinct
<1>14. \A d : d \in ToSet(u) <=> \E c \in ToSet(RetainedCases) : Assigned(c) # {} /\ d = CaseReviewed(c, Assigned(c), src)
  <2> TAKE d
  <2>1. d \in ToSet(u) <=> \E k \in DOMAIN w : d = CaseReviewed(w[k], Assigned(w[k]), src)
    BY <1>9, <1>10 DEF ToSet
  <2>2. \A c : c \in ToSet(w) <=> \E k \in DOMAIN w : c = w[k]
    BY DEF ToSet
  <2> QED
    BY <1>8, <2>1, <2>2
<1>15. CASE Unheld(src) = {}
  BY <1>1, <1>6, <1>13, <1>14, <1>15
<1>16. CASE Unheld(src) # {}
  <2>1. PICK item : item = NewOf(src)
    OBVIOUS
  <2>2. PICK O : O = Carried(RetainedCases)
    OBVIOUS
  <2>3. PICK N : N = Unheld(src)
    OBVIOUS
  <2>4. item.id[2] = N /\ N # {} /\ N \cap O = {}
    <3>1. item.id = <<0, N>>
      BY <2>1, <2>3 DEF NewOf, NewCase
    <3> QED
      BY <1>16, <2>2, <2>3, <3>1 DEF Unheld
  <2>5. \A x \in ToSet(u) : x.id # item.id
    <3> TAKE x \in ToSet(u)
    <3>1. PICK c \in ToSet(RetainedCases) : Assigned(c) # {} /\ x = CaseReviewed(c, Assigned(c), src)
      BY <1>14
    <3>2. x.id = c.id
      BY <1>11, <3>1
    <3>3. c.id[2] \subseteq O /\ c.id[2] # {}
      BY <1>2, <2>2, <3>1 DEF KeptCase
    <3> QED
      BY <2>4, <3>2, <3>3
  <2>6. IsSeq(u)
    <3>1. RiskCases(RetainedCases)
      OBVIOUS
    <3>2. RiskCases(w)
      BY <1>5, <3>1, RiskChosen, Zenon DEF own
    <3>3. \A k \in DOMAIN w : RiskCase(u[k])
      BY <1>9, <3>2, ReviewedRisk DEF RiskCases
    <3>4. u = [k \in DOMAIN w |-> u[k]]
      BY <1>5, <1>6 DEF old
    <3>5. RiskCases(u)
      BY <3>2, <3>3, <3>4, RiskMapped, Zenon
    <3> QED
      BY <3>5 DEF RiskCases
  <2>7. PICK T : u \in Seq(T) /\ item \in T
    <3>1. PICK S : S = {u[k] : k \in DOMAIN u}
      OBVIOUS
    <3>2. u \in Seq(S)
      BY <2>6, <3>1 DEF IsSeq
    <3>3. u \in Seq(S \cup {item})
      BY <3>2
    <3> QED
      BY <3>3
  <2>8. q = Put(u, item)
    BY <1>1, <1>6, <1>16, <2>1
  <2>9. /\ Distinct(q) /\ item \in ToSet(q)
        /\ \A x \in ToSet(u) : x.id # item.id => x \in ToSet(q)
        /\ \A x \in ToSet(q) : x = item \/ x \in ToSet(u)
    BY ONLY <1>13, <2>7, <2>8, PutOne
  <2>10. \A x \in ToSet(u) : x \in ToSet(q)
    BY <2>5, <2>9
  <2> QED
    BY <1>14, <1>16, <2>1, <2>9, <2>10
<1> QED
  BY <1>15, <1>16

\* What a new case for a plan's obligations is.
LEMMA NewOfIs ==
    ASSUME NEW src, NEW d, d = NewOf(src)
    PROVE  /\ {"id", "pri", "obs", "req", "plan"} \subseteq DOMAIN d
           /\ d.id[2] = Unheld(src) /\ d.obs = Unheld(src)
           /\ d.req = Touching(log[src].targets, Unheld(src))
<1>1. PICK N : N = Unheld(src)
  OBVIOUS
<1>2. PICK t : t = Touching(log[src].targets, N)
  OBVIOUS
<1>3. PICK level : level = IF Elevated(log[src], N) THEN "P0" ELSE "P1"
  BY Zenon
<1>4. d = NewCase(<<0, N>>, src, {}, N, level, src, t)
  BY <1>1, <1>2, <1>3, Zenon DEF NewOf
<1> QED
  BY <1>1, <1>2, <1>4 DEF NewCase

\* Cases take themselves over.
LEMMA TakesItself ==
    ASSUME NEW q, NEW P, KeptList(q, P)
    PROVE  Takes(q, q)
<1> SUFFICES ASSUME NEW c \in ToSet(q), NEW s \in DOMAIN c.req
             PROVE  Asks(c, c, s)
  BY DEF Takes
<1>1. KeptCase(c, Carried(q), P)
  BY DEF KeptList
<1>2. c.req[s].qty \in Nat
  BY <1>1 DEF KeptCase
<1> QED
  BY <1>2 DEF Asks

\* An obligation held is assigned to a case of the plan, of P0 where one of P0
\* holds it.
LEMMA PlanCaseOf ==
    ASSUME RiskCases(RetainedCases), KeptList(RetainedCases, Told), NEW src,
           Free(log[src].targets), Names(src) # {}, NEW q, q = PlanCases(src),
           NEW c \in ToSet(RetainedCases), NEW o \in c.obs
    PROVE  \E d \in ToSet(q) : \E f \in ToSet(RetainedCases) :
              /\ o \in d.obs /\ d.obs \subseteq f.obs
              /\ c.pri = "P0" => d.pri = "P0"
              /\ d.obs \subseteq Names(src) => d.req = Touching(log[src].targets, d.obs)
<1>1. Distinct(RetainedCases) /\ \A x \in ToSet(RetainedCases) : KeptCase(x, Carried(RetainedCases), Told)
  BY DEF KeptList
<1>2. PICK f \in ToSet(RetainedCases) : o \in Assigned(f) /\ (c.pri = "P0" => f.pri = "P0")
  BY <1>1, AssignedToOne
<1>3. PICK ids : ids = Assigned(f)
  OBVIOUS
<1>4. ids # {} /\ ids \subseteq f.obs
  BY <1>2, <1>3 DEF Assigned
<1>5. PICK d : d = CaseReviewed(f, ids, src)
  OBVIOUS
<1>6. {"id", "pri", "obs", "req", "plan"} \subseteq DOMAIN f
  BY <1>1 DEF KeptCase
<1>7. /\ d.obs = ids
      /\ f.pri = "P0" => d.pri = "P0"
      /\ ids \subseteq Names(src) => d.req = Touching(log[src].targets, ids)
  BY ONLY <1>4, <1>5, <1>6, CaseIsReviewed
<1>8. d \in ToSet(q)
  <2>1. \A x \in ToSet(RetainedCases) : Assigned(x) # {} => CaseReviewed(x, Assigned(x), src) \in ToSet(q)
    BY PlanCasesAre
  <2>2. CaseReviewed(f, Assigned(f), src) \in ToSet(q)
    BY <1>3, <1>4, <2>1
  <2> QED
    BY <1>3, <1>5, <2>2
<1> QED
  BY <1>2, <1>3, <1>4, <1>7, <1>8

\* The cases of a plan are kept cases, and take the retained ones over where no
\* later plan overtook it and it weakens nothing.
LEMMA PlanCasesKept ==
    ASSUME WellKept, PlansKept, KeptList(RetainedCases, Told),
           NEW src \in DOMAIN log, log[src].kind = "PLAN", NEW q, q = PlanCases(src)
    PROVE  /\ KeptList(q, Told) /\ Carried(RetainedCases) \subseteq Carried(q)
           /\ ~Weakens(log[src].targets) /\ ~Outdated(src) => Takes(RetainedCases, q)
<1>1. RiskCases(RetainedCases)
  BY RetainedRisk
<1>2. PICK R : R = RetainedCases
  OBVIOUS
<1>3. PICK P : P = Told
  OBVIOUS
<1>4. PICK t : t = log[src].targets
  OBVIOUS
<1>5. PICK O : O = Carried(R)
  OBVIOUS
<1>6. PICK A : A = Names(src)
  OBVIOUS
<1>7. /\ Said(t) \subseteq P
      /\ ~Outdated(src) /\ t # <<>> => P \subseteq Said(t)
  BY <1>3, <1>4, PlanTold
<1>8. \A s \in DOMAIN t : t[s].qty \in Nat
  BY <1>4 DEF PlansKept, Of
<1>9. Free(t)
  BY <1>4 DEF WellKept, Entry, PlanEntry
<1>10. \A c \in ToSet(R) : KeptCase(c, O, P)
  BY <1>2, <1>3, <1>5 DEF KeptList
<1>11. CASE A = {}
  <2>1. q = R
    BY <1>2, <1>6, <1>11, Zenon DEF PlanCases, Names
  <2> QED
    BY <1>2, <2>1, TakesItself
<1>12. CASE A # {}
  <2>1. /\ Distinct(q)
        /\ Unheld(src) # {} => NewOf(src) \in ToSet(q)
        /\ \A d \in ToSet(q) :
              \/ \E c \in ToSet(R) : Assigned(c) # {} /\ d = CaseReviewed(c, Assigned(c), src)
              \/ Unheld(src) # {} /\ d = NewOf(src)
    BY <1>1, <1>2, <1>4, <1>6, <1>9, <1>12, PlanCasesAre
  <2>2. ASSUME NEW c \in ToSet(R), NEW o \in c.obs
        PROVE  \E d \in ToSet(q) : \E f \in ToSet(R) :
                  /\ o \in d.obs /\ d.obs \subseteq f.obs
                  /\ c.pri = "P0" => d.pri = "P0"
                  /\ d.obs \subseteq A => d.req = Touching(t, d.obs)
    <3>1. \E d \in ToSet(q) : \E f \in ToSet(R) :
              /\ o \in d.obs /\ d.obs \subseteq f.obs
              /\ c.pri = "P0" => d.pri = "P0"
              /\ d.obs \subseteq Names(src) => d.req = Touching(log[src].targets, d.obs)
      BY <1>1, <1>2, <1>4, <1>6, <1>9, <1>12, PlanCaseOf
    <3> QED
      BY <1>4, <1>6, <3>1
  <2>3. O \subseteq Carried(q)
    <3> SUFFICES ASSUME NEW o \in O PROVE o \in Carried(q)
      OBVIOUS
    <3>1. PICK c \in ToSet(R) : o \in c.obs
      BY <1>5 DEF Carried
    <3>2. \E d \in ToSet(q) : o \in d.obs
      BY <2>2, <3>1
    <3> QED
      BY <3>2 DEF Carried
  <2>4. A \subseteq Carried(q)
    <3>1. A \subseteq O \cup Unheld(src)
      BY <1>2, <1>5, <1>6 DEF Unheld
    <3>2. Unheld(src) \subseteq Carried(q)
      <4>1. CASE Unheld(src) = {}
        BY <4>1
      <4>2. CASE Unheld(src) # {}
        <5>1. PICK d \in ToSet(q) : d = NewOf(src)
          BY <2>1, <4>2
        <5>2. d.obs = Unheld(src)
          BY <5>1, NewOfIs
        <5> QED
          BY <5>2 DEF Carried
      <4> QED
        BY <4>1, <4>2
    <3> QED
      BY <2>3, <3>1, <3>2
  <2>5. PICK U : U = Carried(q)
    OBVIOUS
  <2>6. A \subseteq {p[2] : p \in P}
    <3> SUFFICES ASSUME NEW o \in A PROVE \E p \in P : o = p[2]
      OBVIOUS
    <3>1. PICK s \in DOMAIN t : o \in t[s].obs
      BY <1>4, <1>6 DEF Names
    <3>2. <<s, o>> \in P
      BY <1>7, <3>1, SaidIs
    <3> QED
      BY <3>2
  <2>7. ASSUME NEW ids, NEW req, req = Touching(t, ids)
        PROVE  \A s \in DOMAIN req :
                  /\ req[s].qty \in Nat
                  /\ req[s].obs # {} /\ req[s].obs \subseteq U
                  /\ \A o \in req[s].obs : <<s, o>> \in P
    <3> SUFFICES ASSUME NEW s \in DOMAIN req
                 PROVE  /\ req[s].qty \in Nat
                        /\ req[s].obs # {} /\ req[s].obs \subseteq U
                        /\ \A o \in req[s].obs : <<s, o>> \in P
      OBVIOUS
    <3>1. s \in DOMAIN t /\ t[s].obs \cap ids # {} /\ req[s] = t[s]
      BY <2>7 DEF Touching, Restricted
    <3>2. t[s].obs \subseteq U
      BY <1>4, <1>6, <2>4, <2>5, <3>1 DEF Names
    <3>3. \A o \in t[s].obs : <<s, o>> \in P
      BY <1>7, <3>1 DEF Said
    <3> QED
      BY <1>8, <3>1, <3>2, <3>3
  <2>8. ASSUME NEW d \in ToSet(q) PROVE KeptCase(d, U, P)
    <3>1. CASE \E c \in ToSet(R) : Assigned(c) # {} /\ d = CaseReviewed(c, Assigned(c), src)
      <4>1. PICK c \in ToSet(R) : Assigned(c) # {} /\ d = CaseReviewed(c, Assigned(c), src)
        BY <3>1
      <4>2. PICK ids : ids = Assigned(c)
        OBVIOUS
      <4>3. ids # {} /\ ids \subseteq c.obs /\ d = CaseReviewed(c, ids, src)
        BY <4>1, <4>2 DEF Assigned
      <4>4. KeptCase(c, O, P)
        BY <1>10
      <4>5. {"id", "pri", "obs", "req", "plan"} \subseteq DOMAIN c
        BY <4>4 DEF KeptCase
      <4>6. /\ {"id", "pri", "obs", "req", "plan"} \subseteq DOMAIN d
            /\ d.id = c.id /\ d.obs = ids
            /\ ids \subseteq Names(src) => d.req = Touching(log[src].targets, ids)
            /\ ~(ids \subseteq Names(src)) => d.req = c.req
        BY ONLY <4>3, <4>5, CaseIsReviewed
      <4>7. d.id[2] # {} /\ d.id[2] \subseteq U
        BY <2>3, <2>5, <4>4, <4>6 DEF KeptCase
      <4>8. d.obs \subseteq {p[2] : p \in P}
        BY <4>3, <4>4, <4>6 DEF KeptCase
      <4>9. \A s \in DOMAIN d.req :
               /\ d.req[s].qty \in Nat
               /\ d.req[s].obs # {} /\ d.req[s].obs \subseteq U
               /\ \A o \in d.req[s].obs : <<s, o>> \in P
        <5>1. CASE ids \subseteq Names(src)
          BY <1>4, <2>7, <4>6, <5>1
        <5>2. CASE ~(ids \subseteq Names(src))
          <6>1. d.req = c.req /\ O \subseteq U
            BY <2>3, <2>5, <4>6, <5>2
          <6> QED
            BY <4>4, <6>1 DEF KeptCase
        <5> QED
          BY <5>1, <5>2
      <4> QED
        BY <4>6, <4>7, <4>8, <4>9 DEF KeptCase
    <3>2. CASE Unheld(src) # {} /\ d = NewOf(src)
      <4>1. PICK N : N = Unheld(src)
        OBVIOUS
      <4>2. /\ {"id", "pri", "obs", "req", "plan"} \subseteq DOMAIN d
            /\ d.id[2] = N /\ d.obs = N /\ d.req = Touching(t, N)
        BY <1>4, <3>2, <4>1, NewOfIs
      <4>3. N # {} /\ N \subseteq A
        BY <1>6, <3>2, <4>1 DEF Unheld
      <4>4. d.id[2] # {} /\ d.id[2] \subseteq U /\ d.obs \subseteq {p[2] : p \in P}
        BY <2>4, <2>5, <2>6, <4>2, <4>3
      <4>5. \A s \in DOMAIN d.req :
               /\ d.req[s].qty \in Nat
               /\ d.req[s].obs # {} /\ d.req[s].obs \subseteq U
               /\ \A o \in d.req[s].obs : <<s, o>> \in P
        BY <2>7, <4>2
      <4> QED
        BY <4>2, <4>4, <4>5 DEF KeptCase
    <3> QED
      BY <2>1, <3>1, <3>2
  <2>9. ASSUME ~Weakens(t), ~Outdated(src) PROVE Takes(R, q)
    <3> SUFFICES ASSUME NEW c \in ToSet(R), NEW s \in DOMAIN c.req
                 PROVE  \E d \in ToSet(q) : Asks(c, d, s)
      BY DEF Takes
    <3>1. P \subseteq Said(t)
      <4>1. t # <<>>
        <5>1. DOMAIN <<>> = {}
          OBVIOUS
        <5> QED
          BY <1>4, <1>6, <1>12, <5>1 DEF Names
      <4> QED
        BY <1>7, <2>9, <4>1
    <3>2. {p[2] : p \in P} \subseteq A
      <4> SUFFICES ASSUME NEW p \in P PROVE p[2] \in A
        OBVIOUS
      <4>1. PICK x \in DOMAIN t : \E o \in t[x].obs : p = <<x, o>>
        BY <3>1, SaidPair
      <4>2. PICK o \in t[x].obs : p = <<x, o>>
        BY <4>1
      <4> QED
        BY <1>4, <1>6, <4>2 DEF Names
    <3>3. /\ c.req[s].qty \in Nat
          /\ c.req[s].obs # {} /\ c.req[s].obs \subseteq O
          /\ \A o \in c.req[s].obs : s \in DOMAIN t /\ o \in t[s].obs
      <4>1. /\ c.req[s].qty \in Nat
            /\ c.req[s].obs # {} /\ c.req[s].obs \subseteq O
            /\ \A o \in c.req[s].obs : <<s, o>> \in P
        BY <1>10 DEF KeptCase
      <4>2. \A o \in c.req[s].obs : <<s, o>> \in Said(t)
        BY <3>1, <4>1
      <4> QED
        BY <4>1, <4>2, SaidIs
    <3>4. s \in DOMAIN t
      BY <3>3
    <3>5. t[s].qty <= c.req[s].qty
      <4>1. PICK k \in DOMAIN R : R[k] = c
        BY DEF ToSet
      <4>2. ~(R[k].req[s].qty < t[s].qty)
        BY <1>2, <2>9, <3>4, <4>1 DEF Weakens
      <4> QED
        BY <1>8, <3>3, <3>4, <4>1, <4>2
    <3>6. PICK o \in c.req[s].obs : c.obs \cap c.req[s].obs # {} => o \in c.obs
      BY <3>3
    <3>7. PICK x \in ToSet(R) : o \in x.obs /\ (c.obs \cap c.req[s].obs # {} => x = c)
      <4>1. CASE c.obs \cap c.req[s].obs # {}
        BY <3>6, <4>1
      <4>2. CASE c.obs \cap c.req[s].obs = {}
        <5>1. \E y \in ToSet(R) : o \in y.obs
          BY <1>5, <3>3 DEF Carried
        <5> QED
          BY <4>2, <5>1
      <4> QED
        BY <4>1, <4>2
    <3>8. PICK d \in ToSet(q) : \E f \in ToSet(R) :
                  /\ o \in d.obs /\ d.obs \subseteq f.obs
                  /\ x.pri = "P0" => d.pri = "P0"
                  /\ d.obs \subseteq A => d.req = Touching(t, d.obs)
      BY <2>2, <3>7
    <3>9. d.obs \subseteq A
      BY <1>10, <3>2, <3>8 DEF KeptCase
    <3>10. d.req = Touching(t, d.obs) /\ o \in d.obs /\ (x.pri = "P0" => d.pri = "P0")
      BY <3>8, <3>9
    <3>11. s \in DOMAIN d.req /\ d.req[s] = t[s]
      <4>1. o \in t[s].obs \cap d.obs
        BY <3>3, <3>10
      <4> QED
        BY <3>4, <3>10, <4>1 DEF Touching, Restricted
    <3> QED
      BY <3>5, <3>7, <3>10, <3>11 DEF Asks
  <2>10. KeptList(q, P)
    BY <2>1, <2>5, <2>8 DEF KeptList
  <2> QED
    BY <1>2, <1>3, <1>4, <1>5, <2>3, <2>9, <2>10
<1> QED
  BY <1>11, <1>12

\* Cases that hold no less.
LEMMA MappedCarries ==
    ASSUME NEW q, NEW u, DOMAIN u = DOMAIN q, \A k \in DOMAIN q : q[k].obs \subseteq u[k].obs
    PROVE  Carried(q) \subseteq Carried(u)
<1> SUFFICES ASSUME NEW o \in Carried(q) PROVE o \in Carried(u)
  OBVIOUS
<1>1. PICK k \in DOMAIN q : o \in q[k].obs
  BY DEF Carried, ToSet
<1>2. u[k] \in ToSet(u) /\ o \in u[k].obs
  BY <1>1 DEF ToSet
<1> QED
  BY <1>2 DEF Carried

\* Cases replaced one by one, under their identities, by kept ones.
LEMMA MappedKept ==
    ASSUME NEW q, Distinct(q), NEW P, NEW u, DOMAIN u = DOMAIN q,
           \A k \in DOMAIN q : u[k].id = q[k].id /\ KeptCase(u[k], Carried(u), P)
    PROVE  KeptList(u, P)
<1>1. Distinct(u)
  BY DEF Distinct
<1>2. ASSUME NEW d \in ToSet(u) PROVE KeptCase(d, Carried(u), P)
  BY DEF ToSet
<1> QED
  BY <1>1, <1>2 DEF KeptList

\* The retained cases, without their plans, are kept and taken over.
LEMMA UnplannedKept ==
    ASSUME NEW P, KeptList(RetainedCases, P), NEW u, u = Unplanned(RetainedCases)
    PROVE  /\ KeptList(u, P) /\ Carried(RetainedCases) \subseteq Carried(u)
           /\ Takes(RetainedCases, u)
<1>1. PICK R : R = RetainedCases
  OBVIOUS
<1>2. DOMAIN u = DOMAIN R /\ \A k \in DOMAIN R : u[k] = [R[k] EXCEPT !.plan = 0]
  BY <1>1 DEF Unplanned
<1>3. \A k \in DOMAIN R : KeptCase(R[k], Carried(R), P)
  BY <1>1 DEF KeptList, ToSet
<1>4. \A k \in DOMAIN R : /\ DOMAIN u[k] = DOMAIN R[k]
                          /\ u[k].id = R[k].id /\ u[k].obs = R[k].obs
                          /\ u[k].pri = R[k].pri /\ u[k].req = R[k].req
  BY <1>2, <1>3 DEF KeptCase
<1>5. \A k \in DOMAIN R : KeptCase(u[k], Carried(R), P)
  BY <1>3, <1>4 DEF KeptCase
<1>6. KeptList(u, P) /\ Carried(R) \subseteq Carried(u)
  <2>1. Carried(R) \subseteq Carried(u)
    BY <1>2, <1>4, MappedCarries
  <2>2. \A k \in DOMAIN R : KeptCase(u[k], Carried(u), P)
    BY <1>5, <2>1, KeptMore
  <2>3. Distinct(R)
    BY <1>1 DEF KeptList
  <2> QED
    BY <1>2, <1>4, <2>1, <2>2, <2>3, MappedKept
<1>7. Takes(R, u)
  <2> SUFFICES ASSUME NEW c \in ToSet(R), NEW s \in DOMAIN c.req
               PROVE  \E d \in ToSet(u) : Asks(c, d, s)
    BY DEF Takes
  <2>1. PICK k \in DOMAIN R : c = R[k]
    BY DEF ToSet
  <2>2. u[k] \in ToSet(u)
    BY <1>2 DEF ToSet
  <2>3. c.req[s].qty \in Nat
    BY <1>3, <2>1 DEF KeptCase
  <2>4. Asks(c, u[k], s)
    BY <1>4, <2>1, <2>3 DEF Asks
  <2> QED
    BY <2>2, <2>4
<1> QED
  BY <1>1, <1>6, <1>7

-----------------------------------------------------------------------------
(* What protective events own.                                             *)

\* A conjunction of units is in units.
LEMMA ConjoinUnits ==
    ASSUME NEW S, \A t \in S : \A s \in DOMAIN t : t[s].qty \in Nat
    PROVE  \A s \in DOMAIN Conjoin(S) : Conjoin(S)[s].qty \in Nat
<1> DEFINE on(s) == {t \in S : s \in DOMAIN t}
           qtys(s) == {t[s].qty : t \in on(s)}
<1>1. Conjoin(S) = [s \in UNION {DOMAIN t : t \in S} |->
           [qty |-> Least(qtys(s)), obs |-> UNION {t[s].obs : t \in on(s)}]]
  BY Zenon DEF Conjoin
<1>2. PICK D : D = UNION {DOMAIN t : t \in S}
  OBVIOUS
<1>3. DOMAIN Conjoin(S) = D
  BY <1>1, <1>2
<1> SUFFICES ASSUME NEW s \in D PROVE Conjoin(S)[s].qty \in Nat
  BY <1>3
<1>4. PICK q : q = Least(qtys(s))
  OBVIOUS
<1>5. PICK o : o = UNION {t[s].obs : t \in on(s)}
  OBVIOUS
<1>6. Conjoin(S)[s] = [qty |-> q, obs |-> o]
  BY <1>1, <1>2, <1>4, <1>5, Zenon
<1>7. Conjoin(S)[s].qty = q
  BY <1>6
<1>8. qtys(s) \subseteq Nat /\ qtys(s) # {}
  BY <1>2
<1>9. q \in Nat
  <2> HIDE DEF qtys
  <2> QED
    BY <1>4, <1>8, LeastIn
<1> QED
  BY <1>7, <1>9

\* The sales of a plan are targets of it that rest on obligations.
LEMMA SalesAre ==
    ASSUME NEW n, NEW s \in DOMAIN Sales(n)
    PROVE  /\ s \in DOMAIN log[n].targets /\ log[n].targets[s].obs # {}
           /\ Sales(n)[s] = log[n].targets[s]
BY DEF Sales, OwedTargets, Restricted

\* What events own was said by plans.
LEMMA OwnedIs ==
    ASSUME WellKept, PlansKept, NEW req, \A n \in PlanSources(req) : Owning(n, req.cut),
           NEW w, w = OwnedBy(req)
    PROVE  \A s \in DOMAIN w :
              /\ w[s].qty \in Nat /\ w[s].obs # {}
              /\ \A o \in w[s].obs : <<s, o>> \in Told
<1>1. PICK S : S = {Restricted(Sales(n), DOMAIN Sales(n) \cap req.hit) : n \in PlanSources(req)}
  OBVIOUS
<1>2. w = Conjoin(S)
  BY <1>1 DEF OwnedBy
<1>3. ASSUME NEW t \in S, NEW s \in DOMAIN t
      PROVE  t[s].qty \in Nat /\ t[s].obs # {} /\ \A o \in t[s].obs : <<s, o>> \in Told
  <2>1. PICK n \in PlanSources(req) : t = Restricted(Sales(n), DOMAIN Sales(n) \cap req.hit)
    BY <1>1
  <2>2. s \in DOMAIN Sales(n) /\ t[s] = Sales(n)[s]
    BY <2>1 DEF Restricted
  <2>3. /\ s \in DOMAIN log[n].targets /\ log[n].targets[s].obs # {}
        /\ t[s] = log[n].targets[s]
    BY <2>2, SalesAre
  <2>4. n \in DOMAIN log /\ log[n].kind = "PLAN" /\ n \in Of({"PLAN"})
    BY <2>1 DEF Owning, Of
  <2>5. log[n].targets[s].qty \in Nat
    BY <2>3, <2>4 DEF PlansKept
  <2>6. Said(log[n].targets) \subseteq Told
    BY <2>4, PlanTold
  <2>7. \A o \in log[n].targets[s].obs : <<s, o>> \in Said(log[n].targets)
    BY <2>3 DEF Said
  <2> QED
    BY <2>3, <2>5, <2>6, <2>7
<1> SUFFICES ASSUME NEW s \in DOMAIN w
             PROVE  /\ w[s].qty \in Nat /\ w[s].obs # {}
                    /\ \A o \in w[s].obs : <<s, o>> \in Told
  OBVIOUS
<1>4. w[s].qty \in Nat
  BY <1>2, <1>3, ConjoinUnits
<1>5. /\ DOMAIN w = UNION {DOMAIN t : t \in S}
      /\ w[s].obs = UNION {t[s].obs : t \in {u \in S : s \in DOMAIN u}}
  BY <1>2, ConjoinIs
<1>6. PICK t \in S : s \in DOMAIN t
  BY <1>5
<1>7. w[s].obs # {}
  BY <1>3, <1>5, <1>6
<1>8. \A o \in w[s].obs : <<s, o>> \in Told
  BY <1>3, <1>5
<1> QED
  BY <1>4, <1>7, <1>8

\* A case that another one goes on, whatever it asks for besides.
Continues(c, d) ==
    /\ c.obs \subseteq d.obs
    /\ c.pri = "P0" => d.pri = "P0"
    /\ \A s \in DOMAIN c.req : s \in DOMAIN d.req /\ d.req[s] = c.req[s]

\* Every case of q goes on in u, where none of them asks about s yet.
Continued(q, u) == \A c \in ToSet(q) : \E d \in ToSet(u) : Continues(c, d)

\* Then no obligation is lost.
LEMMA ContinuedIs ==
    ASSUME NEW q, NEW u, Continued(q, u)
    PROVE  Carried(q) \subseteq Carried(u)
<1> SUFFICES ASSUME NEW o \in Carried(q) PROVE o \in Carried(u)
  OBVIOUS
<1>1. PICK c \in ToSet(q) : o \in c.obs
  BY DEF Carried
<1>2. PICK d \in ToSet(u) : Continues(c, d)
  BY DEF Continued
<1> QED
  BY <1>1, <1>2 DEF Continues, Carried

\* What a newly owned security makes of a case.
LEMMA ExtendedIs ==
    ASSUME NEW c, {"id", "pri", "obs", "req", "plan"} \subseteq DOMAIN c, NEW s, NEW req,
           NEW t, t = OwnedBy(req)[s], NEW e, e = Extended(c, s, req)
    PROVE  /\ {"id", "pri", "obs", "req", "plan"} \subseteq DOMAIN e
           /\ e.id = c.id /\ e.pri = c.pri /\ e.obs = c.obs \cup t.obs
           /\ DOMAIN e.req = DOMAIN c.req \cup {s}
           /\ e.req[s].qty = t.qty /\ e.req[s].obs = t.obs
           /\ \A x \in DOMAIN c.req : x # s => e.req[x] = c.req[x]
<1>1. PICK r : r = Beside(Only(s, t.qty, t.obs), c.req)
  OBVIOUS
<1>2. PICK o : o = c.obs \cup t.obs
  OBVIOUS
<1>3. PICK a, b : a = Least(SourcesOf(req, s)) /\ b = Sources(c)
  OBVIOUS
<1>4. e = [c EXCEPT !.req = r, !.obs = o, !.src = a, !.srcs = b]
  BY <1>1, <1>2, <1>3, Zenon DEF Extended
<1>5. /\ DOMAIN e = DOMAIN c /\ e.id = c.id /\ e.pri = c.pri
      /\ e.req = r /\ e.obs = o
  BY <1>4
<1>6. PICK m : m = Only(s, t.qty, t.obs)
  OBVIOUS
<1>7. DOMAIN m = {s} /\ m[s].qty = t.qty /\ m[s].obs = t.obs
  BY <1>6 DEF Only
<1>8. /\ DOMAIN r = {s} \cup DOMAIN c.req /\ r[s] = m[s]
      /\ \A x \in DOMAIN c.req : x # s => r[x] = c.req[x]
  BY <1>1, <1>6, <1>7 DEF Beside
<1> QED
  BY <1>2, <1>5, <1>7, <1>8

\* A security that no retained case covers joins the cases.
LEMMA JoinKept ==
    ASSUME NEW q, RiskCases(q), NEW P, KeptList(q, P), NEW s, NEW req,
           NEW t, t = OwnedBy(req)[s], t.qty \in Nat, t.obs # {},
           \A o \in t.obs : <<s, o>> \in P,
           NEW R, Continued(R, q), \A c \in ToSet(R) : s \notin DOMAIN c.req,
           NEW u, u = Join(q, s, req)
    PROVE  KeptList(u, P) /\ Continued(R, u)
<1>1. IsSeq(q) /\ DOMAIN q \subseteq Nat \ {0}
  <2>1. IsSeq(q)
    BY DEF RiskCases
  <2> QED
    BY <2>1, Indices
<1>2. /\ Distinct(q) /\ \A k \in DOMAIN q : KeptCase(q[k], Carried(q), P) /\ q[k] \in ToSet(q)
      /\ \A c \in ToSet(q) : KeptCase(c, Carried(q), P)
  BY DEF KeptList, ToSet
<1>3. t.obs \subseteq {p[2] : p \in P}
  <2> SUFFICES ASSUME NEW o \in t.obs PROVE \E p \in P : o = p[2]
    OBVIOUS
  <2>1. <<s, o>> \in P
    OBVIOUS
  <2> QED
    BY <2>1
<1>4. PICK places : places = {j \in DOMAIN q : q[j].obs \cap t.obs # {}}
  OBVIOUS
<1>5. PICK k : k = First(places)
  OBVIOUS
<1>6. IF k = 0 THEN places = {} ELSE k \in DOMAIN q
  <2>1. CASE places = {}
    BY <1>5, <2>1 DEF First
  <2>2. CASE places # {}
    <3>1. places \subseteq Nat /\ places \subseteq DOMAIN q
      BY <1>1, <1>4
    <3>2. k \in places
      BY <1>5, <2>2, <3>1, LeastIn DEF First
    <3> QED
      BY <1>1, <3>1, <3>2
  <2> QED
    BY <2>1, <2>2
<1>7. PICK item : item = NewCase(<<s, t.obs>>, Least(SourcesOf(req, s)), SourcesOf(req, s), t.obs,
                                 IF s \in req.shield THEN "P0" ELSE "P1", 0, Only(s, t.qty, t.obs))
  OBVIOUS
<1>8. u = IF k = 0 THEN Put(q, item) ELSE [q EXCEPT ![k] = Extended(q[k], s, req)]
  BY <1>4, <1>5, <1>7, Zenon DEF Join
<1>9. CASE k = 0
  <2>1. PICK m : m = Only(s, t.qty, t.obs)
    OBVIOUS
  <2>2. DOMAIN m = {s} /\ m[s].qty = t.qty /\ m[s].obs = t.obs
    BY <2>1 DEF Only
  <2>3. PICK id : id = <<s, t.obs>>
    OBVIOUS
  <2>4. PICK a, b, level : item = NewCase(id, a, b, t.obs, level, 0, m)
    BY <1>7, <2>1, <2>3, Zenon
  <2>5. /\ {"id", "pri", "obs", "req", "plan"} \subseteq DOMAIN item
        /\ item.id = id /\ item.obs = t.obs /\ item.req = m
    BY <2>4 DEF NewCase
  <2>6. item.id[2] = t.obs
    BY <2>3, <2>5
  <2>7. t.obs \cap Carried(q) = {}
    <3> SUFFICES ASSUME NEW o \in t.obs, o \in Carried(q) PROVE FALSE
      OBVIOUS
    <3>1. PICK j \in DOMAIN q : o \in q[j].obs
      BY DEF Carried, ToSet
    <3>2. j \in places
      BY <1>4, <3>1
    <3> QED
      BY <1>6, <1>9, <3>2
  <2>8. \A x \in ToSet(q) : x.id # item.id
    BY <1>2, <2>6, <2>7 DEF KeptCase
  <2>9. PICK T : q \in Seq(T) /\ item \in T
    <3>1. PICK S : S = {q[j] : j \in DOMAIN q}
      OBVIOUS
    <3>2. q \in Seq(S)
      BY <1>1, <3>1 DEF IsSeq
    <3>3. q \in Seq(S \cup {item})
      BY <3>2
    <3> QED
      BY <3>3
  <2>10. u = Put(q, item)
    BY <1>8, <1>9
  <2>11. /\ Distinct(u) /\ item \in ToSet(u)
         /\ \A x \in ToSet(q) : x.id # item.id => x \in ToSet(u)
         /\ \A x \in ToSet(u) : x = item \/ x \in ToSet(q)
    BY ONLY <1>2, <2>9, <2>10, PutOne
  <2>12. \A x \in ToSet(q) : x \in ToSet(u)
    BY <2>8, <2>11
  <2>13. Continued(R, u)
    BY <2>12 DEF Continued
  <2>14. Carried(q) \subseteq Carried(u) /\ t.obs \subseteq Carried(u)
    BY <2>5, <2>11, <2>12 DEF Carried
  <2>15. KeptCase(item, Carried(u), P)
    BY <1>3, <2>2, <2>5, <2>6, <2>14 DEF KeptCase
  <2>16. \A x \in ToSet(u) : KeptCase(x, Carried(u), P)
    <3> TAKE x \in ToSet(u)
    <3>1. CASE x = item
      BY <2>15, <3>1
    <3>2. CASE x \in ToSet(q)
      BY <1>2, <2>14, <3>2, KeptMore
    <3> QED
      BY <2>11, <3>1, <3>2
  <2> QED
    BY <2>11, <2>13, <2>16 DEF KeptList
<1>10. CASE k # 0
  <2>1. PICK e : e = Extended(q[k], s, req)
    OBVIOUS
  <2>2. u = [q EXCEPT ![k] = e] /\ k \in DOMAIN q
    BY <1>6, <1>8, <1>10, <2>1
  <2>3. DOMAIN u = DOMAIN q /\ u[k] = e /\ \A j \in DOMAIN q : j # k => u[j] = q[j]
    BY <2>2
  <2>4. PICK c : c = q[k]
    OBVIOUS
  <2>5. KeptCase(c, Carried(q), P) /\ c \in ToSet(q)
    BY <1>2, <2>2, <2>4
  <2>6. {"id", "pri", "obs", "req", "plan"} \subseteq DOMAIN c
    BY <2>5 DEF KeptCase
  <2>7. /\ {"id", "pri", "obs", "req", "plan"} \subseteq DOMAIN e
        /\ e.id = c.id /\ e.pri = c.pri /\ e.obs = c.obs \cup t.obs
        /\ DOMAIN e.req = DOMAIN c.req \cup {s}
        /\ e.req[s].qty = t.qty /\ e.req[s].obs = t.obs
        /\ \A x \in DOMAIN c.req : x # s => e.req[x] = c.req[x]
    <3>1. e = Extended(c, s, req)
      BY <2>1, <2>4
    <3> QED
      BY <2>6, <3>1, ExtendedIs
  <2>8. Distinct(u)
    BY <1>2, <2>3, <2>4, <2>7 DEF Distinct
  <2>9. \A x \in ToSet(u) : x = e \/ x \in ToSet(q)
    BY <2>3 DEF ToSet
  <2>10. e \in ToSet(u) /\ \A x \in ToSet(q) : x = c \/ x \in ToSet(u)
    <3>1. e \in ToSet(u)
      BY <2>2, <2>3 DEF ToSet
    <3>2. ASSUME NEW x \in ToSet(q), x # c PROVE x \in ToSet(u)
      <4>1. PICK j \in DOMAIN q : x = q[j]
        BY DEF ToSet
      <4>2. j # k /\ u[j] = x
        BY <2>3, <2>4, <3>2, <4>1
      <4> QED
        BY <2>3, <4>1, <4>2 DEF ToSet
    <3> QED
      BY <3>1, <3>2
  <2>11. Carried(q) \subseteq Carried(u) /\ t.obs \subseteq Carried(u)
    <3>1. t.obs \subseteq Carried(u) /\ c.obs \subseteq Carried(u)
      BY <2>7, <2>10 DEF Carried
    <3>2. ASSUME NEW o \in Carried(q) PROVE o \in Carried(u)
      <4>1. PICK x \in ToSet(q) : o \in x.obs
        BY DEF Carried
      <4>2. CASE x = c
        BY <3>1, <4>1, <4>2
      <4>3. CASE x # c
        BY <2>10, <4>1, <4>3 DEF Carried
      <4> QED
        BY <4>2, <4>3
    <3> QED
      BY <3>1, <3>2
  <2>12. KeptCase(e, Carried(u), P)
    <3>1. \A x \in DOMAIN e.req :
             /\ e.req[x].qty \in Nat
             /\ e.req[x].obs # {} /\ e.req[x].obs \subseteq Carried(u)
             /\ \A o \in e.req[x].obs : <<x, o>> \in P
      <4> TAKE x \in DOMAIN e.req
      <4>1. CASE x = s
        BY <2>7, <2>11, <4>1
      <4>2. CASE x # s
        <5>1. x \in DOMAIN c.req /\ e.req[x] = c.req[x]
          BY <2>7, <4>2
        <5> QED
          BY <2>5, <2>11, <5>1 DEF KeptCase
      <4> QED
        BY <4>1, <4>2
    <3>2. e.obs \subseteq {p[2] : p \in P}
      BY <1>3, <2>5, <2>7 DEF KeptCase
    <3>3. e.id[2] # {} /\ e.id[2] \subseteq Carried(u)
      BY <2>5, <2>7, <2>11 DEF KeptCase
    <3> QED
      BY <2>7, <3>1, <3>2, <3>3 DEF KeptCase
  <2>13. \A x \in ToSet(u) : KeptCase(x, Carried(u), P)
    <3> TAKE x \in ToSet(u)
    <3>1. CASE x = e
      BY <2>12, <3>1
    <3>2. CASE x \in ToSet(q)
      BY <1>2, <2>11, <3>2, KeptMore
    <3> QED
      BY <2>9, <3>1, <3>2
  <2>14. Continued(R, u)
    <3> SUFFICES ASSUME NEW x \in ToSet(R) PROVE \E d \in ToSet(u) : Continues(x, d)
      BY DEF Continued
    <3>1. PICK d \in ToSet(q) : Continues(x, d)
      BY DEF Continued
    <3>2. CASE d = c
      <4>1. s \notin DOMAIN x.req
        OBVIOUS
      <4>2. Continues(x, e)
        BY <2>7, <3>1, <3>2, <4>1 DEF Continues
      <4> QED
        BY <2>10, <4>2
    <3>3. CASE d # c
      BY <2>10, <3>1, <3>3
    <3> QED
      BY <3>2, <3>3
  <2> QED
    BY <2>8, <2>13, <2>14 DEF KeptList
<1> QED
  BY <1>9, <1>10

\* So do all of them.
LEMMA JoinedKept ==
    ASSUME RiskCases(RetainedCases), NEW P, KeptList(RetainedCases, P), NEW req,
           NEW w, w = OwnedBy(req),
           \A s \in DOMAIN w : w[s].qty \in Nat /\ w[s].obs # {} /\ \A o \in w[s].obs : <<s, o>> \in P,
           NEW q, q = Joined(req)
    PROVE  KeptList(q, P) /\ Continued(RetainedCases, q) /\ RiskCases(q)
<1>1. PICK N \in Nat : N = Cardinality(Securities)
  BY MonitoringConstants, FS_CardinalityType
<1>2. PICK R : R = RetainedCases
  OBVIOUS
<1>3. PICK h : /\ q = h[N]
               /\ h[0] = R
               /\ \A k \in 1 .. N :
                     h[k] = IF k \in DOMAIN w \ Covered THEN Join(h[k - 1], k, req) ELSE h[k - 1]
  <2>1. \E h : /\ Joined(req) = h[N]
               /\ h[0] = RetainedCases
               /\ \A k \in 1 .. N :
                     h[k] = IF k \in DOMAIN OwnedBy(req) \ Covered THEN Join(h[k - 1], k, req) ELSE h[k - 1]
    <3>1. PICK h : Joined(req) = h[Cardinality(Securities)] /\ JoinedBy(h, req)
      BY JoinedSteps
    <3> QED
      BY <1>1, <3>1, Zenon DEF JoinedBy
  <2> QED
    BY <1>2, <2>1, Zenon
<1> DEFINE Good(x) == RiskCases(x) /\ KeptList(x, P) /\ Continued(R, x)
           D == {k \in 0 .. N : Good(h[k])}
<1>4. 0 \in D
  <2>1. Continued(R, R)
    BY DEF Continued, Continues
  <2> QED
    BY <1>1, <1>2, <1>3, <2>1
<1>5. ASSUME NEW k \in 1 .. N, k - 1 \in D PROVE k \in D
  <2>1. PICK x : x = h[k - 1]
    OBVIOUS
  <2>2. Good(x) /\ k \in 0 .. N /\ k # 0
    BY <1>1, <1>5, <2>1
  <2>3. CASE k \in DOMAIN w \ Covered
    <3>1. PICK t : t = w[k]
      OBVIOUS
    <3>2. t.qty \in Nat /\ t.obs # {} /\ \A o \in t.obs : <<k, o>> \in P
      BY <2>3, <3>1
    <3>3. t = OwnedBy(req)[k]
      BY <3>1
    <3>4. \A c \in ToSet(R) : k \notin DOMAIN c.req
      BY <1>2, <2>3 DEF Covered
    <3>5. PICK y : y = Join(x, k, req)
      OBVIOUS
    <3>6. h[k] = y
      BY <1>3, <2>1, <2>3, <3>5
    <3>7. KeptList(y, P) /\ Continued(R, y)
      BY ONLY <2>2, <3>2, <3>3, <3>4, <3>5, JoinKept
    <3>8. RiskCases(y)
      BY <2>2, <3>5, JoinRisk
    <3> QED
      BY <2>2, <3>6, <3>7, <3>8
  <2>4. CASE k \notin DOMAIN w \ Covered
    BY <1>3, <2>1, <2>2, <2>4
  <2> QED
    BY <2>3, <2>4
<1>6. N \in D
  <2>1. N \in 0 .. N
    BY <1>1
  <2> HIDE DEF D
  <2> QED
    BY <1>1, <1>4, <1>5, <2>1, StepsReach
<1> QED
  BY <1>2, <1>3, <1>6

\* What the event says of the targets of a case.
LEMMA ShieldedIs ==
    ASSUME NEW c, NEW req, NEW w, w = OwnedBy(req), NEW d, d = Shielded(c, req)
    PROVE  /\ {"id", "pri", "obs", "req", "plan"} \subseteq DOMAIN d
           /\ d.id = c.id
           /\ c.pri = "P0" => d.pri = "P0"
           /\ d.obs = c.obs \cup UNION {w[s].obs : s \in DOMAIN c.req \cap DOMAIN w}
           /\ DOMAIN d.req = DOMAIN c.req
           /\ \A s \in DOMAIN c.req : d.req[s] = IF s \in DOMAIN w THEN w[s] ELSE c.req[s]
<1>1. PICK here : here = DOMAIN c.req \cap DOMAIN w
  OBVIOUS
<1>2. PICK srcs : srcs = (UNION {SourcesOf(req, s) : s \in here})
                         \cup IF DOMAIN c.req \subseteq here THEN {} ELSE Sources(c)
  OBVIOUS
<1>3. PICK obs : obs = c.obs \cup UNION {w[s].obs : s \in here}
  OBVIOUS
<1>4. PICK level : level = IF DOMAIN c.req \cap req.shield # {} THEN "P0" ELSE c.pri
  BY Zenon
<1>5. PICK r : r = [s \in DOMAIN c.req |-> IF s \in here THEN w[s] ELSE c.req[s]]
  OBVIOUS
<1>6. PICK a : a = Least(srcs)
  OBVIOUS
<1>7. d = NewCase(c.id, a, srcs, obs, level, 0, r)
  BY <1>1, <1>2, <1>3, <1>4, <1>5, <1>6, Zenon DEF Shielded
<1>8. /\ {"id", "pri", "obs", "req", "plan"} \subseteq DOMAIN d
      /\ d.id = c.id /\ d.pri = level /\ d.obs = obs /\ d.req = r
  BY <1>7 DEF NewCase
<1>9. /\ DOMAIN r = DOMAIN c.req
      /\ \A s \in DOMAIN c.req : r[s] = IF s \in DOMAIN w THEN w[s] ELSE c.req[s]
  BY <1>1, <1>5
<1>10. c.pri = "P0" => level = "P0"
  BY <1>4
<1> QED
  BY <1>1, <1>3, <1>8, <1>9, <1>10

\* Protective events leave kept cases, and take the retained ones over.
LEMMA ProtectionKept ==
    ASSUME WellKept, PlansKept, KeptList(RetainedCases, Told), NEW req,
           NEW q, q = AssessProtection(req).cases
    PROVE  /\ KeptList(q, Told) /\ Carried(RetainedCases) \subseteq Carried(q)
           /\ Takes(RetainedCases, q)
<1>1. PICK R : R = RetainedCases
  OBVIOUS
<1>2. PICK P : P = Told
  OBVIOUS
<1>3. PICK w : w = OwnedBy(req)
  OBVIOUS
<1>4. PICK j : j = Joined(req)
  OBVIOUS
<1>5. PICK u : u = [k \in DOMAIN j |-> Shielded(j[k], req)]
  OBVIOUS
<1>6. \/ AssessProtection(req) = Blocked("UNAVAILABLE")
      \/ AssessProtection(req) = Blocked("TARGET")
      \/ AssessProtection(req) = Blocked("WEAKENING")
      \/ /\ \A n \in PlanSources(req) : Owning(n, req.cut)
         /\ ~Weakens(OwnedBy(req))
         /\ AssessProtection(req) = Outcome("ASSESSED", "UNVERIFIED", [k \in DOMAIN Joined(req) |-> Shielded(Joined(req)[k], req)], 0)
  BY Zenon DEF AssessProtection
<1>7. \/ q = Unplanned(RetainedCases)
      \/ /\ \A n \in PlanSources(req) : Owning(n, req.cut)
         /\ ~Weakens(w)
         /\ q = u
  <2>1. \A x : Blocked(x).cases = Unplanned(RetainedCases)
    BY OutcomeIs DEF Blocked
  <2>2. Outcome("ASSESSED", "UNVERIFIED", u, 0).cases = u
    BY OutcomeIs
  <2>3. \/ AssessProtection(req) = Blocked("UNAVAILABLE")
        \/ AssessProtection(req) = Blocked("TARGET")
        \/ AssessProtection(req) = Blocked("WEAKENING")
        \/ /\ \A n \in PlanSources(req) : Owning(n, req.cut)
           /\ ~Weakens(w)
           /\ AssessProtection(req) = Outcome("ASSESSED", "UNVERIFIED", u, 0)
    BY <1>3, <1>4, <1>5, <1>6, Zenon
  <2> QED
    BY <2>1, <2>2, <2>3, Zenon
<1>8. CASE q = Unplanned(RetainedCases)
  BY <1>8, UnplannedKept
<1>9. CASE /\ \A n \in PlanSources(req) : Owning(n, req.cut)
           /\ ~Weakens(w)
           /\ q = u
  <2>1. \A s \in DOMAIN w : w[s].qty \in Nat /\ w[s].obs # {} /\ \A o \in w[s].obs : <<s, o>> \in P
    BY <1>2, <1>3, <1>9, OwnedIs
  <2>2. RiskCases(RetainedCases)
    BY RetainedRisk
  <2>3. KeptList(j, P) /\ Continued(R, j)
    <3>1. KeptList(j, P) /\ Continued(RetainedCases, j) /\ RiskCases(j)
      BY <1>2, <1>3, <1>4, <2>1, <2>2, JoinedKept
    <3> QED
      BY <1>1, <3>1
  <2>4. DOMAIN u = DOMAIN j /\ \A k \in DOMAIN j : u[k] = Shielded(j[k], req)
    BY <1>5
  <2>5. ASSUME NEW k \in DOMAIN j
        PROVE  /\ {"id", "pri", "obs", "req", "plan"} \subseteq DOMAIN u[k]
               /\ u[k].id = j[k].id
               /\ j[k].pri = "P0" => u[k].pri = "P0"
               /\ u[k].obs = j[k].obs \cup UNION {w[s].obs : s \in DOMAIN j[k].req \cap DOMAIN w}
               /\ DOMAIN u[k].req = DOMAIN j[k].req
               /\ \A s \in DOMAIN j[k].req : u[k].req[s] = IF s \in DOMAIN w THEN w[s] ELSE j[k].req[s]
    <3>1. PICK c : c = j[k]
      OBVIOUS
    <3>2. PICK d : d = u[k]
      OBVIOUS
    <3>3. d = Shielded(c, req)
      BY <2>4, <3>1, <3>2
    <3>4. /\ {"id", "pri", "obs", "req", "plan"} \subseteq DOMAIN d
          /\ d.id = c.id
          /\ c.pri = "P0" => d.pri = "P0"
          /\ d.obs = c.obs \cup UNION {w[s].obs : s \in DOMAIN c.req \cap DOMAIN w}
          /\ DOMAIN d.req = DOMAIN c.req
          /\ \A s \in DOMAIN c.req : d.req[s] = IF s \in DOMAIN w THEN w[s] ELSE c.req[s]
      BY ONLY <1>3, <3>3, ShieldedIs
    <3> QED
      BY <3>1, <3>2, <3>4, Zenon
  <2>6. Carried(j) \subseteq Carried(u)
    BY <2>4, <2>5, MappedCarries
  <2>7. \A k \in DOMAIN j : KeptCase(j[k], Carried(j), P) /\ j[k] \in ToSet(j) /\ u[k] \in ToSet(u)
    BY <2>3, <2>4 DEF KeptList, ToSet
  <2>8. ASSUME NEW k \in DOMAIN j PROVE KeptCase(u[k], Carried(u), P)
    <3>1. PICK c : c = j[k]
      OBVIOUS
    <3>2. PICK d : d = u[k]
      OBVIOUS
    <3>3. /\ {"id", "pri", "obs", "req", "plan"} \subseteq DOMAIN d
          /\ d.id = c.id
          /\ d.obs = c.obs \cup UNION {w[s].obs : s \in DOMAIN c.req \cap DOMAIN w}
          /\ DOMAIN d.req = DOMAIN c.req
          /\ \A s \in DOMAIN c.req : d.req[s] = IF s \in DOMAIN w THEN w[s] ELSE c.req[s]
      BY <2>5, <3>1, <3>2, Zenon
    <3>4. KeptCase(c, Carried(j), P) /\ d \in ToSet(u)
      BY <2>7, <3>1, <3>2
    <3>5. d.obs \subseteq Carried(u)
      BY <3>4 DEF Carried
    <3>6. d.id[2] # {} /\ d.id[2] \subseteq Carried(u)
      BY <2>6, <3>3, <3>4 DEF KeptCase
    <3>7. d.obs \subseteq {p[2] : p \in P}
      <4>1. ASSUME NEW s \in DOMAIN w, NEW o \in w[s].obs PROVE \E p \in P : o = p[2]
        <5>1. <<s, o>> \in P
          BY <2>1
        <5> QED
          BY <5>1
      <4>2. c.obs \subseteq {p[2] : p \in P}
        BY <3>4 DEF KeptCase
      <4> QED
        BY <3>3, <4>1, <4>2
    <3>8. \A s \in DOMAIN d.req :
             /\ d.req[s].qty \in Nat
             /\ d.req[s].obs # {} /\ d.req[s].obs \subseteq Carried(u)
             /\ \A o \in d.req[s].obs : <<s, o>> \in P
      <4> TAKE s \in DOMAIN d.req
      <4>1. CASE s \in DOMAIN w
        <5>1. d.req[s] = w[s] /\ w[s].obs \subseteq d.obs
          BY <3>3, <4>1
        <5> QED
          BY <2>1, <3>5, <4>1, <5>1
      <4>2. CASE s \notin DOMAIN w
        <5>1. d.req[s] = c.req[s] /\ s \in DOMAIN c.req
          BY <3>3, <4>2
        <5> QED
          BY <2>6, <3>4, <5>1 DEF KeptCase
      <4> QED
        BY <4>1, <4>2
    <3> QED
      BY <3>2, <3>3, <3>6, <3>7, <3>8 DEF KeptCase
  <2>9. KeptList(u, P)
    <3>1. Distinct(j)
      BY <2>3 DEF KeptList
    <3>2. \A k \in DOMAIN j : u[k].id = j[k].id
      BY <2>5
    <3> QED
      BY <2>4, <2>8, <3>1, <3>2, MappedKept
  <2>10. Carried(R) \subseteq Carried(u)
    BY <2>3, <2>6, ContinuedIs
  <2>11. Takes(R, u)
    <3> SUFFICES ASSUME NEW c \in ToSet(R), NEW s \in DOMAIN c.req
                 PROVE  \E d \in ToSet(u) : Asks(c, d, s)
      BY DEF Takes
    <3>1. PICK x \in ToSet(j) : Continues(c, x)
      BY <2>3 DEF Continued
    <3>2. PICK k \in DOMAIN j : x = j[k]
      BY DEF ToSet
    <3>3. PICK d : d = u[k]
      OBVIOUS
    <3>4. d \in ToSet(u)
      BY <2>7, <3>2, <3>3
    <3>5. s \in DOMAIN x.req /\ x.req[s] = c.req[s] /\ (c.pri = "P0" => x.pri = "P0")
      BY <3>1 DEF Continues
    <3>6. /\ x.pri = "P0" => d.pri = "P0"
          /\ s \in DOMAIN d.req
          /\ d.req[s] = IF s \in DOMAIN w THEN w[s] ELSE x.req[s]
      <4>1. /\ j[k].pri = "P0" => u[k].pri = "P0"
            /\ DOMAIN u[k].req = DOMAIN j[k].req
            /\ \A y \in DOMAIN j[k].req : u[k].req[y] = IF y \in DOMAIN w THEN w[y] ELSE j[k].req[y]
        BY <2>5
      <4> QED
        BY <3>2, <3>3, <3>5, <4>1
    <3>7. c.req[s].qty \in Nat
      <4>1. KeptCase(c, Carried(R), P)
        BY <1>1, <1>2 DEF KeptList
      <4> QED
        BY <4>1 DEF KeptCase
    <3>8. d.req[s].qty <= c.req[s].qty
      <4>1. CASE s \in DOMAIN w
        <5>1. PICK i \in DOMAIN R : R[i] = c
          BY DEF ToSet
        <5>2. ~(R[i].req[s].qty < w[s].qty)
          BY <1>1, <1>9, <4>1, <5>1 DEF Weakens
        <5>3. w[s].qty \in Nat
          BY <2>1, <4>1
        <5> QED
          BY <3>6, <3>7, <4>1, <5>1, <5>2, <5>3
      <4>2. CASE s \notin DOMAIN w
        BY <3>5, <3>6, <3>7, <4>2
      <4> QED
        BY <4>1, <4>2
    <3>9. Asks(c, d, s)
      BY <3>5, <3>6, <3>8 DEF Asks
    <3> QED
      BY <3>4, <3>9
  <2> QED
    BY <1>1, <1>2, <1>9, <2>9, <2>10, <2>11
<1> QED
  BY <1>7, <1>8, <1>9

-----------------------------------------------------------------------------
(* Assessments while no action states an obligation.                       *)

\* No position action states an obligation.
NoOwed == \A k \in Of({"ACTION"}) : OwedTargets(log[k].targets) = <<>>

\* Then an action delivers the retained cases.
LEMMA DeliveredNothing ==
    ASSUME NEW src, OwedTargets(log[src].targets) = <<>>
    PROVE  Delivered(src) = Unplanned(RetainedCases)
<1>1. PICK N \in Nat : N = Cardinality(Securities)
  BY MonitoringConstants, FS_CardinalityType
<1>2. PICK u : u = Unplanned(RetainedCases)
  OBVIOUS
<1>3. PICK h : /\ Delivered(src) = h[N]
               /\ h[0] = u
               /\ \A k \in 1 .. N :
                     h[k] = IF k \in DOMAIN OwedTargets(log[src].targets)
                            THEN Deliver(h[k - 1], k, src) ELSE h[k - 1]
  <2>1. \E h : /\ Delivered(src) = h[Cardinality(Securities)]
               /\ h[0] = Unplanned(RetainedCases)
               /\ \A k \in 1 .. Cardinality(Securities) :
                     h[k] = IF k \in DOMAIN OwedTargets(log[src].targets)
                            THEN Deliver(h[k - 1], k, src) ELSE h[k - 1]
    BY DeliveredSteps
  <2> QED
    BY <1>1, <1>2, <2>1, Zenon
<1>4. \A k \in 1 .. N : h[k] = h[k - 1]
  <2>1. DOMAIN OwedTargets(log[src].targets) = {}
    <3>1. DOMAIN <<>> = {}
      OBVIOUS
    <3> QED
      BY <3>1
  <2> QED
    BY <1>3, <2>1
<1> DEFINE D == {k \in 0 .. N : h[k] = u}
<1>5. 0 \in D
  BY <1>1, <1>3
<1>6. ASSUME NEW k \in 1 .. N, k - 1 \in D PROVE k \in D
  BY <1>1, <1>4, <1>6
<1>7. N \in D
  <2>1. N \in 0 .. N
    BY <1>1
  <2> HIDE DEF D
  <2> QED
    BY <1>1, <1>5, <1>6, <2>1, StepsReach
<1> QED
  BY <1>2, <1>3, <1>7

\* The risk cases of a list.
LEMMA RiskAre ==
    ASSUME NEW q, IsSeq(q),
           \A j, k \in DOMAIN q : q[j].pri # "P2" /\ q[k].pri # "P2" /\ q[j].id = q[k].id => j = k
    PROVE  /\ IsSeq(Risk(q)) /\ Distinct(Risk(q))
           /\ \A c : c \in ToSet(Risk(q)) <=> c \in ToSet(q) /\ c.pri # "P2"
<1>1. PICK places : places = {k \in DOMAIN q : q[k].pri # "P2"}
  OBVIOUS
<1>2. Risk(q) = Chosen(q, places)
  BY <1>1 DEF Risk
<1>3. \A j, k \in DOMAIN q : j \in places /\ k \in places /\ q[j].id = q[k].id => j = k
  BY <1>1
<1>4. PICK r : r = Chosen(q, places)
  OBVIOUS
<1>5. IsSeq(r) /\ Distinct(r) /\ ToSet(r) = {q[k] : k \in DOMAIN q \cap places}
  BY <1>3, <1>4, ChosenAll
<1>6. \A c : c \in ToSet(r) <=> c \in ToSet(q) /\ c.pri # "P2"
  BY <1>1, <1>5 DEF ToSet
<1> QED
  BY <1>2, <1>4, <1>5, <1>6

\* Kept cases are kept in any order.
LEMMA KeptSame ==
    ASSUME NEW q, NEW P, KeptList(q, P), NEW u, Distinct(u), ToSet(u) = ToSet(q)
    PROVE  KeptList(u, P) /\ Carried(u) = Carried(q)
BY DEF KeptList, Carried

\* The risk cases among risk cases, and at most a conclusion, are those.
LEMMA RiskOfKept ==
    ASSUME NEW q, RiskCases(q), NEW P, KeptList(q, P), NEW R, Carried(R) \subseteq Carried(q),
           NEW x, NEW u, u = q \/ (u = Append(q, x) /\ x.pri = "P2")
    PROVE  /\ KeptList(Risk(u), P) /\ Carried(R) \subseteq Carried(Risk(u))
           /\ IsSeq(Risk(u))
           /\ \A c : c \in ToSet(Risk(u)) <=> c \in ToSet(u) /\ c.pri # "P2"
           /\ Takes(R, q) => Takes(R, u)
<1>1. IsSeq(q) /\ Distinct(q) /\ \A k \in DOMAIN q : q[k].pri # "P2"
  BY DEF RiskCases, RiskCase, KeptList
<1>2. /\ IsSeq(u)
      /\ \A j, k \in DOMAIN u : u[j].pri # "P2" /\ u[k].pri # "P2" /\ u[j].id = u[k].id => j = k
      /\ \A c : c \in ToSet(u) /\ c.pri # "P2" <=> c \in ToSet(q)
      /\ ToSet(q) \subseteq ToSet(u)
  <2>1. CASE u = q
    BY <1>1, <2>1 DEF Distinct, ToSet
  <2>2. CASE u = Append(q, x) /\ x.pri = "P2"
    <3>1. PICK n \in Nat : n = Len(q)
      BY <1>1, Indices
    <3>2. /\ IsSeq(u) /\ DOMAIN q = 1 .. n /\ DOMAIN u = 1 .. n + 1
          /\ u[n + 1] = x /\ \A i \in 1 .. n : u[i] = q[i]
      <4>1. u = Append(q, x)
        BY <2>2
      <4>2. /\ Len(q) \in Nat /\ Len(u) = Len(q) + 1
            /\ DOMAIN q = 1 .. Len(q) /\ DOMAIN u = 1 .. Len(u)
            /\ \A i \in DOMAIN q : u[i] = q[i]
            /\ u[Len(u)] = x
        BY ONLY <1>1, <4>1, Appended
      <4>3. IsSeq(u)
        BY ONLY <1>1, <4>1, Appended
      <4> QED
        BY <3>1, <4>2, <4>3
    <3>3. DOMAIN u = DOMAIN q \cup {n + 1} /\ n + 1 \notin DOMAIN q
      BY <3>1, <3>2
    <3>4. \A j \in DOMAIN u : u[j].pri # "P2" => j \in DOMAIN q
      BY <2>2, <3>2, <3>3
    <3>5. \A j, k \in DOMAIN u : u[j].pri # "P2" /\ u[k].pri # "P2" /\ u[j].id = u[k].id => j = k
      BY <1>1, <3>2, <3>4 DEF Distinct
    <3>6. \A c : c \in ToSet(u) /\ c.pri # "P2" <=> c \in ToSet(q)
      BY <1>1, <3>2, <3>3, <3>4 DEF ToSet
    <3>7. ToSet(q) \subseteq ToSet(u)
      BY <3>2, <3>3 DEF ToSet
    <3> QED
      BY <3>2, <3>5, <3>6, <3>7
  <2> QED
    BY <2>1, <2>2
<1>3. PICK r : r = Risk(u)
  OBVIOUS
<1>4. IsSeq(r) /\ Distinct(r) /\ \A c : c \in ToSet(r) <=> c \in ToSet(u) /\ c.pri # "P2"
  BY <1>2, <1>3, RiskAre
<1>5. ToSet(r) = ToSet(q)
  BY <1>2, <1>4
<1>6. KeptList(r, P) /\ Carried(r) = Carried(q)
  BY <1>4, <1>5, KeptSame
<1>7. Takes(R, q) => Takes(R, u)
  BY <1>2 DEF Takes
<1> QED
  BY <1>3, <1>4, <1>6, <1>7

\* What the cases of an assessment come from.
LEMMA AssessedFrom ==
    ASSUME WellKept, NoOwed, NEW kind, NEW req, req.src \in DOMAIN log, ~Backdated(req.cut),
           NEW u, u = Assessed(kind, req).cases
    PROVE  \/ u = Unplanned(RetainedCases)
           \/ u = Append(Unplanned(RetainedCases), Statistical(req.src, req.win))
           \/ u = AssessProtection(req).cases
           \/ /\ log[req.src].kind = "PLAN" /\ ~Weakens(log[req.src].targets)
              /\ u = PlanCases(req.src)
<1>1. \A x : Blocked(x).cases = Unplanned(RetainedCases)
  BY OutcomeIs DEF Blocked
<1>2. PICK r : r = ""
  BY Zenon
<1>3. PICK out : out = Assessed(kind, req)
  OBVIOUS
<1>4. \/ out = Blocked("SOURCE")
      \/ log[req.src].kind = "ACTION" /\ out = AssessAction(req)
      \/ out = AssessProtection(req)
      \/ out = AssessPlan(req)
  BY <1>3, Zenon DEF Assessed
<1>5. CASE out = Blocked("SOURCE")
  BY <1>1, <1>3, <1>5
<1>6. CASE log[req.src].kind = "ACTION" /\ out = AssessAction(req)
  <2>1. Delivered(req.src) = Unplanned(RetainedCases)
    <3>1. OwedTargets(log[req.src].targets) = <<>>
      BY <1>6 DEF NoOwed, Of
    <3> QED
      BY <3>1, DeliveredNothing
  <2>2. PICK items : items = Unplanned(RetainedCases)
    OBVIOUS
  <2>3. PICK more : more = Append(items, Statistical(req.src, req.win))
    OBVIOUS
  <2>4. \/ out = Blocked("NOT_CURRENT")
        \/ out = Outcome("BLOCKED", "EVIDENCE", items, req.src)
        \/ out = Outcome("BLOCKED", "WINDOW", items, req.src)
        \/ out = Outcome("ASSESSED", r, more, req.src)
        \/ out = Outcome("ASSESSED", r, items, req.src)
    BY <1>2, <1>6, <2>1, <2>2, <2>3, Zenon DEF AssessAction
  <2>5. ASSUME NEW disp, NEW reason, NEW list, out = Outcome(disp, reason, list, req.src)
        PROVE  out.cases = list
    BY <2>5, OutcomeIs
  <2>6. out.cases = items \/ out.cases = more
    BY <1>1, <2>2, <2>4, <2>5
  <2> QED
    BY <1>3, <2>2, <2>3, <2>6
<1>7. CASE out = AssessProtection(req)
  BY <1>3, <1>7
<1>8. CASE out = AssessPlan(req)
  <2>1. \/ out = Blocked("UNAVAILABLE")
        \/ out = Blocked("EVIDENCE")
        \/ out = Blocked("WEAKENING")
        \/ /\ log[req.src].kind = "PLAN" /\ ~Weakens(log[req.src].targets)
           /\ out = Outcome("ASSESSED", r, PlanCases(req.src), 0)
    BY <1>2, <1>8, Zenon DEF AssessPlan
  <2>2. Outcome("ASSESSED", r, PlanCases(req.src), 0).cases = PlanCases(req.src)
    BY OutcomeIs
  <2> QED
    BY <1>1, <1>3, <2>1, <2>2, Zenon
<1> QED
  BY <1>4, <1>5, <1>6, <1>7, <1>8

\* An assessment leaves kept cases, and takes the retained ones over unless it
\* is of an outdated plan.
LEMMA AssessedKept ==
    ASSUME WellKept, PlansKept, NoOwed, KeptList(RetainedCases, Told),
           NEW kind, NEW req, req.src \in DOMAIN log, ~Backdated(req.cut),
           NEW u, u = Assessed(kind, req).cases
    PROVE  /\ KeptList(Risk(u), Told) /\ Carried(RetainedCases) \subseteq Carried(Risk(u))
           /\ IsSeq(Risk(u))
           /\ \A c : c \in ToSet(Risk(u)) <=> c \in ToSet(u) /\ c.pri # "P2"
           /\ ~Outdated(req.src) => Takes(RetainedCases, u)
<1>1. RiskCases(RetainedCases) /\ RiskCases(Unplanned(RetainedCases))
  BY RetainedRisk
<1>2. PICK P : P = Told
  OBVIOUS
<1>3. PICK R : R = RetainedCases
  OBVIOUS
<1>4. PICK x : x = Statistical(req.src, req.win)
  OBVIOUS
<1>5. x.pri = "P2"
  BY <1>4 DEF Statistical, NewCase
<1>6. SUFFICES \E q : /\ RiskCases(q) /\ KeptList(q, P) /\ Carried(R) \subseteq Carried(q)
                      /\ u = q \/ (u = Append(q, x) /\ x.pri = "P2")
                      /\ ~Outdated(req.src) => Takes(R, q)
  <2>1. PICK q : /\ RiskCases(q) /\ KeptList(q, P) /\ Carried(R) \subseteq Carried(q)
                 /\ u = q \/ (u = Append(q, x) /\ x.pri = "P2")
                 /\ ~Outdated(req.src) => Takes(R, q)
    BY <1>6
  <2>2. /\ KeptList(Risk(u), P) /\ Carried(R) \subseteq Carried(Risk(u))
        /\ IsSeq(Risk(u))
        /\ \A c : c \in ToSet(Risk(u)) <=> c \in ToSet(u) /\ c.pri # "P2"
        /\ Takes(R, q) => Takes(R, u)
    BY ONLY <2>1, RiskOfKept
  <2> QED
    BY <1>2, <1>3, <2>1, <2>2
<1>7. PICK v : v = Unplanned(RetainedCases)
  OBVIOUS
<1>8. KeptList(v, P) /\ Carried(R) \subseteq Carried(v) /\ Takes(R, v) /\ RiskCases(v)
  BY <1>1, <1>2, <1>3, <1>7, UnplannedKept
<1>9. \/ u = v
      \/ u = Append(v, x)
      \/ u = AssessProtection(req).cases
      \/ /\ log[req.src].kind = "PLAN" /\ ~Weakens(log[req.src].targets)
         /\ u = PlanCases(req.src)
  BY <1>4, <1>7, AssessedFrom
<1>10. CASE u = v \/ u = Append(v, x)
  BY <1>5, <1>8, <1>10
<1>11. CASE u = AssessProtection(req).cases
  <2>1. RiskCases(u)
    BY <1>1, <1>11, ProtectionRisk
  <2>2. KeptList(u, P) /\ Carried(R) \subseteq Carried(u) /\ Takes(R, u)
    BY <1>2, <1>3, <1>11, ProtectionKept
  <2> QED
    BY <2>1, <2>2
<1>12. CASE /\ log[req.src].kind = "PLAN" /\ ~Weakens(log[req.src].targets)
            /\ u = PlanCases(req.src)
  <2>1. Free(log[req.src].targets)
    BY <1>12 DEF WellKept, Entry, PlanEntry
  <2>2. RiskCases(u)
    BY <1>1, <1>12, <2>1, PlanCasesRisk
  <2>3. /\ KeptList(u, P) /\ Carried(R) \subseteq Carried(u)
        /\ ~Outdated(req.src) => Takes(R, u)
    BY <1>2, <1>3, <1>12, PlanCasesKept
  <2> QED
    BY <2>2, <2>3
<1> QED
  BY <1>9, <1>10, <1>11, <1>12

-----------------------------------------------------------------------------
(* The invariant of the targets, step by step.                             *)

\* Plans say no less than the plans before them, and where no position action
\* states an obligation, the retained cases ask for what plans said, with
\* every risk case of the latest assessment among them.
CasesKept ==
    NoOwed => /\ KeptList(RetainedCases, Told)
              /\ Latest # 0 => \A c \in ToSet(log[Latest].cases) :
                                  c.pri # "P2" => c \in ToSet(RetainedCases)
PlansPlaced == \A n \in Of({"PLAN"}) : DOMAIN log[n].targets \subseteq Securities
TargetsInv == PlansPlaced /\ PlansKept /\ CasesKept

\* Putting what is there changes nothing.
LEMMA PutSame ==
    ASSUME NEW T, NEW items \in Seq(T), NEW more \in Seq(T), Distinct(items),
           ToSet(more) \subseteq ToSet(items)
    PROVE  PutAll(items, more) = items
<1>0. PICK N \in Nat : N = Len(more)
  OBVIOUS
<1>1. PICK h : /\ PutAll(items, more) = h[N]
               /\ h[0] = items
               /\ \A k \in 1 .. N : h[k] = Put(h[k - 1], more[k])
               /\ \A k \in 0 .. N : h[k] \in Seq(T)
  <2>1. PICK h : /\ PutAll(items, more) = h[Len(more)]
                 /\ PutAllBy(h, items, more)
                 /\ \A k \in 0 .. Len(more) : h[k] \in Seq(T)
    BY PutAllSteps
  <2>2. /\ h[0] = items
        /\ \A k \in 1 .. N : h[k] = Put(h[k - 1], more[k])
    BY <1>0, <2>1, Zenon DEF PutAllBy
  <2>3. N = Len(more) /\ \A k \in 0 .. N : h[k] \in Seq(T)
    BY <1>0, <2>1
  <2> QED
    BY <2>1, <2>2, <2>3, Zenon
<1>2. PICK D : D = {k \in 0 .. N : h[k] = items}
  OBVIOUS
<1>3. 0 \in D
  BY <1>0, <1>1, <1>2
<1>4. \A k \in 1 .. N : k - 1 \in D => k \in D
  <2> SUFFICES ASSUME NEW k \in 1 .. N, k - 1 \in D PROVE k \in D
    OBVIOUS
  <2>1. h[k - 1] = items
    BY <1>2
  <2>2. PICK x : x = more[k]
    OBVIOUS
  <2>3. x \in T /\ x \in ToSet(more)
    BY <1>0, <2>2 DEF ToSet
  <2>4. x \in ToSet(items)
    BY <2>3
  <2>5. PICK y : y = Put(items, x)
    OBVIOUS
  <2>6. y = items
    BY ONLY items \in Seq(T), Distinct(items), <2>3, <2>4, <2>5, PutOne
  <2>7. h[k] = items
    BY <1>1, <2>1, <2>2, <2>5, <2>6
  <2> QED
    BY <1>2, <2>7
<1>5. \A k \in 0 .. N : k \in D
  <2>1. N \in Nat
    BY <1>0
  <2> QED
    BY ONLY <2>1, <1>3, <1>4, StepsReach
<1> QED
  BY <1>0, <1>1, <1>2, <1>5

\* An event that is no original plan leaves what plans said.
LEMMA PlansStay ==
    ASSUME WellKept, PlansKept, NEW e, log' = Append(log, e),
           e.kind = "PLAN" => /\ e.fixes # 0 /\ e.fixes \in Of({"PLAN"}) /\ log[e.fixes].fixes = 0
                              /\ log[e.fixes].targets = e.targets /\ log[e.fixes].cut = e.cut
    PROVE  PlansKept' /\ Told' = Told /\ (PlansPlaced => PlansPlaced')
<1>0. IsSeq(log)
  BY DEF WellKept
<1>1. PICK N \in Nat : N = Len(log)
  BY <1>0, Indices
<1>2. /\ DOMAIN log = 1 .. N /\ DOMAIN log' = 1 .. N + 1
      /\ \A i \in 1 .. N : log'[i] = log[i]
      /\ log'[N + 1] = e
  BY <1>0, <1>1, Grown
<1>3. \A i : i \in 1 .. N + 1 <=> i \in 1 .. N \/ i = N + 1
  OBVIOUS
<1>4. PlanHistory' = PlanHistory
  BY <1>2, <1>3 DEF PlanHistory, Of
<1>5. \A n \in PlanHistory : log'[n] = log[n]
  BY <1>2 DEF PlanHistory, Of
<1>6. Told' = Told
  <2>1. PICK L : L = log
    OBVIOUS
  <2>2. PICK U : U = log'
    OBVIOUS
  <2>3. PICK H : H = PlanHistory
    OBVIOUS
  <2>4. \A n \in H : U[n].targets = L[n].targets
    BY <1>5, <2>1, <2>2, <2>3
  <2>5. {Said(U[n].targets) : n \in H} = {Said(L[n].targets) : n \in H}
    BY <2>4
  <2>6. Told = UNION {Said(L[n].targets) : n \in H}
    BY <2>1, <2>3 DEF Told
  <2>7. Told' = UNION {Said(U[n].targets) : n \in H}
    BY <1>4, <2>2, <2>3 DEF Told, Said
  <2> QED
    BY <2>5, <2>6, <2>7
<1>7. ASSUME NEW n \in Of({"PLAN"})'
      PROVE  /\ \A s \in DOMAIN log'[n].targets : log'[n].targets[s].qty \in Nat
             /\ Origin(n)' \in Of({"PLAN"})' /\ log'[Origin(n)'].fixes = 0
             /\ log'[Origin(n)'].targets = log'[n].targets /\ log'[Origin(n)'].cut = log'[n].cut
  <2>1. n \in 1 .. N + 1 /\ log'[n].kind = "PLAN"
    BY <1>2, <1>7 DEF Of
  <2>2. PICK m : m = IF n = N + 1 THEN e.fixes ELSE n
    OBVIOUS
  <2>3. m \in Of({"PLAN"}) /\ log[m].targets = log'[n].targets /\ log[m].cut = log'[n].cut
    BY <1>2, <1>3, <2>1, <2>2 DEF Of
  <2>4. Origin(n)' = Origin(m)
    BY <1>2, <1>3, <2>1, <2>2 DEF Origin
  <2>5. PICK f : f = Origin(m)
    OBVIOUS
  <2>6. /\ \A s \in DOMAIN log[m].targets : log[m].targets[s].qty \in Nat
        /\ f \in Of({"PLAN"}) /\ log[f].fixes = 0
        /\ log[f].targets = log[m].targets /\ log[f].cut = log[m].cut
    BY <2>3, <2>5 DEF PlansKept
  <2>7. f \in Of({"PLAN"})' /\ log'[f] = log[f]
    BY <1>2, <1>3, <2>6 DEF Of
  <2> QED
    BY <2>3, <2>4, <2>5, <2>6, <2>7
<1>8. \A m, n \in PlanHistory' :
          m < n => log'[m].cut <= log'[n].cut /\ Said(log'[m].targets) \subseteq Said(log'[n].targets)
  <2> TAKE m, n \in PlanHistory'
  <2>1. m \in PlanHistory /\ n \in PlanHistory
    BY <1>4
  <2>2. m < n => log[m].cut <= log[n].cut /\ Said(log[m].targets) \subseteq Said(log[n].targets)
    BY <2>1 DEF PlansKept
  <2>3. log'[m] = log[m] /\ log'[n] = log[n]
    BY <1>5, <2>1
  <2>4. PICK s : s = Said(log[m].targets)
    OBVIOUS
  <2>5. PICK t : t = Said(log[n].targets)
    OBVIOUS
  <2>6. Said(log'[m].targets) = s /\ Said(log'[n].targets) = t
    BY <2>3, <2>4, <2>5 DEF Said
  <2> QED
    BY <2>2, <2>3, <2>4, <2>5, <2>6
<1>9. ASSUME PlansPlaced, NEW n \in Of({"PLAN"})'
      PROVE  DOMAIN log'[n].targets \subseteq Securities
  <2>1. n \in 1 .. N + 1 /\ log'[n].kind = "PLAN"
    BY <1>2, <1>9 DEF Of
  <2>2. PICK m : m = IF n = N + 1 THEN e.fixes ELSE n
    OBVIOUS
  <2>3. m \in Of({"PLAN"}) /\ log[m].targets = log'[n].targets
    BY <1>2, <1>3, <2>1, <2>2 DEF Of
  <2> QED
    BY <1>9, <2>3 DEF PlansPlaced
<1>10. PlansPlaced => PlansPlaced'
  BY <1>9 DEF PlansPlaced
<1> QED
  BY <1>6, <1>7, <1>8, <1>10 DEF PlansKept, Said

\* Fewer events state fewer obligations.
LEMMA NoOwedBefore ==
    ASSUME WellKept, NEW e, log' = Append(log, e), NoOwed'
    PROVE  NoOwed
<1>1. IsSeq(log)
  BY DEF WellKept
<1>2. \A i \in DOMAIN log : i \in DOMAIN log' /\ log'[i] = log[i]
  BY <1>1, Grown
<1> QED
  BY <1>2 DEF NoOwed, Of, OwedTargets

\* An event that does not count leaves the retained cases.
LEMMA NotCounted ==
    ASSUME ReviewInv, ReviewInv', CasesKept, NEW e, log' = Append(log, e), ~Counts(e, Latest),
           Told \subseteq Told'
    PROVE  CasesKept'
<1>0. WellKept /\ WellKept'
  BY DEF ReviewInv
<1>1. PICK R : R = RetainedCases
  OBVIOUS
<1>2. RetainedCases' = R /\ Latest' = Latest
  BY <1>0, <1>1, RetainedGrows
<1>3. SUFFICES ASSUME NoOwed'
      PROVE  /\ KeptList(R, Told')
             /\ Latest # 0 => \A c \in ToSet(log'[Latest].cases) : c.pri # "P2" => c \in ToSet(R)
  BY <1>2 DEF CasesKept, KeptList, Distinct, KeptCase, Carried
<1>4. /\ KeptList(R, Told)
      /\ Latest # 0 => \A c \in ToSet(log[Latest].cases) : c.pri # "P2" => c \in ToSet(R)
  BY <1>0, <1>1, <1>3, NoOwedBefore DEF CasesKept
<1>5. KeptList(R, Told')
  <2>1. PICK O : O = Carried(R)
    OBVIOUS
  <2>2. PICK P : P = Told
    OBVIOUS
  <2>3. PICK Q : Q = Told'
    OBVIOUS
  <2>4. P \subseteq Q /\ O \subseteq O
    BY <2>2, <2>3
  <2>5. \A c \in ToSet(R) : KeptCase(c, O, P)
    BY <1>4, <2>1, <2>2 DEF KeptList
  <2>6. \A c \in ToSet(R) : KeptCase(c, O, Q)
    BY ONLY <2>4, <2>5, KeptMore
  <2> QED
    BY <1>4, <2>1, <2>3, <2>6 DEF KeptList
<1>6. Latest # 0 => log'[Latest] = log[Latest]
  <2>1. IsSeq(log)
    BY DEF ReviewInv, WellKept
  <2>2. Latest # 0 => Latest \in DOMAIN log
    BY DEF ReviewInv, OneCurrent, Of
  <2> QED
    BY <2>1, <2>2, Grown
<1> QED
  BY <1>4, <1>5, <1>6

\* A list is one of any set that has its items.
LEMMA SeqAmong ==
    ASSUME NEW q, IsSeq(q), NEW T, ToSet(q) \subseteq T
    PROVE  q \in Seq(T)
<1>1. PICK R : R = {q[i] : i \in DOMAIN q}
  OBVIOUS
<1>2. R \subseteq T
  BY <1>1 DEF ToSet
<1>3. q \in Seq(R)
  BY <1>1 DEF IsSeq
<1> QED
  BY ONLY <1>2, <1>3

\* An assessment that counts and leaves kept cases.
LEMMA CountedKept ==
    ASSUME ReviewInv, ReviewInv', CasesKept, NEW e, log' = Append(log, e), Counts(e, Latest),
           Told' = Told,
           NoOwed => /\ KeptList(Risk(e.cases), Told)
                     /\ Carried(RetainedCases) \subseteq Carried(Risk(e.cases))
                     /\ IsSeq(Risk(e.cases))
                     /\ \A c : c \in ToSet(Risk(e.cases)) <=> c \in ToSet(e.cases) /\ c.pri # "P2"
    PROVE  CasesKept'
<1>0. WellKept /\ WellKept'
  BY DEF ReviewInv
<1>1. PICK R : R = RetainedCases
  OBVIOUS
<1>2. PICK M : M = Risk(e.cases)
  OBVIOUS
<1>3. PICK q : q = PutAll(R, M)
  OBVIOUS
<1>4. RetainedCases' = q /\ Latest' = Len(log) + 1
  BY <1>0, <1>1, <1>2, <1>3, RetainedGrows
<1>5. log'[Len(log) + 1] = e
  BY <1>0, Grown DEF WellKept
<1>6. PICK P : P = Told
  OBVIOUS
<1>7. SUFFICES ASSUME NoOwed'
      PROVE  /\ KeptList(q, P)
             /\ \A c \in ToSet(e.cases) : c.pri # "P2" => c \in ToSet(q)
  BY <1>4, <1>5, <1>6 DEF CasesKept, KeptList, Distinct, KeptCase, Carried
<1>8. NoOwed
  BY <1>0, <1>7, NoOwedBefore
<1>9. KeptList(R, P) /\ IsSeq(R)
  BY <1>0, <1>1, <1>6, <1>8, RetainedRisk DEF CasesKept, RiskCases
<1>10. /\ KeptList(M, P) /\ Carried(R) \subseteq Carried(M) /\ IsSeq(M)
       /\ \A c \in ToSet(e.cases) : c.pri # "P2" => c \in ToSet(M)
  BY <1>1, <1>2, <1>6, <1>8
<1>11. PICK T : T = ToSet(R) \cup ToSet(M)
  OBVIOUS
<1>12. R \in Seq(T) /\ M \in Seq(T)
  BY <1>9, <1>10, <1>11, SeqAmong
<1>13. Distinct(R) /\ Distinct(M)
  BY <1>9, <1>10 DEF KeptList
<1>14. Distinct(q) /\ ToSet(M) \subseteq ToSet(q) /\ ToSet(q) \subseteq ToSet(R) \cup ToSet(M)
  BY ONLY <1>3, <1>12, <1>13, PutMany
<1>15. PICK O : O = Carried(R)
  OBVIOUS
<1>16. PICK U : U = Carried(M)
  OBVIOUS
<1>17. PICK V : V = Carried(q)
  OBVIOUS
<1>18. U \subseteq V /\ O \subseteq V
  BY <1>10, <1>14, <1>15, <1>16, <1>17 DEF Carried
<1>19. \A c \in ToSet(R) : KeptCase(c, O, P)
  BY <1>9, <1>15 DEF KeptList
<1>20. \A c \in ToSet(M) : KeptCase(c, U, P)
  BY <1>10, <1>16 DEF KeptList
<1>21. \A c \in ToSet(q) : KeptCase(c, V, P)
  <2>1. P \subseteq P
    OBVIOUS
  <2>2. \A c \in ToSet(R) : KeptCase(c, V, P)
    BY ONLY <1>18, <1>19, <2>1, KeptMore
  <2>3. \A c \in ToSet(M) : KeptCase(c, V, P)
    BY ONLY <1>18, <1>20, <2>1, KeptMore
  <2> QED
    BY <1>14, <2>2, <2>3
<1> QED
  BY <1>10, <1>14, <1>17, <1>21 DEF KeptList

\* A correction of the latest assessment repeats its cases.
LEMMA RepeatedKept ==
    ASSUME ReviewInv, ReviewInv', CasesKept, NEW e, log' = Append(log, e), Counts(e, Latest),
           Told' = Told, Latest # 0, e.cases = log[Latest].cases
    PROVE  CasesKept'
<1>0. WellKept /\ WellKept'
  BY DEF ReviewInv
<1>1. PICK R : R = RetainedCases
  OBVIOUS
<1>2. PICK l : l = Latest
  OBVIOUS
<1>3. PICK u : u = e.cases
  OBVIOUS
<1>4. PICK M : M = Risk(u)
  OBVIOUS
<1>5. RetainedCases' = PutAll(R, M) /\ Latest' = Len(log) + 1
  BY <1>0, <1>1, <1>3, <1>4, RetainedGrows
<1>6. log'[Len(log) + 1] = e
  BY <1>0, Grown DEF WellKept
<1>7. PICK P : P = Told
  OBVIOUS
<1>8. SUFFICES ASSUME NoOwed'
      PROVE  /\ PutAll(R, M) = R
             /\ KeptList(R, P)
             /\ \A c \in ToSet(u) : c.pri # "P2" => c \in ToSet(R)
  BY <1>3, <1>5, <1>6, <1>7 DEF CasesKept, KeptList, Distinct, KeptCase, Carried
<1>9. NoOwed
  BY <1>0, <1>8, NoOwedBefore
<1>10. KeptList(R, P) /\ IsSeq(R)
  BY <1>0, <1>1, <1>7, <1>9, RetainedRisk DEF CasesKept, RiskCases
<1>11. \A c \in ToSet(u) : c.pri # "P2" => c \in ToSet(R)
  BY <1>1, <1>2, <1>3, <1>9 DEF CasesKept
<1>12. IsSeq(u)
  <2>1. l \in DOMAIN log /\ log[l].kind \in AssessmentKinds
    BY <1>2 DEF ReviewInv, OneCurrent, Of
  <2>2. CasesOf(log[l])
    BY <1>0, <2>1, EntryIs DEF Entry, ReviewEntry
  <2> QED
    BY <1>2, <1>3, <2>2 DEF CasesOf
<1>13. PICK T : T = ToSet(R)
  OBVIOUS
<1>14. PICK places : places = {k \in DOMAIN u : u[k].pri # "P2"}
  OBVIOUS
<1>15. M = Chosen(u, places)
  BY <1>4, <1>14 DEF Risk
<1>16. \A k \in DOMAIN u : k \in places => u[k] \in T
  BY <1>11, <1>13, <1>14 DEF ToSet
<1>17. M \in Seq(T)
  BY ONLY <1>12, <1>15, <1>16, ChosenIn
<1>18. R \in Seq(T) /\ ToSet(M) \subseteq T
  <2>1. R \in Seq(T)
    BY <1>10, <1>13, SeqAmong
  <2>2. \A k \in DOMAIN M : M[k] \in T
    BY ONLY <1>17, IsSeqOf
  <2> QED
    BY <2>1, <2>2 DEF ToSet
<1>19. Distinct(R)
  BY <1>10 DEF KeptList
<1>20. PutAll(R, M) = R
  BY ONLY <1>13, <1>17, <1>18, <1>19, PutSame
<1> QED
  BY <1>10, <1>11, <1>20

\* What a plan says: units of the securities, and all that earlier plans said.
LEMMA PlanSays ==
    ASSUME WellKept, PlansPlaced, PlansKept, NEW cut \in Nat, NEW hand \in limits.hands,
           NEW cap \in 0 .. Held, NEW t, t = PlanTargets(cut, hand, {}, cap)
    PROVE  /\ \A s \in DOMAIN t : s \in Securities /\ t[s].qty \in Nat
           /\ t # <<>> => \A n \in PlanHistory :
                             log[n].cut <= cut /\ Said(log[n].targets) \subseteq Said(t)
<1>1. Held \in Nat /\ cap \in Nat
  BY MonitoringConstants
<1>2. PICK K : K = PlanParts(hand, {})
  OBVIOUS
<1>3. PICK kept : kept = Conjoin(K)
  OBVIOUS
<1>4. \A x \in K : x = hand.targets \/ \E n \in PlanHistory : x = OwedTargets(log[n].targets)
  BY <1>2 DEF PlanParts
<1>5. ASSUME NEW n \in PlanHistory
      PROVE  /\ OwedTargets(log[n].targets) \in K
             /\ n \in DOMAIN log /\ log[n].cut \in Nat
             /\ \A s \in DOMAIN log[n].targets : s \in Securities /\ log[n].targets[s].qty \in Nat
  <2>1. n \in Of({"PLAN"})
    BY DEF PlanHistory
  <2>2. n \in DOMAIN log
    BY <2>1 DEF Of
  <2>3. log[n].cut \in Nat
    BY <2>2, EntryIs DEF Entry
  <2>4. OwedTargets(log[n].targets) \in K
    BY <1>2 DEF PlanParts
  <2> QED
    BY <2>1, <2>2, <2>3, <2>4 DEF PlansPlaced, PlansKept
<1>6. \A s \in DOMAIN hand.targets : s \in Securities /\ hand.targets[s].qty \in Nat
  BY MonitoringConstants DEF WellKept
<1>7. \A x \in K : \A s \in DOMAIN x : s \in Securities /\ x[s].qty \in Nat
  <2> TAKE x \in K
  <2>1. CASE x = hand.targets
    BY <1>6, <2>1
  <2>2. CASE \E n \in PlanHistory : x = OwedTargets(log[n].targets)
    <3>1. PICK n \in PlanHistory : x = OwedTargets(log[n].targets)
      BY <2>2
    <3>2. PICK y : y = log[n].targets
      OBVIOUS
    <3>3. DOMAIN x \subseteq DOMAIN y /\ \A s \in DOMAIN x : x[s] = y[s]
      BY <3>1, <3>2, OwedTargetsAre
    <3> QED
      BY <1>5, <3>1, <3>2, <3>3
  <2> QED
    BY <1>4, <2>1, <2>2
<1>8. /\ DOMAIN kept = UNION {DOMAIN x : x \in K}
      /\ \A s \in DOMAIN kept : kept[s].obs = UNION {x[s].obs : x \in {u \in K : s \in DOMAIN u}}
  BY <1>3, ConjoinIs
<1>9. \A s \in DOMAIN kept : kept[s].qty \in Nat
  BY <1>3, <1>7, ConjoinUnits
<1>10. DOMAIN kept \subseteq Securities
  BY <1>7, <1>8
<1>11. ASSUME NEW n \in PlanHistory, NEW s \in DOMAIN log[n].targets, NEW o \in log[n].targets[s].obs
       PROVE  s \in DOMAIN kept /\ o \in kept[s].obs
  <2>1. PICK y : y = log[n].targets
    OBVIOUS
  <2>2. PICK x : x = OwedTargets(y)
    OBVIOUS
  <2>3. x \in K
    BY <1>5, <2>1, <2>2
  <2>4. s \in DOMAIN x /\ x[s] = y[s]
    BY <1>11, <2>1, <2>2 DEF OwedTargets
  <2>5. s \in DOMAIN kept
    BY <1>8, <2>3, <2>4
  <2>6. o \in x[s].obs
    BY <1>11, <2>1, <2>4
  <2> QED
    BY <1>8, <2>3, <2>4, <2>5, <2>6
<1> DEFINE least(s) == Least({Held} \cup (IF s \in DOMAIN kept THEN {kept[s].qty} ELSE {})
                                    \cup (IF hand.ids # {} THEN {cap} ELSE {}))
           obs(s) == hand.ids \cup IF s \in DOMAIN kept THEN kept[s].obs ELSE {}
           all == [s \in Securities |-> [qty |-> least(s), obs |-> obs(s)]]
<1>12. t = IF NotForward(cut) THEN <<>> ELSE IF ~hand.whole THEN kept ELSE all
  BY <1>2, <1>3, Zenon DEF PlanTargets, PlanParts
<1>13. \A s \in Securities : least(s) \in Nat
  <2> TAKE s \in Securities
  <2>1. PICK A : A = IF s \in DOMAIN kept THEN {kept[s].qty} ELSE {}
    OBVIOUS
  <2>2. PICK B : B = IF hand.ids # {} THEN {cap} ELSE {}
    OBVIOUS
  <2>3. PICK S : S = {Held} \cup A \cup B
    OBVIOUS
  <2>4. S \subseteq Nat /\ S # {}
    BY <1>1, <1>9, <2>1, <2>2, <2>3
  <2>5. Least(S) \in Nat
    BY <2>4, LeastIn
  <2> QED
    BY <2>1, <2>2, <2>3, <2>5
<1>14. DOMAIN all = Securities
  OBVIOUS
<1>15. \A s \in Securities : all[s].qty \in Nat /\ all[s].obs = obs(s)
  <2> TAKE s \in Securities
  <2>1. PICK q : q = least(s)
    OBVIOUS
  <2>2. PICK o : o = obs(s)
    OBVIOUS
  <2>3. all[s] = [qty |-> q, obs |-> o]
    BY <2>1, <2>2, Zenon
  <2>4. q \in Nat
    BY <1>13, <2>1
  <2> HIDE DEF all, least, obs
  <2> QED
    BY <2>2, <2>3, <2>4
<1>16. PICK whole : whole = all
  OBVIOUS
<1>17. /\ DOMAIN whole = Securities
       /\ \A s \in Securities : whole[s].qty \in Nat
       /\ \A s \in Securities : s \in DOMAIN kept => kept[s].obs \subseteq whole[s].obs
  <2>1. \A s \in Securities : s \in DOMAIN kept => kept[s].obs \subseteq obs(s)
    OBVIOUS
  <2> HIDE DEF all, obs
  <2> QED
    BY <1>14, <1>15, <1>16, <2>1
<1>18. t = IF NotForward(cut) THEN <<>> ELSE IF ~hand.whole THEN kept ELSE whole
  <2> HIDE DEF all
  <2> QED
    BY <1>12, <1>16
<1> HIDE DEF all, least, obs
<1>19. DOMAIN <<>> = {}
  OBVIOUS
<1>20. \A s \in DOMAIN t : s \in Securities /\ t[s].qty \in Nat
  BY <1>9, <1>10, <1>17, <1>18, <1>19
<1>21. ASSUME t # <<>>, NEW n \in PlanHistory
       PROVE  log[n].cut <= cut /\ Said(log[n].targets) \subseteq Said(t)
  <2>1. ~NotForward(cut) /\ (t = kept \/ t = whole)
    BY <1>18, <1>21
  <2>2. log[n].cut <= cut
    BY <1>5, <1>21, <2>1 DEF NotForward
  <2>3. ASSUME NEW s \in DOMAIN log[n].targets, NEW o \in log[n].targets[s].obs
        PROVE  s \in DOMAIN t /\ o \in t[s].obs
    <3>1. s \in DOMAIN kept /\ o \in kept[s].obs
      BY <1>11, <1>21, <2>3
    <3> QED
      BY <1>10, <1>17, <2>1, <3>1
  <2>4. Said(log[n].targets) \subseteq Said(t)
    <3>1. PICK y : y = log[n].targets
      OBVIOUS
    <3>2. \A s \in DOMAIN y : \A o \in y[s].obs : s \in DOMAIN t /\ o \in t[s].obs
      BY <2>3, <3>1
    <3>3. \A p \in Said(y) : p \in Said(t)
      BY ONLY <3>2, SaidPair, SaidIs
    <3> QED
      BY <3>1, <3>3
  <2> QED
    BY <2>2, <2>4
<1> QED
  BY <1>20, <1>21

\* An event that is no plan and does not count.
LEMMA BesideTargets ==
    ASSUME ReviewInv, ReviewInv', TargetsInv, NEW e, log' = Append(log, e),
           e.kind \notin {"PLAN"} \cup AssessmentKinds
    PROVE  TargetsInv'
<1>1. WellKept
  BY DEF ReviewInv
<1>2. PlansKept' /\ Told' = Told /\ PlansPlaced'
  BY <1>1, PlansStay DEF TargetsInv
<1>3. ~Counts(e, Latest)
  BY DEF Counts
<1>4. CasesKept'
  BY <1>2, <1>3, NotCounted DEF TargetsInv
<1> QED
  BY <1>2, <1>4 DEF TargetsInv

\* Plan.
LEMMA PlanTargetsStep ==
    ASSUME ReviewInv, ReviewInv', TargetsInv, Plan
    PROVE  TargetsInv'
<1>0. WellKept /\ IsSeq(log)
  BY DEF ReviewInv, WellKept
<1>1. PICK cut \in 0 .. clock, hand \in limits.hands, cap \in 0 .. Held :
        log' = Append(log, [kind |-> "PLAN", fixes |-> 0, cut |-> cut,
                            targets |-> PlanTargets(cut, hand, {}, cap),
                            p0 |-> hand.p0, capital |-> hand.capital,
                            ready |-> hand.whole /\ PlanTargets(cut, hand, {}, cap) # <<>>])
  BY DEF Plan, Append1
<1>2. PICK t : t = PlanTargets(cut, hand, {}, cap)
  OBVIOUS
<1>3. PICK e : e = [kind |-> "PLAN", fixes |-> 0, cut |-> cut, targets |-> t,
                    p0 |-> hand.p0, capital |-> hand.capital, ready |-> hand.whole /\ t # <<>>]
  OBVIOUS
<1>4. log' = Append(log, e)
  BY <1>1, <1>2, <1>3
<1>5. e.kind = "PLAN" /\ e.fixes = 0 /\ e.cut = cut /\ e.targets = t
  BY <1>3
<1>6. cut \in Nat
  BY <1>1, InstantIs
<1>7. /\ \A s \in DOMAIN t : s \in Securities /\ t[s].qty \in Nat
      /\ t # <<>> => \A n \in PlanHistory :
                        log[n].cut <= cut /\ Said(log[n].targets) \subseteq Said(t)
  <2>1. WellKept /\ PlansPlaced /\ PlansKept
    BY <1>0 DEF TargetsInv
  <2> QED
    BY ONLY <2>1, <1>2, <1>6, hand \in limits.hands, cap \in 0 .. Held, PlanSays
<1>8. PICK N \in Nat : N = Len(log)
  BY <1>0, Indices
<1>9. /\ DOMAIN log = 1 .. N /\ DOMAIN log' = 1 .. N + 1
      /\ \A i \in 1 .. N : log'[i] = log[i]
      /\ log'[N + 1] = e
  BY <1>0, <1>4, <1>8, Grown
<1>10. \A i : i \in 1 .. N + 1 <=> i \in 1 .. N \/ i = N + 1
  OBVIOUS
<1>11. \A n \in PlanHistory : n \in 1 .. N /\ log'[n] = log[n] /\ n \in PlanHistory'
  BY <1>9, <1>10 DEF PlanHistory, Of
<1>12. \A n \in PlanHistory' : n \in PlanHistory \/ (n = N + 1 /\ t # <<>>)
  BY <1>5, <1>9, <1>10 DEF PlanHistory, Of
<1>13. PlansPlaced'
  <2>1. ASSUME NEW n \in Of({"PLAN"})' PROVE DOMAIN log'[n].targets \subseteq Securities
    <3>1. n = N + 1 \/ (n \in Of({"PLAN"}) /\ log'[n] = log[n])
      BY <1>9, <1>10, <2>1 DEF Of
    <3> QED
      BY <1>5, <1>7, <1>9, <3>1 DEF TargetsInv, PlansPlaced
  <2> QED
    BY <2>1 DEF PlansPlaced
<1>14. PlansKept'
  <2>1. ASSUME NEW n \in Of({"PLAN"})'
        PROVE  /\ \A s \in DOMAIN log'[n].targets : log'[n].targets[s].qty \in Nat
               /\ Origin(n)' \in Of({"PLAN"})' /\ log'[Origin(n)'].fixes = 0
               /\ log'[Origin(n)'].targets = log'[n].targets /\ log'[Origin(n)'].cut = log'[n].cut
    <3>1. CASE n = N + 1
      <4>1. Origin(n)' = n
        BY <1>5, <1>9, <3>1 DEF Origin
      <4> QED
        BY <1>5, <1>7, <1>9, <2>1, <3>1, <4>1
    <3>2. CASE n # N + 1
      <4>1. n \in Of({"PLAN"}) /\ log'[n] = log[n]
        BY <1>9, <1>10, <2>1, <3>2 DEF Of
      <4>2. PICK f : f = Origin(n)
        OBVIOUS
      <4>3. Origin(n)' = f
        BY <4>1, <4>2 DEF Origin
      <4>4. /\ \A s \in DOMAIN log[n].targets : log[n].targets[s].qty \in Nat
            /\ f \in Of({"PLAN"}) /\ log[f].fixes = 0
            /\ log[f].targets = log[n].targets /\ log[f].cut = log[n].cut
        BY <4>1, <4>2 DEF TargetsInv, PlansKept
      <4>5. f \in Of({"PLAN"})' /\ log'[f] = log[f]
        BY <1>9, <1>10, <4>4 DEF Of
      <4> QED
        BY <4>1, <4>3, <4>4, <4>5
    <3> QED
      BY <3>1, <3>2
  <2>2. ASSUME NEW m \in PlanHistory', NEW n \in PlanHistory', m < n
        PROVE  log'[m].cut <= log'[n].cut /\ Said(log'[m].targets) \subseteq Said(log'[n].targets)
    <3>1. CASE n \in PlanHistory
      <4>1. m \in PlanHistory
        BY <1>8, <1>11, <1>12, <2>2, <3>1
      <4> QED
        BY <1>11, <2>2, <3>1, <4>1 DEF TargetsInv, PlansKept
    <3>2. CASE n = N + 1 /\ t # <<>>
      <4>1. m \in PlanHistory
        BY <1>8, <1>12, <2>2, <3>2
      <4> QED
        BY <1>5, <1>7, <1>9, <1>11, <3>2, <4>1
    <3> QED
      BY <1>12, <2>2, <3>1, <3>2
  <2> QED
    BY <2>1, <2>2 DEF PlansKept, Said
<1>15. Told \subseteq Told'
  <2>1. ASSUME NEW p \in Told PROVE p \in Told'
    <3>1. PICK n \in PlanHistory : p \in Said(log[n].targets)
      BY <2>1 DEF Told
    <3> QED
      BY <1>11, <3>1 DEF Told, Said
  <2> QED
    BY <2>1
<1>16. ~Counts(e, Latest)
  BY <1>5 DEF Counts, AssessmentKinds
<1>17. CasesKept'
  BY <1>4, <1>15, <1>16, NotCounted DEF TargetsInv
<1> QED
  BY <1>13, <1>14, <1>17 DEF TargetsInv

\* What an original assessment of a kind records.
LEMMA RecordTargets ==
    ASSUME ReviewInv, ReviewInv', TargetsInv,
           NEW kind \in AssessmentKinds, NEW cut, NEW src \in DOMAIN log,
           NEW win, NEW req, req.src = src, req.cut = cut,
           Record(kind, cut, src, win, Assessed(kind, req))
    PROVE  TargetsInv'
<1>0. WellKept
  BY DEF ReviewInv
<1>1. PICK out : out = Assessed(kind, req)
  OBVIOUS
<1>2. out.reason # "NOT_FORWARD" => ~Backdated(cut)
  BY <1>0, <1>1, AssessedRisk
<1>3. PICK e : e = [kind |-> kind, fixes |-> 0, cut |-> cut, src |-> src, win |-> win,
                    disp |-> out.disp, reason |-> out.reason, cases |-> out.cases, from |-> out.from]
  OBVIOUS
<1>4. log' = Append(log, e)
  BY <1>1, <1>3 DEF Record, Append1
<1>5. e.kind = kind /\ e.fixes = 0 /\ e.reason = out.reason /\ e.cases = out.cases
  BY <1>3
<1>6. e.kind # "PLAN"
  BY <1>5 DEF AssessmentKinds
<1>7. PlansKept' /\ Told' = Told /\ PlansPlaced'
  BY <1>0, <1>4, <1>6, PlansStay DEF TargetsInv
<1>8. CASE ~Counts(e, Latest)
  <2>1. CasesKept'
    BY <1>4, <1>7, <1>8, NotCounted DEF TargetsInv
  <2> QED
    BY <1>7, <2>1 DEF TargetsInv
<1>9. CASE Counts(e, Latest)
  <2>1. ~Backdated(req.cut)
    BY <1>2, <1>5, <1>9 DEF Counts, Rejected, Monitoring
  <2>2. PICK u : u = Assessed(kind, req).cases
    OBVIOUS
  <2>3. u = e.cases
    BY <1>1, <1>5, <2>2
  <2>4. NoOwed =>
            /\ KeptList(Risk(u), Told)
            /\ Carried(RetainedCases) \subseteq Carried(Risk(u))
            /\ IsSeq(Risk(u))
            /\ \A c : c \in ToSet(Risk(u)) <=> c \in ToSet(u) /\ c.pri # "P2"
    <3>1. SUFFICES ASSUME NoOwed
          PROVE  /\ KeptList(Risk(u), Told)
                 /\ Carried(RetainedCases) \subseteq Carried(Risk(u))
                 /\ IsSeq(Risk(u))
                 /\ \A c : c \in ToSet(Risk(u)) <=> c \in ToSet(u) /\ c.pri # "P2"
      OBVIOUS
    <3>2. PlansKept /\ KeptList(RetainedCases, Told)
      BY <3>1 DEF TargetsInv, CasesKept
    <3> QED
      BY <1>0, <2>1, <2>2, <3>1, <3>2, AssessedKept
  <2>5. CasesKept'
    BY <1>4, <1>7, <1>9, <2>3, <2>4, CountedKept DEF TargetsInv
  <2> QED
    BY <1>7, <2>5 DEF TargetsInv
<1> QED
  BY <1>8, <1>9

\* What a step does to the log.
LEMMA ReviewSteps ==
    ASSUME ReviewInv, [ReviewNext]_reviewVars
    PROVE  \/ log' = log
           \/ Plan
           \/ CorrectReview
           \/ \E e : log' = Append(log, e) /\ e.kind \notin {"PLAN"} \cup AssessmentKinds
           \/ \E kind \in AssessmentKinds, src \in DOMAIN log : \E cut, win, req :
                 req.src = src /\ req.cut = cut /\ Record(kind, cut, src, win, Assessed(kind, req))
<1>1. CASE Act
  <2>1. PICK cut \in 0 .. clock, s \in Securities, hand \in limits.hands, cap \in 0 .. Held,
             hard \in BOOLEAN, reduce \in BOOLEAN :
         /\ hand.ids = {} \/ ~hand.whole => cap = Held
         /\ LET n == Len(log) + 1
                t == Deterministic(s, cut, hand, hard, cap, n)
                stat == reduce /\ ConclusionCounts(s, cut, hand, hard, t)
                own == IF s \in DOMAIN t THEN OwedTargets(Only(s, t[s].qty, t[s].obs)) ELSE <<>>
            IN  /\ reduce => stat
                /\ Append1([kind |-> "ACTION", fixes |-> 0, cut |-> cut, sec |-> s, targets |-> t,
                            own |-> IF stat THEN Conjoin({own, Only(s, 1, {Conclusion(Anchor(s, n))})})
                                    ELSE own,
                            hard |-> hard, capital |-> hand.capital, stat |-> stat,
                            p0 |-> hand.p0, ready |-> hand.whole /\ t # <<>>])
    BY <1>1, Zenon DEF Act
  <2>2. PICK n : n = Len(log) + 1
    OBVIOUS
  <2>3. PICK t : t = Deterministic(s, cut, hand, hard, cap, n)
    OBVIOUS
  <2>4. PICK stat : stat = (reduce /\ ConclusionCounts(s, cut, hand, hard, t))
    OBVIOUS
  <2>5. PICK bare : bare = Only(s, t[s].qty, t[s].obs)
    OBVIOUS
  <2>6. PICK own : own = IF s \in DOMAIN t THEN OwedTargets(bare) ELSE <<>>
    OBVIOUS
  <2>7. PICK more : more = Only(s, 1, {Conclusion(Anchor(s, n))})
    OBVIOUS
  <2>8. PICK both : both = IF stat THEN Conjoin({own, more}) ELSE own
    OBVIOUS
  <2>9. PICK ready : ready = (hand.whole /\ t # <<>>)
    OBVIOUS
  <2>10. PICK e : e = [kind |-> "ACTION", fixes |-> 0, cut |-> cut, sec |-> s, targets |-> t,
                       own |-> both, hard |-> hard, capital |-> hand.capital, stat |-> stat,
                       p0 |-> hand.p0, ready |-> ready]
    OBVIOUS
  <2>11. log' = Append(log, e)
    BY <2>1, <2>2, <2>3, <2>4, <2>5, <2>6, <2>7, <2>8, <2>9, <2>10, Zenon DEF Append1
  <2>12. e.kind = "ACTION"
    BY <2>10
  <2> QED
    BY <2>11, <2>12 DEF AssessmentKinds
<1>2. CASE Fact
  <2>1. PICK e : e = [kind |-> "FACT", fixes |-> 0, cut |-> clock]
    OBVIOUS
  <2>2. log' = Append(log, e)
    BY <1>2, <2>1 DEF Fact, Append1
  <2>3. e.kind = "FACT"
    BY <2>1
  <2> QED
    BY <2>2, <2>3 DEF AssessmentKinds
<1>3. CASE Notify
  <2>1. PICK src \in Of(AssessmentKinds), cut \in 0..clock, key \in limits.keys, attempt \in 1..limits.notices,
          prev \in {0} \cup Of({"NOTIFY"}), quiet \in limits.quiet, immediate \in BOOLEAN, persistent \in BOOLEAN :
        LET req == [src |-> src, cut |-> cut, key |-> key, attempt |-> attempt, prev |-> prev,
                    quiet |-> quiet, immediate |-> immediate, persistent |-> persistent]
            out == Notified(req)
        IN  /\ log[src].cut <= cut
            /\ log[src].cases # <<>>
            /\ attempt = 1 => prev = 0
            /\ \A n \in Of({"NOTIFY"}) :
                   <<log[n].src, log[n].key, log[n].attempt>> # <<src, key, attempt>>
            /\ Append1([kind |-> "NOTIFY", fixes |-> 0, cut |-> cut, src |-> src, key |-> key,
                        attempt |-> attempt, reason |-> out.reason, cases |-> out.cases,
                        sent |-> out.sent, due |-> out.due, at |-> clock])
    BY <1>3, Zenon DEF Notify
  <2>2. PICK out : out = Notified([src |-> src, cut |-> cut, key |-> key, attempt |-> attempt, prev |-> prev,
                                   quiet |-> quiet, immediate |-> immediate, persistent |-> persistent])
    OBVIOUS
  <2>3. PICK e : e = [kind |-> "NOTIFY", fixes |-> 0, cut |-> cut, src |-> src, key |-> key,
                      attempt |-> attempt, reason |-> out.reason, cases |-> out.cases,
                      sent |-> out.sent, due |-> out.due, at |-> clock]
    OBVIOUS
  <2>4. log' = Append(log, e)
    BY <2>1, <2>2, <2>3, Zenon DEF Append1
  <2>5. e.kind = "NOTIFY"
    BY <2>3
  <2> QED
    BY <2>4, <2>5 DEF AssessmentKinds
<1>4. CASE ReportReview
  <2>1. PICK src \in Of(AssessmentKinds), cut \in 0 .. clock :
          log' = Append(log, [kind |-> "REPORT", fixes |-> 0, cut |-> cut, src |-> src,
                       reason |-> IF Backdated(cut) THEN "NOT_FORWARD" ELSE "",
                       cases |-> IF Backdated(cut) THEN <<>> ELSE log[src].cases])
    BY <1>4, Zenon DEF ReportReview, Append1
  <2>2. PICK reason : reason = IF Backdated(cut) THEN "NOT_FORWARD" ELSE ""
    BY Zenon
  <2>3. PICK cases : cases = IF Backdated(cut) THEN <<>> ELSE log[src].cases
    OBVIOUS
  <2>4. PICK e : e = [kind |-> "REPORT", fixes |-> 0, cut |-> cut, src |-> src,
                      reason |-> reason, cases |-> cases]
    OBVIOUS
  <2>5. log' = Append(log, e)
    BY <2>1, <2>2, <2>3, <2>4, Zenon
  <2>6. e.kind = "REPORT"
    BY <2>4
  <2> QED
    BY <2>5, <2>6 DEF AssessmentKinds
<1>5. CASE AssessDaily
  <2>1. PICK src \in DOMAIN log, cut \in 0 .. clock, evidence \in limits.evidence \ {"partial"},
             win \in limits.windows :
           Record("DAILY", cut, src, win,
                  Assessed("DAILY", [src |-> src, cut |-> cut, evidence |-> evidence, win |-> win,
                                     hit |-> {}, shield |-> {}]))
    BY <1>5, Zenon DEF AssessDaily
  <2>2. PICK req : req = [src |-> src, cut |-> cut, evidence |-> evidence, win |-> win,
                          hit |-> {}, shield |-> {}]
    OBVIOUS
  <2>3. req.src = src /\ req.cut = cut
    BY <2>2
  <2>4. Record("DAILY", cut, src, win, Assessed("DAILY", req))
    BY <2>1, <2>2
  <2>5. "DAILY" \in AssessmentKinds
    BY DEF AssessmentKinds
  <2> QED
    BY <2>3, <2>4, <2>5
<1>6. CASE AssessEvent
  <2>1. PICK src \in DOMAIN log, cut \in 0 .. clock, evidence \in limits.evidence,
             win \in limits.windows, mark \in limits.marks :
           Record("EVENT", cut, src, win,
                  Assessed("EVENT", [src |-> src, cut |-> cut, evidence |-> evidence, win |-> win,
                                     hit |-> mark.hit, shield |-> mark.shield]))
    BY <1>6, Zenon DEF AssessEvent
  <2>2. PICK req : req = [src |-> src, cut |-> cut, evidence |-> evidence, win |-> win,
                          hit |-> mark.hit, shield |-> mark.shield]
    OBVIOUS
  <2>3. req.src = src /\ req.cut = cut
    BY <2>2
  <2>4. Record("EVENT", cut, src, win, Assessed("EVENT", req))
    BY <2>1, <2>2
  <2>5. "EVENT" \in AssessmentKinds
    BY DEF AssessmentKinds
  <2> QED
    BY <2>3, <2>4, <2>5
<1>7. CASE Tick \/ Lapse \/ UNCHANGED reviewVars
  BY <1>7 DEF Tick, Lapse, reviewVars
<1> QED
  BY <1>1, <1>2, <1>3, <1>4, <1>5, <1>6, <1>7 DEF ReviewNext

\* What a correction repeats.
LEMMA CorrectionIs ==
    ASSUME WellKept, CorrectReview
    PROVE  \E e : /\ log' = Append(log, e) /\ e.fixes # 0
                  /\ e.fixes \in DOMAIN log /\ log[e.fixes].fixes = 0
                  /\ e.kind = log[e.fixes].kind /\ e.cut = log[e.fixes].cut
                  /\ e.kind = "PLAN" => e.targets = log[e.fixes].targets
                  /\ e.kind \in AssessmentKinds => e.cases = log[e.fixes].cases
<1>1. PICK n \in Of({"PLAN", "ACTION"} \cup AssessmentKinds) :
        log[n].fixes = 0 /\ log' = Append(log, [log[n] EXCEPT !.fixes = n])
  BY Zenon DEF CorrectReview, Append1
<1>2. PICK f : f = log[n]
  OBVIOUS
<1>3. PICK e : e = [f EXCEPT !.fixes = n]
  OBVIOUS
<1>4. n \in DOMAIN log /\ log' = Append(log, e) /\ f.fixes = 0
  BY <1>1, <1>2, <1>3 DEF Of
<1>5. n # 0
  BY <1>4, Indices DEF WellKept
<1>6. /\ {"kind", "fixes", "cut"} \subseteq DOMAIN f
      /\ f.kind = "PLAN" => "targets" \in DOMAIN f
      /\ f.kind \in AssessmentKinds => "cases" \in DOMAIN f
  BY <1>2, <1>4, EntryIs DEF Entry, PlanEntry, ReviewEntry
<1>7. e.fixes = n /\ e.kind = f.kind /\ e.cut = f.cut
  BY <1>3, <1>6
<1>8. f.kind = "PLAN" => e.targets = f.targets
  BY <1>3, <1>6
<1>9. f.kind \in AssessmentKinds => e.cases = f.cases
  BY <1>3, <1>6
<1> QED
  BY <1>2, <1>4, <1>5, <1>7, <1>8, <1>9

\* CorrectReview.
LEMMA CorrectTargets ==
    ASSUME ReviewInv, ReviewInv', TargetsInv, CorrectReview
    PROVE  TargetsInv'
<1>0. WellKept
  BY DEF ReviewInv
<1>1. PICK e : /\ log' = Append(log, e) /\ e.fixes # 0
               /\ e.fixes \in DOMAIN log /\ log[e.fixes].fixes = 0
               /\ e.kind = log[e.fixes].kind /\ e.cut = log[e.fixes].cut
               /\ e.kind = "PLAN" => e.targets = log[e.fixes].targets
               /\ e.kind \in AssessmentKinds => e.cases = log[e.fixes].cases
  BY <1>0, CorrectionIs
<1>2. e.kind = "PLAN" => e.fixes \in Of({"PLAN"})
  BY <1>1 DEF Of
<1>3. PlansKept' /\ Told' = Told /\ PlansPlaced'
  BY <1>0, <1>1, <1>2, PlansStay DEF TargetsInv
<1>4. CASE ~Counts(e, Latest)
  BY <1>1, <1>3, <1>4, NotCounted DEF TargetsInv
<1>5. CASE Counts(e, Latest)
  <2>1. Latest # 0 /\ e.cases = log[Latest].cases
    BY <1>1, <1>5 DEF Counts
  <2> QED
    BY <1>1, <1>3, <1>5, <2>1, RepeatedKept DEF TargetsInv
<1> QED
  BY <1>4, <1>5

\* A step that leaves the log.
LEMMA TargetsStay ==
    ASSUME WellKept, WellKept', TargetsInv, log' = log
    PROVE  TargetsInv'
<1>1. Of({"PLAN"})' = Of({"PLAN"}) /\ Of({"ACTION"})' = Of({"ACTION"})
  BY DEF Of
<1>2. PlanHistory' = PlanHistory
  BY DEF PlanHistory, Of
<1>3. PlansPlaced'
  BY DEF TargetsInv, PlansPlaced, Of
<1>4. \A n : Origin(n)' = Origin(n)
  BY DEF Origin
<1>5. PlansKept'
  BY <1>1, <1>2, <1>4 DEF TargetsInv, PlansKept, Said
<1>6. CasesKept'
  <2>1. RetainedCases' = RetainedCases /\ Latest' = Latest
    <3>1. History' = History
      BY DEF History
    <3> QED
      BY <3>1 DEF RetainedCases, Latest
  <2>2. Told' = Told
    BY <1>2 DEF Told, Said
  <2>3. NoOwed' => NoOwed
    BY <1>1 DEF NoOwed
  <2> QED
    BY <2>1, <2>2, <2>3 DEF TargetsInv, CasesKept, KeptList, Distinct, KeptCase, Carried
<1> QED
  BY <1>3, <1>5, <1>6 DEF TargetsInv

\* The empty log.
LEMMA NothingKept ==
    ASSUME ReviewInit, ReviewInv
    PROVE  TargetsInv
<1>1. PICK none : none = <<>>
  OBVIOUS
<1>2. Len(none) = 0 /\ DOMAIN none = {}
  BY <1>1
<1>3. log = none
  BY <1>1 DEF ReviewInit
<1>4. \A K : Of(K) = {}
  BY <1>2, <1>3 DEF Of
<1>5. PlansPlaced /\ PlansKept
  BY <1>4 DEF PlansPlaced, PlansKept, PlanHistory
<1>6. RetainedCases = none
  <2>1. PICK h : RetainedCases = h[Len(log)] /\ h[0] = <<>>
    BY RetainedNow DEF ReviewInv
  <2> QED
    BY <1>1, <1>2, <1>3, <2>1
<1>7. KeptList(none, Told)
  BY <1>2 DEF KeptList, Distinct, ToSet
<1>8. Latest = 0
  BY <1>4 DEF ReviewInv, OneCurrent
<1> QED
  BY <1>5, <1>6, <1>7, <1>8 DEF TargetsInv, CasesKept

\* Every step keeps it.
LEMMA TargetsStep ==
    ASSUME ReviewInv, TargetsInv, [ReviewNext]_reviewVars
    PROVE  TargetsInv'
<1>1. ReviewInv'
  BY ReviewStep
<1>2. CASE log' = log
  BY <1>1, <1>2, TargetsStay DEF ReviewInv
<1>3. CASE Plan
  BY <1>1, <1>3, PlanTargetsStep
<1>4. CASE CorrectReview
  BY <1>1, <1>4, CorrectTargets
<1>5. CASE \E e : log' = Append(log, e) /\ e.kind \notin {"PLAN"} \cup AssessmentKinds
  BY <1>1, <1>5, BesideTargets
<1>6. CASE \E kind \in AssessmentKinds, src \in DOMAIN log : \E cut, win, req :
              req.src = src /\ req.cut = cut /\ Record(kind, cut, src, win, Assessed(kind, req))
  BY <1>1, <1>6, RecordTargets
<1> QED
  BY <1>2, <1>3, <1>4, <1>5, <1>6, ReviewSteps

\* Plans say no less than the plans before them, and where no position action
\* states an obligation the cases that assessments retain ask for nothing but
\* what execution plans said, each under an identity of its own
\* (execution_plan_history, assess_monitoring).
THEOREM TargetsInvHolds == ReviewSpec => []TargetsInv
<1>1. ReviewInit => ReviewInv /\ TargetsInv
  BY NothingReviewed, NothingKept
<1>2. ReviewInv /\ TargetsInv /\ [ReviewNext]_reviewVars => TargetsInv'
  BY TargetsStep
<1> QED
  BY <1>1, <1>2, ReviewInvHolds, PTL DEF ReviewSpec

\* An event that is no original assessment takes nothing over.
LEMMA BesideKept ==
    ASSUME WellKept, NEW e, log' = Append(log, e), ~(e.kind \in AssessmentKinds /\ e.fixes = 0)
    PROVE  Kept
<1>1. PICK N \in Nat : N = Len(log)
  BY Indices DEF WellKept
<1>2. DOMAIN log = 1 .. N /\ DOMAIN log' = 1 .. N + 1 /\ log'[N + 1] = e
  BY <1>1, Grown DEF WellKept
<1>3. SUFFICES ASSUME NEW n \in DOMAIN log' \ DOMAIN log PROVE ~Taken(n)
  BY DEF Kept
<1>4. n = N + 1
  BY <1>2, <1>3
<1> QED
  BY <1>2, <1>4 DEF Taken

\* An original assessment takes the retained cases over.
LEMMA RecordKept ==
    ASSUME WellKept, TargetsInv, NoOwed,
           NEW kind \in AssessmentKinds, NEW cut, NEW src \in DOMAIN log,
           NEW win, NEW req, req.src = src, req.cut = cut,
           Record(kind, cut, src, win, Assessed(kind, req))
    PROVE  Kept
<1>1. PICK out : out = Assessed(kind, req)
  OBVIOUS
<1>2. PICK e : e = [kind |-> kind, fixes |-> 0, cut |-> cut, src |-> src, win |-> win,
                    disp |-> out.disp, reason |-> out.reason, cases |-> out.cases, from |-> out.from]
  OBVIOUS
<1>3. log' = Append(log, e)
  BY <1>1, <1>2 DEF Record, Append1
<1>4. e.cut = cut /\ e.src = src /\ e.cases = out.cases
  BY <1>2
<1>5. PICK N \in Nat : N = Len(log)
  BY Indices DEF WellKept
<1>6. DOMAIN log = 1 .. N /\ DOMAIN log' = 1 .. N + 1 /\ log'[N + 1] = e
  BY <1>3, <1>5, Grown DEF WellKept
<1>7. SUFFICES ASSUME NEW n \in DOMAIN log' \ DOMAIN log, Taken(n)
      PROVE  Takes(RetainedCases, log'[n].cases)
  BY DEF Kept
<1>8. n = N + 1
  BY <1>6, <1>7
<1>9. ~Backdated(req.cut) /\ ~Outdated(req.src)
  BY <1>4, <1>6, <1>7, <1>8 DEF Taken
<1>10. PICK u : u = Assessed(kind, req).cases
  OBVIOUS
<1>11. PlansKept /\ KeptList(RetainedCases, Told)
  BY DEF TargetsInv, CasesKept
<1>12. Takes(RetainedCases, u)
  BY <1>9, <1>10, <1>11, AssessedKept
<1>13. u = log'[n].cases
  BY <1>1, <1>4, <1>6, <1>8, <1>10
<1> QED
  BY <1>12, <1>13 DEF Takes, Asks

\* Every step keeps the targets.
LEMMA TargetsPassOn ==
    ASSUME ReviewInv, TargetsInv, NoOwed, [ReviewNext]_reviewVars
    PROVE  Kept
<1>0. WellKept
  BY DEF ReviewInv
<1>1. CASE log' = log
  <2>1. DOMAIN log' \ DOMAIN log = {}
    BY <1>1
  <2> QED
    BY <2>1, Zenon DEF Kept
<1>2. CASE Plan
  <2>1. PICK cut \in 0 .. clock, hand \in limits.hands, cap \in 0 .. Held :
          log' = Append(log, [kind |-> "PLAN", fixes |-> 0, cut |-> cut,
                              targets |-> PlanTargets(cut, hand, {}, cap),
                              p0 |-> hand.p0, capital |-> hand.capital,
                              ready |-> hand.whole /\ PlanTargets(cut, hand, {}, cap) # <<>>])
    BY <1>2 DEF Plan, Append1
  <2>2. PICK t : t = PlanTargets(cut, hand, {}, cap)
    OBVIOUS
  <2>3. PICK e : e = [kind |-> "PLAN", fixes |-> 0, cut |-> cut, targets |-> t,
                      p0 |-> hand.p0, capital |-> hand.capital, ready |-> hand.whole /\ t # <<>>]
    OBVIOUS
  <2>4. log' = Append(log, e) /\ e.kind = "PLAN"
    BY <2>1, <2>2, <2>3
  <2> QED
    BY <1>0, <2>4, BesideKept DEF AssessmentKinds
<1>3. CASE CorrectReview
  BY <1>0, <1>3, CorrectionIs, BesideKept
<1>4. CASE \E e : log' = Append(log, e) /\ e.kind \notin {"PLAN"} \cup AssessmentKinds
  BY <1>0, <1>4, BesideKept
<1>5. CASE \E kind \in AssessmentKinds, src \in DOMAIN log : \E cut, win, req :
              req.src = src /\ req.cut = cut /\ Record(kind, cut, src, win, Assessed(kind, req))
  BY <1>0, <1>5, RecordKept
<1> QED
  BY <1>1, <1>2, <1>3, <1>4, <1>5, ReviewSteps

\* What earlier assessments required of a security the next one requires too,
\* no weaker, and as P0 for an obligation that a P0 case holds, while no
\* position action states an obligation (assess_monitoring).
THEOREM TargetsAreKeptHolds == ReviewSpec => TargetsAreKept
<1>1. ReviewInv /\ TargetsInv /\ [ReviewNext]_reviewVars
        => [(\A k \in Of({"ACTION"}) : OwedTargets(log[k].targets) = <<>>) => Kept]_reviewVars
  <2>1. SUFFICES ASSUME ReviewInv, TargetsInv, [ReviewNext]_reviewVars,
                        \A k \in Of({"ACTION"}) : OwedTargets(log[k].targets) = <<>>
                 PROVE  Kept
    BY Zenon
  <2>2. NoOwed
    BY <2>1, Zenon DEF NoOwed
  <2> QED
    BY <2>1, <2>2, TargetsPassOn
<1> QED
  BY <1>1, ReviewInvHolds, TargetsInvHolds, PTL DEF ReviewSpec, TargetsAreKept
=============================================================================
