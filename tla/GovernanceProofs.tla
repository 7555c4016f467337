-------------------------- MODULE GovernanceProofs --------------------------
(***************************************************************************)
(* What the governance of qualifications and of capital epochs guarantees. *)
(*                                                                         *)
(* QualificationGovernance, for every set of versions, policies and        *)
(* evidence, every plan and every bound.  A history is only appended to,   *)
(* and a record names the one it revises.  Whatever the command, the new   *)
(* record fits the history (Fits): it revises the one head of its          *)
(* substantive lineage, carries the status its alerts and restrictions     *)
(* earn, and either keeps the authorization of the record it revises or    *)
(* has a reason for one of its own: nothing was obtained before, or a      *)
(* revocation was answered by an application.  UseTask revises the head of *)
(* one exact version instead; that it is the head of the lineage too       *)
(* follows from Linked: an alias takes over only where a use can restrict  *)
(* nothing.                                                                *)
(*                                                                         *)
(* DrawdownEpochs, for every account, policy, budget and market: risk      *)
(* falls only on a run of calm sessions, a closed epoch gives way only     *)
(* after it has cooled, and units computed afterwards from declared flows  *)
(* are those of one who saw every transfer as it happened.  The last rests *)
(* on UnitsInv: between two observations there is one sequence of units    *)
(* through the pending transfers, each changing the units in the           *)
(* proportion in which it changes the net equity before it; an accepted    *)
(* declaration has no choice but to follow it.                             *)
(***************************************************************************)
EXTENDS QualificationGovernance, DrawdownEpochs,
        FiniteSetTheorems, WellFoundedInduction, TLAPS

(***************************************************************************)
(* Qualifications: QualificationGovernance.                                *)
(***************************************************************************)

-----------------------------------------------------------------------------
(* The inductive invariant *)

\* What StatusIsEarned says of one record.
Earned(r) == /\ r.status = "VALID" => Outstanding(r) = {}
             /\ r.status = "AT_RISK" => r.alerts # {}
             /\ (r.limits # {}) <=> (r.status \in Blocked)

\* Only the first record of a lineage says that nothing was obtained, and
\* only that one has no authorization.
Owned(r) == /\ r.status = "NOT_OBTAINED" <=> r.auth = 0
            /\ r.basis = None <=> r.auth = 0
            /\ r.status = "NOT_OBTAINED" => r.prev = 0

\* A revocation has an instant.
Ended(r) == r.status = "REVOKED" => r.term \in Nat /\ r.term <= now

RecordsSound ==
    \A i \in DOMAIN quals : Earned(quals[i]) /\ Owned(quals[i]) /\ Ended(quals[i])

\* A lineage passes to an alias only where nothing was obtained or after a
\* revocation.
Linked ==
    \A i \in DOMAIN quals : quals[i].prev # 0 =>
        /\ SameRules(quals[quals[i].prev].ver, quals[i].ver)
        /\ \/ quals[i].ver = quals[quals[i].prev].ver
           \/ quals[quals[i].prev].status \in {"NOT_OBTAINED", "REVOKED"}

\* A lineage has at most one head.
OneHead == \A v \in Versions : \A i, j \in SubstantiveHeads(v) : i = j

\* An application is used for one authorization.
OneAuthority ==
    \A i, m \in DOMAIN quals :
        quals[i].app # 0 /\ quals[m].app = quals[i].app => quals[m].auth = quals[i].auth

\* Revocations of one lineage follow each other in time.
RevokedInOrder ==
    \A i \in DOMAIN quals : \A j \in Ancestors(i) :
        quals[i].status = "REVOKED" /\ quals[j].status = "REVOKED"
            => quals[j].term <= quals[i].term

LineageInv == RecordsSound /\ Linked /\ OneHead /\ OneAuthority /\ RevokedInOrder
              /\ RevocationIsFinal

QInv == TypeOK /\ LineageInv /\ within \in Cases

-----------------------------------------------------------------------------
(* What a command appends *)

\* The record revises its predecessor's authorization,
Revises(x) ==
    LET r == quals[x.prev] IN
    /\ r.status # "NOT_OBTAINED"
    /\ x.ver = r.ver /\ x.auth = r.auth /\ x.app = r.app
    /\ r.status = "REVOKED" => x.status = "REVOKED" /\ x.term = r.term
    /\ r.status # "REVOKED" /\ x.status = "REVOKED" => x.term = now

\* or has one of its own where nothing was obtained,
Grants(x) ==
    /\ quals[x.prev].status = "NOT_OBTAINED"
    /\ x.auth = Len(quals) + 1 /\ x.app = 0 /\ x.status = "VALID"

\* or from an application registered after the revocation it answers.
Requalifies(x) ==
    /\ quals[x.prev].status = "REVOKED"
    /\ x.auth = Len(quals) + 1
    /\ x.app \in DOMAIN apps /\ \A i \in DOMAIN quals : quals[i].app # x.app
    /\ quals[x.prev].term < apps[x.app].reg
    /\ x.status \in {"VALID", "AT_RISK"}

Begins(x) ==
    /\ x.prev = 0 /\ SubstantiveHeads(x.ver) = {}
    /\ x.app = 0 /\ x.auth \in {0, Len(quals) + 1}
    /\ x.status \in {"NOT_OBTAINED", "VALID"}

Fits(x) ==
    /\ x \in QualificationRecords /\ Earned(x) /\ Owned(x) /\ Ended(x)
    /\ \/ Begins(x)
       \/ /\ x.prev # 0 /\ SubstantiveHeads(x.ver) = {x.prev}
          /\ Revises(x) \/ Grants(x) \/ Requalifies(x)

\* The history is a sequence of records that name earlier ones.
LEMMA HistoryType ==
    ASSUME TypeOK
    PROVE  /\ quals \in Seq(QualificationRecords) /\ Len(quals) \in Nat
           /\ DOMAIN quals = 1..Len(quals)
           /\ \A i \in DOMAIN quals : /\ quals[i] \in QualificationRecords
                                      /\ i \in Nat /\ i >= 1 /\ i <= Len(quals)
                                      /\ quals[i].prev \in Nat /\ quals[i].prev < i
                                      /\ quals[i].auth \in Nat /\ quals[i].auth <= i
                                      /\ quals[i].app \in Nat /\ quals[i].app <= Len(apps)
                                      /\ quals[i].ver \in Versions
                                      /\ quals[i].basis = None <=> quals[i].auth = 0
                                      /\ quals[i].prev # 0 => quals[i].prev \in DOMAIN quals
           /\ apps \in Seq(Applications) /\ Len(apps) \in Nat /\ DOMAIN apps = 1..Len(apps)
           /\ \A k \in DOMAIN apps : apps[k] \in Applications /\ apps[k].reg \in Nat
<1>1. quals \in Seq(QualificationRecords) /\ apps \in Seq(Applications)
  BY DEF TypeOK
<1>2. /\ Len(quals) \in Nat /\ DOMAIN quals = 1..Len(quals)
      /\ Len(apps) \in Nat /\ DOMAIN apps = 1..Len(apps)
  BY <1>1
<1>3. \A i \in DOMAIN quals : quals[i] \in QualificationRecords
  BY <1>1
<1>4. \A k \in DOMAIN apps : apps[k] \in Applications
  BY <1>1
<1>5. \A i \in DOMAIN quals : /\ quals[i].prev \in Nat /\ quals[i].auth \in Nat
                              /\ quals[i].app \in Nat /\ quals[i].ver \in Versions
  BY <1>3 DEF QualificationRecords
<1>6. \A i \in DOMAIN quals : /\ quals[i].prev < i /\ quals[i].auth <= i
                              /\ quals[i].app <= Len(apps)
                              /\ quals[i].basis = None <=> quals[i].auth = 0
  BY DEF TypeOK
<1>7. \A i \in DOMAIN quals : i \in Nat /\ i >= 1 /\ i <= Len(quals)
  BY <1>2
<1>8. \A i \in DOMAIN quals : quals[i].prev # 0 => quals[i].prev \in DOMAIN quals
  BY <1>2, <1>5, <1>6, <1>7
<1>9. \A k \in DOMAIN apps : apps[k].reg \in Nat
  BY <1>4 DEF Applications
<1> QED
  BY <1>1, <1>2, <1>3, <1>4, <1>5, <1>6, <1>7, <1>8, <1>9

\* Appending to the history.
LEMMA Extended ==
    ASSUME TypeOK, NEW x \in QualificationRecords, quals' = Append(quals, x)
    PROVE  /\ quals' \in Seq(QualificationRecords) /\ Len(quals') = Len(quals) + 1
           /\ DOMAIN quals' = DOMAIN quals \cup {Len(quals) + 1}
           /\ Len(quals) + 1 \notin DOMAIN quals /\ Len(quals) + 1 \in Nat
           /\ \A i \in DOMAIN quals : quals'[i] = quals[i] /\ i < Len(quals) + 1
           /\ quals'[Len(quals) + 1] = x
BY HistoryType

-----------------------------------------------------------------------------
(* Heads *)

\* The one current revision, where there is at most one head.
LEMMA CurrentIs ==
    ASSUME TypeOK, NEW R, R \subseteq DOMAIN quals, NEW p \in Current(HeadsOf(R))
    PROVE  /\ \/ p = 0 /\ HeadsOf(R) = {}
              \/ p # 0 /\ p \in R /\ HeadsOf(R) = {p}
<1>1. HeadsOf(R) \subseteq R /\ HeadsOf(R) \subseteq 1..Len(quals) /\ Len(quals) \in Nat
  BY HistoryType DEF HeadsOf
<1>2. IsFiniteSet(1..Len(quals))
  BY <1>1, FS_Interval
<1>3. IsFiniteSet(HeadsOf(R))
  BY <1>1, <1>2, FS_Subset
<1>4. Cardinality(HeadsOf(R)) \in Nat
  BY <1>3, FS_CardinalityType
<1>5. CASE Cardinality(HeadsOf(R)) > 1
  BY <1>5 DEF Current
<1>6. CASE Cardinality(HeadsOf(R)) = 0
  BY <1>3, <1>4, <1>6, FS_EmptySet DEF Current
<1>7. CASE Cardinality(HeadsOf(R)) = 1
  <2>1. PICK h : HeadsOf(R) = {h}
    BY <1>3, <1>7, FS_Singleton
  <2>2. p = h
    BY <1>7, <2>1 DEF Current
  <2>3. p \in HeadsOf(R) /\ HeadsOf(R) = {p}
    BY <2>1, <2>2
  <2>4. p \in 1..Len(quals) /\ p \in R
    BY <1>1, <2>3
  <2>5. p # 0
    BY <1>1, <2>4
  <2> QED
    BY <2>3, <2>4, <2>5
<1> QED
  BY <1>4, <1>5, <1>6, <1>7

\* At most one head, counted.
LEMMA CountedHeads ==
    ASSUME TypeOK, NEW v \in Versions, \A i, j \in SubstantiveHeads(v) : i = j
    PROVE  Cardinality(SubstantiveHeads(v)) <= 1
<1>1. CASE SubstantiveHeads(v) = {}
  BY <1>1, FS_EmptySet
<1>2. CASE SubstantiveHeads(v) # {}
  <2>1. PICK h : h \in SubstantiveHeads(v)
    BY <1>2
  <2>2. SubstantiveHeads(v) = {h}
    BY <2>1
  <2>3. Cardinality(SubstantiveHeads(v)) = 1
    BY <2>2, FS_Singleton
  <2> QED
    BY <2>3
<1> QED
  BY <1>1, <1>2

\* Versions with the same rules share their heads.
LEMMA SharedHeads ==
    ASSUME NEW v, NEW u, SameRules(u, v)
    PROVE  SubstantiveHeads(u) = SubstantiveHeads(v)
BY DEF SubstantiveHeads, SameRules

\* A record that fits becomes the one head of its lineage.
LEMMA AppendedHeads ==
    ASSUME TypeOK, OneHead, NEW x, Fits(x), quals' = Append(quals, x)
    PROVE  OneHead'
<1>0. x \in QualificationRecords /\ x.ver \in Versions /\ x.prev \in Nat
  BY DEF Fits, QualificationRecords
<1>1. PICK n \in Nat : n = Len(quals) + 1
  BY HistoryType
<1>2. /\ DOMAIN quals' = DOMAIN quals \cup {n} /\ n \notin DOMAIN quals
      /\ \A i \in DOMAIN quals : quals'[i] = quals[i] /\ i < n /\ i \in Nat
      /\ quals'[n] = x
  BY <1>0, <1>1, Extended, HistoryType
<1>3. \A i \in DOMAIN quals : quals[i].prev \in Nat /\ quals[i].prev < i
  BY HistoryType
<1>4. x.prev = 0 \/ x.prev \in DOMAIN quals
  BY DEF Fits, Begins, SubstantiveHeads, HeadsOf
<1>5. \A j \in DOMAIN quals' : quals'[j].prev # n
  BY <1>0, <1>2, <1>3, <1>4
<1>6. ASSUME NEW v \in Versions, ~SameRules(x.ver, v)
      PROVE  SubstantiveHeads(v)' = SubstantiveHeads(v)
  <2>1. {i \in DOMAIN quals' : SameRules(quals'[i].ver, v)}
           = {i \in DOMAIN quals : SameRules(quals[i].ver, v)}
    BY <1>2, <1>6
  <2> QED
    BY <1>2, <2>1 DEF SubstantiveHeads, HeadsOf, SameRules
<1>7. ASSUME NEW v \in Versions, SameRules(x.ver, v)
      PROVE  SubstantiveHeads(v)' = {n}
  <2> DEFINE R == {i \in DOMAIN quals : SameRules(quals[i].ver, v)}
             Q == {i \in DOMAIN quals' : SameRules(quals'[i].ver, v)}
  <2>1. Q = R \cup {n}
    BY <1>2, <1>7
  <2>2. SubstantiveHeads(v)' = {i \in Q : \A j \in Q : quals'[j].prev # i}
    BY DEF SubstantiveHeads, HeadsOf, SameRules
  <2>3. SubstantiveHeads(v) = {i \in R : \A j \in R : quals[j].prev # i}
    BY DEF SubstantiveHeads, HeadsOf
  <2>4. \A i \in R : \E j \in Q : quals'[j].prev = i
    <3>1. SUFFICES ASSUME NEW i \in R PROVE \E j \in Q : quals'[j].prev = i
      OBVIOUS
    <3>2. CASE i \in SubstantiveHeads(v)
      <4>1. SubstantiveHeads(x.ver) = SubstantiveHeads(v)
        BY <1>7, SharedHeads
      <4>2. x.prev = i
        BY <3>2, <4>1 DEF Fits, Begins
      <4> QED
        BY <1>2, <2>1, <4>2
    <3>3. CASE i \notin SubstantiveHeads(v)
      <4>1. PICK j \in R : quals[j].prev = i
        BY <2>3, <3>3
      <4>2. j \in Q /\ quals'[j].prev = i
        BY <1>2, <2>1, <4>1
      <4> QED
        BY <4>2
    <3> QED
      BY <3>2, <3>3
  <2>5. n \in Q /\ \A j \in Q : quals'[j].prev # n
    BY <1>5, <2>1
  <2>6. \A i \in Q : (\A j \in Q : quals'[j].prev # i) <=> i = n
    <3> HIDE DEF R, Q
    <3> QED
      BY <2>1, <2>4, <2>5
  <2>7. {i \in Q : \A j \in Q : quals'[j].prev # i} = {n}
    <3> HIDE DEF R, Q
    <3> QED
      BY <2>5, <2>6
  <2> QED
    BY <2>2, <2>7
<1>8. ASSUME NEW v \in Versions
      PROVE  (\A i, j \in SubstantiveHeads(v) : i = j)'
  <2>1. CASE SameRules(x.ver, v)
    BY <1>7, <2>1
  <2>2. CASE ~SameRules(x.ver, v)
    BY <1>6, <2>2 DEF OneHead
  <2> QED
    BY <2>1, <2>2
<1> QED
  BY <1>8 DEF OneHead

-----------------------------------------------------------------------------
(* Ancestors *)

\* What a record of the history descends from was there before it, and is
\* closed under revision.
LEMMA AncestorsAre ==
    ASSUME TypeOK, NEW p \in DOMAIN quals
    PROVE  /\ p \in Ancestors(p) /\ Ancestors(p) \subseteq DOMAIN quals
           /\ Descent(Ancestors(p))
           /\ quals[p].prev = 0 => Ancestors(p) = {p}
<1>1. p \in Ancestors(p) /\ Ancestors(p) \subseteq DOMAIN quals
  BY DEF Ancestors
<1>2. Descent(Ancestors(p))
  <2>1. SUFFICES ASSUME NEW k \in Ancestors(p), quals[k].prev # 0
                 PROVE  quals[k].prev \in Ancestors(p)
    BY DEF Descent
  <2>2. quals[k].prev \in DOMAIN quals
    BY <1>1, <2>1, HistoryType
  <2>3. ASSUME NEW S \in SUBSET DOMAIN quals, p \in S, Descent(S)
        PROVE  quals[k].prev \in S
    BY <2>1, <2>3 DEF Ancestors, Descent
  <2> QED
    BY <2>2, <2>3 DEF Ancestors
<1>3. ASSUME quals[p].prev = 0 PROVE Ancestors(p) = {p}
  <2>1. {p} \in SUBSET DOMAIN quals /\ p \in {p} /\ Descent({p})
    BY <1>3 DEF Descent
  <2>2. \A j \in Ancestors(p) : j \in {p}
    BY <2>1 DEF Ancestors
  <2> QED
    BY <1>1, <2>2
<1> QED
  BY <1>1, <1>2, <1>3

\* Appending a record gives the earlier ones no new ancestors,
LEMMA KeptAncestors ==
    ASSUME TypeOK, NEW x \in QualificationRecords, quals' = Append(quals, x),
           NEW i \in DOMAIN quals
    PROVE  Ancestors(i)' \subseteq Ancestors(i)
<1>1. /\ DOMAIN quals \subseteq DOMAIN quals'
      /\ \A k \in DOMAIN quals : quals'[k] = quals[k]
  BY Extended
<1>2. SUFFICES ASSUME NEW j, j \in Ancestors(i)' PROVE j \in Ancestors(i)
  OBVIOUS
<1>3. ASSUME NEW S \in SUBSET DOMAIN quals, i \in S, Descent(S)
      PROVE  j \in S
  <2>1. S \in SUBSET DOMAIN quals'
    BY <1>1
  <2>2. Descent(S)'
    BY <1>1, <1>3 DEF Descent
  <2> QED
    BY <1>2, <1>3, <2>1, <2>2 DEF Ancestors
<1>4. Descent(DOMAIN quals)
  BY HistoryType DEF Descent
<1>5. j \in DOMAIN quals
  BY <1>3, <1>4
<1> QED
  BY <1>3, <1>5 DEF Ancestors

\* and the new one descends from itself and what it revises.
LEMMA NewAncestors ==
    ASSUME TypeOK, NEW x \in QualificationRecords, quals' = Append(quals, x),
           NEW n, n = Len(quals) + 1, x.prev = 0 \/ x.prev \in DOMAIN quals,
           NEW j, j \in Ancestors(n)'
    PROVE  \/ j = n
           \/ x.prev # 0 /\ j \in Ancestors(x.prev)
<1>1. /\ DOMAIN quals' = DOMAIN quals \cup {n}
      /\ \A k \in DOMAIN quals : quals'[k] = quals[k]
      /\ quals'[n] = x
  BY Extended
<1>2. CASE x.prev = 0
  <2>1. {n} \in SUBSET DOMAIN quals' /\ n \in {n} /\ Descent({n})'
    BY <1>1, <1>2 DEF Descent
  <2> QED
    BY <2>1 DEF Ancestors
<1>3. CASE x.prev # 0
  <2>1. PICK p \in DOMAIN quals : p = x.prev
    BY <1>3
  <2>2. PICK A : A = Ancestors(p)
    OBVIOUS
  <2>3. p \in A /\ A \subseteq DOMAIN quals /\ Descent(A)
    BY <2>2, AncestorsAre
  <2>4. Descent(A \cup {n})'
    BY <1>1, <2>1, <2>3 DEF Descent
  <2>5. A \cup {n} \in SUBSET DOMAIN quals' /\ n \in A \cup {n}
    BY <1>1, <2>3
  <2>6. j \in A \cup {n}
    BY <2>4, <2>5 DEF Ancestors
  <2> QED
    BY <1>3, <2>1, <2>2, <2>6
<1> QED
  BY <1>2, <1>3

-----------------------------------------------------------------------------
(* Appending a record that fits *)

\* The history stays well formed,
LEMMA AppendedHistory ==
    ASSUME TypeOK, NEW x, Fits(x), quals' = Append(quals, x), UNCHANGED apps
    PROVE  /\ (quals \in Seq(QualificationRecords))'
           /\ (\A i \in DOMAIN quals :
                  /\ quals[i].prev < i /\ quals[i].auth <= i /\ quals[i].app <= Len(apps)
                  /\ quals[i].basis = None <=> quals[i].auth = 0)'
           /\ DOMAIN quals \subseteq DOMAIN quals'
<1>1. PICK n \in Nat : n = Len(quals) + 1
  BY HistoryType
<1>2. x \in QualificationRecords
  BY DEF Fits
<1>3. /\ quals' \in Seq(QualificationRecords)
      /\ DOMAIN quals' = DOMAIN quals \cup {n} /\ quals'[n] = x
      /\ \A i \in DOMAIN quals : quals'[i] = quals[i] /\ i < n
  BY <1>1, <1>2, Extended
<1>4. x.prev = 0 \/ x.prev \in DOMAIN quals
  BY DEF Fits, Begins, SubstantiveHeads, HeadsOf
<1>5. x.prev < n
  BY <1>1, <1>3, <1>4, HistoryType
<1>6. x.auth <= n /\ x.app <= Len(apps)
  <2>1. CASE Begins(x)
    BY <1>1, <2>1, HistoryType DEF Begins
  <2>2. ASSUME x.prev # 0, Revises(x)
        PROVE  x.auth <= n /\ x.app <= Len(apps)
    <3>1. x.auth = quals[x.prev].auth /\ x.app = quals[x.prev].app
      BY <2>2 DEF Revises
    <3>2. x.prev \in DOMAIN quals /\ x.prev < n
      BY <1>3, <1>4, <2>2
    <3> QED
      BY <3>1, <3>2, HistoryType
  <2>3. CASE Grants(x)
    BY <1>1, <2>3, HistoryType DEF Grants
  <2>4. CASE Requalifies(x)
    BY <1>1, <2>4, HistoryType DEF Requalifies
  <2> QED
    BY <2>1, <2>2, <2>3, <2>4 DEF Fits
<1>7. x.basis = None <=> x.auth = 0
  BY DEF Fits, Owned
<1>8. \A i \in DOMAIN quals : /\ quals[i].prev < i /\ quals[i].auth <= i
                              /\ quals[i].app <= Len(apps)
                              /\ quals[i].basis = None <=> quals[i].auth = 0
  BY HistoryType
<1> QED
  BY <1>3, <1>5, <1>6, <1>7, <1>8

\* its records sound and linked,
LEMMA AppendedRecords ==
    ASSUME TypeOK, RecordsSound, Linked, NEW x, Fits(x), quals' = Append(quals, x),
           UNCHANGED now
    PROVE  RecordsSound' /\ Linked'
<1>1. PICK n \in Nat : n = Len(quals) + 1
  BY HistoryType
<1>2. x \in QualificationRecords
  BY DEF Fits
<1>3. /\ DOMAIN quals' = DOMAIN quals \cup {n} /\ quals'[n] = x
      /\ \A i \in DOMAIN quals : quals'[i] = quals[i]
  BY <1>1, <1>2, Extended
<1>4. x.prev = 0 \/ x.prev \in DOMAIN quals
  BY DEF Fits, Begins, SubstantiveHeads, HeadsOf
<1>5. RecordsSound'
  <2>1. \A i \in DOMAIN quals' : Earned(quals'[i]) /\ Owned(quals'[i]) /\ Ended(quals'[i])
    BY <1>3 DEF RecordsSound, Fits
  <2> QED
    BY <2>1 DEF RecordsSound, Ended
<1>6. ASSUME x.prev # 0
      PROVE  /\ SameRules(quals[x.prev].ver, x.ver)
             /\ \/ x.ver = quals[x.prev].ver
                \/ quals[x.prev].status \in {"NOT_OBTAINED", "REVOKED"}
  <2>1. x.prev \in SubstantiveHeads(x.ver) /\ (Revises(x) \/ Grants(x) \/ Requalifies(x))
    BY <1>6 DEF Fits, Begins
  <2>2. SameRules(quals[x.prev].ver, x.ver)
    BY <2>1 DEF SubstantiveHeads, HeadsOf
  <2>3. \/ x.ver = quals[x.prev].ver
        \/ quals[x.prev].status \in {"NOT_OBTAINED", "REVOKED"}
    BY <2>1 DEF Revises, Grants, Requalifies
  <2> QED
    BY <2>2, <2>3
<1>7. \A i \in DOMAIN quals' : quals'[i].prev # 0 =>
        /\ quals'[i].prev \in DOMAIN quals
        /\ SameRules(quals[quals'[i].prev].ver, quals'[i].ver)
        /\ \/ quals'[i].ver = quals[quals'[i].prev].ver
           \/ quals[quals'[i].prev].status \in {"NOT_OBTAINED", "REVOKED"}
  BY <1>3, <1>4, <1>6, HistoryType DEF Linked
<1>8. Linked'
  BY <1>3, <1>7 DEF Linked, SameRules
<1> QED
  BY <1>5, <1>8

\* an application still used for one authorization,
LEMMA AppendedAuthority ==
    ASSUME TypeOK, OneAuthority, NEW x, Fits(x), quals' = Append(quals, x)
    PROVE  OneAuthority'
<1>1. PICK n \in Nat : n = Len(quals) + 1
  BY HistoryType
<1>2. x \in QualificationRecords
  BY DEF Fits
<1>3. /\ DOMAIN quals' = DOMAIN quals \cup {n} /\ quals'[n] = x
      /\ \A i \in DOMAIN quals : quals'[i] = quals[i]
  BY <1>1, <1>2, Extended
<1>4. ASSUME NEW i \in DOMAIN quals, x.app # 0, quals[i].app = x.app
      PROVE  x.auth = quals[i].auth
  <2>1. ~Begins(x) /\ ~Grants(x) /\ ~Requalifies(x)
    BY <1>4 DEF Begins, Grants, Requalifies
  <2>2. Revises(x) /\ x.prev \in DOMAIN quals
    BY <2>1 DEF Fits, SubstantiveHeads, HeadsOf
  <2>3. x.app = quals[x.prev].app /\ x.auth = quals[x.prev].auth
    BY <2>2 DEF Revises
  <2> QED
    BY <1>4, <2>2, <2>3 DEF OneAuthority
<1>5. \A i, m \in DOMAIN quals' :
        quals'[i].app # 0 /\ quals'[m].app = quals'[i].app => quals'[m].auth = quals'[i].auth
  BY <1>3, <1>4 DEF OneAuthority
<1> QED
  BY <1>5 DEF OneAuthority

\* revocations in order,
LEMMA AppendedRevocations ==
    ASSUME TypeOK, RecordsSound, RevokedInOrder, NEW x, Fits(x),
           quals' = Append(quals, x), UNCHANGED now
    PROVE  RevokedInOrder'
<1>1. PICK n \in Nat : n = Len(quals) + 1
  BY HistoryType
<1>2. x \in QualificationRecords
  BY DEF Fits
<1>3. /\ DOMAIN quals' = DOMAIN quals \cup {n} /\ quals'[n] = x
      /\ \A i \in DOMAIN quals : quals'[i] = quals[i]
  BY <1>1, <1>2, Extended
<1>4. x.prev = 0 \/ x.prev \in DOMAIN quals
  BY DEF Fits, Begins, SubstantiveHeads, HeadsOf
<1>5. SUFFICES ASSUME NEW i \in DOMAIN quals', NEW j, j \in Ancestors(i)',
                      quals'[i].status = "REVOKED", quals'[j].status = "REVOKED"
               PROVE  quals'[j].term <= quals'[i].term
  BY DEF RevokedInOrder
<1>6. CASE i \in DOMAIN quals
  <2>1. j \in Ancestors(i)
    BY <1>2, <1>5, <1>6, KeptAncestors
  <2>2. j \in DOMAIN quals
    BY <1>6, <2>1, AncestorsAre
  <2> QED
    BY <1>3, <1>5, <1>6, <2>1, <2>2 DEF RevokedInOrder
<1>7. CASE i = n
  <2>1. x.status = "REVOKED" /\ x.term \in Nat /\ x.term <= now
    BY <1>3, <1>5, <1>7 DEF Fits, Ended
  <2>2. CASE j = n
    BY <1>3, <1>7, <2>1, <2>2
  <2>3. CASE j # n
    <3>1. PICK p \in DOMAIN quals : p = x.prev
      BY <1>1, <1>2, <1>4, <1>5, <1>7, <2>3, NewAncestors
    <3>2. x.prev # 0 /\ j \in Ancestors(p)
      BY <1>1, <1>2, <1>4, <1>5, <1>7, <2>3, <3>1, NewAncestors
    <3>3. j \in DOMAIN quals /\ quals[j].status = "REVOKED"
      BY <1>3, <1>5, <3>2, AncestorsAre
    <3>4. quals[j].term \in Nat /\ quals[j].term <= now
      BY <3>3 DEF RecordsSound, Ended
    <3>5. Revises(x)
      BY <2>1, <3>2 DEF Fits, Begins, Grants, Requalifies
    <3>6. quals[j].term <= x.term
      <4>1. CASE quals[p].status = "REVOKED"
        <5>1. x.term = quals[p].term
          BY <3>1, <3>5, <4>1 DEF Revises
        <5> QED
          BY <3>2, <3>3, <4>1, <5>1 DEF RevokedInOrder
      <4>2. CASE quals[p].status # "REVOKED"
        <5>1. x.term = now
          BY <2>1, <3>1, <3>5, <4>2 DEF Revises
        <5> QED
          BY <3>4, <5>1
      <4> QED
        BY <4>1, <4>2
    <3> QED
      BY <1>3, <1>7, <3>3, <3>6
  <2> QED
    BY <2>2, <2>3
<1> QED
  BY <1>3, <1>6, <1>7

\* What RevocationIsFinal asks of a record and an ancestor that was revoked.
Reauthorized(i, j) ==
    /\ quals[i].auth > j /\ quals[i].app # 0
    /\ apps[quals[i].app].reg > quals[j].term
    /\ \A m \in DOMAIN quals : quals[m].app = quals[i].app => quals[m].auth = quals[i].auth

\* RevocationIsFinal, in those words.
LEMMA FinalIs ==
    RevocationIsFinal <=>
        \A i \in DOMAIN quals : \A j \in Ancestors(i) :
            quals[j].status = "REVOKED" /\ quals[i].status # "REVOKED" => Reauthorized(i, j)
BY DEF RevocationIsFinal, Reauthorized

\* and no authority after a revocation but by a requalification.
LEMMA AppendedFinality ==
    ASSUME TypeOK, RecordsSound, OneAuthority, OneAuthority', RevokedInOrder,
           RevocationIsFinal, NEW x, Fits(x), quals' = Append(quals, x), UNCHANGED apps
    PROVE  RevocationIsFinal'
<1>1. PICK n \in Nat : n = Len(quals) + 1
  BY HistoryType
<1>2. x \in QualificationRecords
  BY DEF Fits
<1>3. /\ DOMAIN quals' = DOMAIN quals \cup {n} /\ quals'[n] = x
      /\ \A i \in DOMAIN quals : quals'[i] = quals[i] /\ i < n
  BY <1>1, <1>2, Extended
<1>4. x.prev = 0 \/ x.prev \in DOMAIN quals
  BY DEF Fits, Begins, SubstantiveHeads, HeadsOf
<1>5. SUFFICES ASSUME NEW i \in DOMAIN quals', NEW j, j \in Ancestors(i)',
                      quals'[j].status = "REVOKED", quals'[i].status # "REVOKED"
               PROVE  Reauthorized(i, j)'
  BY DEF RevocationIsFinal, Reauthorized
<1>6. SUFFICES /\ quals'[i].auth > j /\ quals'[i].app # 0
               /\ apps[quals'[i].app].reg > quals'[j].term
  BY <1>5 DEF Reauthorized, OneAuthority
<1>7. CASE i \in DOMAIN quals
  <2>1. j \in Ancestors(i)
    BY <1>2, <1>5, <1>7, KeptAncestors
  <2>2. j \in DOMAIN quals
    BY <1>7, <2>1, AncestorsAre
  <2>3. Reauthorized(i, j)
    BY <1>3, <1>5, <1>7, <2>1, <2>2, FinalIs
  <2> QED
    BY <1>3, <1>7, <2>2, <2>3 DEF Reauthorized
<1>8. CASE i = n
  <2>1. j # n /\ x.status # "REVOKED"
    BY <1>3, <1>5, <1>8
  <2>2. PICK p \in DOMAIN quals : p = x.prev
    BY <1>1, <1>2, <1>4, <1>5, <1>8, <2>1, NewAncestors
  <2>3. x.prev # 0 /\ j \in Ancestors(p)
    BY <1>1, <1>2, <1>4, <1>5, <1>8, <2>1, <2>2, NewAncestors
  <2>4. j \in DOMAIN quals /\ quals[j].status = "REVOKED" /\ j < n
    BY <1>3, <1>5, <2>3, AncestorsAre
  <2>5. CASE Revises(x)
    <3>1. quals[p].status # "REVOKED" /\ x.auth = quals[p].auth /\ x.app = quals[p].app
      BY <2>1, <2>2, <2>5 DEF Revises
    <3>2. Reauthorized(p, j)
      BY <2>3, <2>4, <3>1, FinalIs
    <3> QED
      BY <1>3, <1>8, <2>4, <3>1, <3>2 DEF Reauthorized
  <2>6. CASE Grants(x)
    <3>1. quals[p].status = "NOT_OBTAINED"
      BY <2>2, <2>6 DEF Grants
    <3>2. quals[p].prev = 0
      BY <3>1 DEF RecordsSound, Owned
    <3>3. j = p
      BY <2>3, <3>2, AncestorsAre
    <3> QED
      BY <2>4, <3>1, <3>3
  <2>7. CASE Requalifies(x)
    <3>1. /\ quals[p].status = "REVOKED" /\ x.auth = n /\ x.app \in DOMAIN apps
          /\ quals[p].term < apps[x.app].reg
      BY <1>1, <2>2, <2>7 DEF Requalifies
    <3>2. quals[j].term <= quals[p].term
      BY <2>3, <2>4, <3>1 DEF RevokedInOrder
    <3>3. quals[j].term \in Nat /\ quals[p].term \in Nat
      BY <2>4, <3>1 DEF RecordsSound, Ended
    <3>4. x.app # 0 /\ apps[x.app].reg \in Nat
      BY <3>1, HistoryType
    <3>5. apps[x.app].reg > quals[j].term
      BY <3>1, <3>2, <3>3, <3>4
    <3>6. x.auth > j
      BY <2>4, <3>1, HistoryType
    <3> QED
      BY <1>3, <1>8, <2>4, <3>4, <3>5, <3>6
  <2> QED
    BY <2>3, <2>5, <2>6, <2>7 DEF Fits, Begins
<1> QED
  BY <1>3, <1>7, <1>8

\* So a record that fits keeps the invariant of the lineages.
LEMMA AppendedLineage ==
    ASSUME TypeOK, LineageInv, NEW x, Fits(x), quals' = Append(quals, x),
           UNCHANGED <<now, apps>>
    PROVE  LineageInv'
<1>1. RecordsSound' /\ Linked'
  BY AppendedRecords DEF LineageInv
<1>2. OneHead'
  BY AppendedHeads DEF LineageInv
<1>3. OneAuthority'
  BY AppendedAuthority DEF LineageInv
<1>4. RevokedInOrder'
  BY AppendedRevocations DEF LineageInv
<1>5. RevocationIsFinal'
  BY <1>3, AppendedFinality DEF LineageInv
<1> QED
  BY <1>1, <1>2, <1>3, <1>4, <1>5 DEF LineageInv

-----------------------------------------------------------------------------
(* What commands are made of *)

\* Evidence that a command brings.
LEMMA Brought ==
    ASSUME within \in Cases, NEW e \in within.evidence, NEW v \in within.versions
    PROVE  /\ e.end \in Nat /\ e.at \in Nat /\ e.act \in Nat \cup {None}
           /\ v \in Versions /\ By(e, v) \in Evidences
           /\ \A k \in Nat \ {0}, ok \in BOOLEAN : Checked(e, v, k, ok) \in Checks
<1>1. e \in Evidence /\ v \in Versions
  BY GovernanceConstants
<1>2. e.end \in Nat /\ e.at \in Nat /\ e.act \in Nat \cup {None}
  BY <1>1, GovernanceConstants
<1> QED
  BY <1>1, <1>2 DEF By, Checked, Evidences, Checks

\* The head a command revises.
LEMMA RevisedHead ==
    ASSUME TypeOK, RecordsSound, NEW v \in Versions,
           NEW p \in Current(SubstantiveHeads(v)), p # 0
    PROVE  /\ p \in DOMAIN quals /\ p \in Nat /\ quals[p] \in QualificationRecords
           /\ SubstantiveHeads(v) = {p} /\ SubstantiveHeads(quals[p].ver) = {p}
           /\ Earned(quals[p]) /\ Owned(quals[p]) /\ Ended(quals[p])
<1>1. SubstantiveHeads(v) = {p} /\ p \in {i \in DOMAIN quals : SameRules(quals[i].ver, v)}
  BY CurrentIs DEF SubstantiveHeads
<1>2. SubstantiveHeads(quals[p].ver) = {p}
  BY <1>1, SharedHeads
<1>3. quals[p] \in QualificationRecords /\ p \in Nat
  BY <1>1, HistoryType
<1> QED
  BY <1>1, <1>2, <1>3 DEF RecordsSound

\* Nothing has been obtained, or ever was, where there is no head.
LEMMA NoHead ==
    ASSUME TypeOK, NEW v \in Versions, 0 \in Current(SubstantiveHeads(v))
    PROVE  SubstantiveHeads(v) = {}
BY CurrentIs DEF SubstantiveHeads

\* A record with a basis, and what it rests on.
LEMMA Based ==
    ASSUME NEW r \in QualificationRecords, Owned(r), r.auth # 0
    PROVE  /\ r.basis # None /\ r.status # "NOT_OBTAINED"
           /\ Basis(r) \in Evidences \cup Checks
BY DEF Owned, Basis, QualificationRecords

\* The next check has an index and the next node a place.
LEMMA NextCheck ==
    ASSUME NEW r \in QualificationRecords
    PROVE  CheckIndex(r) \in Nat \ {0} /\ NextNode(r) \in Nat \ {0}
<1>1. CheckIndex(r) \in Nat \ {0}
  BY NoneAssumption DEF CheckIndex, QualificationRecords, Checks
<1>2. r.done \in Seq(Dispositions)
  BY DEF QualificationRecords
<1>3. CASE r.done = <<>>
  BY <1>1, <1>3 DEF NextNode
<1>4. CASE r.done # <<>>
  <2>1. r.done[Len(r.done)] \in Dispositions
    BY <1>2, <1>4
  <2>2. r.done[Len(r.done)].node \in Nat
    BY <2>1, GovernanceConstants DEF Dispositions
  <2> QED
    BY <1>1, <1>4, <2>2 DEF NextNode
<1> QED
  BY <1>1, <1>3, <1>4

\* Disposing of a node that was reached.
LEMMA DisposedIs ==
    ASSUME NEW r \in QualificationRecords, NEW e, e.at \in Nat,
           NodeReached(e, NextNode(r)), NEW k \in Nat \ {0},
           NEW how \in {"EXECUTED_PASS", "EXECUTED_FAIL", "INSUFFICIENT", "NOT_EXECUTED"}
    PROVE  Disposed(r, NextNode(r), how, k, e) \in Seq(Dispositions)
<1>1. NextNode(r) \in DOMAIN PlannedNodes
  BY NextCheck, GovernanceConstants DEF NodeReached
<1>2. [node |-> NextNode(r), how |-> how, index |-> k, at |-> e.at] \in Dispositions
  BY <1>1 DEF Dispositions
<1>3. r.done \in Seq(Dispositions)
  BY DEF QualificationRecords
<1> QED
  BY <1>2, <1>3 DEF Disposed

\* An expiry restricts a record in force, and changes no other.
LEMMA Restricted ==
    ASSUME NEW r \in QualificationRecords, Earned(r), Owned(r), NEW x, x = RestrictExpired(r)
    PROVE  /\ x \in QualificationRecords /\ Earned(x)
           /\ x.prev = r.prev /\ x.auth = r.auth /\ x.ver = r.ver /\ x.app = r.app
           /\ x.at = r.at /\ x.term = r.term /\ x.basis = r.basis
           /\ x.formal = r.formal /\ x.pass = r.pass /\ x.activity = r.activity
           /\ x.alerts = r.alerts /\ x.closures = r.closures
           /\ x.proofs = r.proofs /\ x.done = r.done
           /\ x.status # r.status => x.status = "SUSPENDED" /\ r.status \in {"VALID", "AT_RISK"}
           /\ x # r => x.status = "SUSPENDED" /\ r.status \in {"VALID", "AT_RISK", "SUSPENDED"}
<1>1. CASE x = r
  BY <1>1
<1>2. CASE x # r
  <2>1. /\ r.status \in {"VALID", "AT_RISK", "SUSPENDED"}
        /\ ExpiryCause(r) # "CURRENT"
        /\ x = [r EXCEPT !.status = "SUSPENDED",
                         !.limits = @ \cup {[cause |-> ExpiryCause(r), ev |-> Basis(r)]}]
    BY <1>2 DEF RestrictExpired
  <2>2. ExpiryCause(r) \in {"EVIDENCE_EXPIRED", "STATE_ACTIVITY_EXPIRED"}
    BY <2>1 DEF ExpiryCause
  <2>3. Basis(r) \in Evidences \cup Checks
    BY <2>1, Based DEF Owned
  <2>4. PICK l : l = [cause |-> ExpiryCause(r), ev |-> Basis(r)]
    OBVIOUS
  <2>0. l \in Restrictions
    BY <2>2, <2>3, <2>4 DEF Restrictions
  <2>5. x = [r EXCEPT !.status = "SUSPENDED", !.limits = r.limits \cup {l}]
    BY <2>1, <2>4
  <2>9. x \in QualificationRecords
    <3>1. r.limits \in SUBSET Restrictions
      BY DEF QualificationRecords
    <3>2. r.limits \cup {l} \in SUBSET Restrictions
      BY <2>0, <3>1
    <3> QED
      BY ZenonT(60), <2>5, <3>2 DEF QualificationRecords, Blocked
  <2>6. /\ x.status = "SUSPENDED" /\ x.limits # {}
        /\ x.prev = r.prev /\ x.auth = r.auth /\ x.ver = r.ver /\ x.app = r.app
        /\ x.at = r.at /\ x.term = r.term /\ x.basis = r.basis
        /\ x.formal = r.formal /\ x.pass = r.pass /\ x.activity = r.activity
        /\ x.alerts = r.alerts /\ x.closures = r.closures
        /\ x.proofs = r.proofs /\ x.done = r.done
    BY <2>5 DEF QualificationRecords
  <2>7. Earned(x)
    BY <2>6 DEF Earned, Blocked
  <2>8. r.status # "SUSPENDED" => r.status \in {"VALID", "AT_RISK"}
    BY <2>1
  <2> QED
    BY <2>1, <2>6, <2>7, <2>8, <2>9
<1> QED
  BY <1>1, <1>2

\* A revision names what it revises and when, and is otherwise the same.
LEMMA SuccessorIs ==
    ASSUME NEW r \in QualificationRecords, NEW p \in Nat, NEW e, e.at \in Nat,
           NEW x, x = Successor(r, p, e)
    PROVE  /\ x \in QualificationRecords /\ x.prev = p /\ x.at = e.at
           /\ x.auth = r.auth /\ x.ver = r.ver /\ x.app = r.app /\ x.status = r.status
           /\ x.term = r.term /\ x.basis = r.basis /\ x.limits = r.limits
           /\ x.formal = r.formal /\ x.pass = r.pass /\ x.activity = r.activity
           /\ x.alerts = r.alerts /\ x.closures = r.closures
           /\ x.proofs = r.proofs /\ x.done = r.done
BY DEF Successor, QualificationRecords

\* A record that keeps the authorization of the head it revises fits.
LEMMA RevisionFits ==
    ASSUME NEW p \in DOMAIN quals, p # 0, Owned(quals[p]), Ended(quals[p]), now \in Nat,
           SubstantiveHeads(quals[p].ver) = {p}, quals[p].auth # 0,
           NEW x \in QualificationRecords, Earned(x), x.prev = p,
           x.ver = quals[p].ver, x.auth = quals[p].auth, x.app = quals[p].app,
           x.basis = quals[p].basis, x.status # "NOT_OBTAINED",
           quals[p].status = "REVOKED" => x.status = "REVOKED" /\ x.term = quals[p].term,
           quals[p].status # "REVOKED" /\ x.status = "REVOKED" => x.term = now
    PROVE  Fits(x)
<1>1. quals[p].status # "NOT_OBTAINED" /\ quals[p].basis # None
  BY DEF Owned
<1>2. Revises(x)
  BY <1>1 DEF Revises
<1>3. Owned(x)
  BY <1>1 DEF Owned
<1>4. Ended(x)
  BY DEF Ended
<1> QED
  BY <1>2, <1>3, <1>4 DEF Fits

-----------------------------------------------------------------------------
(* Every command appends a record that fits *)

\* A command meets the history with the head of its lineage.
Facing(v, e, p) ==
    /\ TypeOK /\ LineageInv /\ within \in Cases
    /\ v \in within.versions /\ e \in within.evidence
    /\ p \in Current(SubstantiveHeads(v))

\* One record is appended, and it fits.
Recorded == \E x : Fits(x) /\ quals' = Append(quals, x)

\* What a command can rely on.
LEMMA Faced ==
    ASSUME NEW v, NEW e, NEW p, Facing(v, e, p)
    PROVE  /\ now \in Nat /\ v \in Versions
           /\ e.end \in Nat /\ e.at \in Nat /\ e.act \in Nat \cup {None}
           /\ By(e, v) \in Evidences
           /\ \A k \in Nat \ {0}, ok \in BOOLEAN : Checked(e, v, k, ok) \in Checks
           /\ p = 0 => SubstantiveHeads(v) = {}
           /\ p # 0 => /\ p \in DOMAIN quals /\ p \in Nat
                       /\ quals[p] \in QualificationRecords
                       /\ SubstantiveHeads(v) = {p} /\ SubstantiveHeads(quals[p].ver) = {p}
                       /\ Earned(quals[p]) /\ Owned(quals[p]) /\ Ended(quals[p])
<1>1. /\ TypeOK /\ RecordsSound /\ within \in Cases
      /\ v \in within.versions /\ e \in within.evidence
      /\ p \in Current(SubstantiveHeads(v))
  BY DEF Facing, LineageInv
<1>2. now \in Nat
  BY <1>1, GovernanceConstants DEF TypeOK
<1>3. v \in Versions
  BY <1>1, Brought
<1> QED
  BY <1>1, <1>2, <1>3, Brought, RevisedHead, NoHead

\* A record with nothing behind it is one.
LEMMA FreshRecord ==
    ASSUME NEW p \in Nat, NEW n \in Nat, NEW v \in Versions, NEW t \in Nat, NEW b \in Evidences
    PROVE  [prev |-> p, auth |-> n, ver |-> v, status |-> "VALID",
            term |-> None, basis |-> b, at |-> t,
            alerts |-> {}, closures |-> {}, limits |-> {}, proofs |-> {},
            formal |-> None, pass |-> None, activity |-> None,
            done |-> <<>>, app |-> 0] \in QualificationRecords
BY DEF QualificationRecords

\* A new record, as a grant makes it.
LEMMA NewRecordIs ==
    ASSUME NEW v, NEW e, NEW p, Facing(v, e, p),
           NEW x, x = NewRecord(v, e, p, "VALID")
    PROVE  /\ x \in QualificationRecords /\ x.prev = p /\ x.auth = Len(quals) + 1
           /\ x.ver = v /\ x.status = "VALID" /\ x.app = 0
           /\ x.basis = By(e, v) /\ x.basis # None
           /\ x.alerts = {} /\ x.limits = {} /\ x.closures = {}
<1>1. p \in Nat /\ v \in Versions /\ e.at \in Nat /\ By(e, v) \in Evidences
  BY Faced
<1>2. By(e, v) # None
  BY <1>1, NoneAssumption
<1>3. PICK n \in Nat : n = Len(quals) + 1
  BY HistoryType DEF Facing
<1>0. PICK b \in Evidences : b = By(e, v)
  BY <1>1
<1>4. x = [prev |-> p, auth |-> n, ver |-> v, status |-> "VALID",
           term |-> None, basis |-> b, at |-> e.at,
           alerts |-> {}, closures |-> {}, limits |-> {}, proofs |-> {},
           formal |-> None, pass |-> None, activity |-> None,
           done |-> <<>>, app |-> 0]
  BY <1>0, <1>3 DEF NewRecord
<1>5. x \in QualificationRecords
  BY <1>1, <1>4, FreshRecord
<1> QED
  BY <1>0, <1>2, <1>3, <1>4, <1>5

\* RECORD_NOT_OBTAINED opens a lineage, with no authorization.
LEMMA RecordNotObtainedFits ==
    ASSUME NEW v, NEW e, Facing(v, e, 0), RecordNotObtained(v, e)
    PROVE  Recorded
<1>1. v \in Versions /\ e.at \in Nat /\ SubstantiveHeads(v) = {}
  BY Faced
<1>2. PICK x : x = [NewRecord(v, e, 0, "NOT_OBTAINED") EXCEPT !.auth = 0, !.basis = None]
  OBVIOUS
<1>3. x = [prev |-> 0, auth |-> 0, ver |-> v, status |-> "NOT_OBTAINED",
           term |-> None, basis |-> None, at |-> e.at,
           alerts |-> {}, closures |-> {}, limits |-> {}, proofs |-> {},
           formal |-> None, pass |-> None, activity |-> None,
           done |-> <<>>, app |-> 0]
  BY <1>2 DEF NewRecord
<1>4. x \in QualificationRecords
  BY <1>1, <1>3 DEF QualificationRecords
<1>5. Earned(x) /\ Owned(x) /\ Ended(x)
  BY <1>3 DEF Earned, Owned, Ended, Blocked
<1>6. Begins(x)
  BY <1>1, <1>3 DEF Begins
<1> QED
  BY <1>2, <1>4, <1>5, <1>6 DEF Recorded, Fits, RecordNotObtained, Saved

\* GRANT opens a lineage or revises the record that nothing was obtained.
LEMMA GrantFits ==
    ASSUME NEW v, NEW e, NEW p, Facing(v, e, p), Grant(v, e, p)
    PROVE  Recorded
<1>1. PICK x : x = NewRecord(v, e, p, "VALID")
  OBVIOUS
<1>2. quals' = Append(quals, x)
  BY <1>1 DEF Grant, Saved
<1>3. /\ x \in QualificationRecords /\ x.prev = p /\ x.auth = Len(quals) + 1
      /\ x.ver = v /\ x.status = "VALID" /\ x.app = 0 /\ x.basis # None
      /\ x.alerts = {} /\ x.limits = {} /\ x.closures = {}
  BY <1>1, NewRecordIs
<1>4. Len(quals) + 1 # 0
  BY HistoryType DEF Facing
<1>5. Outstanding(x) = {}
  BY <1>3 DEF Outstanding, OutstandingIn
<1>6. Earned(x) /\ Owned(x) /\ Ended(x)
  BY <1>3, <1>4, <1>5 DEF Earned, Owned, Ended, Blocked
<1>7. CASE p = 0
  <2>1. Begins(x)
    BY <1>3, <1>7, Faced DEF Begins
  <2> QED
    BY <1>2, <1>3, <1>6, <2>1 DEF Recorded, Fits
<1>8. CASE p # 0
  <2>1. Grants(x)
    BY <1>3, <1>8 DEF Grants, Grant
  <2>2. SubstantiveHeads(x.ver) = {x.prev} /\ x.prev # 0
    BY <1>3, <1>8, Faced
  <2> QED
    BY <1>2, <1>3, <1>6, <2>1, <2>2 DEF Recorded, Fits
<1> QED
  BY <1>7, <1>8

\* ALERT revises the head, restricted first where its evidence expired.
LEMMA AlertFits ==
    ASSUME NEW v, NEW e, NEW p, Facing(v, e, p), Alert(v, e, p)
    PROVE  Recorded
<1>1. /\ p # 0 /\ p \in DOMAIN quals /\ p \in Nat /\ now \in Nat /\ e.at \in Nat
      /\ quals[p] \in QualificationRecords /\ SubstantiveHeads(quals[p].ver) = {p}
      /\ Earned(quals[p]) /\ Owned(quals[p]) /\ Ended(quals[p]) /\ By(e, v) \in Evidences
  BY Faced DEF Alert
<1>2. quals[p].basis # None /\ quals[p].auth # 0 /\ quals[p].status # "NOT_OBTAINED"
  BY <1>1 DEF Alert, Owned
<1>3. PICK r : r = RestrictExpired(quals[p])
  OBVIOUS
<1>4. PICK s : s = Successor(r, p, e)
  OBVIOUS
<1>5. PICK st : st = IF s.status \in Blocked THEN s.status ELSE "AT_RISK"
  OBVIOUS
<1>6. PICK al : al = s.alerts \cup {By(e, v)}
  OBVIOUS
<1>7. PICK x : x = [s EXCEPT !.status = st, !.alerts = al]
  OBVIOUS
<1>8. quals' = Append(quals, x)
  BY <1>3, <1>4, <1>5, <1>6, <1>7 DEF Alert, Saved
<1>9. /\ r \in QualificationRecords /\ Earned(r)
      /\ s \in QualificationRecords /\ s.status = r.status /\ s.limits = r.limits
  BY <1>1, <1>3, <1>4, Restricted, SuccessorIs
<1>10. x \in QualificationRecords
  <2>1. al \in SUBSET Evidences
    BY <1>1, <1>6, <1>9 DEF QualificationRecords
  <2>2. st \in {"NOT_OBTAINED", "VALID", "AT_RISK"} \cup Blocked
    BY <1>5
  <2> QED
    BY <1>7, <1>9, <2>1, <2>2 DEF QualificationRecords
<1>11. /\ x.prev = s.prev /\ x.ver = s.ver /\ x.auth = s.auth /\ x.app = s.app
       /\ x.basis = s.basis /\ x.term = s.term /\ x.limits = s.limits
       /\ x.alerts = al /\ x.status = st
  BY <1>7, <1>9 DEF QualificationRecords
<1>13. Earned(x)
  <2>1. al # {}
    BY <1>6
  <2> QED
    BY <1>5, <1>9, <1>11, <2>1 DEF Earned, Blocked
<1>12. Fits(x)
  <2>1. /\ x.prev = p /\ x.ver = quals[p].ver /\ x.auth = quals[p].auth
        /\ x.app = quals[p].app /\ x.basis = quals[p].basis /\ x.term = quals[p].term
    BY <1>1, <1>3, <1>4, <1>9, <1>11, Restricted, SuccessorIs
  <2>2. /\ quals[p].status = "REVOKED" => x.status = "REVOKED"
        /\ quals[p].status # "REVOKED" => x.status # "REVOKED"
        /\ x.status # "NOT_OBTAINED"
    BY <1>1, <1>3, <1>5, <1>9, <1>11, Restricted DEF Blocked
  <2> QED
    BY <1>1, <1>2, <1>10, <1>13, <2>1, <2>2, RevisionFits
<1> QED
  BY <1>8, <1>12 DEF Recorded

\* The head, restricted by an expiry or not, before the command's own changes.
LEMMA RevisionBase ==
    ASSUME NEW v, NEW e, NEW p, Facing(v, e, p), p # 0, quals[p].auth # 0,
           NEW r, r = quals[p] \/ r = RestrictExpired(quals[p]),
           NEW s, s = Successor(r, p, e)
    PROVE  /\ s \in QualificationRecords /\ Earned(s) /\ s.prev = p
           /\ s.ver = quals[p].ver /\ s.auth = quals[p].auth /\ s.app = quals[p].app
           /\ s.basis = quals[p].basis /\ s.term = quals[p].term
           /\ s.alerts = quals[p].alerts /\ s.closures = quals[p].closures
           /\ s.formal = quals[p].formal /\ s.done = quals[p].done
           /\ s.status = r.status /\ s.limits = r.limits /\ s.pass = quals[p].pass
           /\ r \in QualificationRecords /\ r.done = quals[p].done
           /\ r.formal = quals[p].formal
           /\ s.status # "NOT_OBTAINED"
           /\ s.status = "REVOKED" <=> quals[p].status = "REVOKED"
<1>1. /\ p \in Nat /\ e.at \in Nat /\ quals[p] \in QualificationRecords
      /\ Earned(quals[p]) /\ Owned(quals[p])
  BY Faced
<1>2. quals[p].status # "NOT_OBTAINED"
  BY <1>1 DEF Owned
<1>3. /\ r \in QualificationRecords /\ Earned(r)
      /\ r.ver = quals[p].ver /\ r.auth = quals[p].auth /\ r.app = quals[p].app
      /\ r.basis = quals[p].basis /\ r.term = quals[p].term
      /\ r.alerts = quals[p].alerts /\ r.closures = quals[p].closures
      /\ r.formal = quals[p].formal /\ r.done = quals[p].done /\ r.pass = quals[p].pass
      /\ r.status # "NOT_OBTAINED"
      /\ r.status = "REVOKED" <=> quals[p].status = "REVOKED"
  <2>1. CASE r = quals[p]
    BY <1>1, <1>2, <2>1
  <2>2. CASE r = RestrictExpired(quals[p])
    BY <1>1, <1>2, <2>2, Restricted
  <2> QED
    BY <2>1, <2>2
<1>4. /\ s \in QualificationRecords /\ s.prev = p /\ s.status = r.status
      /\ s.ver = r.ver /\ s.auth = r.auth /\ s.app = r.app
      /\ s.basis = r.basis /\ s.term = r.term /\ s.pass = r.pass
      /\ s.alerts = r.alerts /\ s.closures = r.closures /\ s.limits = r.limits
      /\ s.formal = r.formal /\ s.done = r.done
  BY <1>1, <1>3, SuccessorIs
<1>5. Earned(s)
  BY <1>3, <1>4 DEF Earned, Outstanding
<1> QED
  BY <1>3, <1>4, <1>5

\* A revision that keeps the authorization, from the head it revises.
LEMMA CarriedOn ==
    ASSUME NEW v, NEW e, NEW p, Facing(v, e, p), p # 0, quals[p].auth # 0,
           NEW x \in QualificationRecords, Earned(x), x.prev = p,
           x.ver = quals[p].ver, x.auth = quals[p].auth, x.app = quals[p].app,
           x.basis = quals[p].basis, x.status # "NOT_OBTAINED",
           quals[p].status = "REVOKED" => x.status = "REVOKED" /\ x.term = quals[p].term,
           quals[p].status # "REVOKED" /\ x.status = "REVOKED" => x.term = now
    PROVE  Fits(x)
<1>1. /\ now \in Nat /\ p \in DOMAIN quals /\ SubstantiveHeads(quals[p].ver) = {p}
      /\ Owned(quals[p]) /\ Ended(quals[p])
  BY Faced
<1> QED
  BY <1>1, RevisionFits

\* SUSPEND and REVOKE restrict the head.
LEMMA ImposeFits ==
    ASSUME NEW v, NEW e, NEW p, Facing(v, e, p), NEW op, NEW status, NEW cause,
           Impose(op, v, e, p, status, cause),
           \/ status = "SUSPENDED" /\ op # "REVOKE"
           \/ status = "REVOKED" /\ op = "REVOKE",
           cause \in {"REQUIRED_PREMISE_UNVERIFIABLE", "ORIGINAL_BASIS_INVALID"}
    PROVE  Recorded
<1>1. /\ p # 0 /\ quals[p].auth # 0 /\ quals[p].status # "REVOKED" /\ now \in Nat
      /\ By(e, v) \in Evidences
  BY Faced DEF Impose
<1>2. PICK s : s = Successor(quals[p], p, e)
  OBVIOUS
<1>3. PICK t : t = IF op = "REVOKE" THEN now ELSE s.term
  OBVIOUS
<1>4. PICK l : l = [cause |-> cause, ev |-> By(e, v)]
  OBVIOUS
<1>5. PICK L : L = s.limits \cup {l}
  OBVIOUS
<1>6. PICK x : x = [s EXCEPT !.status = status, !.term = t, !.limits = L]
  OBVIOUS
<1>7. quals' = Append(quals, x)
  BY <1>2, <1>3, <1>4, <1>5, <1>6 DEF Impose, Saved
<1>8. /\ s \in QualificationRecords /\ s.prev = p
      /\ s.ver = quals[p].ver /\ s.auth = quals[p].auth /\ s.app = quals[p].app
      /\ s.basis = quals[p].basis
  BY <1>1, <1>2, RevisionBase
<1>9. x \in QualificationRecords
  <2>1. l \in Restrictions
    BY <1>1, <1>4 DEF Restrictions
  <2>2. s.limits \in SUBSET Restrictions /\ s.term \in Nat \cup {None}
    BY <1>8 DEF QualificationRecords
  <2>3. L \in SUBSET Restrictions
    BY <1>5, <2>1, <2>2
  <2>4. t \in Nat \cup {None}
    BY <1>1, <1>3, <2>2
  <2>5. status \in {"NOT_OBTAINED", "VALID", "AT_RISK"} \cup Blocked
    BY DEF Blocked
  <2> QED
    BY <1>6, <1>8, <2>3, <2>4, <2>5 DEF QualificationRecords
<1>10. /\ x.prev = s.prev /\ x.ver = s.ver /\ x.auth = s.auth /\ x.app = s.app
       /\ x.basis = s.basis /\ x.term = t /\ x.status = status /\ x.limits = L
  BY <1>6, <1>8 DEF QualificationRecords
<1>11. Earned(x)
  <2>1. L # {}
    BY <1>5
  <2> QED
    BY <1>10, <2>1 DEF Earned, Blocked
<1>12. Fits(x)
  BY <1>1, <1>3, <1>8, <1>9, <1>10, <1>11, CarriedOn
<1> QED
  BY <1>7, <1>12 DEF Recorded

\* The head a formal node is about has an authorization.
LEMMA FormalHead ==
    ASSUME NEW v, NEW e, NEW p, Facing(v, e, p), p # 0, quals[p].basis # None
    PROVE  quals[p].auth # 0
BY Faced DEF Owned

\* A node disposed of without a check changes nothing else.
LEMMA DisposedFits ==
    ASSUME NEW v, NEW e, NEW p, Facing(v, e, p), p # 0, quals[p].basis # None,
           NodeReached(e, NextNode(quals[p])),
           NEW r, r = quals[p] \/ r = RestrictExpired(quals[p]),
           NEW how \in {"INSUFFICIENT", "NOT_EXECUTED"},
           Saved([Successor(r, p, e) EXCEPT
                    !.done = Disposed(r, NextNode(r), how, CheckIndex(r), e)])
    PROVE  Recorded
<1>1. quals[p].auth # 0 /\ e.at \in Nat
  BY FormalHead, Faced
<1>2. PICK s : s = Successor(r, p, e)
  OBVIOUS
<1>3. PICK d : d = Disposed(r, NextNode(r), how, CheckIndex(r), e)
  OBVIOUS
<1>4. PICK x : x = [s EXCEPT !.done = d]
  OBVIOUS
<1>5. quals' = Append(quals, x)
  BY <1>2, <1>3, <1>4 DEF Saved
<1>6. /\ s \in QualificationRecords /\ Earned(s) /\ s.prev = p
      /\ s.ver = quals[p].ver /\ s.auth = quals[p].auth /\ s.app = quals[p].app
      /\ s.basis = quals[p].basis /\ s.term = quals[p].term
      /\ r \in QualificationRecords /\ r.done = quals[p].done
      /\ s.status # "NOT_OBTAINED"
      /\ s.status = "REVOKED" <=> quals[p].status = "REVOKED"
  BY <1>1, <1>2, RevisionBase
<1>7. d \in Seq(Dispositions)
  <2>1. NextNode(r) = NextNode(quals[p])
    BY <1>6 DEF NextNode
  <2> QED
    BY <1>1, <1>3, <1>6, <2>1, DisposedIs, NextCheck
<1>8. x \in QualificationRecords
  BY <1>4, <1>6, <1>7 DEF QualificationRecords
<1>9. /\ x.prev = s.prev /\ x.ver = s.ver /\ x.auth = s.auth /\ x.app = s.app
      /\ x.basis = s.basis /\ x.term = s.term /\ x.status = s.status
      /\ x.limits = s.limits /\ x.alerts = s.alerts /\ x.closures = s.closures
  BY <1>4, <1>6 DEF QualificationRecords
<1>10. Earned(x)
  BY <1>6, <1>9 DEF Earned, Outstanding
<1>11. Fits(x)
  BY <1>1, <1>6, <1>8, <1>9, <1>10, CarriedOn
<1> QED
  BY <1>5, <1>11 DEF Recorded

\* FORMAL_CHECK without sufficient evidence,
LEMMA FormalCheckInsufficientFits ==
    ASSUME NEW v, NEW e, NEW p, Facing(v, e, p), FormalCheckInsufficient(v, e, p)
    PROVE  Recorded
<1>1. PICK r : r = RestrictExpired(quals[p])
  OBVIOUS
<1>2. /\ p # 0 /\ quals[p].basis # None /\ NodeReached(e, NextNode(quals[p]))
      /\ Saved([Successor(r, p, e) EXCEPT
                  !.done = Disposed(r, NextNode(r), "INSUFFICIENT", CheckIndex(r), e)])
  BY <1>1 DEF FormalCheckInsufficient, FormalNode
<1> QED
  BY <1>1, <1>2, DisposedFits

\* RECORD_FORMAL_NODE, which looks at no expiry,
LEMMA RecordFormalNodeFits ==
    ASSUME NEW v, NEW e, NEW p, Facing(v, e, p), RecordFormalNode(v, e, p)
    PROVE  Recorded
<1>1. PICK r : r = quals[p]
  OBVIOUS
<1>2. /\ p # 0 /\ quals[p].basis # None /\ NodeReached(e, NextNode(quals[p]))
      /\ Saved([Successor(r, p, e) EXCEPT
                  !.done = Disposed(r, NextNode(r), "NOT_EXECUTED", CheckIndex(r), e)])
  BY <1>1 DEF RecordFormalNode, FormalNode
<1> QED
  BY <1>1, <1>2, DisposedFits

\* and FORMAL_CHECK that passes or fails revise the head.
LEMMA FormalCheckFits ==
    ASSUME NEW v, NEW e, NEW p, Facing(v, e, p), NEW ok \in BOOLEAN, FormalCheck(v, e, p, ok)
    PROVE  Recorded
<1>1. /\ p # 0 /\ quals[p].basis # None /\ NodeReached(e, NextNode(quals[p]))
      /\ e.at \in Nat
  BY Faced DEF FormalCheck, FormalNode
<1>2. quals[p].auth # 0
  BY <1>1, FormalHead
<1>3. PICK r : r = RestrictExpired(quals[p])
  OBVIOUS
<1>4. PICK s : s = Successor(r, p, e)
  OBVIOUS
<1>5. PICK f : f = Checked(e, v, CheckIndex(r) + 1, ok)
  OBVIOUS
<1>6. PICK restricted \in BOOLEAN : restricted = (~ok /\ r.status # "REVOKED")
  OBVIOUS
<1>7. PICK d : d = Disposed(r, NextNode(r), IF ok THEN "EXECUTED_PASS" ELSE "EXECUTED_FAIL",
                            f.index, e)
  OBVIOUS
<1>8. PICK l : l = [cause |-> "FORMAL_PERFORMANCE_FAILURE", ev |-> f]
  OBVIOUS
<1>9. PICK st : st = IF restricted THEN "SUSPENDED" ELSE s.status
  OBVIOUS
<1>10. PICK ps : ps = IF ok THEN f ELSE s.pass
  OBVIOUS
<1>11. PICK L : L = IF restricted THEN s.limits \cup {l} ELSE s.limits
  OBVIOUS
<1>12. PICK x : x = [s EXCEPT !.status = st, !.formal = f, !.pass = ps, !.done = d,
                              !.limits = L]
  OBVIOUS
<1>13. quals' = Append(quals, x)
  BY <1>3, <1>4, <1>5, <1>6, <1>7, <1>8, <1>9, <1>10, <1>11, <1>12
     DEF FormalCheck, Saved
<1>14. /\ s \in QualificationRecords /\ Earned(s) /\ s.prev = p
       /\ s.ver = quals[p].ver /\ s.auth = quals[p].auth /\ s.app = quals[p].app
       /\ s.basis = quals[p].basis /\ s.term = quals[p].term
       /\ r \in QualificationRecords /\ r.done = quals[p].done
       /\ s.status = r.status /\ s.status # "NOT_OBTAINED"
       /\ s.status = "REVOKED" <=> quals[p].status = "REVOKED"
  BY <1>1, <1>2, <1>3, <1>4, RevisionBase
<1>15. CheckIndex(r) + 1 \in Nat \ {0}
  BY <1>14, NextCheck
<1>16. f \in Checks /\ f.index = CheckIndex(r) + 1
  BY <1>5, <1>15, Faced DEF Checked
<1>17. x \in QualificationRecords
  <2>1. d \in Seq(Dispositions)
    <3>1. NextNode(r) = NextNode(quals[p])
      BY <1>14 DEF NextNode
    <3> QED
      BY <1>1, <1>7, <1>14, <1>15, <1>16, <3>1, DisposedIs
  <2>2. l \in Restrictions
    BY <1>8, <1>16 DEF Restrictions
  <2>3. s.limits \in SUBSET Restrictions /\ s.pass \in Checks \cup {None}
        /\ s.status \in {"NOT_OBTAINED", "VALID", "AT_RISK"} \cup Blocked
    BY <1>14 DEF QualificationRecords
  <2>4. L \in SUBSET Restrictions /\ ps \in Checks \cup {None}
    BY <1>10, <1>11, <1>16, <2>2, <2>3
  <2>5. st \in {"NOT_OBTAINED", "VALID", "AT_RISK"} \cup Blocked
    BY <1>9, <2>3 DEF Blocked
  <2> QED
    BY ZenonT(60), <1>12, <1>14, <1>16, <2>1, <2>4, <2>5 DEF QualificationRecords
<1>18. /\ x.prev = s.prev /\ x.ver = s.ver /\ x.auth = s.auth /\ x.app = s.app
       /\ x.basis = s.basis /\ x.term = s.term /\ x.status = st
       /\ x.limits = L /\ x.alerts = s.alerts /\ x.closures = s.closures
  BY <1>12, <1>14 DEF QualificationRecords
<1>19. Earned(x)
  <2>1. CASE restricted
    <3>1. L # {} /\ st = "SUSPENDED"
      BY <1>9, <1>11, <2>1
    <3> QED
      BY <1>18, <3>1 DEF Earned, Blocked
  <2>2. CASE ~restricted
    BY <1>9, <1>11, <1>14, <1>18, <2>2 DEF Earned, Outstanding
  <2> QED
    BY <2>1, <2>2
<1>20. Fits(x)
  <2>1. /\ quals[p].status = "REVOKED" => x.status = "REVOKED"
        /\ quals[p].status # "REVOKED" => x.status # "REVOKED"
        /\ x.status # "NOT_OBTAINED"
    BY <1>6, <1>9, <1>14, <1>18
  <2> QED
    BY <1>1, <1>2, <1>14, <1>17, <1>18, <1>19, <2>1, CarriedOn
<1> QED
  BY <1>13, <1>20 DEF Recorded

\* CLOSE_ALERT leaves the status that the open alerts earn.
LEMMA CloseAlertFits ==
    ASSUME NEW v, NEW e, NEW p, Facing(v, e, p), NEW a, NEW how \in Resolutions,
           CloseAlert(v, e, p, a, how)
    PROVE  Recorded
<1>1. /\ p # 0 /\ quals[p].basis # None /\ a \in quals[p].alerts /\ e.at \in Nat
  BY Faced DEF CloseAlert
<1>2. quals[p].auth # 0
  BY <1>1, FormalHead
<1>3. PICK s : s = Successor(quals[p], p, e)
  OBVIOUS
<1>4. PICK c : c = [alert |-> a, how |-> how, at |-> e.at]
  OBVIOUS
<1>5. PICK C : C = quals[p].closures \cup {c}
  OBVIOUS
<1>6. PICK open : open = OutstandingIn(quals[p].alerts, C)
  OBVIOUS
<1>7. PICK st : st = IF s.status \in Blocked \/ how = "ARCHIVED" THEN s.status
                     ELSE Standing(open)
  OBVIOUS
<1>8. PICK x : x = [s EXCEPT !.closures = C, !.status = st]
  OBVIOUS
<1>9. quals' = Append(quals, x)
  BY <1>3, <1>4, <1>5, <1>6, <1>7, <1>8 DEF CloseAlert, Saved
<1>10. /\ s \in QualificationRecords /\ Earned(s) /\ s.prev = p
       /\ s.ver = quals[p].ver /\ s.auth = quals[p].auth /\ s.app = quals[p].app
       /\ s.basis = quals[p].basis /\ s.term = quals[p].term
       /\ s.alerts = quals[p].alerts /\ s.closures = quals[p].closures
       /\ s.status # "NOT_OBTAINED"
       /\ s.status = "REVOKED" <=> quals[p].status = "REVOKED"
  BY <1>1, <1>2, <1>3, RevisionBase
<1>11. x \in QualificationRecords
  <2>1. a \in Evidences /\ s.closures \in SUBSET Closures
        /\ s.status \in {"NOT_OBTAINED", "VALID", "AT_RISK"} \cup Blocked
    BY <1>1, <1>10 DEF QualificationRecords
  <2>2. c \in Closures
    BY <1>1, <1>4, <2>1 DEF Closures
  <2>3. C \in SUBSET Closures
    BY <1>5, <1>10, <2>1, <2>2
  <2>4. st \in {"NOT_OBTAINED", "VALID", "AT_RISK"} \cup Blocked
    BY <1>7, <2>1 DEF Standing
  <2> QED
    BY <1>8, <1>10, <2>3, <2>4 DEF QualificationRecords
<1>12. /\ x.prev = s.prev /\ x.ver = s.ver /\ x.auth = s.auth /\ x.app = s.app
       /\ x.basis = s.basis /\ x.term = s.term /\ x.status = st
       /\ x.limits = s.limits /\ x.alerts = s.alerts /\ x.closures = C
  BY <1>8, <1>10 DEF QualificationRecords
<1>13. open \subseteq s.alerts /\ open \subseteq Outstanding(s) /\ Outstanding(x) = open
  BY <1>5, <1>6, <1>10, <1>12 DEF Outstanding, OutstandingIn
<1>14. Earned(x)
  <2>1. CASE s.status \in Blocked \/ how = "ARCHIVED"
    BY <1>7, <1>10, <1>12, <1>13, <2>1 DEF Earned
  <2>2. CASE ~(s.status \in Blocked \/ how = "ARCHIVED")
    <3>1. s.limits = {}
      BY <1>10, <2>2 DEF Earned
    <3>2. st = Standing(open)
      BY <1>7, <2>2
    <3> QED
      BY <1>12, <1>13, <3>1, <3>2 DEF Earned, Standing, Blocked
  <2> QED
    BY <2>1, <2>2
<1>15. Fits(x)
  <2>1. /\ quals[p].status = "REVOKED" => x.status = "REVOKED"
        /\ quals[p].status # "REVOKED" => x.status # "REVOKED"
        /\ x.status # "NOT_OBTAINED"
    BY <1>7, <1>10, <1>12 DEF Standing, Blocked
  <2> QED
    BY <1>1, <1>2, <1>10, <1>11, <1>12, <1>14, <2>1, CarriedOn
<1> QED
  BY <1>9, <1>15 DEF Recorded

\* What restores a record is evidence of the version that asks.
LEMMA ProofsAre ==
    ASSUME NEW v, NEW e, NEW p, Facing(v, e, p), NEW r, NEW proofs \in Proofs(v, r)
    PROVE  /\ DOMAIN proofs = {l.ev : l \in r.limits}
           /\ \A y \in DOMAIN proofs : proofs[y].ev \in Evidences /\ proofs[y].ev.at \in Nat
<1>1. DOMAIN proofs = {l.ev : l \in r.limits}
  BY DEF Proofs
<1>2. SUFFICES ASSUME NEW y \in DOMAIN proofs
               PROVE  proofs[y].ev \in Evidences /\ proofs[y].ev.at \in Nat
  BY <1>1
<1>3. PICK k \in ProofKinds, z \in within.evidence : proofs[y] = [kind |-> k, ev |-> By(z, v)]
  BY DEF Proofs
<1>4. By(z, v) \in Evidences
  BY <1>3, Brought DEF Facing
<1>5. By(z, v).at \in Nat
  BY <1>4 DEF Evidences
<1> QED
  BY <1>3, <1>4, <1>5

\* RESTORE lifts every restriction at once.
LEMMA RestoreFits ==
    ASSUME NEW v, NEW e, NEW p, Facing(v, e, p), Restore(v, e, p)
    PROVE  Recorded
<1>1. /\ p # 0 /\ quals[p].status = "SUSPENDED" /\ e.at \in Nat /\ Owned(quals[p])
      /\ quals[p] \in QualificationRecords
  BY Faced DEF Restore
<1>2. quals[p].auth # 0
  BY <1>1 DEF Owned
<1>3. PICK active : active = {l \in quals[p].limits : l.cause = "STATE_ACTIVITY_EXPIRED"}
  OBVIOUS
<1>4. PICK s : s = Successor(quals[p], p, e)
  OBVIOUS
<1>5. PICK st : st = Standing(Outstanding(quals[p]))
  OBVIOUS
<1>6. PICK proofs \in Proofs(v, quals[p]) :
        Saved([s EXCEPT
                 !.status = st,
                 !.limits = {},
                 !.proofs = {proofs[y].ev.at : y \in DOMAIN proofs},
                 !.activity = IF active # {}
                              THEN proofs[(CHOOSE l \in active : TRUE).ev].ev
                              ELSE s.activity])
  BY <1>3, <1>4, <1>5 DEF Restore
<1>7. PICK P : P = {proofs[y].ev.at : y \in DOMAIN proofs}
  OBVIOUS
<1>8. PICK ac : ac = IF active # {} THEN proofs[(CHOOSE l \in active : TRUE).ev].ev
                                    ELSE s.activity
  OBVIOUS
<1>9. PICK x : x = [s EXCEPT !.status = st, !.limits = {}, !.proofs = P, !.activity = ac]
  OBVIOUS
<1>10. quals' = Append(quals, x)
  BY <1>6, <1>7, <1>8, <1>9 DEF Saved
<1>11. /\ s \in QualificationRecords /\ s.prev = p
       /\ s.ver = quals[p].ver /\ s.auth = quals[p].auth /\ s.app = quals[p].app
       /\ s.basis = quals[p].basis /\ s.term = quals[p].term
       /\ s.alerts = quals[p].alerts /\ s.closures = quals[p].closures
  BY <1>1, <1>2, <1>4, RevisionBase
<1>12. x \in QualificationRecords
  <2>0. \A y \in DOMAIN proofs : proofs[y].ev.at \in Nat
    BY <1>6, ProofsAre
  <2>1. P \in SUBSET Nat
    BY <1>7, <2>0
  <2>2. ac \in Evidences \cup {None}
    <3>1. CASE active = {}
      BY <1>8, <1>11, <3>1 DEF QualificationRecords
    <3>2. CASE active # {}
      <4>1. PICK l \in quals[p].limits : ac = proofs[l.ev].ev
        BY <1>3, <1>8, <3>2
      <4>2. l.ev \in DOMAIN proofs
        BY <1>6, <4>1, ProofsAre
      <4>3. proofs[l.ev].ev \in Evidences
        BY <1>6, <4>2, ProofsAre
      <4> QED
        BY <4>1, <4>3
    <3> QED
      BY <3>1, <3>2
  <2>3. st \in {"NOT_OBTAINED", "VALID", "AT_RISK"} \cup Blocked
    BY <1>5 DEF Standing
  <2> QED
    BY <1>9, <1>11, <2>1, <2>2, <2>3 DEF QualificationRecords
<1>13. /\ x.prev = s.prev /\ x.ver = s.ver /\ x.auth = s.auth /\ x.app = s.app
       /\ x.basis = s.basis /\ x.term = s.term /\ x.status = st
       /\ x.limits = {} /\ x.alerts = s.alerts /\ x.closures = s.closures
  BY <1>9, <1>11 DEF QualificationRecords
<1>14. Earned(x)
  <2>1. Outstanding(x) = Outstanding(quals[p]) /\ Outstanding(x) \subseteq x.alerts
    BY <1>11, <1>13 DEF Outstanding, OutstandingIn
  <2> QED
    BY <1>5, <1>13, <2>1 DEF Earned, Standing, Blocked
<1>15. Fits(x)
  <2>1. x.status \in {"VALID", "AT_RISK"}
    BY <1>5, <1>13 DEF Standing
  <2> QED
    BY <1>1, <1>2, <1>11, <1>12, <1>13, <1>14, <2>1, CarriedOn
<1> QED
  BY <1>10, <1>15 DEF Recorded

\* REQUALIFY answers a revocation with an authorization of its own.
LEMMA RequalifyFits ==
    ASSUME NEW v, NEW e, NEW p, Facing(v, e, p), NEW k \in DOMAIN apps, Requalify(v, e, p, k)
    PROVE  Recorded
<1>1. /\ p # 0 /\ quals[p].status = "REVOKED" /\ e.at \in Nat
      /\ quals[p] \in QualificationRecords /\ SubstantiveHeads(v) = {p}
      /\ NodeReached(e, NextNode(quals[p]))
  BY Faced DEF Requalify
<1>2. PICK f : f = Checked(e, v, CheckIndex(quals[p]) + 1, TRUE)
  OBVIOUS
<1>3. PICK d : d = Disposed(quals[p], NextNode(quals[p]), "EXECUTED_PASS", f.index, e)
  OBVIOUS
<1>4. PICK s : s = NewRecord(v, e, p, "VALID")
  OBVIOUS
<1>5. PICK st : st = Standing(Outstanding(quals[p]))
  OBVIOUS
<1>6. PICK A, C : A = quals[p].alerts /\ C = quals[p].closures
  OBVIOUS
<1>7. PICK x : x = [s EXCEPT !.status = st, !.basis = f, !.formal = f, !.pass = f,
                             !.alerts = A, !.closures = C, !.done = d, !.app = k]
  OBVIOUS
<1>8. quals' = Append(quals, x)
  BY <1>2, <1>3, <1>4, <1>5, <1>6, <1>7 DEF Requalify, Saved
<1>9. /\ s \in QualificationRecords /\ s.prev = p /\ s.auth = Len(quals) + 1
      /\ s.ver = v /\ s.limits = {}
  BY <1>4, NewRecordIs
<1>10. CheckIndex(quals[p]) + 1 \in Nat \ {0}
  BY <1>1, NextCheck
<1>11. f \in Checks /\ f.index = CheckIndex(quals[p]) + 1
  BY <1>2, <1>10, Faced DEF Checked
<1>12. f # None
  BY <1>11, NoneAssumption
<1>13. k \in Nat /\ k # 0
  BY HistoryType DEF Facing
<1>14. x \in QualificationRecords
  <2>1. d \in Seq(Dispositions)
    BY <1>1, <1>3, <1>10, <1>11, DisposedIs
  <2>2. A \in SUBSET Evidences /\ C \in SUBSET Closures
    BY <1>1, <1>6 DEF QualificationRecords
  <2>3. st \in {"NOT_OBTAINED", "VALID", "AT_RISK"} \cup Blocked
    BY <1>5 DEF Standing
  <2>4. f \in Evidences \cup Checks \cup {None} /\ f \in Checks \cup {None}
    BY <1>11
  <2>5. PICK y : y = [s EXCEPT !.status = st, !.alerts = A, !.closures = C, !.done = d]
    OBVIOUS
  <2>6. y \in QualificationRecords
    BY <1>9, <2>1, <2>2, <2>3, <2>5 DEF QualificationRecords
  <2>7. x = [y EXCEPT !.basis = f, !.formal = f, !.pass = f, !.app = k]
    BY <1>7, <1>9, <2>5 DEF QualificationRecords
  <2> QED
    BY <1>13, <2>4, <2>6, <2>7 DEF QualificationRecords
<1>15. /\ x.prev = s.prev /\ x.ver = s.ver /\ x.auth = s.auth /\ x.app = k
       /\ x.basis = f /\ x.status = st /\ x.limits = s.limits
       /\ x.alerts = A /\ x.closures = C
  BY <1>7, <1>9 DEF QualificationRecords
<1>16. Earned(x) /\ x.status \in {"VALID", "AT_RISK"}
  <2>1. Outstanding(x) = Outstanding(quals[p]) /\ Outstanding(x) \subseteq x.alerts
    BY <1>6, <1>15 DEF Outstanding, OutstandingIn
  <2> QED
    BY <1>5, <1>9, <1>15, <2>1 DEF Earned, Standing, Blocked
<1>17. Len(quals) + 1 # 0
  BY HistoryType DEF Facing
<1>18. Owned(x) /\ Ended(x)
  BY <1>9, <1>12, <1>15, <1>16, <1>17 DEF Owned, Ended
<1>19. Requalifies(x)
  <2>1. \A i \in DOMAIN quals : quals[i].app # k
    BY DEF Requalify, Range
  <2>2. quals[p].term < apps[k].reg
    BY DEF Requalify
  <2> QED
    BY <1>1, <1>9, <1>15, <1>16, <2>1, <2>2 DEF Requalifies
<1>20. Fits(x)
  BY <1>1, <1>9, <1>14, <1>15, <1>16, <1>18, <1>19 DEF Fits
<1> QED
  BY <1>8, <1>20 DEF Recorded

\* The newest record of an exact version that is in force is the newest of its
\* lineage: an alias would have taken over only from a record that is not.
LEMMA ExactIsHead ==
    ASSUME TypeOK, LineageInv, NEW v \in Versions, NEW q \in Current(ExactHeads(v)), q # 0,
           quals[q].status \notin {"NOT_OBTAINED", "REVOKED"}
    PROVE  /\ q \in DOMAIN quals /\ quals[q].ver = v /\ SubstantiveHeads(v) = {q}
<1>1. /\ q \in {i \in DOMAIN quals : quals[i].ver = v}
      /\ q \in HeadsOf({i \in DOMAIN quals : quals[i].ver = v})
  BY CurrentIs DEF ExactHeads
<1>2. q \in DOMAIN quals /\ quals[q].ver = v
  BY <1>1
<1>3. \A j \in DOMAIN quals : quals[j].ver = v => quals[j].prev # q
  BY <1>1 DEF HeadsOf
<1>4. \A j \in DOMAIN quals : quals[j].prev # q
  <2>1. SUFFICES ASSUME NEW j \in DOMAIN quals, quals[j].prev = q PROVE FALSE
    OBVIOUS
  <2>2. quals[j].ver = v
    BY <1>2, <2>1 DEF LineageInv, Linked
  <2> QED
    BY <1>3, <2>1, <2>2
<1>5. q \in SubstantiveHeads(v)
  BY <1>2, <1>4 DEF SubstantiveHeads, HeadsOf, SameRules
<1> QED
  BY <1>2, <1>5 DEF LineageInv, OneHead

\* A use that meets an expiry restricts the head instead.
LEMMA UseTaskFits ==
    ASSUME TypeOK, LineageInv, NEW v \in Versions, NEW q \in Current(ExactHeads(v)), q # 0,
           RestrictExpired(quals[q]) # quals[q],
           quals' = Append(quals, [RestrictExpired(quals[q]) EXCEPT !.prev = q])
    PROVE  Recorded
<1>1. q \in DOMAIN quals
  BY CurrentIs DEF ExactHeads
<1>2. /\ quals[q] \in QualificationRecords /\ q \in Nat /\ now \in Nat
      /\ Earned(quals[q]) /\ Owned(quals[q]) /\ Ended(quals[q])
  BY <1>1, HistoryType, GovernanceConstants DEF LineageInv, RecordsSound, TypeOK
<1>3. PICK r : r = RestrictExpired(quals[q])
  OBVIOUS
<1>4. /\ r \in QualificationRecords /\ Earned(r) /\ r.status = "SUSPENDED"
      /\ quals[q].status \in {"VALID", "AT_RISK", "SUSPENDED"}
      /\ r.ver = quals[q].ver /\ r.auth = quals[q].auth /\ r.app = quals[q].app
      /\ r.basis = quals[q].basis
  BY <1>2, <1>3, Restricted
<1>5. SubstantiveHeads(quals[q].ver) = {q}
  BY <1>4, ExactIsHead
<1>6. PICK x : x = [r EXCEPT !.prev = q]
  OBVIOUS
<1>7. x \in QualificationRecords
  BY <1>2, <1>4, <1>6 DEF QualificationRecords
<1>8. /\ x.prev = q /\ x.ver = r.ver /\ x.auth = r.auth /\ x.app = r.app
      /\ x.basis = r.basis /\ x.status = r.status /\ x.limits = r.limits
      /\ x.alerts = r.alerts /\ x.closures = r.closures
  BY <1>4, <1>6 DEF QualificationRecords
<1>9. Earned(x)
  BY <1>4, <1>8 DEF Earned, Outstanding
<1>10. quals[q].auth # 0
  BY <1>2, <1>4 DEF Owned
<1>11. Fits(x)
  BY <1>1, <1>2, <1>4, <1>5, <1>7, <1>8, <1>9, <1>10, RevisionFits
<1> QED
  BY <1>3, <1>6, <1>11 DEF Recorded

-----------------------------------------------------------------------------
(* Steps *)

\* While the history stays, applications and time may advance.
LEMMA StandingLineage ==
    ASSUME TypeOK, LineageInv, quals' = quals, now' \in Nat, now <= now',
           \A k \in DOMAIN apps : apps'[k] = apps[k]
    PROVE  LineageInv'
<1>1. RecordsSound'
  <2>1. now \in Nat
    BY GovernanceConstants DEF TypeOK
  <2>2. \A i \in DOMAIN quals : Ended(quals[i])'
    BY <2>1 DEF LineageInv, RecordsSound, Ended
  <2> QED
    BY <2>2 DEF LineageInv, RecordsSound
<1>2. Linked'
  BY DEF LineageInv, Linked, SameRules
<1>3. OneHead'
  <2>1. ASSUME NEW v \in Versions PROVE SubstantiveHeads(v)' = SubstantiveHeads(v)
    BY DEF SubstantiveHeads, HeadsOf, SameRules
  <2>2. ASSUME NEW v \in Versions PROVE (\A i, j \in SubstantiveHeads(v) : i = j)'
    BY <2>1 DEF LineageInv, OneHead
  <2> QED
    BY <2>2 DEF OneHead
<1>4. OneAuthority'
  BY DEF LineageInv, OneAuthority
<1>5. ASSUME NEW i \in DOMAIN quals PROVE Ancestors(i)' = Ancestors(i)
  BY DEF Ancestors, Descent
<1>6. RevokedInOrder'
  BY <1>5 DEF LineageInv, RevokedInOrder
<1>7. RevocationIsFinal'
  <2>1. SUFFICES ASSUME NEW i \in DOMAIN quals', NEW j, j \in Ancestors(i)',
                        quals'[j].status = "REVOKED", quals'[i].status # "REVOKED"
                 PROVE  Reauthorized(i, j)'
    BY DEF RevocationIsFinal, Reauthorized
  <2>2. Reauthorized(i, j)
    BY <1>5, <2>1, FinalIs DEF LineageInv
  <2>3. quals[i].app \in DOMAIN apps
    BY <2>1, <2>2, HistoryType DEF Reauthorized
  <2> QED
    BY <2>2, <2>3 DEF Reauthorized
<1> QED
  BY <1>1, <1>2, <1>3, <1>4, <1>6, <1>7 DEF LineageInv

\* A command that appends a record keeps the invariant.
LEMMA RecordedKeeps ==
    ASSUME QInv, Recorded, bound' \subseteq Versions,
           UNCHANGED <<within, now, apps, replays, nodes, acts, tasks, uses>>
    PROVE  QInv'
<1>1. PICK x : Fits(x) /\ quals' = Append(quals, x)
  BY DEF Recorded
<1>2. LineageInv'
  BY <1>1, AppendedLineage DEF QInv
<1>3. TypeOK'
  BY <1>1, AppendedHistory DEF QInv, TypeOK, FrozenNodes
<1> QED
  BY <1>2, <1>3 DEF QInv

\* So does one that leaves the history alone, if it leaves the rest well formed.
LEMMA StandingKeeps ==
    ASSUME QInv, TypeOK', quals' = quals, UNCHANGED within, now <= now',
           \A k \in DOMAIN apps : apps'[k] = apps[k]
    PROVE  QInv'
<1>1. now' \in Nat
  BY GovernanceConstants DEF TypeOK
<1>2. LineageInv'
  BY <1>1, StandingLineage DEF QInv
<1> QED
  BY <1>2 DEF QInv

\* A replay is recorded beside the history,
LEMMA RecordAlertReplayKeeps ==
    ASSUME QInv, UNCHANGED within, NEW v, NEW e, NEW p, Facing(v, e, p), p # 0,
           NEW a \in quals[p].alerts, RecordAlertReplay(v, e, p, a)
    PROVE  QInv'
<1>1. /\ bound' = bound \cup {v} /\ UNCHANGED <<quals, apps, now, nodes, acts, tasks, uses>>
      /\ replays' = replays \cup {[alert |-> a, ver |-> v, at |-> e.at]}
  BY DEF RecordAlertReplay, Command, handoffVars
<1>2. v \in Versions /\ e.at \in Nat /\ quals[p] \in QualificationRecords /\ now \in Nat
  BY Faced
<1>3. a \in Evidences
  BY <1>2 DEF QualificationRecords
<1>4. [alert |-> a, ver |-> v, at |-> e.at] \in Replays
  BY <1>2, <1>3 DEF Replays
<1>5. replays' \subseteq Replays /\ bound' \subseteq Versions
  BY <1>1, <1>2, <1>4 DEF QInv, TypeOK
<1>6. TypeOK'
  BY <1>1, <1>5 DEF QInv, TypeOK, FrozenNodes
<1>7. now <= now'
  BY <1>1, <1>2
<1> QED
  BY <1>1, <1>6, <1>7, StandingKeeps

\* and so is an application, which anchors in it.
LEMMA RegisterRequalificationKeeps ==
    ASSUME QInv, UNCHANGED within, NEW v, NEW e, NEW p, Facing(v, e, p),
           RegisterRequalification(v, e, p)
    PROVE  QInv'
<1>1. /\ bound' = bound \cup {v} /\ p # 0
      /\ UNCHANGED <<quals, replays, now, nodes, acts, tasks, uses>>
      /\ apps' = Append(apps, [ver |-> v, anchor |-> p, reg |-> now])
  BY DEF RegisterRequalification, Command, handoffVars
<1>2. v \in Versions /\ p \in DOMAIN quals /\ p \in Nat /\ now \in Nat
  BY <1>1, Faced
<1>3. PICK y : y = [ver |-> v, anchor |-> p, reg |-> now]
  OBVIOUS
<1>4. y \in Applications /\ y.anchor = p
  BY <1>2, <1>3 DEF Applications
<1>5. /\ apps \in Seq(Applications) /\ Len(apps) \in Nat /\ DOMAIN apps = 1..Len(apps)
      /\ \A i \in DOMAIN quals : quals[i].app \in Nat /\ quals[i].app <= Len(apps)
  BY HistoryType DEF QInv
<1>6. /\ apps' \in Seq(Applications) /\ Len(apps') = Len(apps) + 1
      /\ DOMAIN apps' = DOMAIN apps \cup {Len(apps) + 1}
      /\ \A k \in DOMAIN apps : apps'[k] = apps[k]
      /\ apps'[Len(apps) + 1] = y
  BY <1>1, <1>3, <1>4, <1>5
<1>7. \A k \in DOMAIN apps' : apps'[k].anchor \in DOMAIN quals
  BY <1>2, <1>4, <1>6 DEF QInv, TypeOK
<1>8. \A i \in DOMAIN quals : quals[i].app <= Len(apps')
  BY <1>5, <1>6
<1>9. bound' \subseteq Versions
  BY <1>1, <1>2 DEF QInv, TypeOK
<1>10. TypeOK'
  BY <1>1, <1>6, <1>7, <1>8, <1>9 DEF QInv, TypeOK, FrozenNodes
<1>11. now <= now'
  BY <1>1, <1>2
<1> QED
  BY <1>1, <1>6, <1>10, <1>11, StandingKeeps

\* Every governance command on a qualification keeps the invariant.
LEMMA QualificationKeeps ==
    ASSUME QInv, UNCHANGED within, Qualification
    PROVE  QInv'
<1>0. PICK v \in within.versions :
        \E p \in Current(SubstantiveHeads(v)), e \in within.evidence :
          \/ p = 0 /\ RecordNotObtained(v, e)
          \/ Grant(v, e, p)
          \/ Alert(v, e, p)
          \/ Suspend(v, e, p)
          \/ Revoke(v, e, p)
          \/ FormalCheckInsufficient(v, e, p)
          \/ \E ok \in BOOLEAN : FormalCheck(v, e, p, ok)
          \/ RecordFormalNode(v, e, p)
          \/ p # 0 /\ \E a \in quals[p].alerts : RecordAlertReplay(v, e, p, a)
          \/ p # 0 /\ \E a \in quals[p].alerts, how \in Resolutions :
                          CloseAlert(v, e, p, a, how)
          \/ Restore(v, e, p)
          \/ RegisterRequalification(v, e, p)
          \/ \E k \in DOMAIN apps : Requalify(v, e, p, k)
  BY DEF Qualification
<1>1. PICK p \in Current(SubstantiveHeads(v)), e \in within.evidence :
        \/ p = 0 /\ RecordNotObtained(v, e)
        \/ Grant(v, e, p)
        \/ Alert(v, e, p)
        \/ Suspend(v, e, p)
        \/ Revoke(v, e, p)
        \/ FormalCheckInsufficient(v, e, p)
        \/ \E ok \in BOOLEAN : FormalCheck(v, e, p, ok)
        \/ RecordFormalNode(v, e, p)
        \/ p # 0 /\ \E a \in quals[p].alerts : RecordAlertReplay(v, e, p, a)
        \/ p # 0 /\ \E a \in quals[p].alerts, how \in Resolutions :
                        CloseAlert(v, e, p, a, how)
        \/ Restore(v, e, p)
        \/ RegisterRequalification(v, e, p)
        \/ \E k \in DOMAIN apps : Requalify(v, e, p, k)
  BY <1>0
<1>2. Facing(v, e, p)
  BY <1>1 DEF Facing, QInv
<1>3. v \in Versions /\ bound \subseteq Versions
  BY <1>2, Faced DEF QInv, TypeOK
<1>4. ASSUME NEW op, Command(op, v, e), NEW r, Saved(r), Recorded
      PROVE  QInv'
  <2>1. /\ bound' \subseteq Versions
        /\ UNCHANGED <<now, apps, replays, nodes, acts, tasks, uses>>
    BY <1>3, <1>4 DEF Command, Saved, handoffVars
  <2> QED
    BY <1>4, <2>1, RecordedKeeps
<1>5. CASE p = 0 /\ RecordNotObtained(v, e)
  <2>1. Recorded
    BY <1>2, <1>5, RecordNotObtainedFits
  <2> QED
    BY <1>4, <1>5, <2>1 DEF RecordNotObtained
<1>6. CASE Grant(v, e, p)
  <2>1. Recorded
    BY <1>2, <1>6, GrantFits
  <2> QED
    BY <1>4, <1>6, <2>1 DEF Grant
<1>7. CASE Alert(v, e, p)
  <2>1. Recorded
    BY <1>2, <1>7, AlertFits
  <2> QED
    BY <1>4, <1>7, <2>1 DEF Alert
<1>8. CASE Suspend(v, e, p)
  <2>1. Recorded
    BY <1>2, <1>8, ImposeFits DEF Suspend
  <2> QED
    BY <1>4, <1>8, <2>1 DEF Suspend, Impose
<1>9. CASE Revoke(v, e, p)
  <2>1. Recorded
    BY <1>2, <1>9, ImposeFits DEF Revoke
  <2> QED
    BY <1>4, <1>9, <2>1 DEF Revoke, Impose
<1>10. CASE FormalCheckInsufficient(v, e, p)
  <2>1. Recorded
    BY <1>2, <1>10, FormalCheckInsufficientFits
  <2> QED
    BY <1>4, <1>10, <2>1 DEF FormalCheckInsufficient, FormalNode
<1>11. ASSUME NEW ok \in BOOLEAN, FormalCheck(v, e, p, ok)
       PROVE  QInv'
  <2>1. Recorded
    BY <1>2, <1>11, FormalCheckFits
  <2> QED
    BY <1>4, <1>11, <2>1 DEF FormalCheck, FormalNode
<1>12. CASE RecordFormalNode(v, e, p)
  <2>1. Recorded
    BY <1>2, <1>12, RecordFormalNodeFits
  <2> QED
    BY <1>4, <1>12, <2>1 DEF RecordFormalNode, FormalNode
<1>13. ASSUME p # 0, NEW a \in quals[p].alerts, RecordAlertReplay(v, e, p, a)
       PROVE  QInv'
  BY <1>2, <1>13, RecordAlertReplayKeeps
<1>14. ASSUME NEW a, NEW how \in Resolutions, CloseAlert(v, e, p, a, how)
       PROVE  QInv'
  <2>1. Recorded
    BY <1>2, <1>14, CloseAlertFits
  <2> QED
    BY <1>4, <1>14, <2>1 DEF CloseAlert
<1>15. CASE Restore(v, e, p)
  <2>1. Recorded
    BY <1>2, <1>15, RestoreFits
  <2> QED
    BY <1>4, <1>15, <2>1 DEF Restore
<1>16. CASE RegisterRequalification(v, e, p)
  BY <1>2, <1>16, RegisterRequalificationKeeps
<1>17. ASSUME NEW k \in DOMAIN apps, Requalify(v, e, p, k)
       PROVE  QInv'
  <2>1. Recorded
    BY <1>2, <1>17, RequalifyFits
  <2> QED
    BY <1>4, <1>17, <2>1 DEF Requalify
<1> QED
  BY <1>1, <1>5, <1>6, <1>7, <1>8, <1>9, <1>10, <1>11, <1>12, <1>13, <1>14, <1>15, <1>16, <1>17

\* The current activation, where there is one, is one of the history's.
LEMMA CurrentActIs ==
    ASSUME TypeOK, Cardinality(CurrentActs) <= 1, CurrentActs # {}
    PROVE  Max(CurrentActs) \in DOMAIN acts
<1>1. CurrentActs \subseteq DOMAIN acts
  BY DEF CurrentActs, ActHeads
<1>2. DOMAIN acts = 1..Len(acts) /\ Len(acts) \in Nat
  BY DEF TypeOK
<1>3. IsFiniteSet(1..Len(acts))
  BY <1>2, FS_Interval
<1>4. IsFiniteSet(CurrentActs)
  BY <1>1, <1>2, <1>3, FS_Subset
<1>5. Cardinality(CurrentActs) \in Nat
  BY <1>4, FS_CardinalityType
<1>6. Cardinality(CurrentActs) # 0
  BY <1>4, FS_EmptySet
<1>7. Cardinality(CurrentActs) = 1
  BY <1>5, <1>6
<1>8. PICK h : CurrentActs = {h}
  BY <1>4, <1>7, FS_Singleton
<1>9. h \in DOMAIN acts /\ h \in Nat
  BY <1>1, <1>2, <1>8
<1>10. h >= h
  BY <1>9
<1>11. \E y \in {h} : \A z \in {h} : y >= z
  BY <1>10
<1>12. Max({h}) = h
  BY <1>11 DEF Max
<1> QED
  BY <1>8, <1>9, <1>12

\* A handoff may bind its version, and never touches time or applications.
LEMMA HandoffFrame ==
    ASSUME QInv, NEW v \in Versions, NEW op, Handoff(op, v)
    PROVE  /\ bound' \subseteq Versions /\ UNCHANGED <<now, apps, replays>>
           /\ now <= now' /\ \A k \in DOMAIN apps : apps'[k] = apps[k]
<1>1. now \in Nat /\ bound \subseteq Versions
  BY GovernanceConstants DEF QInv, TypeOK
<1> QED
  BY <1>1 DEF Handoff, Bind

\* A task node is registered,
LEMMA RegisterTaskNodeKeeps ==
    ASSUME QInv, UNCHANGED within, NEW n \in within.nodes, RegisterTaskNode(n)
    PROVE  QInv'
<1>1. /\ nodes' = nodes \cup {n} /\ n \in TaskNodes /\ now \in Nat
      /\ UNCHANGED <<now, quals, apps, replays, bound, acts, tasks, uses>>
  BY GovernanceConstants DEF QInv, TypeOK, RegisterTaskNode, lineageVars
<1>2. TypeOK'
  BY <1>1 DEF QInv, TypeOK, FrozenNodes
<1>3. now <= now'
  BY <1>1
<1> QED
  BY <1>1, <1>2, <1>3, StandingKeeps

\* a version activated,
LEMMA ActivateVersionKeeps ==
    ASSUME QInv, UNCHANGED within, NEW v \in Versions, NEW q, NEW n \in nodes,
           ActivateVersion(v, q, n)
    PROVE  QInv'
<1>1. /\ UNCHANGED <<quals, nodes, tasks, uses, now, apps, replays>>
      /\ bound' \subseteq Versions /\ Cardinality(CurrentActs) <= 1
      /\ now <= now' /\ \A k \in DOMAIN apps : apps'[k] = apps[k]
  BY HandoffFrame DEF ActivateVersion
<1>2. PICK m : m = IF CurrentActs = {} THEN 0 ELSE Max(CurrentActs)
  OBVIOUS
<1>3. acts' = Append(acts, [ver |-> v, first |-> n, prev |-> m])
  BY <1>2 DEF ActivateVersion
<1>4. acts \in Seq(Activations) /\ Len(acts) \in Nat /\ DOMAIN acts = 1..Len(acts)
  BY DEF QInv, TypeOK
<1>5. m \in Nat /\ m < Len(acts) + 1
  BY <1>1, <1>2, <1>4, CurrentActIs DEF QInv
<1>6. PICK y : y = [ver |-> v, first |-> n, prev |-> m]
  OBVIOUS
<1>7. y \in Activations /\ y.prev = m /\ y.first = n
  BY <1>5, <1>6 DEF Activations, QInv, TypeOK
<1>8. /\ acts' \in Seq(Activations) /\ DOMAIN acts' = DOMAIN acts \cup {Len(acts) + 1}
      /\ \A a \in DOMAIN acts : acts'[a] = acts[a]
      /\ acts'[Len(acts) + 1] = y
  BY <1>3, <1>4, <1>6, <1>7
<1>9. \A a \in DOMAIN acts' : acts'[a].prev < a /\ acts'[a].first \in nodes
  BY <1>5, <1>7, <1>8 DEF QInv, TypeOK
<1>10. TypeOK'
  BY <1>1, <1>8, <1>9 DEF QInv, TypeOK, FrozenNodes
<1> QED
  BY <1>1, <1>10, StandingKeeps

\* a task frozen, or refused,
LEMMA FreezeTaskKeeps ==
    ASSUME QInv, UNCHANGED within, NEW v \in Versions, NEW q, NEW n \in nodes,
           NEW a \in {0} \cup DOMAIN acts, FreezeTask(v, q, n, a)
    PROVE  QInv'
<1>1. /\ UNCHANGED <<quals, nodes, acts, uses, now, apps, replays>>
      /\ bound' \subseteq Versions
      /\ now <= now' /\ \A k \in DOMAIN apps : apps'[k] = apps[k]
  BY HandoffFrame DEF FreezeTask
<1>2. PICK ok \in BOOLEAN :
        ok = (a \in ApplicableActs(n) /\ acts[a].ver = v /\ Qualified(q, n.cut))
  BY DEF Qualified
<1>3. PICK t : t = [node |-> n, ok |-> ok, ver |-> IF ok THEN v ELSE None,
                    act |-> IF ok THEN a ELSE 0]
  OBVIOUS
<1>4. tasks' = tasks \cup {t}
  BY <1>2, <1>3 DEF FreezeTask
<1>5. a \in Nat /\ n \in TaskNodes
  BY DEF QInv, TypeOK
<1>6. t \in FrozenTasks /\ t.node = n
  BY <1>3, <1>5 DEF FrozenTasks
<1>7. tasks' \subseteq FrozenTasks /\ FrozenNodes' \subseteq nodes /\ tasks \subseteq tasks'
  BY <1>4, <1>6 DEF QInv, TypeOK, FrozenNodes
<1>8. TypeOK'
  BY <1>1, <1>7 DEF QInv, TypeOK
<1> QED
  BY <1>1, <1>8, StandingKeeps

\* and used, or its qualification restricted.
LEMMA UseTaskKeeps ==
    ASSUME QInv, UNCHANGED within, NEW v \in Versions, NEW q \in Current(ExactHeads(v)),
           NEW t \in tasks, UseTask(v, q, t)
    PROVE  QInv'
<1>1. /\ UNCHANGED <<nodes, acts, tasks, now, apps, replays>> /\ bound' \subseteq Versions
      /\ now <= now' /\ \A k \in DOMAIN apps : apps'[k] = apps[k]
  BY HandoffFrame DEF UseTask
<1>2. CASE q # 0 /\ RestrictExpired(quals[q]) # quals[q]
  <2>1. /\ quals' = Append(quals, [RestrictExpired(quals[q]) EXCEPT !.prev = q])
        /\ UNCHANGED uses
    BY <1>2 DEF UseTask
  <2>2. Recorded
    BY <1>2, <2>1, UseTaskFits DEF QInv
  <2> QED
    BY <1>1, <2>1, <2>2, RecordedKeeps
<1>3. CASE ~(q # 0 /\ RestrictExpired(quals[q]) # quals[q])
  <2>1. q # 0 /\ uses' = uses \cup {[task |-> t, by |-> q]} /\ UNCHANGED quals
    BY <1>3 DEF UseTask, Qualified
  <2>2. q \in DOMAIN quals /\ q \in Nat
    BY <2>1, CurrentIs, HistoryType DEF ExactHeads, QInv
  <2>3. PICK u : u = [task |-> t, by |-> q]
    OBVIOUS
  <2>4. u \in TaskUsages /\ u.task = t /\ u.by = q
    BY <2>2, <2>3 DEF TaskUsages, QInv, TypeOK
  <2>5. uses' \subseteq TaskUsages /\ \A w \in uses' : w.task \in tasks /\ w.by \in DOMAIN quals
    BY <2>1, <2>2, <2>3, <2>4 DEF QInv, TypeOK
  <2>6. TypeOK'
    BY <1>1, <2>1, <2>5 DEF QInv, TypeOK, FrozenNodes
  <2> QED
    BY <1>1, <2>1, <2>6, StandingKeeps
<1> QED
  BY <1>2, <1>3

\* Every version handoff keeps the invariant.
LEMMA HandoffsKeep ==
    ASSUME QInv, UNCHANGED within, Handoffs
    PROVE  QInv'
<1>1. within.versions \subseteq Versions
  BY GovernanceConstants DEF QInv
<1>2. CASE \E n \in within.nodes : RegisterTaskNode(n)
  BY <1>2, RegisterTaskNodeKeeps
<1>3. ASSUME NEW v \in within.versions, NEW q \in Current(ExactHeads(v)),
             \/ \E n \in nodes : ActivateVersion(v, q, n)
             \/ \E n \in nodes, a \in {0} \cup DOMAIN acts : FreezeTask(v, q, n, a)
             \/ \E t \in tasks : UseTask(v, q, t)
      PROVE  QInv'
  <2>1. v \in Versions
    BY <1>1
  <2>2. CASE \E n \in nodes : ActivateVersion(v, q, n)
    BY <2>1, <2>2, ActivateVersionKeeps
  <2>3. CASE \E n \in nodes, a \in {0} \cup DOMAIN acts : FreezeTask(v, q, n, a)
    BY <2>1, <2>3, FreezeTaskKeeps
  <2>4. CASE \E t \in tasks : UseTask(v, q, t)
    BY <2>1, <2>4, UseTaskKeeps
  <2> QED
    BY <1>3, <2>2, <2>3, <2>4
<1> QED
  BY <1>2, <1>3 DEF Handoffs

\* The invariant holds of the empty history,
LEMMA InitQ == Init => QInv
<1> SUFFICES ASSUME Init PROVE QInv
  OBVIOUS
<1>1. /\ within \in Cases /\ now = 0 /\ quals = <<>> /\ apps = <<>> /\ replays = {}
      /\ bound = {} /\ nodes = {} /\ acts = <<>> /\ tasks = {} /\ uses = {}
  BY DEF Init
<1>2. DOMAIN quals = {} /\ DOMAIN apps = {} /\ DOMAIN acts = {}
  BY <1>1
<1>3. quals \in Seq(QualificationRecords) /\ apps \in Seq(Applications)
      /\ acts \in Seq(Activations)
  BY <1>1
<1>4. now \in 0 .. Horizon /\ FrozenNodes = {}
  BY <1>1, GovernanceConstants DEF FrozenNodes
<1>5. TypeOK
  BY <1>1, <1>2, <1>3, <1>4 DEF TypeOK
<1>6. OneHead
  BY <1>2 DEF OneHead, SubstantiveHeads, HeadsOf
<1>7. LineageInv
  BY <1>2, <1>6 DEF LineageInv, RecordsSound, Linked, OneAuthority, RevokedInOrder,
                    RevocationIsFinal
<1> QED
  BY <1>1, <1>5, <1>7 DEF QInv

\* and every step keeps it.
LEMMA StepQ ==
    ASSUME QInv, [Next]_vars
    PROVE  QInv'
<1>1. CASE Next /\ Qualification
  BY <1>1, QualificationKeeps DEF Next
<1>2. CASE Next /\ Handoffs
  BY <1>2, HandoffsKeep DEF Next
<1>3. ASSUME Next, NEW v \in within.versions, Denied(v)
      PROVE  QInv'
  <2>1. /\ UNCHANGED <<within, now, quals, apps, replays, nodes, acts, tasks, uses>>
        /\ bound' \subseteq bound \cup {v}
    BY <1>3 DEF Next, Denied, Bind, lineageVars, handoffVars
  <2>2. v \in Versions /\ now \in Nat
    BY GovernanceConstants DEF QInv, TypeOK
  <2>3. TypeOK'
    BY <2>1, <2>2 DEF QInv, TypeOK, FrozenNodes
  <2>4. now <= now'
    BY <2>1, <2>2
  <2> QED
    BY <2>1, <2>3, <2>4, StandingKeeps
<1>4. CASE Next /\ Pass
  <2>1. /\ UNCHANGED <<within, quals, apps, replays, bound, nodes, acts, tasks, uses>>
        /\ now' = now + 1 /\ now < Horizon /\ now \in Nat /\ Horizon \in Nat
    BY <1>4, GovernanceConstants DEF Next, Pass, lineageVars, handoffVars, QInv, TypeOK
  <2>2. now' \in 0 .. Horizon /\ now <= now'
    BY <2>1
  <2>3. TypeOK'
    BY <2>1, <2>2 DEF QInv, TypeOK, FrozenNodes
  <2> QED
    BY <2>1, <2>2, <2>3, StandingKeeps
<1>5. CASE UNCHANGED vars
  <2>1. /\ UNCHANGED <<within, now, quals, apps, replays, bound, nodes, acts, tasks, uses>>
        /\ now \in Nat
    BY <1>5, GovernanceConstants DEF vars, lineageVars, handoffVars, QInv, TypeOK
  <2>2. TypeOK'
    BY <2>1 DEF QInv, TypeOK, FrozenNodes
  <2>3. now <= now'
    BY <2>1
  <2> QED
    BY <2>1, <2>2, <2>3, StandingKeeps
<1> QED
  BY <1>1, <1>2, <1>3, <1>4, <1>5 DEF Next

\* The inductive invariant holds in every state of the specification.
THEOREM QualificationInvariant == Spec => []QInv
<1>1. QInv /\ [Next]_vars => QInv'
  BY StepQ
<1> QED
  BY <1>1, InitQ, PTL DEF Spec

-----------------------------------------------------------------------------
(* What the governance of qualifications guarantees *)

\* Every record, application, handoff and use is well formed and refers only
\* to what was committed before it, whatever commands come in whatever order.
THEOREM QualificationTypeCorrect == Spec => []TypeOK
<1>1. QInv => TypeOK
  BY DEF QInv
<1> QED
  BY <1>1, QualificationInvariant, PTL

\* A substantive lineage never forks: the lookup of the current qualification
\* never meets conflicting revisions, although a use revises the newest record
\* of one exact version and every other command that of all its aliases.
THEOREM OneLineageTheorem == Spec => []OneLineage
<1>1. ASSUME QInv PROVE OneLineage
  <2>1. ASSUME NEW v \in Versions PROVE Cardinality(SubstantiveHeads(v)) <= 1
    BY <1>1, CountedHeads DEF QInv, LineageInv, OneHead
  <2> QED
    BY <2>1 DEF OneLineage
<1> QED
  BY <1>1, QualificationInvariant, PTL

\* Authority is earned: the status of a record is what its open alerts and
\* restrictions earn, and after a revocation only an application registered
\* later, and used for no other authorization, brings authority back.
THEOREM AuthorityIsEarnedTheorem == Spec => []AuthorityIsEarned
<1>1. ASSUME QInv PROVE AuthorityIsEarned
  <2>1. StatusIsEarned
    BY <1>1 DEF QInv, LineageInv, RecordsSound, Earned, StatusIsEarned, Range
  <2> QED
    BY <1>1, <2>1 DEF QInv, LineageInv, AuthorityIsEarned
<1> QED
  BY <1>1, QualificationInvariant, PTL

\* A record whose expiry is CURRENT is current on both clocks.
LEMMA CurrentOnBoth ==
    ASSUME NEW r \in QualificationRecords, Owned(r), r.auth # 0, ExpiryCause(r) = "CURRENT"
    PROVE  EvidenceCurrent([Basis(r) EXCEPT !.act = ActivitySource(r).act])
<1>1. PICK b \in Evidences \cup Checks : b = Basis(r)
  BY Based
<1>2. PICK a : a = ActivitySource(r)
  OBVIOUS
<1>3. OverallCurrent(b) /\ ActivityCurrent(a)
  BY <1>1, <1>2 DEF ExpiryCause
<1>4. PICK c : c = [b EXCEPT !.act = a.act]
  OBVIOUS
<1>5. c.end = b.end /\ c.act = a.act
  BY <1>4 DEF Evidences, Checks
<1>6. EvidenceCurrent(c)
  BY <1>3, <1>5 DEF EvidenceCurrent, OverallCurrent, ActivityCurrent
<1> QED
  BY <1>1, <1>2, <1>4, <1>6

\* What UseIsQualified asks of one use.
QualifiedUse(u) ==
    /\ SubstantiveHeads(u.task.ver) = {u.by}
    /\ quals[u.by].ver = u.task.ver /\ quals[u.by].limits = {}
    /\ quals[u.by].status \in {"VALID", "AT_RISK"}
    /\ EvidenceCurrent([Basis(quals[u.by]) EXCEPT !.act = ActivitySource(quals[u.by]).act])

\* A use that is approved is qualified.
LEMMA UseTaskQualified ==
    ASSUME QInv, NEW v \in Versions, NEW q \in Current(ExactHeads(v)), NEW t \in tasks,
           UseTask(v, q, t), NEW u \in uses' \ uses
    PROVE  QualifiedUse(u)
<1>1. CASE q # 0 /\ RestrictExpired(quals[q]) # quals[q]
  BY <1>1 DEF UseTask
<1>2. CASE ~(q # 0 /\ RestrictExpired(quals[q]) # quals[q])
  <2>1. /\ Qualified(q, now) /\ t.ver = v /\ uses' = uses \cup {[task |-> t, by |-> q]}
    BY <1>2 DEF UseTask
  <2>2. u.task = t /\ u.by = q
    BY <2>1
  <2>3. /\ q # 0 /\ quals[q].status \in {"VALID", "AT_RISK"} /\ quals[q].auth # 0
        /\ ExpiryCause(quals[q]) = "CURRENT"
    BY <2>1 DEF Qualified
  <2>4. q \in DOMAIN quals /\ quals[q].ver = v /\ SubstantiveHeads(v) = {q}
    BY <2>3, ExactIsHead DEF QInv
  <2>5. quals[q] \in QualificationRecords /\ Earned(quals[q]) /\ Owned(quals[q])
    BY <2>4, HistoryType DEF QInv, LineageInv, RecordsSound
  <2>6. quals[q].limits = {}
    BY <2>3, <2>5 DEF Earned, Blocked
  <2>7. EvidenceCurrent([Basis(quals[q]) EXCEPT !.act = ActivitySource(quals[q]).act])
    BY <2>3, <2>5, CurrentOnBoth
  <2> QED
    BY <2>1, <2>2, <2>3, <2>4, <2>6, <2>7 DEF QualifiedUse
<1> QED
  BY <1>1, <1>2

\* A qualification step is one command, whose frame it keeps.
LEMMA CommandOf ==
    ASSUME Qualification
    PROVE  \E op, v, e : Command(op, v, e)
<1>0. PICK v \in within.versions :
        \E p \in Current(SubstantiveHeads(v)), e \in within.evidence :
          \/ p = 0 /\ RecordNotObtained(v, e)
          \/ Grant(v, e, p)
          \/ Alert(v, e, p)
          \/ Suspend(v, e, p)
          \/ Revoke(v, e, p)
          \/ FormalCheckInsufficient(v, e, p)
          \/ \E ok \in BOOLEAN : FormalCheck(v, e, p, ok)
          \/ RecordFormalNode(v, e, p)
          \/ p # 0 /\ \E a \in quals[p].alerts : RecordAlertReplay(v, e, p, a)
          \/ p # 0 /\ \E a \in quals[p].alerts, how \in Resolutions :
                          CloseAlert(v, e, p, a, how)
          \/ Restore(v, e, p)
          \/ RegisterRequalification(v, e, p)
          \/ \E k \in DOMAIN apps : Requalify(v, e, p, k)
  BY DEF Qualification
<1>1. PICK p \in Current(SubstantiveHeads(v)), e \in within.evidence :
        \/ p = 0 /\ RecordNotObtained(v, e)
        \/ Grant(v, e, p)
        \/ Alert(v, e, p)
        \/ Suspend(v, e, p)
        \/ Revoke(v, e, p)
        \/ FormalCheckInsufficient(v, e, p)
        \/ \E ok \in BOOLEAN : FormalCheck(v, e, p, ok)
        \/ RecordFormalNode(v, e, p)
        \/ p # 0 /\ \E a \in quals[p].alerts : RecordAlertReplay(v, e, p, a)
        \/ p # 0 /\ \E a \in quals[p].alerts, how \in Resolutions :
                        CloseAlert(v, e, p, a, how)
        \/ Restore(v, e, p)
        \/ RegisterRequalification(v, e, p)
        \/ \E k \in DOMAIN apps : Requalify(v, e, p, k)
  BY <1>0
<1>2. CASE p = 0 /\ RecordNotObtained(v, e)
  BY <1>2 DEF RecordNotObtained
<1>3. CASE Grant(v, e, p) \/ Alert(v, e, p) \/ Restore(v, e, p)
  BY <1>3 DEF Grant, Alert, Restore
<1>4. CASE Suspend(v, e, p) \/ Revoke(v, e, p) \/ RegisterRequalification(v, e, p)
  BY <1>4 DEF Suspend, Revoke, Impose, RegisterRequalification
<1>5. CASE FormalCheckInsufficient(v, e, p) \/ RecordFormalNode(v, e, p)
  BY <1>5 DEF FormalCheckInsufficient, RecordFormalNode, FormalNode
<1>6. ASSUME NEW ok \in BOOLEAN, FormalCheck(v, e, p, ok)
      PROVE  \E op : Command(op, v, e)
  BY <1>6 DEF FormalCheck, FormalNode
<1>7. ASSUME NEW a, RecordAlertReplay(v, e, p, a) \/ Requalify(v, e, p, a)
      PROVE  \E op : Command(op, v, e)
  BY <1>7 DEF RecordAlertReplay, Requalify
<1>8. ASSUME NEW a, NEW how \in Resolutions, CloseAlert(v, e, p, a, how)
      PROVE  \E op : Command(op, v, e)
  BY <1>8 DEF CloseAlert
<1> QED
  BY <1>1, <1>2, <1>3, <1>4, <1>5, <1>6, <1>7, <1>8

\* A frozen task is used only while the newest record of its whole lineage is
\* its own version's, unrestricted and current on both clocks, whatever was
\* committed between the freeze and the use.
THEOREM UseIsQualifiedTheorem == Spec => UseIsQualified
<1>1. ASSUME QInv, [Next]_vars, NEW u \in uses' \ uses
      PROVE  QualifiedUse(u)
  <2>1. within.versions \subseteq Versions
    BY <1>1, GovernanceConstants DEF QInv
  <2>2. uses' # uses
    BY <1>1
  <2>3. ~UNCHANGED vars /\ ~Qualification /\ ~Pass /\ ~(\E v \in within.versions : Denied(v))
    <3>2. ~Qualification
      BY <2>2, CommandOf DEF Command, handoffVars
    <3> QED
      BY <2>2, <3>2 DEF vars, Pass, Denied, handoffVars
  <2>4. Handoffs
    BY <1>1, <2>3 DEF Next
  <2>5. PICK v \in within.versions : \E q \in Current(ExactHeads(v)), t \in tasks :
            UseTask(v, q, t)
    <3>1. ASSUME NEW n, RegisterTaskNode(n) PROVE FALSE
      BY <2>2, <3>1, Zenon DEF RegisterTaskNode
    <3>2. ASSUME NEW v, NEW q, NEW n, ActivateVersion(v, q, n) PROVE FALSE
      BY <2>2, <3>2, Zenon DEF ActivateVersion
    <3>3. ASSUME NEW v, NEW q, NEW n, NEW a, FreezeTask(v, q, n, a) PROVE FALSE
      <4>1. UNCHANGED uses
        BY <3>3, Zenon DEF FreezeTask
      <4> QED
        BY <2>2, <4>1
    <3> QED
      BY <2>4, <3>1, <3>2, <3>3, Zenon DEF Handoffs
  <2> QED
    BY <1>1, <2>1, <2>5, UseTaskQualified
<1>2. QInv /\ [Next]_vars => [\A u \in uses' \ uses : QualifiedUse(u)]_vars
  BY <1>1
<1>3. [\A u \in uses' \ uses : QualifiedUse(u)]_vars
        => [\A u \in uses' \ uses :
              /\ SubstantiveHeads(u.task.ver) = {u.by}
              /\ quals[u.by].ver = u.task.ver /\ quals[u.by].limits = {}
              /\ quals[u.by].status \in {"VALID", "AT_RISK"}
              /\ EvidenceCurrent([Basis(quals[u.by])
                                    EXCEPT !.act = ActivitySource(quals[u.by]).act])]_vars
  BY DEF QualifiedUse
<1> QED
  BY <1>2, <1>3, QualificationInvariant, PTL DEF Spec, UseIsQualified

(***************************************************************************)
(* Capital epochs: DrawdownEpochs.                                         *)
(***************************************************************************)

-----------------------------------------------------------------------------
(* The inductive invariant.                                                *)

AccountFields(acc) ==
    acc = [cash |-> acc.cash, shares |-> acc.shares, price |-> acc.price, cost |-> acc.cost,
           day |-> acc.day, phase |-> acc.phase, atClose |-> acc.atClose, still |-> acc.still,
           lastStock |-> acc.lastStock, stock |-> acc.stock, traded |-> acc.traded,
           moved |-> acc.moved, horizon |-> acc.horizon]
StateFields(s) ==
    s = [epoch |-> s.epoch, auth |-> s.auth, units |-> s.units, peak |-> s.peak,
         known |-> s.known, fall |-> s.fall, risk |-> s.risk, blocked |-> s.blocked,
         recovery |-> s.recovery, lastRecovery |-> s.lastRecovery,
         lastObserved |-> s.lastObserved, stock |-> s.stock, status |-> s.status,
         closedDay |-> s.closedDay, cooling |-> s.cooling]

(* Days pass, and stock events are counted and dated. *)
AccountOK ==
    /\ AccountFields(account)
    /\ account.day \in Nat \ {0}
    /\ account.stock \in Nat
    /\ account.lastStock \in Nat

(* A retained state has its fields and knows no stock event to come. *)
StateOK ==
    /\ StateFields(state)
    /\ state.epoch \in Nat \ {0}
    /\ state.risk \in {"NORMAL", "CAUTION", "DEFENSIVE", "PRESERVATION"}
    /\ state.status \in {"OPEN", "CLOSED"}
    /\ state.recovery \in Nat /\ state.cooling \in Nat
    /\ state.lastRecovery \in Nat /\ state.closedDay \in Nat
    /\ state.stock \in Nat /\ state.stock <= account.stock

(* The sessions counted for recovery are the last ones, one after another, *)
(* and were observed in calm.                                              *)
RecoveryRuns ==
    state.recovery > 0 =>
        /\ calm.risk = state.risk
        /\ (state.lastRecovery - state.recovery + 1) .. state.lastRecovery \subseteq calm.days

(* The sessions counted for cooling are consecutive, later than the        *)
(* closing, and later than every stock event the state knows of.           *)
CoolingRuns ==
    state.cooling > 0 =>
        /\ state.lastRecovery - state.cooling + 1 > state.closedDay
        /\ state.lastRecovery <= account.day
        /\ account.stock = state.stock
              => account.lastStock < state.lastRecovery - state.cooling + 1

DInv ==
    /\ AccountOK
    /\ state = NoEpoch \/ (StateOK /\ RecoveryRuns /\ CoolingRuns)

-----------------------------------------------------------------------------
(* Sessions and risk states.                                               *)

Risks == {"NORMAL", "CAUTION", "DEFENSIVE", "PRESERVATION"}

\* Risk states are ranked.
LEMMA Ranks ==
    /\ Rank["NORMAL"] = 0 /\ Rank["CAUTION"] = 1
    /\ Rank["DEFENSIVE"] = 2 /\ Rank["PRESERVATION"] = 3
BY DEF Rank

\* The last session that closed is not after today.
LEMMA ClosesPass ==
    ASSUME AccountOK
    PROVE  LastClose \in Nat /\ LastClose <= account.day
BY DEF AccountOK, LastClose

\* No epoch has no number.
LEMMA NoEpochIsZero == NoEpoch.epoch = 0
BY DEF NoEpoch

\* The last epoch's state, where there is one.
LEMMA EpochIsOpen ==
    ASSUME DInv, state.epoch > 0
    PROVE  StateOK /\ RecoveryRuns /\ CoolingRuns
<1>1. state # NoEpoch
  BY NoEpochIsZero
<1> QED
  BY <1>1 DEF DInv

\* A drawdown never lowers risk.
LEMMA RaisedIsNoLower ==
    ASSUME NEW risk \in Risks, NEW dip, NEW budget
    PROVE  RaisedRisk(risk, dip, budget) \in Risks /\ Rank[RaisedRisk(risk, dip, budget)] >= Rank[risk]
BY Ranks DEF RaisedRisk, Risks

\* The policy asks for at least one session.
LEMMA SessionsArePositive ==
    ASSUME NEW risk
    PROVE  SessionsRequired(risk) \in Nat \ {0}
BY PolicyAssumption DEF SessionsRequired

(* What an observation leaves of the recovery count and the risk state.    *)
RunsOn(o, r, days) ==
    /\ r.risk \in Risks /\ r.recovery \in Nat /\ r.lastRecovery \in Nat
    /\ r.recovery > 0 => /\ r.risk = state.risk
                         /\ (r.lastRecovery - r.recovery + 1) .. r.lastRecovery \subseteq days
    /\ Rank[r.risk] < Rank[state.risk] =>
          /\ Rank[r.risk] = Rank[state.risk] - 1
          /\ state.risk # "PRESERVATION"
          /\ (LastClose - SessionsRequired(state.risk) + 1) .. LastClose \subseteq days

\* A close that is counted extends the run of calm sessions by itself, or
\* starts one.
LEMMA CountExtends ==
    ASSUME AccountOK, StateOK, RecoveryRuns, NEW o, NewClose(o.session), o.known, o.clear,
           Calm(state.risk, o)
    PROVE  /\ RecoveryCount(o.session) \in Nat \ {0}
           /\ o.session = LastClose
           /\ (o.session - RecoveryCount(o.session) + 1) .. o.session \subseteq CalmAfter(o).days
<1>1. PICK s, c, days : s = o.session /\ c = RecoveryCount(s) /\ days = CalmAfter(o).days
  OBVIOUS
<1>2. s = LastClose /\ account.atClose /\ s \in Nat
  BY <1>1, ClosesPass DEF NewClose, ObservedClose
<1>3. days = (IF calm.risk = state.risk THEN calm.days ELSE {})
                 \cup {d \in {LastClose} : account.atClose}
  BY <1>1 DEF CalmAfter
<1>4. s \in days
  BY <1>2, <1>3
<1>5. CASE state.lastRecovery = s - 1 /\ state.recovery > 0
  <2>1. c = state.recovery + 1
    BY <1>1, <1>5 DEF RecoveryCount
  <2>2. (state.lastRecovery - state.recovery + 1) .. state.lastRecovery \subseteq calm.days
        /\ calm.risk = state.risk
    BY <1>5 DEF RecoveryRuns
  <2>3. \A d \in (s - c + 1) .. s :
          d = s \/ d \in (state.lastRecovery - state.recovery + 1) .. state.lastRecovery
    <3>1. state.recovery \in Nat
      BY DEF StateOK
    <3> QED
      BY <1>2, <1>5, <2>1, <3>1
  <2>4. (s - c + 1) .. s \subseteq days
    BY <1>3, <1>4, <2>2, <2>3
  <2>5. c \in Nat \ {0}
    BY <2>1 DEF StateOK
  <2> QED
    BY <1>1, <1>2, <2>4, <2>5
<1>6. CASE ~(state.lastRecovery = s - 1 /\ state.recovery > 0)
  <2>1. c = 1
    BY <1>1, <1>6 DEF RecoveryCount, StateOK
  <2>2. \A d \in (s - c + 1) .. s : d = s
    BY <1>2, <2>1
  <2> QED
    BY <1>1, <1>2, <1>4, <2>1, <2>2
<1> QED
  BY <1>5, <1>6

\* The recovery count after an observation is that of calm sessions observed
\* one after another.
LEMMA RecoveryCounts ==
    ASSUME AccountOK, StateOK, RecoveryRuns, NEW o
    PROVE  /\ RunsOn(o, Recovery(o), CalmAfter(o).days)
           /\ CalmAfter(o).risk = state.risk
<1>1. PICK r, days, risk : r = Recovery(o) /\ days = CalmAfter(o).days
                          /\ risk = RaisedRisk(state.risk, o.dip, o.budget)
  OBVIOUS
<1>2. CalmAfter(o).risk = state.risk
  BY DEF CalmAfter
<1>3. state.risk \in Risks /\ state.recovery \in Nat /\ state.lastRecovery \in Nat
  BY DEF StateOK, Risks
<1>4. risk \in Risks /\ Rank[risk] >= Rank[state.risk]
  BY <1>1, <1>3, RaisedIsNoLower
<1>5. Rank[risk] \in Nat /\ Rank[state.risk] \in Nat
  BY <1>3, <1>4, Ranks DEF Risks
<1>6. CASE ~(risk = state.risk /\ o.clear /\ ~InvalidPeriod(o.session) /\ o.known /\ Calm(risk, o))
  <2>1. r = [risk |-> risk, recovery |-> 0, lastRecovery |-> 0]
    BY <1>1, <1>6 DEF Recovery
  <2>2. r.risk = risk /\ r.recovery = 0 /\ r.lastRecovery = 0
    BY <2>1
  <2> QED
    BY <1>1, <1>2, <1>4, <1>5, <2>2 DEF RunsOn
<1>7. CASE risk = state.risk /\ o.clear /\ ~InvalidPeriod(o.session) /\ o.known /\ Calm(risk, o)
  <2>1. days = (IF calm.risk = state.risk THEN calm.days ELSE {})
                   \cup {d \in {LastClose} : account.atClose}
    BY <1>1, <1>7 DEF CalmAfter
  <2>2. CASE ~NewClose(o.session)
    <3>1. r = [risk |-> risk, recovery |-> state.recovery, lastRecovery |-> state.lastRecovery]
      BY <1>1, <1>7, <2>2 DEF Recovery
    <3>2. r.risk = risk /\ r.recovery = state.recovery /\ r.lastRecovery = state.lastRecovery
      BY <3>1
    <3>3. r.recovery > 0 => (r.lastRecovery - r.recovery + 1) .. r.lastRecovery \subseteq days
      BY <2>1, <3>2 DEF RecoveryRuns
    <3> QED
      BY <1>1, <1>2, <1>3, <1>4, <1>5, <1>7, <3>2, <3>3 DEF RunsOn
  <2>3. CASE NewClose(o.session)
    <3>1. PICK c, s : c = RecoveryCount(o.session) /\ s = o.session
      OBVIOUS
    <3>2. c \in Nat \ {0} /\ s = LastClose /\ (s - c + 1) .. s \subseteq days
      BY <1>1, <1>7, <2>3, <3>1, CountExtends
    <3>3. s \in Nat
      BY <3>2, ClosesPass
    <3>4. CASE c >= SessionsRequired(risk)
      <4>1. r = [risk |-> StepDown(risk), recovery |-> 0, lastRecovery |-> 0]
        BY <1>1, <1>7, <2>3, <3>1, <3>4 DEF Recovery
      <4>2. r.risk = StepDown(risk) /\ r.recovery = 0 /\ r.lastRecovery = 0
        BY <4>1
      <4>3. risk \in {"CAUTION", "DEFENSIVE"}
        BY <1>7 DEF Calm
      <4>4. r.risk \in Risks /\ Rank[r.risk] = Rank[state.risk] - 1 /\ state.risk # "PRESERVATION"
        BY <1>7, <4>2, <4>3, Ranks DEF StepDown, Risks
      <4>5. (s - SessionsRequired(risk) + 1) .. s \subseteq (s - c + 1) .. s
        <5>1. SessionsRequired(risk) \in Nat
          BY SessionsArePositive
        <5> QED
          BY <3>2, <3>3, <3>4, <5>1
      <4>6. (LastClose - SessionsRequired(state.risk) + 1) .. LastClose \subseteq days
        BY <1>7, <3>2, <4>5
      <4> QED
        BY <1>1, <1>2, <4>2, <4>4, <4>6 DEF RunsOn
    <3>5. CASE ~(c >= SessionsRequired(risk))
      <4>1. r = [risk |-> risk, recovery |-> c, lastRecovery |-> s]
        BY <1>1, <1>7, <2>3, <3>1, <3>5 DEF Recovery
      <4>2. r.risk = risk /\ r.recovery = c /\ r.lastRecovery = s
        BY <4>1
      <4> QED
        BY <1>1, <1>2, <1>4, <1>5, <1>7, <3>2, <3>3, <4>2 DEF RunsOn
    <3> QED
      BY <3>4, <3>5
  <2> QED
    BY <2>2, <2>3
<1> QED
  BY <1>6, <1>7

-----------------------------------------------------------------------------
(* Cooling.                                                                *)

(* A count of sessions that ends with a day, after the closing and after   *)
(* every stock event.                                                      *)
Cools(n, last) ==
    n > 0 => /\ last - n + 1 > state.closedDay
             /\ last <= account.day
             /\ account.lastStock < last - n + 1

\* The cooling count after an observation is of sessions one after another,
\* none of them with a stock event on or after it.
LEMMA CoolingCounts ==
    ASSUME AccountOK, StateOK, CoolingRuns, NEW o, NEW r, r.lastRecovery \in Nat
    PROVE  /\ Cooling(o, r).cooling \in Nat /\ Cooling(o, r).lastRecovery \in Nat
           /\ Cools(Cooling(o, r).cooling, Cooling(o, r).lastRecovery)
<1>1. PICK c, s : c = Cooling(o, r) /\ s = o.session
  OBVIOUS
<1>2. /\ state.cooling \in Nat /\ state.lastRecovery \in Nat /\ state.closedDay \in Nat
      /\ state.stock \in Nat /\ state.stock <= account.stock
      /\ account.stock \in Nat /\ account.lastStock \in Nat /\ account.day \in Nat
  BY DEF StateOK, AccountOK
<1>3. PICK still, counted, follows :
        /\ still = (o.zero /\ o.clear)
        /\ counted = (/\ still /\ NewClose(s) /\ s > state.closedDay /\ ~TradedSince(s))
        /\ follows = (state.lastRecovery = s - 1 /\ ~NewStock)
  OBVIOUS
<1>4. c = IF counted
          THEN [cooling |-> IF follows THEN state.cooling + 1 ELSE 1, lastRecovery |-> s]
          ELSE IF still /\ ~NewStock /\ ~InvalidPeriod(s)
          THEN [cooling |-> state.cooling, lastRecovery |-> state.lastRecovery]
          ELSE [cooling |-> 0, lastRecovery |-> r.lastRecovery]
  BY <1>1, <1>3 DEF Cooling
<1>5. ~NewStock => account.stock = state.stock
  BY <1>2 DEF NewStock
<1>6. CASE counted
  <2>0. NewClose(s) /\ s > state.closedDay /\ ~TradedSince(s)
    BY <1>3, <1>6
  <2>2. s = LastClose /\ s \in Nat /\ s <= account.day
    BY <2>0, ClosesPass DEF NewClose, ObservedClose
  <2>1. s > state.closedDay /\ account.lastStock < s
    BY <1>2, <2>0, <2>2 DEF TradedSince
  <2>3. c.lastRecovery = s /\ c.cooling = IF follows THEN state.cooling + 1 ELSE 1
    BY <1>4, <1>6
  <2>4. CASE follows /\ state.cooling > 0
    <3>1. state.lastRecovery = s - 1 /\ account.stock = state.stock /\ c.cooling = state.cooling + 1
      BY <1>3, <1>5, <2>3, <2>4
    <3>2. /\ state.lastRecovery - state.cooling + 1 > state.closedDay
          /\ account.lastStock < state.lastRecovery - state.cooling + 1
      BY <2>4, <3>1 DEF CoolingRuns
    <3> QED
      BY <1>1, <1>2, <2>2, <2>3, <3>1, <3>2 DEF Cools
  <2>5. CASE ~(follows /\ state.cooling > 0)
    <3>1. c.cooling = 1
      BY <1>2, <2>3, <2>5
    <3> QED
      BY <1>1, <1>2, <2>1, <2>2, <2>3, <3>1 DEF Cools
  <2> QED
    BY <2>4, <2>5
<1>7. CASE ~counted /\ still /\ ~NewStock /\ ~InvalidPeriod(s)
  <2>1. c.cooling = state.cooling /\ c.lastRecovery = state.lastRecovery
    BY <1>4, <1>7
  <2>2. account.stock = state.stock
    BY <1>5, <1>7
  <2> QED
    BY <1>1, <1>2, <2>1, <2>2 DEF Cools, CoolingRuns
<1>8. CASE ~counted /\ ~(still /\ ~NewStock /\ ~InvalidPeriod(s))
  <2>1. c.cooling = 0 /\ c.lastRecovery = r.lastRecovery
    BY <1>4, <1>8
  <2> QED
    BY <1>1, <2>1 DEF Cools
<1> QED
  BY <1>6, <1>7, <1>8

-----------------------------------------------------------------------------
(* Steps that leave the state alone.                                       *)

(* The account goes on: days pass, and stock events are counted.           *)
Goes ==
    /\ account'.day >= account.day
    /\ \/ account'.stock = account.stock /\ account'.lastStock = account.lastStock
       \/ account'.stock = account.stock + 1

\* The invariant of the state is kept while the account goes on.
LEMMA StateStays ==
    ASSUME DInv, AccountOK', Goes, state' = state, calm' = calm
    PROVE  DInv'
<1>1. CASE state = NoEpoch
  BY <1>1 DEF DInv
<1>2. CASE StateOK /\ RecoveryRuns /\ CoolingRuns
  <2>1. account.stock \in Nat /\ account.day \in Nat /\ account'.stock \in Nat /\ account'.day \in Nat
        /\ state.stock \in Nat /\ state.lastRecovery \in Nat
    BY <1>2 DEF DInv, AccountOK, StateOK
  <2>2. account'.stock >= account.stock
    BY <2>1 DEF Goes
  <2>3. state'.stock <= account'.stock
    BY <1>2, <2>1, <2>2 DEF StateOK
  <2>4. StateOK'
    <3>1. StateOK
      BY <1>2
    <3> QED
      BY <2>3, <3>1 DEF StateOK, StateFields
  <2>5. RecoveryRuns'
    BY <1>2 DEF RecoveryRuns
  <2>6. CoolingRuns'
    <3> SUFFICES ASSUME state.cooling > 0
                 PROVE  /\ state.lastRecovery - state.cooling + 1 > state.closedDay
                        /\ state.lastRecovery <= account'.day
                        /\ account'.stock = state.stock
                              => account'.lastStock < state.lastRecovery - state.cooling + 1
      BY DEF CoolingRuns
    <3>1. /\ state.lastRecovery - state.cooling + 1 > state.closedDay
          /\ state.lastRecovery <= account.day
          /\ account.stock = state.stock
                => account.lastStock < state.lastRecovery - state.cooling + 1
      BY <1>2 DEF CoolingRuns
    <3>2. account'.stock = state.stock =>
              account'.stock = account.stock /\ account'.lastStock = account.lastStock
      BY <1>2, <2>1 DEF Goes, StateOK
    <3>3. state.lastRecovery <= account'.day
      BY <2>1, <3>1 DEF Goes
    <3> QED
      BY <3>1, <3>2, <3>3
  <2> QED
    BY <2>4, <2>5, <2>6 DEF DInv
<1> QED
  BY <1>1, <1>2 DEF DInv

\* Trades, closes, days, transfers and confirmations leave the state alone.
LEMMA MarketKeeps ==
    ASSUME DInv,
           \/ \E q \in {-1, 1} : Trade(q)
           \/ \E p : CloseSession(p)
           \/ NextDay
           \/ \E c, q : Transfer(c, q)
           \/ ConfirmBudget
    PROVE  DInv' /\ state' = state
<1>1. AccountFields(account) /\ account.day \in Nat \ {0} /\ account.stock \in Nat
      /\ account.lastStock \in Nat
  BY DEF DInv, AccountOK
<1>2. ASSUME NEW q, Trade(q) PROVE DInv' /\ state' = state
  <2>1. state' = state /\ calm' = calm
    BY <1>2 DEF Trade
  <2>2. PICK a : a = [account EXCEPT !.shares = @ + q, !.cash = @ - q * account.price,
                             !.lastStock = account.day, !.stock = @ + 1,
                             !.traded = @ + 1, !.atClose = FALSE]
    OBVIOUS
  <2>3. PICK cost : account' = [a EXCEPT !.cost = cost, !.still = FALSE]
    BY <1>2, <2>2 DEF Trade, Moved
  <2>4. AccountFields(a) /\ a.day = account.day /\ a.stock = account.stock + 1
        /\ a.lastStock = account.day
    BY <1>1, <2>2 DEF AccountFields
  <2>5. AccountFields(account') /\ account'.day = account.day
        /\ account'.stock = account.stock + 1 /\ account'.lastStock = account.day
    BY <2>3, <2>4 DEF AccountFields
  <2>6. AccountOK'
    BY <1>1, <2>5 DEF AccountOK, AccountFields
  <2>7. Goes
    BY <1>1, <2>5 DEF Goes
  <2> QED
    BY <2>1, <2>6, <2>7, StateStays
<1>3. ASSUME NEW p, CloseSession(p) PROVE DInv' /\ state' = state
  <2>1. state' = state /\ calm' = calm
    BY <1>3 DEF CloseSession
  <2>2. PICK a : a = [account EXCEPT !.price = p, !.phase = "closed", !.atClose = TRUE]
    OBVIOUS
  <2>3. PICK cost : account' = [a EXCEPT !.cost = cost, !.still = FALSE]
    BY <1>3, <2>2 DEF CloseSession, Moved
  <2>4. AccountFields(a) /\ a.day = account.day /\ a.stock = account.stock
        /\ a.lastStock = account.lastStock
    BY <1>1, <2>2 DEF AccountFields
  <2>5. AccountFields(account') /\ account'.day = account.day
        /\ account'.stock = account.stock /\ account'.lastStock = account.lastStock
    BY <2>3, <2>4 DEF AccountFields
  <2>6. AccountOK'
    BY <1>1, <2>5 DEF AccountOK, AccountFields
  <2>7. Goes
    BY <1>1, <2>5 DEF Goes
  <2> QED
    BY <2>1, <2>6, <2>7, StateStays
<1>4. CASE NextDay
  <2>1. state' = state /\ calm' = calm
    BY <1>4 DEF NextDay
  <2>2. account' = [account EXCEPT !.day = @ + 1, !.phase = "open"]
    BY <1>4 DEF NextDay
  <2>3. AccountFields(account') /\ account'.day = account.day + 1
        /\ account'.stock = account.stock /\ account'.lastStock = account.lastStock
    BY <1>1, <2>2 DEF AccountFields
  <2>4. AccountOK'
    BY <1>1, <2>3 DEF AccountOK, AccountFields
  <2>5. Goes
    BY <1>1, <2>3 DEF Goes
  <2> QED
    BY <2>1, <2>4, <2>5, StateStays
<1>5. ASSUME NEW c, NEW q, Transfer(c, q) PROVE DInv' /\ state' = state
  <2>1. state' = state /\ calm' = calm
    BY <1>5 DEF Transfer
  <2>2. PICK cost :
          account' = [account EXCEPT !.cash = @ + Both(c), !.shares = @ + Both(q), !.cost = cost,
                                  !.moved = @ + 1, !.atClose = FALSE, !.still = TRUE,
                                  !.lastStock = IF q = Nothing THEN @ ELSE account.day,
                                  !.stock = IF q = Nothing THEN @ ELSE @ + 1]
    BY <1>5 DEF Transfer
  <2>3. PICK last, n : /\ last = (IF q = Nothing THEN account.lastStock ELSE account.day)
                       /\ n = (IF q = Nothing THEN account.stock ELSE account.stock + 1)
    OBVIOUS
  <2>4. account' = [account EXCEPT !.cash = account.cash + Both(c),
                                  !.shares = account.shares + Both(q), !.cost = cost,
                                  !.moved = account.moved + 1, !.atClose = FALSE, !.still = TRUE,
                                  !.lastStock = last, !.stock = n]
    BY <1>1, <2>2, <2>3 DEF AccountFields
  <2>5. AccountFields(account') /\ account'.day = account.day
        /\ account'.stock = n /\ account'.lastStock = last
    BY <1>1, <2>4 DEF AccountFields
  <2>6. AccountOK'
    BY <1>1, <2>3, <2>5 DEF AccountOK, AccountFields
  <2>7. Goes
    BY <1>1, <2>3, <2>5 DEF Goes
  <2> QED
    BY <2>1, <2>6, <2>7, StateStays
<1>6. CASE ConfirmBudget
  <2>1. state' = state /\ calm' = calm /\ account' = account
    BY <1>6 DEF ConfirmBudget
  <2>2. AccountOK' /\ Goes
    BY <1>1, <2>1 DEF AccountOK, AccountFields, Goes
  <2> QED
    BY <2>1, <2>2, StateStays
<1> QED
  BY <1>2, <1>3, <1>4, <1>5, <1>6

-----------------------------------------------------------------------------
(* Observations.                                                           *)

(* What an observation makes of the counts of the retained state.          *)
Observed(s, closes, o) ==
    /\ StateFields(s)
    /\ s.epoch = state.epoch /\ s.risk = Recovery(o).risk /\ s.stock = account.stock
    /\ s.status = IF closes THEN "CLOSED" ELSE state.status
    /\ s.closedDay = IF closes THEN account.day ELSE state.closedDay
    /\ s.recovery = IF closes \/ state.status = "CLOSED" THEN 0 ELSE Recovery(o).recovery
    /\ s.lastRecovery = IF closes THEN 0
                        ELSE IF state.status = "CLOSED"
                        THEN Cooling(o, Recovery(o)).lastRecovery
                        ELSE Recovery(o).lastRecovery
    /\ s.cooling = IF state.status = "CLOSED" THEN Cooling(o, Recovery(o)).cooling ELSE 0

\* The state an observation leaves has the counts it is taken to have.
LEMMA ObservedFields ==
    ASSUME StateFields(state), NEW closes, NEW a, NEW acc, NEW o
    PROVE  Observed(ObservedState(closes, a, acc, o), closes, o)
<1>1. PICK r, c, seen : r = Recovery(o) /\ c = Cooling(o, r) /\ seen = LastObserved(o.session)
  OBVIOUS
<1>2. PICK s : s = [state EXCEPT
                !.auth = a, !.units = acc.units, !.peak = o.peak, !.known = o.known,
                !.fall = o.fall, !.risk = r.risk, !.stock = account.stock,
                !.lastObserved = seen]
  OBVIOUS
<1>3. StateFields(s) /\ s.epoch = state.epoch /\ s.risk = r.risk /\ s.stock = account.stock
      /\ s.status = state.status /\ s.closedDay = state.closedDay
  BY <1>2 DEF StateFields
<1>4. PICK status, day, recovery, last, cooling, blocked :
        /\ status = IF closes THEN "CLOSED" ELSE s.status
        /\ day = IF closes THEN account.day ELSE s.closedDay
        /\ recovery = IF closes \/ state.status = "CLOSED" THEN 0 ELSE r.recovery
        /\ last = IF closes THEN 0
                  ELSE IF state.status = "CLOSED" THEN c.lastRecovery
                  ELSE r.lastRecovery
        /\ cooling = IF state.status = "CLOSED" THEN c.cooling ELSE 0
        /\ blocked = (\/ r.risk # "NORMAL" \/ closes \/ state.status = "CLOSED"
                      \/ Expired(a) \/ ~o.known)
  OBVIOUS
<1>5. PICK t : t = ObservedState(closes, a, acc, o)
  OBVIOUS
<1>6. t = [s EXCEPT !.status = status, !.closedDay = day, !.recovery = recovery,
                    !.lastRecovery = last, !.cooling = cooling, !.blocked = blocked]
  BY <1>1, <1>2, <1>3, <1>4, <1>5 DEF ObservedState, StateFields
<1>7. StateFields(t) /\ t.epoch = s.epoch /\ t.risk = s.risk /\ t.stock = s.stock
      /\ t.status = status /\ t.closedDay = day /\ t.recovery = recovery
      /\ t.lastRecovery = last /\ t.cooling = cooling
  BY <1>3, <1>6 DEF StateFields
<1> QED
  BY <1>1, <1>3, <1>4, <1>5, <1>7 DEF Observed

\* An accounting leaves the account's days and stock events alone.
LEMMA AccountedKeeps ==
    ASSUME AccountOK, Accounted
    PROVE  /\ AccountOK'
           /\ account'.day = account.day /\ account'.stock = account.stock
           /\ account'.lastStock = account.lastStock
<1>1. account' = [account EXCEPT !.still = TRUE]
  BY DEF Accounted
<1> QED
  BY <1>1 DEF AccountOK, AccountFields

\* An observation keeps the invariant.
LEMMA ObserveKeeps ==
    ASSUME DInv, NEW closes \in BOOLEAN, NEW a, NEW session, NEW clear, NEW zero, NEW acc,
           closes => state.status = "OPEN",
           Observe(closes, a, session, clear, zero, acc)
    PROVE  /\ DInv'
           /\ state'.epoch = state.epoch
           /\ Rank[state'.risk] < Rank[state.risk] =>
                 /\ Rank[state'.risk] = Rank[state.risk] - 1
                 /\ state.risk # "PRESERVATION"
                 /\ calm'.risk = state.risk
                 /\ (LastClose - SessionsRequired(state.risk) + 1) .. LastClose \subseteq calm'.days
<1>1. AccountOK /\ StateOK /\ RecoveryRuns /\ CoolingRuns
  <2>1. state.epoch > 0
    BY DEF Observe
  <2> QED
    BY <2>1, EpochIsOpen DEF DInv
<1>2. PICK o : /\ state' = ObservedState(closes, a, acc, o)
               /\ calm' = CalmAfter(o)
  BY DEF Observe
<1>3. PICK s, r, c : s = state' /\ r = Recovery(o) /\ c = Cooling(o, Recovery(o))
  OBVIOUS
<1>4. Observed(s, closes, o)
  BY <1>1, <1>2, <1>3, ObservedFields DEF StateOK
<1>5. RunsOn(o, r, calm'.days) /\ calm'.risk = state.risk
  BY <1>1, <1>2, <1>3, RecoveryCounts
<1>6. r.risk \in Risks /\ r.recovery \in Nat /\ r.lastRecovery \in Nat
  BY <1>5 DEF RunsOn
<1>7. c.cooling \in Nat /\ c.lastRecovery \in Nat /\ Cools(c.cooling, c.lastRecovery)
  BY <1>1, <1>3, <1>6, CoolingCounts
<1>8. /\ AccountOK'
      /\ account'.day = account.day /\ account'.stock = account.stock
      /\ account'.lastStock = account.lastStock
  <2>1. Accounted
    BY DEF Observe
  <2> QED
    BY <1>1, <2>1, AccountedKeeps
<1>9. /\ StateFields(s) /\ s.epoch = state.epoch /\ s.risk = r.risk /\ s.stock = account.stock
      /\ s.status = (IF closes THEN "CLOSED" ELSE state.status)
      /\ s.closedDay = (IF closes THEN account.day ELSE state.closedDay)
      /\ s.recovery = (IF closes \/ state.status = "CLOSED" THEN 0 ELSE r.recovery)
      /\ s.lastRecovery = (IF closes THEN 0
                           ELSE IF state.status = "CLOSED" THEN c.lastRecovery
                           ELSE r.lastRecovery)
      /\ s.cooling = (IF state.status = "CLOSED" THEN c.cooling ELSE 0)
  BY <1>3, <1>4 DEF Observed
<1>10. StateOK'
  <2>1. s.epoch \in Nat \ {0} /\ s.risk \in Risks /\ s.status \in {"OPEN", "CLOSED"}
    BY <1>1, <1>6, <1>9 DEF StateOK
  <2>2. s.recovery \in Nat /\ s.cooling \in Nat /\ s.lastRecovery \in Nat
    BY <1>6, <1>7, <1>9
  <2>3. s.closedDay \in Nat
    BY <1>1, <1>9 DEF StateOK, AccountOK
  <2>4. s.stock \in Nat /\ s.stock <= account'.stock
    BY <1>1, <1>8, <1>9 DEF AccountOK
  <2> QED
    BY <1>3, <1>9, <2>1, <2>2, <2>3, <2>4 DEF StateOK, StateFields, Risks
<1>11. RecoveryRuns'
  <2>1. s.recovery > 0 => /\ s.recovery = r.recovery /\ s.lastRecovery = r.lastRecovery
    BY <1>9
  <2>2. s.recovery > 0 => /\ calm'.risk = s.risk
                          /\ (s.lastRecovery - s.recovery + 1) .. s.lastRecovery \subseteq calm'.days
    BY <1>5, <1>9, <2>1 DEF RunsOn
  <2> QED
    BY <1>3, <2>2 DEF RecoveryRuns
<1>12. CoolingRuns'
  <2>1. s.cooling > 0 => /\ s.cooling = c.cooling /\ s.lastRecovery = c.lastRecovery
                         /\ s.closedDay = state.closedDay
    BY <1>9
  <2>2. s.cooling > 0 => /\ s.lastRecovery - s.cooling + 1 > s.closedDay
                         /\ s.lastRecovery <= account'.day
                         /\ account'.lastStock < s.lastRecovery - s.cooling + 1
    BY <1>7, <1>8, <2>1 DEF Cools
  <2> QED
    BY <1>3, <2>2 DEF CoolingRuns
<1>13. DInv'
  BY <1>8, <1>10, <1>11, <1>12 DEF DInv
<1> QED
  BY <1>3, <1>5, <1>9, <1>13 DEF RunsOn

-----------------------------------------------------------------------------
(* Evidence that cannot be used, and new epochs.                           *)

\* Evidence that cannot be used ends every count and lowers no risk.
LEMMA UnknownKeeps ==
    ASSUME DInv, UnknownEvidence
    PROVE  DInv' /\ state'.epoch = state.epoch /\ state'.risk = state.risk
<1>1. AccountOK /\ StateOK
  <2>1. state.epoch > 0
    BY DEF UnknownEvidence
  <2> QED
    BY <2>1, EpochIsOpen DEF DInv
<1>2. state' = Retained /\ account' = account
  BY DEF UnknownEvidence
<1>3. PICK s : s = Retained
  OBVIOUS
<1>4. StateFields(s) /\ s.epoch = state.epoch /\ s.risk = state.risk /\ s.recovery = 0
      /\ s.cooling = 0 /\ s.lastRecovery = 0 /\ s.stock = state.stock
      /\ s.status = state.status /\ s.closedDay = state.closedDay
  BY <1>1, <1>3 DEF Retained, StateOK, StateFields
<1>5. AccountOK'
  BY <1>1, <1>2 DEF AccountOK, AccountFields
<1>6. StateOK'
  BY <1>1, <1>2, <1>3, <1>4 DEF StateOK, StateFields
<1>7. RecoveryRuns' /\ CoolingRuns'
  BY <1>2, <1>3, <1>4 DEF RecoveryRuns, CoolingRuns
<1> QED
  BY <1>2, <1>3, <1>4, <1>5, <1>6, <1>7 DEF DInv

\* A new epoch counts nothing.
LEMMA NewEpochKeeps ==
    ASSUME DInv, NEW epoch \in Nat \ {0}, NEW a, NEW session,
           state' = NewEpoch(epoch, a, session), Accounted
    PROVE  DInv'
<1>1. AccountOK
  BY DEF DInv
<1>2. AccountOK' /\ account'.stock = account.stock
  BY <1>1, AccountedKeeps
<1>3. PICK s, seen, blocked : s = state' /\ blocked = Expired(a)
        /\ seen = IF ObservedClose(session) THEN session ELSE 0
  OBVIOUS
<1>4. s = [epoch |-> epoch, auth |-> a, units |-> <<Equity, 1>>, peak |-> One, known |-> TRUE,
           fall |-> Zero, risk |-> "NORMAL", blocked |-> blocked, recovery |-> 0,
           lastRecovery |-> 0, lastObserved |-> seen,
           stock |-> account.stock, status |-> "OPEN", closedDay |-> 0, cooling |-> 0]
  BY <1>3 DEF NewEpoch
<1>5. StateFields(s) /\ s.epoch = epoch /\ s.risk = "NORMAL" /\ s.recovery = 0
      /\ s.lastRecovery = 0 /\ s.stock = account.stock /\ s.status = "OPEN"
      /\ s.closedDay = 0 /\ s.cooling = 0
  BY <1>4 DEF StateFields
<1>6. StateOK'
  BY <1>1, <1>2, <1>3, <1>5 DEF StateOK, StateFields, AccountOK
<1>7. RecoveryRuns' /\ CoolingRuns'
  BY <1>3, <1>5 DEF RecoveryRuns, CoolingRuns
<1> QED
  BY <1>2, <1>6, <1>7 DEF DInv

-----------------------------------------------------------------------------
(* The theorems.                                                           *)

(* A step within an epoch lowers risk only as the policy allows, and a     *)
(* step to another epoch is a reauthorization.                             *)
RiskStep ==
    (state.epoch > 0 /\ state'.epoch = state.epoch /\ Rank[state'.risk] < Rank[state.risk])
         => /\ Rank[state'.risk] = Rank[state.risk] - 1
            /\ state.risk # "PRESERVATION"
            /\ calm'.risk = state.risk
            /\ (LastClose - SessionsRequired(state.risk) + 1) .. LastClose \subseteq calm'.days
EpochStep ==
    (state.epoch > 0 /\ state'.epoch # state.epoch) => \E session : Reauthorize(session)

\* Risk is no lower than itself.
LEMMA RiskStays ==
    ASSUME DInv, state'.epoch = state.epoch, state.epoch > 0 => state'.risk = state.risk
    PROVE  RiskStep /\ EpochStep
<1>1. state.epoch > 0 => ~(Rank[state'.risk] < Rank[state.risk])
  <2> SUFFICES ASSUME state.epoch > 0
               PROVE  ~(Rank[state'.risk] < Rank[state.risk])
    OBVIOUS
  <2>1. state'.risk = state.risk
    OBVIOUS
  <2>2. state.risk \in Risks
    BY EpochIsOpen DEF StateOK, Risks
  <2>3. Rank[state.risk] \in Nat
    BY <2>2, Ranks DEF Risks
  <2> QED
    BY <2>1, <2>3
<1> QED
  BY <1>1 DEF RiskStep, EpochStep

\* Every step keeps the invariant.
LEMMA EpochStepKeeps ==
    ASSUME DInv, [EpochNext]_epochVars
    PROVE  DInv' /\ RiskStep /\ EpochStep
<1>1. CASE \/ \E q \in {-1, 1} : Trade(q)
           \/ \E p \in account.horizon.prices : CloseSession(p)
           \/ NextDay
           \/ \E m \in account.horizon.moves : Transfer(m.cash, m.shares)
           \/ ConfirmBudget
  <2>1. DInv' /\ state' = state
    BY <1>1, MarketKeeps
  <2> QED
    BY <2>1, RiskStays
<1>2. ASSUME NEW session, OpenEpoch(session) PROVE DInv' /\ RiskStep /\ EpochStep
  <2>1. state' = NewEpoch(1, confirmed, session) /\ Accounted /\ state.epoch = 0
    BY <1>2 DEF OpenEpoch
  <2>2. DInv'
    BY <2>1, NewEpochKeeps
  <2> QED
    BY <2>1, <2>2 DEF RiskStep, EpochStep
<1>3. ASSUME NEW closes, NEW op, NEW zero, NEW a, NEW session, NEW clear, NEW acc,
             closes = Closes(op, zero), Observe(closes, a, session, clear, zero, acc)
      PROVE  DInv' /\ RiskStep /\ EpochStep
  <2>1. closes \in BOOLEAN /\ (closes => state.status = "OPEN")
    BY <1>3 DEF Closes
  <2>2. DInv' /\ state'.epoch = state.epoch
    BY <1>3, <2>1, ObserveKeeps
  <2>3. RiskStep
    BY <1>3, <2>1, ObserveKeeps DEF RiskStep
  <2> QED
    BY <2>2, <2>3 DEF EpochStep
<1>4. ASSUME UnknownEvidence PROVE DInv' /\ RiskStep /\ EpochStep
  BY <1>4, UnknownKeeps, RiskStays
<1>5. ASSUME NEW session, Reauthorize(session) PROVE DInv' /\ RiskStep /\ EpochStep
  <2>1. state' = NewEpoch(state.epoch + 1, confirmed, session) /\ Accounted /\ state.epoch > 0
    BY <1>5 DEF Reauthorize, MayReauthorize
  <2>2. state.epoch \in Nat \ {0}
    BY <2>1, EpochIsOpen DEF StateOK
  <2>3. DInv'
    BY <2>1, <2>2, NewEpochKeeps
  <2>4. state'.epoch = state.epoch + 1
    BY <2>1 DEF NewEpoch
  <2>5. state'.epoch # state.epoch
    BY <2>2, <2>4
  <2> QED
    BY <1>5, <2>3, <2>5 DEF RiskStep, EpochStep
<1>6. CASE ReauthorizeDenied
  <2>1. UnknownEvidence
    BY <1>6 DEF ReauthorizeDenied
  <2> QED
    BY <1>4, <2>1
<1>7. CASE UNCHANGED epochVars
  <2>1. account' = account /\ state' = state /\ calm' = calm
    BY <1>7 DEF epochVars
  <2>2. AccountOK' /\ Goes
    BY <2>1 DEF DInv, AccountOK, AccountFields, Goes
  <2>3. DInv'
    BY <2>1, <2>2, StateStays
  <2> QED
    BY <2>1, <2>3, RiskStays
<1> QED
  <2>1. CASE state.epoch > 0 /\ \E acc \in {AdjustedUnits(flows) : flows \in Declarations},
             a \in {Capital(named) : named \in 1 .. confirmed} :
             /\ acc.valid
             /\ \E session \in Named, clear \in BOOLEAN,
                   zero \in {settled /\ account.shares = 0 : settled \in BOOLEAN} :
                   \E closes \in {Closes(op, zero) : op \in {"OBSERVE", "CLOSE"}} :
                      Observe(closes, a, session, clear, zero, acc)
    <3>1. PICK acc, a, session, clear, zero, closes, op :
             closes = Closes(op, zero) /\ Observe(closes, a, session, clear, zero, acc)
      BY Zenon, <2>1
    <3> QED
      BY <1>3, <3>1
  <2> QED
    BY Zenon, <1>1, <1>2, <1>4, <1>5, <1>6, <1>7, <2>1 DEF EpochNext

\* Before the first epoch there is nothing to count.
LEMMA EpochInitHolds == EpochInit => DInv
<1> SUFFICES ASSUME EpochInit PROVE DInv
  OBVIOUS
<1>1. PICK p, h, c :
          account = [cash |-> OpeningCash, shares |-> h.shares, price |-> p, cost |-> c, day |-> 1,
                     phase |-> "open", atClose |-> FALSE, still |-> TRUE,
                     lastStock |-> 0, stock |-> 0, traded |-> 0, moved |-> 0, horizon |-> h]
  BY Zenon DEF EpochInit
<1>2. state = NoEpoch
  BY DEF EpochInit
<1>3. AccountOK
  BY <1>1 DEF AccountOK, AccountFields
<1> QED
  BY <1>2, <1>3 DEF DInv

(* Counted sessions are what they are taken for.  The counters of a        *)
(* retained state, kept across closes, trades, transfers, refused commands *)
(* and unusable evidence, always stand for consecutive sessions: those for *)
(* recovery were all observed in calm in the present risk state, those for *)
(* cooling all closed after the epoch did and, unless stock has moved      *)
(* since the last observation, after every stock event                     *)
(* (modules/portfolio/drawdown.py).                                        *)
THEOREM DrawdownInvariant == EpochSpec => []DInv
<1>1. DInv /\ [EpochNext]_epochVars => DInv'
  BY EpochStepKeeps
<1> QED
  BY <1>1, EpochInitHolds, PTL DEF EpochSpec

(* For every policy, budget and market: risk falls by one level, never out *)
(* of PRESERVATION, and only when as many consecutive closes as the policy *)
(* asks for were each observed in calm.                                    *)
THEOREM RecoveryIsEarnedTheorem == EpochSpec => RecoveryIsEarned
<1>1. DInv /\ [EpochNext]_epochVars => RiskStep
  BY EpochStepKeeps
<1>2. DInv /\ [EpochNext]_epochVars =>
        [(state.epoch > 0 /\ state'.epoch = state.epoch /\ Rank[state'.risk] < Rank[state.risk])
         => /\ Rank[state'.risk] = Rank[state.risk] - 1
            /\ state.risk # "PRESERVATION"
            /\ calm'.risk = state.risk
            /\ (LastClose - SessionsRequired(state.risk) + 1) .. LastClose
                   \subseteq calm'.days]_epochVars
  BY <1>1 DEF RiskStep
<1> QED
  BY <1>2, DrawdownInvariant, PTL DEF EpochSpec, RecoveryIsEarned

\* A reauthorization finds the sessions the policy asks for, idle.
LEMMA ReauthorizationFollowsCooling ==
    ASSUME DInv, NEW session, Reauthorize(session)
    PROVE  \E d \in state.closedDay + 1 .. account.day :
               /\ d + DrawdownPolicy.cooling - 1 <= account.day
               /\ account.lastStock < d
               /\ account.shares = 0
<1>1. state.epoch > 0 /\ state.cooling >= DrawdownPolicy.cooling /\ account.shares = 0 /\ ~NewStock
  BY DEF Reauthorize, MayReauthorize
<1>2. AccountOK /\ StateOK /\ CoolingRuns
  BY <1>1, EpochIsOpen DEF DInv
<1>3. /\ state.cooling \in Nat /\ state.lastRecovery \in Nat /\ state.closedDay \in Nat
      /\ account.day \in Nat /\ account.lastStock \in Nat /\ DrawdownPolicy.cooling \in Nat \ {0}
  BY <1>2, PolicyAssumption DEF AccountOK, StateOK
<1>4. account.stock = state.stock
  BY <1>1, <1>2 DEF NewStock, AccountOK, StateOK
<1>5. PICK d : d = state.lastRecovery - state.cooling + 1
  OBVIOUS
<1>6. d > state.closedDay /\ state.lastRecovery <= account.day /\ account.lastStock < d
  BY <1>1, <1>2, <1>3, <1>4, <1>5 DEF CoolingRuns
<1>7. d \in state.closedDay + 1 .. account.day /\ d + DrawdownPolicy.cooling - 1 <= account.day
  BY <1>1, <1>3, <1>5, <1>6
<1> QED
  BY <1>1, <1>6, <1>7

(* For every policy and market: a closed epoch gives way to the next only  *)
(* after as many consecutive sessions as the policy demands, all after the *)
(* closing and with no stock event on or after the first of them.          *)
THEOREM CoolingIsIdleTheorem == EpochSpec => CoolingIsIdle
<1>1. DInv /\ [EpochNext]_epochVars =>
        [(state.epoch > 0 /\ state'.epoch # state.epoch)
         => \E d \in state.closedDay + 1 .. account.day :
               /\ d + DrawdownPolicy.cooling - 1 <= account.day
               /\ account.lastStock < d
               /\ account.shares = 0]_epochVars
  BY EpochStepKeeps, ReauthorizationFollowsCooling DEF EpochStep
<1> QED
  BY <1>1, DrawdownInvariant, PTL DEF EpochSpec, CoolingIsIdle

-----------------------------------------------------------------------------
(* Sequences and values computed one after the other.                      *)

IsSeq(s) == s \in Seq({s[i] : i \in DOMAIN s})

\* A history and what appending one record makes of it.
LEMMA Appended ==
    ASSUME NEW s, IsSeq(s), NEW x, NEW u, u = Append(s, x)
    PROVE  /\ IsSeq(u)
           /\ Len(s) \in Nat /\ Len(u) = Len(s) + 1
           /\ DOMAIN s = 1 .. Len(s) /\ DOMAIN u = 1 .. Len(u)
           /\ \A i \in DOMAIN s : u[i] = s[i]
           /\ u[Len(u)] = x
<1>1. PICK S : S = {s[i] : i \in DOMAIN s}
  OBVIOUS
<1>2. s \in Seq(S \cup {x})
  <2>1. s \in Seq(S)
    BY <1>1 DEF IsSeq
  <2> QED
    BY <2>1
<1>3. u \in Seq(S \cup {x}) /\ Len(u) = Len(s) + 1 /\ Len(s) \in Nat
  BY <1>2
<1>4. DOMAIN s = 1 .. Len(s) /\ DOMAIN u = 1 .. Len(u)
  BY <1>2, <1>3
<1>5. (\A i \in DOMAIN s : u[i] = s[i]) /\ u[Len(u)] = x
  BY <1>2, <1>3
<1>6. IsSeq(u)
  <2>1. PICK n \in Nat : n = Len(u)
    BY <1>3
  <2>2. PICK R : R = {u[i] : i \in DOMAIN u}
    OBVIOUS
  <2>3. \A i \in 1 .. n : u[i] \in R
    BY <1>4, <2>1, <2>2
  <2>4. PICK Z : Z = S \cup {x}
    OBVIOUS
  <2>5. u \in Seq(Z) /\ n = Len(u)
    BY <1>3, <2>1, <2>4
  <2>6. u \in [1 .. n -> Z]
    BY ONLY <2>5
  <2>7. u \in [1 .. n -> R]
    BY ONLY <2>3, <2>6
  <2>8. u \in Seq(R)
    BY ONLY <2>7, n \in Nat
  <2> QED
    BY <2>2, <2>8 DEF IsSeq
<1> QED
  BY <1>3, <1>4, <1>5, <1>6

\* A history's indices.
LEMMA Indices ==
    ASSUME NEW s, IsSeq(s)
    PROVE  DOMAIN s = 1 .. Len(s) /\ Len(s) \in Nat
BY DEF IsSeq

\* A sequence over a set is one, and its items are in the set.
LEMMA IsSeqOf ==
    ASSUME NEW T, NEW q \in Seq(T)
    PROVE  IsSeq(q) /\ \A k \in DOMAIN q : q[k] \in T
<1>1. PICK n \in Nat : n = Len(q)
  OBVIOUS
<1>2. PICK R : R = {q[i] : i \in DOMAIN q}
  OBVIOUS
<1>3. q \in [1 .. n -> T] /\ DOMAIN q = 1 .. n
  BY <1>1
<1>4. \A i \in 1 .. n : q[i] \in R
  BY <1>2, <1>3
<1>5. q \in [1 .. n -> R]
  BY ONLY <1>3, <1>4
<1>6. q \in Seq(R)
  BY ONLY <1>5, n \in Nat
<1> QED
  BY <1>2, <1>3, <1>6 DEF IsSeq

\* A set of numbers has a smallest member.
LEMMA SmallestIsThere ==
    ASSUME NEW S, S \subseteq Nat, S # {}
    PROVE  \E x \in S : \A y \in S : x <= y
<1>1. PICK x \in S : \A y \in S : ~(<<y, x>> \in OpToRel(<, Nat))
  BY NatLessThanWellFounded, WFMin, Zenon
<1>2. \A y \in S : x <= y
  <2> TAKE y \in S
  <2>1. ~(y < x)
    BY <1>1 DEF OpToRel
  <2> QED
    BY <2>1
<1> QED
  BY <1>2

\* Values computed by steps that stay in a set are in it.
LEMMA StepsStay ==
    ASSUME NEW N \in Nat, NEW D, NEW h, h[0] \in D,
           \A k \in 1 .. N : h[k - 1] \in D => h[k] \in D
    PROVE  \A k \in 0 .. N : h[k] \in D
<1> DEFINE Bad == {i \in Nat : i <= N /\ h[i] \notin D}
<1>1. SUFFICES ASSUME Bad # {} PROVE FALSE
  <2>1. \A k \in 0 .. N : k \in Nat /\ k <= N
    OBVIOUS
  <2> QED
    BY <1>1, <2>1
<1>2. PICK i \in Bad : \A j \in Bad : i <= j
  <2>1. Bad \subseteq Nat
    OBVIOUS
  <2> QED
    BY <1>1, <2>1, SmallestIsThere
<1>3. i \in Nat /\ i <= N /\ h[i] \notin D /\ i # 0
  OBVIOUS
<1>4. i - 1 \in Nat /\ i - 1 <= N /\ ~(i <= i - 1) /\ i \in 1 .. N
  BY <1>3
<1>5. h[i - 1] \in D
  BY <1>2, <1>4
<1> QED
  BY <1>3, <1>4, <1>5

\* What every step passes on reaches the last one.
LEMMA StepsReach ==
    ASSUME NEW N \in Nat, NEW D, 0 \in D, \A k \in 1 .. N : k - 1 \in D => k \in D
    PROVE  \A k \in 0 .. N : k \in D
<1>1. PICK h : h = [k \in 0 .. N |-> k]
  OBVIOUS
<1>2. h[0] \in D /\ \A k \in 1 .. N : h[k - 1] = k - 1 /\ h[k] = k
  BY <1>1
<1>3. \A k \in 1 .. N : h[k - 1] \in D => h[k] \in D
  BY <1>2
<1>4. \A k \in 0 .. N : h[k] \in D
  BY ONLY <1>2, <1>3, N \in Nat, StepsStay
<1> QED
  BY <1>1, <1>4

-----------------------------------------------------------------------------
(* Exact ratios.                                                           *)

(* g divides both numbers and is a combination of them. *)
IsGcd(g, m, d) ==
    /\ g \in Nat
    /\ \E a \in Nat : m = g * a
    /\ \E b \in Nat : d = g * b
    /\ \E x, y \in Int : g = x * m + y * d

\* Division leaves a remainder.
LEMMA Remainder ==
    ASSUME NEW m \in Nat, NEW d \in Nat \ {0}
    PROVE  m \div d \in Nat /\ m % d \in Nat /\ m % d < d /\ m = d * (m \div d) + (m % d)
OBVIOUS

\* One step of Euclid's algorithm.
LEMMA GcdStep ==
    ASSUME NEW m \in Nat, NEW d \in Nat \ {0}, NEW g
    PROVE  IsGcd(g, m, d) <=> IsGcd(g, d, m % d)
<1>1. PICK q \in Nat : q = m \div d
  BY Remainder
<1>2. PICK r \in Nat : r = m % d
  BY Remainder
<1>3. m = d * q + r
  BY <1>1, <1>2, Remainder
<1>4. ASSUME IsGcd(g, m, d) PROVE IsGcd(g, d, r)
  <2>1. PICK a \in Nat, b \in Nat : g \in Nat /\ m = g * a /\ d = g * b
    BY <1>4 DEF IsGcd
  <2>2. PICK x \in Int, y \in Int : g = x * m + y * d
    BY <1>4 DEF IsGcd
  <2>3. g > 0
    BY <2>1
  <2>4. r = g * (a - b * q)
    BY <1>3, <2>1
  <2>5. a - b * q \in Nat
    <3>1. PICK c \in Int : c = a - b * q
      BY <2>1
    <3>2. r = g * c
      BY <2>4, <3>1
    <3>3. c >= 0
      BY <2>1, <2>3, <3>2
    <3> QED
      BY <3>1, <3>3
  <2>6. g = (x * q + y) * d + x * r
    BY <1>3, <2>1, <2>2
  <2>7. x * q + y \in Int
    BY <2>2
  <2> QED
    BY <2>1, <2>2, <2>4, <2>5, <2>6, <2>7 DEF IsGcd
<1>5. ASSUME IsGcd(g, d, r) PROVE IsGcd(g, m, d)
  <2>1. PICK a \in Nat, b \in Nat : g \in Nat /\ d = g * a /\ r = g * b
    BY <1>5 DEF IsGcd
  <2>2. PICK x \in Int, y \in Int : g = x * d + y * r
    BY <1>5 DEF IsGcd
  <2>3. m = g * (a * q + b) /\ a * q + b \in Nat
    BY <1>3, <2>1
  <2>4. g = y * m + (x - y * q) * d
    BY <1>3, <2>1, <2>2
  <2>5. x - y * q \in Int
    BY <2>2
  <2> QED
    BY <2>1, <2>2, <2>3, <2>4, <2>5 DEF IsGcd
<1> QED
  BY <1>2, <1>4, <1>5

\* With zero it is the other number.
LEMMA GcdOfZero ==
    ASSUME NEW m \in Nat, NEW g
    PROVE  IsGcd(g, m, 0) <=> g = m
<1>1. IsGcd(m, m, 0)
  <2>1. m = m * 1 /\ 0 = m * 0 /\ m = 1 * m + 0 * 0
    OBVIOUS
  <2> QED
    BY <2>1 DEF IsGcd
<1>2. ASSUME IsGcd(g, m, 0) PROVE g = m
  <2>1. PICK a \in Nat, x \in Int, y \in Int : g \in Nat /\ m = g * a /\ g = x * m + y * 0
    BY <1>2 DEF IsGcd
  <2>2. CASE m = 0
    BY <2>1, <2>2
  <2>3. CASE m > 0
    <3>1. g > 0 /\ a > 0
      BY <2>1, <2>3
    <3>2. g = g * (x * a)
      BY <2>1
    <3>3. x * a = 1
      <4>1. PICK z \in Int : z = x * a
        BY <2>1
      <4> QED
        BY <2>1, <3>1, <3>2, <4>1
    <3>4. x > 0
      BY <2>1, <3>1, <3>3
    <3>5. a = 1
      BY <2>1, <3>1, <3>3, <3>4
    <3> QED
      BY <2>1, <3>5
  <2> QED
    BY <2>2, <2>3
<1> QED
  BY <1>1, <1>2

\* The greatest common divisor is computed by Euclid's algorithm.
LEMMA GcdUnfolds ==
    gcd = [p \in Nat \X Nat |-> IF p[2] = 0 THEN p[1] ELSE gcd[<<p[2], p[1] % p[2]>>]]
<1>1. PICK f : f = [p \in Nat \X Nat |-> CHOOSE g : IsGcd(g, p[1], p[2])]
  OBVIOUS
<1>2. ASSUME NEW p \in Nat \X Nat
      PROVE  f[p] = IF p[2] = 0 THEN p[1] ELSE f[<<p[2], p[1] % p[2]>>]
  <2>1. PICK m \in Nat, d \in Nat : m = p[1] /\ d = p[2]
    OBVIOUS
  <2>2. f[p] = CHOOSE g : IsGcd(g, m, d)
    BY <1>1, <1>2, <2>1
  <2>3. CASE d = 0
    <3>1. \A g : IsGcd(g, m, 0) <=> g = m
      BY GcdOfZero
    <3>2. (CHOOSE g : IsGcd(g, m, 0)) = m
      BY <3>1
    <3> QED
      BY <2>1, <2>2, <2>3, <3>2
  <2>4. CASE d # 0
    <3>0. d \in Nat \ {0}
      BY <2>4
    <3>1. PICK r \in Nat : r = m % d
      BY <3>0, Remainder
    <3>2. PICK t \in Nat \X Nat : t = <<d, r>>
      OBVIOUS
    <3>3. t[1] = d /\ t[2] = r
      BY <3>2
    <3>4. f[t] = CHOOSE g : IsGcd(g, d, r)
      BY <1>1, <3>2, <3>3
    <3>5. \A g : IsGcd(g, m, d) <=> IsGcd(g, d, r)
      BY <2>4, <3>1, GcdStep
    <3>6. (CHOOSE g : IsGcd(g, m, d)) = (CHOOSE g : IsGcd(g, d, r))
      BY <3>5
    <3> QED
      BY <2>1, <2>2, <2>4, <3>1, <3>2, <3>4, <3>6
  <2> QED
    BY <2>3, <2>4
<1>3. f = [p \in Nat \X Nat |-> IF p[2] = 0 THEN p[1] ELSE f[<<p[2], p[1] % p[2]>>]]
  <2>1. f = [p \in Nat \X Nat |-> f[p]]
    BY <1>1
  <2>2. [p \in Nat \X Nat |-> f[p]]
            = [p \in Nat \X Nat |-> IF p[2] = 0 THEN p[1] ELSE f[<<p[2], p[1] % p[2]>>]]
    BY <1>2, Zenon
  <2> QED
    BY <2>1, <2>2, Zenon
<1> QED
  BY <1>3, Zenon DEF gcd

\* It is what it is called.
LEMMA GcdIs ==
    ASSUME NEW m \in Nat, NEW d \in Nat
    PROVE  IsGcd(gcd[<<m, d>>], m, d)
<1> DEFINE Bad == {e \in Nat : \E n \in Nat : ~IsGcd(gcd[<<n, e>>], n, e)}
<1>1. SUFFICES ASSUME Bad # {} PROVE FALSE
  BY <1>1
<1>2. PICK e \in Bad : \A j \in Bad : e <= j
  <2>1. Bad \subseteq Nat
    OBVIOUS
  <2> QED
    BY <1>1, <2>1, SmallestIsThere
<1>3. PICK n \in Nat : ~IsGcd(gcd[<<n, e>>], n, e)
  BY <1>2
<1>4. PICK p : p = <<n, e>>
  OBVIOUS
<1>0. e \in Nat /\ p \in Nat \X Nat /\ p[1] = n /\ p[2] = e
  BY <1>2, <1>4
<1>5. gcd[p] = IF e = 0 THEN n ELSE gcd[<<e, n % e>>]
  BY <1>0, <1>4, GcdUnfolds
<1>6. CASE e = 0
  BY <1>3, <1>4, <1>5, <1>6, GcdOfZero
<1>7. CASE e # 0
  <2>0. e \in Nat \ {0}
    BY <1>0, <1>7
  <2>1. PICK r \in Nat : r = n % e /\ r < e
    BY <2>0, Remainder
  <2>2. r \notin Bad
    BY <1>2, <2>1
  <2>3. IsGcd(gcd[<<e, r>>], e, r)
    BY <1>0, <2>2
  <2>4. IsGcd(gcd[<<e, r>>], n, e)
    BY <2>0, <2>1, <2>3, GcdStep
  <2> QED
    BY <1>3, <1>4, <1>5, <1>7, <2>1, <2>4
<1> QED
  BY <1>6, <1>7

(* A ratio in lowest terms. *)
Reduced(r) ==
    /\ r = <<r[1], r[2]>>
    /\ r[1] \in Int /\ r[2] \in Nat \ {0}
    /\ \E x, y \in Int : x * r[1] + y * r[2] = 1

\* Ratios in lowest terms are equal where their values are.
LEMMA ReducedSame ==
    ASSUME NEW r, NEW s, Reduced(r), Reduced(s), r[1] * s[2] = s[1] * r[2]
    PROVE  r = s
<1>1. PICK a \in Int, b \in Nat \ {0} : a = r[1] /\ b = r[2]
  BY DEF Reduced
<1>2. PICK c \in Int, d \in Nat \ {0} : c = s[1] /\ d = s[2]
  BY DEF Reduced
<1>3. a * d = c * b
  BY <1>1, <1>2
<1>4. PICK x \in Int, y \in Int : x * a + y * b = 1
  BY <1>1 DEF Reduced
<1>5. PICK z \in Int, w \in Int : z * c + w * d = 1
  BY <1>2 DEF Reduced
<1>6. d = b * (x * c + y * d)
  <2>1. d = d * (x * a + y * b)
    BY <1>4
  <2>2. d * (x * a + y * b) = x * (a * d) + y * (b * d)
    BY <1>4
  <2>3. x * (c * b) + y * (b * d) = b * (x * c + y * d)
    BY <1>4
  <2> QED
    BY <1>3, <2>1, <2>2, <2>3
<1>7. b = d * (z * a + w * b)
  <2>1. b = b * (z * c + w * d)
    BY <1>5
  <2>2. b * (z * c + w * d) = z * (c * b) + w * (d * b)
    BY <1>5
  <2>3. z * (a * d) + w * (d * b) = d * (z * a + w * b)
    BY <1>5
  <2> QED
    BY <1>3, <2>1, <2>2, <2>3
<1>8. PICK m \in Int, n \in Int : d = b * m /\ b = d * n
  <2>1. x * c + y * d \in Int /\ z * a + w * b \in Int
    BY <1>4, <1>5
  <2> QED
    BY <1>6, <1>7, <2>1
<1>9. m > 0 /\ n > 0
  BY <1>8
<1>10. d >= b /\ b >= d
  BY <1>8, <1>9
<1>11. b = d
  BY <1>10
<1>12. a = c
  BY <1>3, <1>11
<1> QED
  BY <1>1, <1>2, <1>11, <1>12 DEF Reduced

\* What Ratio returns is in lowest terms and has the value asked for.
LEMMA RatioIs ==
    ASSUME NEW n \in Int, NEW d \in Nat \ {0}, NEW r, r = Ratio(n, d)
    PROVE  Reduced(r) /\ r[1] * d = n * r[2]
<1>1. PICK m \in Nat : m = IF n < 0 THEN -n ELSE n
  OBVIOUS
<1>2. PICK g : g = gcd[<<m, d>>]
  OBVIOUS
<1>3. IsGcd(g, m, d)
  BY <1>2, GcdIs
<1>4. PICK a \in Nat, b \in Nat : g \in Nat /\ m = g * a /\ d = g * b
  BY <1>3 DEF IsGcd
<1>5. PICK x \in Int, y \in Int : g = x * m + y * d
  BY <1>3 DEF IsGcd
<1>6. g > 0 /\ b > 0
  BY <1>4
<1>7. PICK c \in Int : c = IF n < 0 THEN -a ELSE a
  OBVIOUS
<1>8. n = g * c
  BY <1>1, <1>4, <1>7
<1>9. n \div g = c /\ d \div g = b
  BY <1>4, <1>6, <1>8
<1>10. r = <<c, b>>
  BY <1>1, <1>2, <1>9 DEF Ratio
<1>11. x * a + y * b = 1
  <2>1. PICK z \in Int : z = x * a + y * b
    BY <1>4, <1>5
  <2>2. g = g * z
    BY <1>4, <1>5, <2>1
  <2> QED
    BY <1>4, <1>6, <2>1, <2>2
<1>12. \E u, v \in Int : u * c + v * b = 1
  <2>1. PICK u \in Int : u = IF n < 0 THEN -x ELSE x
    BY <1>5
  <2>2. u * c + y * b = 1
    BY <1>5, <1>7, <1>11, <2>1
  <2> QED
    BY <2>2
<1>13. c * d = n * b
  BY <1>4, <1>8
<1>14. r[1] = c /\ r[2] = b /\ b \in Nat \ {0}
  BY <1>4, <1>6, <1>10
<1> QED
  BY <1>10, <1>12, <1>13, <1>14 DEF Reduced

\* Whole numbers are ratios in lowest terms.
LEMMA WholeIsReduced ==
    ASSUME NEW n \in Int
    PROVE  Reduced(<<n, 1>>)
<1>1. 0 * n + 1 * 1 = 1
  OBVIOUS
<1> QED
  BY <1>1 DEF Reduced

\* The product of ratios.
LEMMA TimesIs ==
    ASSUME NEW r, NEW s, Reduced(r), Reduced(s), NEW t, t = Times(r, s)
    PROVE  Reduced(t) /\ t[1] * (r[2] * s[2]) = (r[1] * s[1]) * t[2]
<1>1. r[1] * s[1] \in Int /\ r[2] * s[2] \in Nat \ {0}
  BY DEF Reduced
<1> QED
  BY <1>1, RatioIs DEF Times

\* The sum.
LEMMA PlusIs ==
    ASSUME NEW r, NEW s, Reduced(r), Reduced(s), NEW t, t = Plus(r, s)
    PROVE  Reduced(t) /\ t[1] * (r[2] * s[2]) = (r[1] * s[2] + s[1] * r[2]) * t[2]
<1>1. r[1] * s[2] + s[1] * r[2] \in Int /\ r[2] * s[2] \in Nat \ {0}
  BY DEF Reduced
<1> QED
  BY <1>1, RatioIs DEF Plus

\* The quotient by a positive ratio.
LEMMA OverIs ==
    ASSUME NEW r, NEW s, Reduced(r), Reduced(s), s[1] > 0, NEW t, t = Over(r, s)
    PROVE  Reduced(t) /\ t[1] * (r[2] * s[1]) = (r[1] * s[2]) * t[2]
<1>1. r[1] * s[2] \in Int /\ r[2] * s[1] \in Nat \ {0}
  BY DEF Reduced
<1> QED
  BY <1>1, RatioIs DEF Over

-----------------------------------------------------------------------------
(* Units: the inductive invariant.                                         *)

Pairs == Int \X (Nat \ {0})

(* Cash, shares, prices and costs are numbers.                             *)
MarketOK ==
    /\ AccountFields(account)
    /\ account.horizon \in Horizons
    /\ account.shares \in 0 .. MaxShares /\ account.shares \in Int
    /\ account.cash \in Int /\ account.price \in Int /\ account.cost \in Int

(* The net equity just before a pending transfer, and what it moved at the *)
(* present price.                                                          *)
EquityBefore(k) == snaps[pending[k].last].equity
AmountOf(k) == Both(pending[k].cash) + Both(pending[k].shares) * account.price

(* Each pending transfer moves something and has the snapshot of the       *)
(* instant before it.                                                      *)
PendingOK ==
    /\ IsSeq(snaps) /\ IsSeq(pending)
    /\ \A k \in DOMAIN pending :
          /\ pending[k].cash \in Int \X Int /\ pending[k].shares \in Int \X Int
          /\ pending[k].cash # Nothing \/ pending[k].shares # Nothing
          /\ pending[k].last \in DOMAIN snaps
          /\ snaps[pending[k].last].moved = k - 1
          /\ EquityBefore(k) \in Int
    /\ pending = <<>> /\ account.still => snaps # <<>> /\ snaps[Len(snaps)] = Snapshot

(* A transfer that a declaration can value: there was capital before it,   *)
(* and one in kind is the latest, with nothing moved since.                *)
Usable(k) ==
    /\ EquityBefore(k) > 0
    /\ pending[k].shares # Nothing => k = Len(pending) /\ account.still

(* Units r become s in the proportion in which A changes the equity E.     *)
InProportion(r, s, E, A) == s[1] * r[2] * E = r[1] * s[2] * (E + A)

(* Units after each pending transfer: a transfer changes them in the       *)
(* proportion in which it changes the equity before it, and the last are   *)
(* those of one who saw every transfer.                                    *)
UnitsThrough(U) ==
    /\ U \in [0 .. Len(pending) -> Pairs]
    /\ \A k \in 0 .. Len(pending) : Reduced(U[k])
    /\ U[0] = state.units
    /\ \A k \in DOMAIN pending : InProportion(U[k - 1], U[k], EquityBefore(k), AmountOf(k))
    /\ U[Len(pending)] = fair

UnitsInv ==
    /\ MarketOK
    /\ Reduced(fair)
    /\ state.epoch > 0 =>
          /\ PendingOK
          /\ (\A k \in DOMAIN pending : Usable(k)) => \E U : UnitsThrough(U)

\* Equity is a number.
LEMMA EquityIs ==
    ASSUME MarketOK
    PROVE  Equity \in Int
<1>1. account.shares * account.price \in Int
  BY DEF MarketOK
<1> QED
  BY <1>1 DEF MarketOK, Equity, HoldingValue

\* Trades and closes move the market only: what is pending is accounted for
\* as before, unless it is in kind.
LEMMA MarketMoves ==
    ASSUME UnitsInv, MarketOK', account'.still = FALSE, snaps' = snaps, pending' = pending,
           state' = state, fair' = fair
    PROVE  UnitsInv'
<1> SUFFICES ASSUME state.epoch > 0
             PROVE  /\ PendingOK'
                    /\ (\A k \in DOMAIN pending : Usable(k)') => \E U : UnitsThrough(U)'
  BY DEF UnitsInv, Reduced
<1>1. PendingOK
  BY DEF UnitsInv
<1>2. \A k \in DOMAIN pending : EquityBefore(k)' = EquityBefore(k)
  BY DEF EquityBefore
<1>3. PendingOK'
  <2>1. IsSeq(snaps)' /\ IsSeq(pending)'
    BY <1>1 DEF PendingOK, IsSeq
  <2> QED
    BY <1>1, <1>2, <2>1 DEF PendingOK
<1>4. ASSUME \A k \in DOMAIN pending : Usable(k)' PROVE \E U : UnitsThrough(U)'
  <2>1. \A k \in DOMAIN pending : Usable(k) /\ pending[k].shares = Nothing
    BY <1>4 DEF Usable, EquityBefore
  <2>2. PICK U : UnitsThrough(U)
    BY <2>1 DEF UnitsInv
  <2>3. \A k \in DOMAIN pending : AmountOf(k)' = AmountOf(k)
    <3> TAKE k \in DOMAIN pending
    <3>1. Both(pending[k].shares) = 0 /\ account.price \in Int /\ account'.price \in Int
      BY <2>1, MarketOK' DEF UnitsInv, MarketOK, Both, Nothing
    <3> QED
      BY <3>1 DEF AmountOf, Both
  <2>4. UnitsThrough(U)'
    BY <1>2, <2>2, <2>3 DEF UnitsThrough, Reduced, InProportion
  <2> QED
    BY <2>4
<1> QED
  BY <1>3, <1>4

\* Trades at the going price.
LEMMA TradeCarries ==
    ASSUME UnitsInv, NEW q \in {-1, 1}, Trade(q)
    PROVE  UnitsInv'
<1>1. PICK acc : /\ acc = [account EXCEPT !.shares = @ + q, !.cash = @ - q * account.price,
                                        !.lastStock = account.day, !.stock = @ + 1,
                                        !.traded = @ + 1, !.atClose = FALSE]
                 /\ Moved(acc)
  BY DEF Trade
<1>2. /\ account.shares + q \in 0 .. MaxShares
      /\ snaps' = snaps /\ pending' = pending /\ state' = state /\ fair' = fair
  BY DEF Trade
<1>3. MarketOK
  BY DEF UnitsInv
<1>4. /\ acc.shares = account.shares + q /\ acc.cash = account.cash - q * account.price
      /\ acc.price = account.price /\ acc.horizon = account.horizon /\ AccountFields(acc)
  BY <1>1, <1>3 DEF MarketOK, AccountFields
<1>5. PICK cost \in Costs[acc.shares] : account' = [acc EXCEPT !.cost = cost, !.still = FALSE]
  BY <1>1 DEF Moved
<1>6. cost \in Int
  BY <1>2, <1>4, MarketAssumption
<1>7. /\ account'.shares = acc.shares /\ account'.cash = acc.cash /\ account'.cost = cost
      /\ account'.price = acc.price /\ account'.horizon = acc.horizon
      /\ account'.still = FALSE /\ AccountFields(account')
  BY <1>4, <1>5 DEF AccountFields
<1>8. MarketOK'
  <2>1. account.cash - q * account.price \in Int /\ account.shares + q \in Int
    BY <1>3 DEF MarketOK
  <2> QED
    BY <1>2, <1>3, <1>4, <1>6, <1>7, <2>1 DEF MarketOK, AccountFields
<1> QED
  BY <1>2, <1>7, <1>8, MarketMoves

\* The close of a session.
LEMMA CloseCarries ==
    ASSUME UnitsInv, NEW p \in account.horizon.prices, CloseSession(p)
    PROVE  UnitsInv'
<1>1. PICK acc : /\ acc = [account EXCEPT !.price = p, !.phase = "closed", !.atClose = TRUE]
                 /\ Moved(acc)
  BY DEF CloseSession
<1>2. snaps' = snaps /\ pending' = pending /\ state' = state /\ fair' = fair
  BY DEF CloseSession
<1>3. MarketOK
  BY DEF UnitsInv
<1>4. p \in Int
  BY <1>3, MarketAssumption DEF MarketOK
<1>5. /\ acc.shares = account.shares /\ acc.cash = account.cash /\ acc.price = p
      /\ acc.horizon = account.horizon /\ AccountFields(acc)
  BY <1>1, <1>3 DEF MarketOK, AccountFields
<1>6. PICK cost \in Costs[acc.shares] : account' = [acc EXCEPT !.cost = cost, !.still = FALSE]
  BY <1>1 DEF Moved
<1>7. cost \in Int
  BY <1>3, <1>5, MarketAssumption DEF MarketOK
<1>8. /\ account'.shares = acc.shares /\ account'.cash = acc.cash /\ account'.cost = cost
      /\ account'.price = acc.price /\ account'.horizon = acc.horizon
      /\ account'.still = FALSE /\ AccountFields(account')
  BY <1>5, <1>6 DEF AccountFields
<1>9. MarketOK'
  BY <1>3, <1>4, <1>5, <1>7, <1>8 DEF MarketOK, AccountFields
<1> QED
  BY <1>2, <1>8, <1>9, MarketMoves

\* What moves no money and no accounting leaves the units.
LEMMA MoneyStays ==
    ASSUME UnitsInv, MarketOK', account'.cash = account.cash, account'.shares = account.shares,
           account'.price = account.price, account'.cost = account.cost,
           account'.still = account.still,
           snaps' = snaps, pending' = pending, fair' = fair,
           state'.epoch > 0 => state.epoch > 0 /\ state'.units = state.units
    PROVE  UnitsInv'
<1> SUFFICES ASSUME state'.epoch > 0
             PROVE  /\ PendingOK'
                    /\ (\A k \in DOMAIN pending : Usable(k)') => \E U : UnitsThrough(U)'
  BY DEF UnitsInv, Reduced
<1>0. state.epoch > 0 /\ state'.units = state.units
  OBVIOUS
<1>1. \A k \in DOMAIN pending : EquityBefore(k)' = EquityBefore(k) /\ AmountOf(k)' = AmountOf(k)
  BY DEF EquityBefore, AmountOf, Both
<1>2. Equity' = Equity
  BY DEF Equity, HoldingValue
<1>3. PendingOK'
  <2>1. PendingOK
    BY <1>0 DEF UnitsInv
  <2>2. IsSeq(snaps)' /\ IsSeq(pending)'
    BY <2>1 DEF PendingOK, IsSeq
  <2>3. Snapshot' = Snapshot
    BY <1>2 DEF Snapshot
  <2> QED
    BY <1>1, <2>1, <2>2, <2>3 DEF PendingOK
<1>4. ASSUME \A k \in DOMAIN pending : Usable(k)' PROVE \E U : UnitsThrough(U)'
  <2>1. \A k \in DOMAIN pending : Usable(k)
    BY <1>1, <1>4 DEF Usable
  <2>2. PICK U : UnitsThrough(U)
    BY <1>0, <2>1 DEF UnitsInv
  <2>3. UnitsThrough(U)'
    BY <1>0, <1>1, <2>2 DEF UnitsThrough, Reduced, InProportion
  <2> QED
    BY <2>3
<1> QED
  BY <1>3, <1>4

\* An accounting leaves nothing pending; it is right where the state has the
\* units of one who saw every transfer.
LEMMA AccountedCarries ==
    ASSUME MarketOK, Accounted, NEW u, Reduced(u), state'.units = u, fair' = u
    PROVE  UnitsInv'
<1>1. /\ account' = [account EXCEPT !.still = TRUE] /\ pending' = <<>>
      /\ snaps' = <<[equity |-> Equity, moved |-> 0]>>
  BY DEF Accounted
<1>2. /\ account'.shares = account.shares /\ account'.cash = account.cash
      /\ account'.price = account.price /\ account'.cost = account.cost
      /\ account'.horizon = account.horizon /\ AccountFields(account')
  BY <1>1 DEF MarketOK, AccountFields
<1>3. MarketOK'
  BY <1>2 DEF MarketOK, AccountFields
<1>4. PICK E \in Int : E = Equity /\ E = Equity'
  BY <1>2, EquityIs DEF Equity, HoldingValue
<1>5. PendingOK'
  <2>1. IsSeq(snaps') /\ IsSeq(pending')
    <3>1. snaps' \in Seq({snaps'[1]})
      BY <1>1
    <3>2. pending' \in Seq({})
      BY <1>1
    <3> QED
      BY <3>1, <3>2, IsSeqOf
  <2>2. IsSeq(snaps)' /\ IsSeq(pending)'
    BY <2>1 DEF IsSeq
  <2>3. snaps' # <<>> /\ snaps'[Len(snaps')] = [equity |-> E, moved |-> 0]
    BY <1>1, <1>4
  <2>4. Snapshot' = [equity |-> E, moved |-> 0]
    BY <1>1, <1>4 DEF Snapshot
  <2>5. DOMAIN pending' = {}
    BY <1>1
  <2> QED
    BY <2>2, <2>3, <2>4, <2>5 DEF PendingOK
<1>6. \E U : UnitsThrough(U)'
  <2>1. PICK U : U = [k \in 0 .. 0 |-> u]
    OBVIOUS
  <2>2. Len(pending') = 0 /\ DOMAIN pending' = {}
    BY <1>1
  <2>3. u \in Pairs
    BY DEF Reduced, Pairs
  <2>4. U \in [0 .. 0 -> Pairs] /\ U[0] = u /\ \A k \in 0 .. 0 : k = 0
    BY <2>1, <2>3
  <2>5. UnitsThrough(U)'
    BY <2>2, <2>4 DEF UnitsThrough, Reduced, InProportion
  <2> QED
    BY <2>5
<1>7. Reduced(fair)'
  BY DEF Reduced
<1> QED
  BY <1>3, <1>5, <1>6, <1>7 DEF UnitsInv

\* A new epoch has one unit for each unit of its capital.
LEMMA NewEpochCarries ==
    ASSUME MarketOK, NEW e, NEW a, NEW session,
           state' = NewEpoch(e, a, session), fair' = state'.units, Accounted
    PROVE  UnitsInv'
<1>1. PICK E \in Int : E = Equity
  BY EquityIs
<1>2. PICK u : u = <<E, 1>>
  OBVIOUS
<1>3. state'.units = u
  BY <1>1, <1>2 DEF NewEpoch
<1>4. Reduced(u)
  BY <1>2, WholeIsReduced
<1> QED
  BY <1>3, <1>4, AccountedCarries

\* One who sees a transfer of A on an equity of E scales the units alike.
LEMMA TransferScales ==
    ASSUME NEW f, Reduced(f), NEW E \in Int, E > 0, NEW A \in Int,
           NEW F \in Int, F = E + A, NEW r, r = Ratio(F, E), NEW g, g = Times(f, r)
    PROVE  Reduced(g) /\ InProportion(f, g, E, A)
<1>2. Reduced(r) /\ r[1] * E = F * r[2]
  <2>1. E \in Nat \ {0}
    OBVIOUS
  <2> QED
    BY ONLY <2>1, F \in Int, r = Ratio(F, E), RatioIs
<1>3. Reduced(g) /\ g[1] * (f[2] * r[2]) = (f[1] * r[1]) * g[2]
  BY <1>2, TimesIs
<1>4. PICK a \in Int, b \in Nat \ {0} : a = f[1] /\ b = f[2]
  BY DEF Reduced
<1>5. PICK c \in Int, d \in Nat \ {0} : c = r[1] /\ d = r[2]
  BY <1>2 DEF Reduced
<1>6. PICK x \in Int, y \in Nat \ {0} : x = g[1] /\ y = g[2]
  BY <1>3 DEF Reduced
<1>8. c * E = F * d /\ x * (b * d) = (a * c) * y
  BY <1>2, <1>3, <1>4, <1>5, <1>6
<1>9. (x * b * E) * d = (a * y * F) * d
  <2>1. (x * b * E) * d = (x * (b * d)) * E
    OBVIOUS
  <2>2. (x * (b * d)) * E = ((a * c) * y) * E
    BY <1>8
  <2>3. ((a * c) * y) * E = (a * y) * (c * E)
    OBVIOUS
  <2>4. (a * y) * (c * E) = (a * y) * (F * d)
    BY <1>8
  <2>5. (a * y) * (F * d) = (a * y * F) * d
    OBVIOUS
  <2> QED
    BY <2>1, <2>2, <2>3, <2>4, <2>5
<1>10. PICK s \in Int, t \in Int : s = x * b * E /\ t = a * y * F
  OBVIOUS
<1>11. s * d = t * d
  BY <1>9, <1>10
<1>12. s = t
  BY ONLY <1>11, s \in Int, t \in Int, d \in Nat \ {0}
<1> QED
  BY <1>3, <1>4, <1>6, <1>10, <1>12 DEF InProportion

\* A transfer is pending, with the snapshot of the instant before it.
LEMMA TransferCarries ==
    ASSUME UnitsInv, NEW c \in Int \X Int, NEW q \in Int \X Int, c # Nothing \/ q # Nothing,
           Transfer(c, q)
    PROVE  UnitsInv'
<1>1. PICK cost \in CostsAfter(q) :
          account' = [account EXCEPT !.cash = @ + Both(c), !.shares = @ + Both(q), !.cost = cost,
                                    !.moved = @ + 1, !.atClose = FALSE, !.still = TRUE,
                                    !.lastStock = IF q = Nothing THEN @ ELSE account.day,
                                    !.stock = IF q = Nothing THEN @ ELSE @ + 1]
  BY DEF Transfer
<1>2. /\ account.shares + Both(q) \in 0 .. MaxShares /\ state' = state
      /\ fair' = IF Equity <= 0 THEN fair
                 ELSE Times(fair, Ratio(Equity + Both(c) + Both(q) * account.price, Equity))
  BY DEF Transfer
<1>3. MarketOK
  BY DEF UnitsInv
<1>4. Both(c) \in Int /\ Both(q) \in Int
  BY DEF Both
<1>5. cost \in Int
  <2>1. CASE q = Nothing
    BY <1>1, <1>3, <2>1 DEF CostsAfter, MarketOK
  <2>2. CASE q # Nothing
    <3>1. cost \in Costs[account.shares + Both(q)]
      BY <1>1, <2>2 DEF CostsAfter
    <3> QED
      BY <1>2, <3>1, MarketAssumption
  <2> QED
    BY <2>1, <2>2
<1>6. /\ account'.shares = account.shares + Both(q) /\ account'.cash = account.cash + Both(c)
      /\ account'.price = account.price /\ account'.cost = cost
      /\ account'.horizon = account.horizon /\ AccountFields(account')
  BY <1>1, <1>3 DEF MarketOK, AccountFields
<1>7. MarketOK'
  <2>1. account.shares + Both(q) \in Int /\ account.cash + Both(c) \in Int
    BY <1>3, <1>4 DEF MarketOK
  <2> QED
    BY <1>2, <1>3, <1>5, <1>6, <2>1 DEF MarketOK, AccountFields
<1>8. PICK A \in Int : A = Both(c) + Both(q) * account.price
  BY <1>3, <1>4 DEF MarketOK
<1>9. PICK E \in Int : E = Equity
  BY <1>3, EquityIs
<1>10. PICK f : f = fair
  OBVIOUS
<1>11. PICK g : g = fair'
  OBVIOUS
<1>12. Reduced(f) /\ (E <= 0 => g = f) /\ (E > 0 => g = Times(f, Ratio(E + A, E)))
  <2>1. Equity + Both(c) + Both(q) * account.price = E + A
    <3>1. PICK m \in Int, n \in Int : m = Both(c) /\ n = Both(q) * account.price
      BY <1>3, <1>4 DEF MarketOK
    <3> QED
      BY <1>8, <1>9, <3>1
  <2> QED
    BY <1>2, <1>9, <1>10, <1>11, <2>1 DEF UnitsInv
<1>13. Reduced(g) /\ (E > 0 => InProportion(f, g, E, A))
  <2>1. CASE ~(E > 0)
    <3>1. g = f
      BY <1>12, <2>1
    <3> QED
      BY <1>12, <2>1, <3>1, Zenon
  <2>2. CASE E > 0
    <3>1. PICK F \in Int : F = E + A
      OBVIOUS
    <3>2. PICK r : r = Ratio(F, E)
      OBVIOUS
    <3>3. Reduced(f) /\ g = Times(f, r)
      BY <1>12, <2>2, <3>1, <3>2
    <3>4. Reduced(g) /\ InProportion(f, g, E, A)
      BY ONLY <2>2, <3>1, <3>2, <3>3, E \in Int, A \in Int, F \in Int, TransferScales
    <3> QED
      BY <3>4
  <2> QED
    BY <2>1, <2>2, Zenon
<1>14. Reduced(fair)'
  BY <1>11, <1>13 DEF Reduced
<1> SUFFICES ASSUME state.epoch > 0
             PROVE  /\ PendingOK'
                    /\ (\A k \in DOMAIN pending' : Usable(k)') => \E U : UnitsThrough(U)'
  BY <1>2, <1>7, <1>14 DEF UnitsInv
<1>15. PendingOK
  BY DEF UnitsInv
<1>16. PICK N \in Nat : N = Len(pending) /\ DOMAIN pending = 1 .. N
  BY <1>15, Indices DEF PendingOK
<1>17. PICK S : S = snaps
  OBVIOUS
<1>18. PICK T : T = snaps'
  OBVIOUS
<1>19. /\ T = IF account.still /\ N = 0 THEN S ELSE Append(S, [equity |-> E, moved |-> N])
       /\ pending' = Append(pending, [cash |-> c, shares |-> q, last |-> Len(T)])
  BY <1>9, <1>16, <1>17, <1>18 DEF Transfer, Snapshot
<1>20. IsSeq(S)
  BY <1>15, <1>17 DEF PendingOK
<1>21. /\ IsSeq(T) /\ Len(T) \in DOMAIN T /\ T[Len(T)] = [equity |-> E, moved |-> N]
       /\ \A i \in DOMAIN S : i \in DOMAIN T /\ T[i] = S[i]
  <2>1. CASE account.still /\ N = 0
    <3>1. pending = <<>>
      BY <1>15, <1>16, <2>1 DEF PendingOK, IsSeq
    <3>2. S # <<>> /\ S[Len(S)] = [equity |-> E, moved |-> N]
      BY <1>9, <1>15, <1>16, <1>17, <2>1, <3>1 DEF PendingOK, Snapshot
    <3>3. Len(S) \in DOMAIN S
      BY <1>20, <3>2 DEF IsSeq
    <3> QED
      BY <1>19, <1>20, <2>1, <3>2, <3>3
  <2>2. CASE ~(account.still /\ N = 0)
    <3>1. PICK e : e = [equity |-> E, moved |-> N]
      OBVIOUS
    <3>2. T = Append(S, e)
      BY <1>19, <2>2, <3>1
    <3>3. IsSeq(T)
      BY ONLY <1>20, <3>2, Appended
    <3>4. /\ Len(S) \in Nat /\ Len(T) = Len(S) + 1
          /\ DOMAIN S = 1 .. Len(S) /\ DOMAIN T = 1 .. Len(T)
          /\ \A i \in DOMAIN S : T[i] = S[i]
          /\ T[Len(T)] = e
      BY ONLY <1>20, <3>2, Appended
    <3> QED
      BY <3>1, <3>3, <3>4
  <2> QED
    BY <2>1, <2>2
<1>22. PICK P : P = pending'
  OBVIOUS
<1>23. PICK l : l = Len(T)
  OBVIOUS
<1>24. /\ IsSeq(P) /\ Len(P) = N + 1 /\ DOMAIN P = 1 .. N + 1
       /\ \A k \in 1 .. N : P[k] = pending[k]
       /\ P[N + 1] = [cash |-> c, shares |-> q, last |-> l]
  <2>1. IsSeq(pending)
    BY <1>15 DEF PendingOK
  <2>2. PICK e : e = [cash |-> c, shares |-> q, last |-> l]
    OBVIOUS
  <2>3. P = Append(pending, e)
    BY <1>19, <1>22, <1>23, <2>2
  <2>4. IsSeq(P)
    BY ONLY <2>1, <2>3, Appended
  <2>5. /\ Len(P) = Len(pending) + 1 /\ DOMAIN P = 1 .. Len(P)
        /\ \A i \in DOMAIN pending : P[i] = pending[i]
        /\ P[Len(P)] = e
    BY ONLY <2>1, <2>3, Appended
  <2> QED
    BY <1>16, <2>2, <2>4, <2>5
<1>25. \A k : k \in 1 .. N + 1 <=> k \in 1 .. N \/ k = N + 1
  OBVIOUS
<1>26. \A k \in 1 .. N : /\ EquityBefore(k)' = EquityBefore(k)
                         /\ T[P[k].last] = S[pending[k].last] /\ P[k].last \in DOMAIN T
  <2> TAKE k \in 1 .. N
  <2>1. P[k] = pending[k] /\ pending[k].last \in DOMAIN S
    BY <1>15, <1>16, <1>17, <1>24 DEF PendingOK
  <2>2. T[P[k].last] = S[pending[k].last] /\ P[k].last \in DOMAIN T
    BY <1>21, <2>1
  <2> QED
    BY <1>17, <1>18, <1>22, <2>2 DEF EquityBefore
<1>27. EquityBefore(N + 1)' = E
  BY <1>18, <1>21, <1>22, <1>23, <1>24 DEF EquityBefore
<1>28. PendingOK'
  <2>1. IsSeq(snaps)' /\ IsSeq(pending)'
    BY <1>18, <1>21, <1>22, <1>24 DEF IsSeq
  <2>2. P # <<>>
    BY <1>24
  <2>3. ASSUME NEW k \in 1 .. N + 1
        PROVE  /\ P[k].cash \in Int \X Int /\ P[k].shares \in Int \X Int
               /\ P[k].cash # Nothing \/ P[k].shares # Nothing
               /\ P[k].last \in DOMAIN T
               /\ T[P[k].last].moved = k - 1 /\ EquityBefore(k)' \in Int
    <3>1. CASE k \in 1 .. N
      <4>1. /\ pending[k].cash \in Int \X Int /\ pending[k].shares \in Int \X Int
            /\ pending[k].cash # Nothing \/ pending[k].shares # Nothing
            /\ S[pending[k].last].moved = k - 1 /\ EquityBefore(k) \in Int
        BY <1>15, <1>16, <1>17, <3>1 DEF PendingOK
      <4> QED
        BY <1>24, <1>26, <3>1, <4>1
    <3>2. CASE k = N + 1
      BY <1>21, <1>23, <1>24, <1>27, <3>2
    <3> QED
      BY <1>25, <3>1, <3>2
  <2> QED
    BY <1>18, <1>22, <1>24, <2>1, <2>2, <2>3 DEF PendingOK, Nothing
<1>29. ASSUME \A k \in DOMAIN pending' : Usable(k)' PROVE \E U : UnitsThrough(U)'
  <2>1. \A k \in 1 .. N : EquityBefore(k)' > 0 /\ P[k].shares = Nothing
    <3> TAKE k \in 1 .. N
    <3>1. Usable(k)' /\ k # N + 1
      BY <1>22, <1>24, <1>25, <1>29
    <3> QED
      BY <1>22, <1>24, <3>1 DEF Usable, Nothing
  <2>2. E > 0
    <3>1. Usable(N + 1)'
      BY <1>22, <1>24, <1>25, <1>29
    <3> QED
      BY <1>27, <3>1 DEF Usable
  <2>3. \A k \in DOMAIN pending : Usable(k)
    BY <1>16, <1>24, <1>26, <2>1 DEF Usable
  <2>4. PICK U : UnitsThrough(U)
    BY <2>3 DEF UnitsInv
  <2>5. /\ U \in [0 .. N -> Pairs] /\ U[0] = state.units /\ U[N] = f
        /\ \A k \in 0 .. N : Reduced(U[k])
    BY <1>10, <1>16, <2>4 DEF UnitsThrough
  <2>6. PICK V : V = [k \in 0 .. N + 1 |-> IF k = N + 1 THEN g ELSE U[k]]
    OBVIOUS
  <2>7. \A k \in 0 .. N + 1 : k = N + 1 \/ k \in 0 .. N
    OBVIOUS
  <2>8. N + 1 \in 0 .. N + 1 /\ \A k \in 0 .. N : k \in 0 .. N + 1 /\ k # N + 1
    OBVIOUS
  <2>9. V[N + 1] = g /\ \A k \in 0 .. N : V[k] = U[k]
    BY <2>6, <2>8
  <2>10. V \in [0 .. N + 1 -> Pairs] /\ \A k \in 0 .. N + 1 : Reduced(V[k])
    <3>1. g \in Pairs
      BY <1>13 DEF Reduced, Pairs
    <3>2. \A k \in 0 .. N + 1 : V[k] \in Pairs /\ Reduced(V[k])
      BY <1>13, <2>5, <2>7, <2>9, <3>1
    <3> QED
      BY <2>6, <3>2
  <2>11. \A k \in 1 .. N : AmountOf(k)' = AmountOf(k)
    <3> TAKE k \in 1 .. N
    <3>1. P[k] = pending[k] /\ account'.price = account.price
      BY <1>6, <1>24
    <3> QED
      BY <1>22, <3>1 DEF AmountOf, Both
  <2>12. AmountOf(N + 1)' = A
    BY <1>6, <1>8, <1>22, <1>24 DEF AmountOf, Both
  <2>13. \A k \in 1 .. N + 1 :
            InProportion(V[k - 1], V[k], EquityBefore(k)', AmountOf(k)')
    <3> TAKE k \in 1 .. N + 1
    <3>1. CASE k \in 1 .. N
      <4>1. V[k] = U[k] /\ V[k - 1] = U[k - 1]
        BY <2>9, <3>1
      <4>2. InProportion(U[k - 1], U[k], EquityBefore(k), AmountOf(k))
        BY <1>16, <2>4, <3>1 DEF UnitsThrough
      <4> QED
        BY <1>26, <2>11, <3>1, <4>1, <4>2
    <3>2. CASE k = N + 1
      <4>1. V[k] = g /\ V[k - 1] = f
        BY <2>5, <2>9, <3>2
      <4> QED
        BY <1>13, <1>27, <2>2, <2>12, <3>2, <4>1
    <3> QED
      BY <1>25, <3>1, <3>2
  <2>14. UnitsThrough(V)'
    <3>1. V[0] = state'.units
      BY <1>2, <2>5, <2>9
    <3> QED
      BY <1>11, <1>22, <1>24, <2>9, <2>10, <2>13, <3>1 DEF UnitsThrough, Reduced, InProportion
  <2> QED
    BY <2>14
<1> QED
  BY <1>28, <1>29

-----------------------------------------------------------------------------
(* Declared flows.                                                         *)

FirstFlow(flows) ==
    [valid |-> FlowsCover(flows), units |-> state.units, peak |-> state.peak,
     dip |-> Zero, keys |-> {}, at |-> 0]
FlowFields(a) ==
    /\ a.valid \in BOOLEAN
    /\ a = [valid |-> a.valid, units |-> a.units, peak |-> a.peak, dip |-> a.dip,
            keys |-> a.keys, at |-> a.at]

\* Flows are applied one after the other.
LEMMA FlowSteps ==
    ASSUME NEW flows, NEW N \in Nat, N = Len(flows)
    PROVE  \E h : /\ AdjustedUnits(flows) = h[N]
                  /\ h[0] = FirstFlow(flows)
                  /\ \A k \in 1 .. N : h[k] = FlowApplied(h[k - 1], flows[k])
<1>0. PICK b : b = FirstFlow(flows)
  OBVIOUS
<1> DEFINE step(k, x) == FlowApplied(x, flows[k])
           P(f, i) == f = [s \in 0 .. i |-> IF s = 0 THEN b ELSE step(s, f[s - 1])]
           Bad == {i \in Nat : ~\E f : P(f, i)}
<1> HIDE DEF step
<1>1. Bad = {}
  <2>1. SUFFICES ASSUME Bad # {} PROVE FALSE
    OBVIOUS
  <2>2. PICK i \in Bad : \A j \in Bad : i <= j
    <3>1. Bad \subseteq Nat
      OBVIOUS
    <3> QED
      BY <2>1, <3>1, SmallestIsThere
  <2>3. i \in Nat /\ ~\E f : P(f, i)
    OBVIOUS
  <2>4. i # 0
    <3>1. PICK f : f = [s \in 0 .. 0 |-> b]
      OBVIOUS
    <3>2. \A s \in 0 .. 0 : s = 0
      OBVIOUS
    <3>3. P(f, 0)
      BY <3>1, <3>2
    <3> QED
      BY <2>3, <3>3
  <2>5. PICK f : P(f, i - 1)
    <3>1. i - 1 \in Nat /\ ~(i <= i - 1)
      BY <2>3, <2>4
    <3>2. i - 1 \in Bad => i <= i - 1
      BY <2>2
    <3> QED
      BY <3>1, <3>2
  <2>6. PICK y : y = step(i, f[i - 1])
    OBVIOUS
  <2>7. PICK g : g = [s \in 0 .. i |-> IF s = i THEN y ELSE f[s]]
    OBVIOUS
  <2>8. ASSUME NEW s \in 0 .. i PROVE g[s] = IF s = 0 THEN b ELSE step(s, g[s - 1])
    <3>1. g[s] = IF s = i THEN y ELSE f[s]
      BY <2>7
    <3>2. CASE s = 0
      BY <2>3, <2>4, <2>5, <3>1, <3>2
    <3>3. CASE s # 0
      <4>1. s - 1 \in 0 .. i /\ s - 1 # i
        BY <2>3, <3>3
      <4>2. g[s - 1] = f[s - 1]
        BY <2>7, <4>1
      <4>3. CASE s = i
        BY <2>6, <3>1, <3>3, <4>2, <4>3
      <4>4. CASE s # i
        <5>1. s \in 0 .. i - 1
          BY <2>3, <4>4
        <5>2. f[s] = step(s, f[s - 1])
          BY <2>5, <3>3, <5>1
        <5> QED
          BY <3>1, <3>3, <4>2, <4>4, <5>2
      <4> QED
        BY <4>3, <4>4
    <3> QED
      BY <3>2, <3>3
  <2>9. P(g, i)
    <3>1. g = [s \in 0 .. i |-> g[s]]
      BY <2>7
    <3>2. [s \in 0 .. i |-> g[s]] = [s \in 0 .. i |-> IF s = 0 THEN b ELSE step(s, g[s - 1])]
      BY <2>8, Zenon
    <3> QED
      BY <3>1, <3>2, Zenon
  <2> QED
    BY <2>3, <2>9
<1>2. PICK f : P(f, N)
  <2> HIDE DEF P
  <2>1. N \notin Bad
    BY <1>1
  <2> QED
    BY <2>1, Zenon
<1> DEFINE Q(g) == g = [i \in 0 .. Len(flows) |->
                           IF i = 0
                           THEN [valid |-> FlowsCover(flows), units |-> state.units,
                                 peak |-> state.peak, dip |-> Zero, keys |-> {}, at |-> 0]
                           ELSE FlowApplied(g[i - 1], flows[i])]
<1>3. PICK h : h = CHOOSE g : Q(g)
  OBVIOUS
<1>4. Q(h)
  <2>1. Q(f)
    BY <1>0, <1>2, Zenon DEF step, FirstFlow
  <2> HIDE DEF Q
  <2> QED
    BY <1>3, <2>1, Zenon
<1>5. AdjustedUnits(flows) = h[Len(flows)]
  BY <1>3, Zenon DEF AdjustedUnits
<1>6. h = [s \in 0 .. N |-> IF s = 0 THEN b ELSE step(s, h[s - 1])]
  BY <1>0, <1>4, Zenon DEF step, FirstFlow
<1> HIDE DEF Q
<1>7. h[0] = b /\ \A k \in 1 .. N : h[k] = step(k, h[k - 1])
  <2>1. \A k \in 1 .. N : k \in 0 .. N /\ k # 0
    OBVIOUS
  <2>2. 0 \in 0 .. N
    OBVIOUS
  <2> QED
    BY <1>6, <2>1, <2>2, Zenon
<1>8. \A k \in 1 .. N : h[k] = FlowApplied(h[k - 1], flows[k])
  BY <1>7, Zenon DEF step
<1> QED
  BY <1>0, <1>5, <1>7, <1>8, Zenon

(* A flow is accepted after a, and b is what it leaves. *)
Accepted(a, f, b) ==
    /\ a.valid = TRUE /\ FlowInSequence(a, f) /\ FlowValued(f) /\ FlowReconciled(f)
    /\ snaps[f.before].equity > 0 /\ Less(Zero, a.units)
    /\ b.units = IF f.kind = "INTERNAL" THEN a.units
                 ELSE Plus(a.units, Over(<<FlowAmount(f), 1>>,
                                         Over(<<snaps[f.before].equity, 1>>, a.units)))
    /\ b.keys = a.keys \cup f.keys /\ b.at = f.at

\* What a flow leaves is valid where it was accepted only.
LEMMA FlowAppliedIs ==
    ASSUME NEW a, FlowFields(a), NEW f, NEW b, b = FlowApplied(a, f)
    PROVE  FlowFields(b) /\ (b.valid = TRUE => Accepted(a, f, b))
<1>1. PICK equity, nav, peak, units :
          /\ equity = snaps[f.before].equity
          /\ nav = Over(<<equity, 1>>, a.units)
          /\ peak = Larger(a.peak, nav)
          /\ units = IF f.kind = "INTERNAL" THEN a.units
                     ELSE Plus(a.units, Over(<<FlowAmount(f), 1>>, nav))
  OBVIOUS
<1>2. PICK ok : ok = (/\ a.valid
                      /\ FlowInSequence(a, f)
                      /\ equity > 0 /\ Less(Zero, a.units)
                      /\ FlowValued(f)
                      /\ FlowReconciled(f)
                      /\ ~Less(units, Zero))
  OBVIOUS
<1>3. CASE ok
  <2>1. b = [a EXCEPT !.units = units, !.peak = peak, !.keys = @ \union f.keys,
                      !.at = f.at, !.dip = Larger(@, Fall(nav, peak))]
    BY <1>1, <1>2, <1>3, Zenon DEF FlowApplied
  <2>2. PICK d : d = Larger(a.dip, Fall(nav, peak))
    OBVIOUS
  <2>3. b = [valid |-> a.valid, units |-> units, peak |-> peak, dip |-> d,
             keys |-> a.keys \cup f.keys, at |-> f.at]
    BY <2>1, <2>2 DEF FlowFields
  <2>4. b.units = units /\ b.keys = a.keys \cup f.keys /\ b.at = f.at /\ FlowFields(b)
    BY <2>3 DEF FlowFields
  <2>5. a.valid = TRUE
    BY <1>2, <1>3 DEF FlowFields
  <2> QED
    BY <1>1, <1>2, <1>3, <2>4, <2>5, Zenon DEF Accepted
<1>4. CASE ~ok
  <2>1. b = [a EXCEPT !.valid = FALSE]
    BY <1>1, <1>2, <1>4, Zenon DEF FlowApplied
  <2>2. b = [valid |-> FALSE, units |-> a.units, peak |-> a.peak, dip |-> a.dip,
             keys |-> a.keys, at |-> a.at]
    BY <2>1 DEF FlowFields
  <2>3. b.valid = FALSE /\ FlowFields(b)
    BY <2>2 DEF FlowFields
  <2> QED
    BY <2>3
<1> QED
  BY <1>3, <1>4

(* What a command declares. *)
FlowOK(f) == /\ f.keys \subseteq TransferKeys(Len(pending)) /\ f.keys # {}
             /\ f.at \in DOMAIN pending /\ f.before \in DOMAIN snaps
Declared(flows) ==
    /\ Len(flows) \in Nat /\ DOMAIN flows = 1 .. Len(flows)
    /\ \A i \in DOMAIN flows : FlowOK(flows[i])

\* The entries of a pending transfer: some, and all named after it.
LEMMA EntriesAre ==
    ASSUME PendingOK, NEW k \in DOMAIN pending
    PROVE  /\ Entries(k) # {}
           /\ \A key \in Entries(k) : key[1] = k
           /\ Entries(k) \subseteq TransferKeys(Len(pending))
<1>1. PICK c1 \in Int, c2 \in Int, q1 \in Int, q2 \in Int :
          pending[k].cash = <<c1, c2>> /\ pending[k].shares = <<q1, q2>>
  BY DEF PendingOK
<1>2. \E a \in Accounts : pending[k].cash[a] # 0 \/ pending[k].shares[a] # 0
  <2>1. pending[k].cash # Nothing \/ pending[k].shares # Nothing
    BY DEF PendingOK
  <2>2. c1 # 0 \/ c2 # 0 \/ q1 # 0 \/ q2 # 0
    BY <1>1, <2>1 DEF Nothing
  <2>3. /\ pending[k].cash[1] = c1 /\ pending[k].cash[2] = c2
        /\ pending[k].shares[1] = q1 /\ pending[k].shares[2] = q2
    BY <1>1
  <2>4. ASSUME \A a \in Accounts : pending[k].cash[a] = 0 /\ pending[k].shares[a] = 0
        PROVE  FALSE
    <3>1. 1 \in Accounts /\ 2 \in Accounts
      BY DEF Accounts
    <3>2. c1 = 0 /\ q1 = 0 /\ c2 = 0 /\ q2 = 0
      BY <2>3, <2>4, <3>1
    <3> QED
      BY <2>2, <3>2
  <2> QED
    BY Zenon, <2>4
<1>3. Entries(k) # {}
  <2>1. PICK a \in Accounts : pending[k].cash[a] # 0 \/ pending[k].shares[a] # 0
    BY <1>2
  <2>2. <<k, a>> \in Entries(k)
    BY <2>1 DEF Entries
  <2> QED
    BY <2>2
<1>4. ASSUME NEW key \in Entries(k) PROVE key[1] = k
  <2>1. PICK a : key = <<k, a>>
    BY DEF Entries
  <2> QED
    BY <2>1
<1>5. k \in 1 .. Len(pending)
  BY Indices DEF PendingOK
<1>6. Entries(k) \subseteq TransferKeys(Len(pending))
  BY <1>5 DEF TransferKeys
<1> QED
  BY <1>3, <1>4, <1>6

\* Declarations are sequences of flows of pending transfers.
LEMMA DeclarationsAre ==
    ASSUME PendingOK, NEW flows \in Declarations
    PROVE  Declared(flows)
<1> DEFINE some(K) == [keys : K, at : DOMAIN pending, kind : {"EXTERNAL", "INTERNAL"},
                       before : DOMAIN snaps]
           all == TransferKeys(Len(pending))
           any == some((SUBSET all) \ {{}})
           part == some({{key} : key \in all} \union {Entries(k) : k \in DOMAIN pending})
<1>1. \/ flows = <<>>
      \/ \E f \in any : flows = <<f>>
      \/ \E f, g \in part : flows = <<f, g>>
  BY DEF Declarations
<1>2. \A f \in any : FlowOK(f)
  BY DEF FlowOK
<1>3. \A f \in part : FlowOK(f)
  <2> TAKE f \in part
  <2>1. f.at \in DOMAIN pending /\ f.before \in DOMAIN snaps
    OBVIOUS
  <2>2. f.keys \in {{key} : key \in all} \/ f.keys \in {Entries(k) : k \in DOMAIN pending}
    OBVIOUS
  <2>3. CASE f.keys \in {{key} : key \in all}
    BY <2>1, <2>3 DEF FlowOK
  <2>4. CASE f.keys \in {Entries(k) : k \in DOMAIN pending}
    <3>1. PICK k \in DOMAIN pending : f.keys = Entries(k)
      BY <2>4
    <3>2. f.keys # {} /\ f.keys \subseteq TransferKeys(Len(pending))
      BY <3>1, EntriesAre
    <3> QED
      BY <2>1, <3>2 DEF FlowOK
  <2> QED
    BY <2>2, <2>3, <2>4
<1> HIDE DEF any, part
<1>4. CASE flows = <<>>
  BY <1>4 DEF Declared
<1>5. CASE \E f \in any : flows = <<f>>
  <2>1. PICK f \in any : flows = <<f>>
    BY <1>5
  <2>2. Len(flows) = 1 /\ DOMAIN flows = 1 .. 1 /\ flows[1] = f
    BY <2>1
  <2>3. \A i \in 1 .. 1 : i = 1
    OBVIOUS
  <2> QED
    BY <1>2, <2>2, <2>3 DEF Declared
<1>6. CASE \E f, g \in part : flows = <<f, g>>
  <2>1. PICK f \in part, g \in part : flows = <<f, g>>
    BY <1>6
  <2>2. Len(flows) = 2 /\ DOMAIN flows = 1 .. 2 /\ flows[1] = f /\ flows[2] = g
    BY <2>1
  <2>3. \A i \in 1 .. 2 : i = 1 \/ i = 2
    OBVIOUS
  <2> QED
    BY <1>3, <2>2, <2>3 DEF Declared
<1> QED
  BY <1>1, <1>4, <1>5, <1>6

\* Each transfer has keys of its own, so the number processed is known.
LEMMA KeysTell ==
    ASSUME PendingOK, NEW m \in Nat, NEW n \in Nat, m <= Len(pending), n <= Len(pending),
           TransferKeys(m) = TransferKeys(n)
    PROVE  m = n
<1>1. PICK M \in Nat : M = Len(pending) /\ DOMAIN pending = 1 .. M
  BY Indices DEF PendingOK
<1>2. ASSUME NEW i \in Nat, NEW j \in Nat, i < j, j <= M, TransferKeys(j) \subseteq TransferKeys(i)
      PROVE  FALSE
  <2>1. j \in DOMAIN pending /\ j \in 1 .. j
    BY <1>1, <1>2
  <2>2. PICK key \in Entries(j) : TRUE
    BY <2>1, EntriesAre
  <2>3. key[1] = j /\ key \in TransferKeys(j)
    BY <2>1, <2>2, EntriesAre DEF TransferKeys
  <2>4. PICK l \in 1 .. i : key \in Entries(l)
    BY <1>2, <2>3 DEF TransferKeys
  <2>5. l \in DOMAIN pending
    BY <1>1, <1>2, <2>4
  <2>6. key[1] = l
    BY <2>4, <2>5, EntriesAre
  <2> QED
    BY <1>2, <2>3, <2>4, <2>6
<1>3. ~(m < n) /\ ~(n < m)
  BY <1>1, <1>2
<1> QED
  BY <1>3

\* One flow changes units as it changes equity.
LEMMA FlowScales ==
    ASSUME NEW r, Reduced(r), r[1] > 0, NEW E \in Nat, E > 0, NEW A \in Int,
           NEW t, t = Plus(r, Over(<<A, 1>>, Over(<<E, 1>>, r)))
    PROVE  Reduced(t) /\ t[1] * r[2] * E = r[1] * t[2] * (E + A)
<1>1. PICK u \in Nat \ {0}, v \in Nat \ {0} : u = r[1] /\ v = r[2]
  BY DEF Reduced
<1>2. PICK nav : nav = Over(<<E, 1>>, r)
  OBVIOUS
<1>3. Reduced(nav) /\ nav[1] * (1 * u) = (E * v) * nav[2]
  <2>1. PICK e : e = <<E, 1>>
    OBVIOUS
  <2>2. Reduced(e) /\ e[1] = E /\ e[2] = 1 /\ nav = Over(e, r)
    BY <1>2, <2>1, WholeIsReduced
  <2>3. Reduced(nav) /\ nav[1] * (e[2] * r[1]) = (e[1] * r[2]) * nav[2]
    BY ONLY <2>2, Reduced(r), r[1] > 0, OverIs
  <2> QED
    BY <1>1, <2>2, <2>3
<1>4. PICK x \in Int, y \in Nat \ {0} : x = nav[1] /\ y = nav[2]
  BY <1>3 DEF Reduced
<1>5. x * u = E * v * y
  BY <1>1, <1>3, <1>4
<1>6. x > 0
  <2>1. E * v * y > 0
    <3>1. E * v > 0
      BY <1>1
    <3> QED
      BY <1>1, <1>4, <3>1
  <2> QED
    BY <1>1, <1>4, <1>5, <2>1
<1>7. PICK q : q = Over(<<A, 1>>, nav)
  OBVIOUS
<1>8. Reduced(q) /\ q[1] * (1 * x) = (A * y) * q[2]
  <2>1. PICK e : e = <<A, 1>>
    OBVIOUS
  <2>2. Reduced(e) /\ e[1] = A /\ e[2] = 1 /\ q = Over(e, nav) /\ Reduced(nav) /\ nav[1] > 0
    BY <1>3, <1>4, <1>6, <1>7, <2>1, WholeIsReduced
  <2>3. Reduced(q) /\ q[1] * (e[2] * nav[1]) = (e[1] * nav[2]) * q[2]
    BY ONLY <2>2, OverIs
  <2> QED
    BY <1>4, <2>2, <2>3
<1>9. PICK s \in Int, w \in Nat \ {0} : s = q[1] /\ w = q[2]
  BY <1>8 DEF Reduced
<1>10. s * x = A * y * w
  BY <1>4, <1>8, <1>9
<1>11. Reduced(t) /\ t[1] * (v * w) = (u * w + s * v) * t[2]
  <2>1. t = Plus(r, q)
    BY <1>2, <1>7
  <2>2. Reduced(t) /\ t[1] * (r[2] * q[2]) = (r[1] * q[2] + q[1] * r[2]) * t[2]
    BY ONLY <1>8, <2>1, Reduced(r), PlusIs
  <2> QED
    BY <1>1, <1>9, <2>2
<1>12. PICK a \in Int, b \in Nat \ {0} : a = t[1] /\ b = t[2]
  BY <1>11 DEF Reduced
<1>13. a * (v * w) = (u * w + s * v) * b
  BY <1>11, <1>12
<1>14. s * E * v = A * w * u
  <2>1. (s * E * v) * y = (A * w * u) * y
    <3>1. (s * E * v) * y = s * (E * v * y)
      BY <1>1, <1>4, <1>9
    <3>2. s * (E * v * y) = s * (x * u)
      BY <1>5
    <3>3. s * (x * u) = (s * x) * u
      BY <1>1, <1>4, <1>9
    <3>4. (s * x) * u = (A * y * w) * u
      BY <1>10
    <3>5. (A * y * w) * u = (A * w * u) * y
      BY <1>1, <1>4, <1>9
    <3> QED
      BY <3>1, <3>2, <3>3, <3>4, <3>5
  <2>2. PICK m \in Int, n \in Int : m = s * E * v /\ n = A * w * u
    BY <1>1, <1>9
  <2>3. m * y = n * y
    BY <2>1, <2>2
  <2>4. m = n
    BY ONLY <1>4, <2>3, m \in Int, n \in Int, y \in Nat \ {0}
  <2> QED
    BY <2>2, <2>4
<1>15. a * v * E = u * b * (E + A)
  <2>1. (a * v * E) * w = (u * b * (E + A)) * w
    <3>1. (a * v * E) * w = (a * (v * w)) * E
      BY <1>1, <1>9, <1>12
    <3>2. (a * (v * w)) * E = ((u * w + s * v) * b) * E
      BY <1>13
    <3>3. ((u * w + s * v) * b) * E = (u * w * E + s * E * v) * b
      <4>1. PICK m \in Int, n \in Int : m = u * w /\ n = s * v
        BY <1>1, <1>9
      <4>2. ((m + n) * b) * E = (m * E + n * E) * b
        BY <1>12
      <4>3. n * E = s * E * v
        BY <1>1, <1>9, <4>1
      <4> QED
        BY <4>1, <4>2, <4>3
    <3>4. (u * w * E + s * E * v) * b = (u * w * E + A * w * u) * b
      BY <1>14
    <3>5. (u * w * E + A * w * u) * b = (u * b * (E + A)) * w
      BY <1>1, <1>9, <1>12
    <3> QED
      BY <3>1, <3>2, <3>3, <3>4, <3>5
  <2>2. PICK m \in Int, n \in Int : m = a * v * E /\ n = u * b * (E + A)
    BY <1>1, <1>12
  <2>3. m * w = n * w
    BY <2>1, <2>2
  <2>4. m = n
    BY ONLY <1>9, <2>3, m \in Int, n \in Int, w \in Nat \ {0}
  <2> QED
    BY <2>2, <2>4
<1> QED
  BY <1>1, <1>11, <1>12, <1>15

\* Scaling equal ratios alike leaves them equal.
LEMMA ScaledAlike ==
    ASSUME NEW a \in Int, NEW b \in Nat \ {0}, NEW c \in Int, NEW d \in Nat \ {0},
           NEW x \in Int, NEW y \in Nat \ {0}, NEW z \in Int, NEW w \in Nat \ {0},
           NEW E \in Nat \ {0}, NEW F \in Int,
           a * d = c * b, x * b * E = a * y * F, z * d * E = c * w * F
    PROVE  x * w = z * y
<1>1. (x * w) * (b * d * E) = (z * y) * (b * d * E)
  <2>1. (x * w) * (b * d * E) = (x * b * E) * (w * d)
    OBVIOUS
  <2>2. (x * b * E) * (w * d) = (a * y * F) * (w * d)
    OBVIOUS
  <2>3. (a * y * F) * (w * d) = (a * d) * (y * w * F)
    OBVIOUS
  <2>4. (a * d) * (y * w * F) = (c * b) * (y * w * F)
    OBVIOUS
  <2>5. (c * b) * (y * w * F) = (c * w * F) * (b * y)
    OBVIOUS
  <2>6. (c * w * F) * (b * y) = (z * d * E) * (b * y)
    OBVIOUS
  <2>7. (z * d * E) * (b * y) = (z * y) * (b * d * E)
    OBVIOUS
  <2> QED
    BY <2>1, <2>2, <2>3, <2>4, <2>5, <2>6, <2>7
<1>2. PICK m \in Int, n \in Int, k \in Int : m = x * w /\ n = z * y /\ k = b * d * E
  OBVIOUS
<1>3. k > 0
  <2>1. b * d > 0
    OBVIOUS
  <2> QED
    BY <1>2, <2>1
<1>4. m * k = n * k
  BY <1>1, <1>2
<1>5. m = n
  BY ONLY <1>3, <1>4, m \in Int, n \in Int, k \in Int
<1> QED
  BY <1>2, <1>5

\* What all the entries of a transfer are worth, in one flow.
LEMMA FlowOfTransfer ==
    ASSUME PendingOK, MarketOK, NEW k \in DOMAIN pending, NEW f, f.keys = Entries(k), f.at = k
    PROVE  FlowAmount(f) = AmountOf(k) /\ AmountOf(k) \in Int
<1>1. PICK c1 \in Int, c2 \in Int, q1 \in Int, q2 \in Int :
          pending[k].cash = <<c1, c2>> /\ pending[k].shares = <<q1, q2>>
  BY DEF PendingOK
<1>2. PICK p \in Int : p = account.price
  BY DEF MarketOK
<1>3. /\ pending[k].cash[1] = c1 /\ pending[k].cash[2] = c2
      /\ pending[k].shares[1] = q1 /\ pending[k].shares[2] = q2
  BY <1>1
<1>4. AmountOf(k) = c1 + c2 + (q1 + q2) * p
  BY <1>2, <1>3 DEF AmountOf, Both
<1>5. PICK of : of = [a \in Accounts |-> IF <<f.at, a>> \notin f.keys THEN 0
                                         ELSE pending[f.at].cash[a]
                                                  + pending[f.at].shares[a] * account.price]
  OBVIOUS
<1>6. FlowAmount(f) = of[1] + of[2]
  BY <1>5 DEF FlowAmount, Accounts
<1>7. \A a \in Accounts : <<k, a>> \in Entries(k) <=> pending[k].cash[a] # 0 \/ pending[k].shares[a] # 0
  BY DEF Entries
<1>8. of[1] = c1 + q1 * p
  <2>1. 1 \in Accounts
    BY DEF Accounts
  <2>2. <<k, 1>> \in f.keys <=> c1 # 0 \/ q1 # 0
    BY <1>3, <1>7, <2>1
  <2>3. of[1] = IF <<k, 1>> \notin f.keys THEN 0 ELSE c1 + q1 * p
    BY <1>2, <1>3, <1>5, <2>1
  <2> QED
    BY <2>2, <2>3
<1>9. of[2] = c2 + q2 * p
  <2>1. 2 \in Accounts
    BY DEF Accounts
  <2>2. <<k, 2>> \in f.keys <=> c2 # 0 \/ q2 # 0
    BY <1>3, <1>7, <2>1
  <2>3. of[2] = IF <<k, 2>> \notin f.keys THEN 0 ELSE c2 + q2 * p
    BY <1>2, <1>3, <1>5, <2>1
  <2> QED
    BY <2>2, <2>3
<1>10. c1 + q1 * p + (c2 + q2 * p) = c1 + c2 + (q1 + q2) * p
  OBVIOUS
<1>11. c1 + c2 + (q1 + q2) * p \in Int
  OBVIOUS
<1> QED
  BY <1>4, <1>6, <1>8, <1>9, <1>10, <1>11

\* Accepted flows that cover what is pending are the pending transfers in
\* order, each whole, by itself and valued at the snapshot before it.
LEMMA FlowsAreTransfers ==
    ASSUME PendingOK, NEW flows, Declared(flows), FlowsCover(flows),
           NEW N \in Nat, N = Len(flows), NEW h, h[0] = FirstFlow(flows),
           \A k \in 1 .. N : Accepted(h[k - 1], flows[k], h[k])
    PROVE  /\ N = Len(pending)
           /\ \A k \in 1 .. N :
                 /\ flows[k].keys = Entries(k) /\ flows[k].at = k
                 /\ flows[k].before = pending[k].last /\ Usable(k)
<1>1. PICK M \in Nat : M = Len(pending) /\ DOMAIN pending = 1 .. M
  BY Indices DEF PendingOK
<1>2. PICK S \in Nat : S = Len(snaps) /\ DOMAIN snaps = 1 .. S
  BY Indices DEF PendingOK
<1>3. DOMAIN flows = 1 .. N
  BY DEF Declared
<1>4. ASSUME NEW k \in 1 .. N
      PROVE  /\ flows[k].at \in 1 .. M /\ flows[k].keys # {}
             /\ flows[k].keys \subseteq Entries(flows[k].at)
             /\ flows[k].before = pending[flows[k].at].last
             /\ TransferKeys(flows[k].at - 1) = h[k - 1].keys
             /\ h[k].keys = h[k - 1].keys \cup flows[k].keys
  <2>1. PICK f : f = flows[k]
    OBVIOUS
  <2>2. FlowOK(f)
    BY <1>3, <2>1 DEF Declared
  <2>3. /\ f.keys \subseteq TransferKeys(M) /\ f.keys # {}
        /\ f.at \in 1 .. M /\ f.before \in 1 .. S
    BY <1>1, <1>2, <2>2 DEF FlowOK
  <2>4. /\ FlowInSequence(h[k - 1], f) /\ FlowValued(f)
        /\ h[k].keys = h[k - 1].keys \cup f.keys
    BY <2>1 DEF Accepted
  <2>5. f.keys \subseteq Entries(f.at)
    <3> SUFFICES ASSUME NEW key \in f.keys PROVE key \in Entries(f.at)
      OBVIOUS
    <3>1. PICK l \in 1 .. M : key \in Entries(l)
      BY <2>3 DEF TransferKeys
    <3>2. key[1] = l
      BY <1>1, <3>1, EntriesAre
    <3>3. key[1] = f.at
      BY <2>4 DEF FlowValued
    <3> QED
      BY <3>1, <3>2, <3>3
  <2>6. pending[f.at].last \in 1 .. S /\ snaps[pending[f.at].last].moved = f.at - 1
    BY <1>1, <1>2, <2>3 DEF PendingOK
  <2>7. f.before = pending[f.at].last
    BY <2>3, <2>4, <2>6 DEF FlowInSequence
  <2>8. TransferKeys(f.at - 1) = h[k - 1].keys
    BY <2>4, <2>6, <2>7 DEF FlowInSequence
  <2> QED
    BY <2>1, <2>3, <2>4, <2>5, <2>7, <2>8
<1>5. UNION {flows[i].keys : i \in 1 .. N} = TransferKeys(M)
  BY <1>1, <1>3 DEF FlowsCover
<1>6. \A i, j \in 1 .. N : i < j => flows[i].at < flows[j].at
  BY <1>3 DEF FlowsCover
<1>7. ASSUME NEW k \in 1 .. N PROVE flows[k].keys = Entries(flows[k].at)
  <2>1. flows[k].at \in 1 .. M /\ flows[k].keys \subseteq Entries(flows[k].at)
    BY <1>4
  <2>2. ASSUME NEW key \in Entries(flows[k].at) PROVE key \in flows[k].keys
    <3>1. key[1] = flows[k].at /\ key \in TransferKeys(M)
      BY <1>1, <2>1, EntriesAre
    <3>2. PICK j \in 1 .. N : key \in flows[j].keys
      BY <1>5, <3>1
    <3>3. flows[j].at \in 1 .. M /\ key \in Entries(flows[j].at)
      BY <1>4, <3>2
    <3>4. key[1] = flows[j].at
      BY <1>1, <3>3, EntriesAre
    <3>5. PICK x \in Nat : x = flows[j].at /\ x = flows[k].at
      BY <3>1, <3>3, <3>4
    <3>6. ~(j < k)
      <4>1. j < k => flows[j].at < flows[k].at
        BY <1>6
      <4> QED
        BY <3>5, <4>1
    <3>7. ~(k < j)
      <4>1. k < j => flows[k].at < flows[j].at
        BY <1>6
      <4> QED
        BY <3>5, <4>1
    <3>8. j = k
      BY <3>6, <3>7
    <3> QED
      BY <3>2, <3>8
  <2> QED
    BY <2>1, <2>2
<1> DEFINE Good(k) == h[k].keys = TransferKeys(k) /\ k <= M /\ (k > 0 => flows[k].at = k)
           D == {k \in 0 .. N : Good(k)}
<1>8. 0 \in D
  <2>1. h[0].keys = {}
    BY DEF FirstFlow
  <2>2. TransferKeys(0) = {}
    BY DEF TransferKeys
  <2>3. 0 \in 0 .. N /\ 0 <= M /\ ~(0 > 0)
    OBVIOUS
  <2> QED
    BY <2>1, <2>2, <2>3
<1>9. ASSUME NEW k \in 1 .. N, k - 1 \in D PROVE k \in D
  <2>1. PICK n \in Nat : n = k - 1 /\ n <= M /\ h[n].keys = TransferKeys(n)
    BY <1>9
  <2>2. PICK m \in Nat : m = flows[k].at - 1 /\ m <= M /\ TransferKeys(m) = h[n].keys
    BY <1>4, <2>1
  <2>3. m = n
    BY <1>1, <2>1, <2>2, KeysTell
  <2>4. flows[k].at = k /\ k <= M
    BY <1>4, <2>1, <2>2, <2>3
  <2>5. h[k].keys = TransferKeys(n) \cup Entries(k)
    BY <1>4, <1>7, <2>1, <2>4
  <2>6. TransferKeys(k) = TransferKeys(n) \cup Entries(k)
    <3>1. \A i : i \in 1 .. k <=> i \in 1 .. n \/ i = k
      BY <2>1
    <3> QED
      BY <3>1 DEF TransferKeys
  <2>7. k \in 0 .. N
    OBVIOUS
  <2> QED
    BY <2>4, <2>5, <2>6, <2>7
<1>10. \A k \in 0 .. N : k \in D
  <2> HIDE DEF D
  <2> QED
    BY <1>8, <1>9, StepsReach
<1>11. \A k \in 1 .. N : flows[k].at = k /\ k <= M
  <2> TAKE k \in 1 .. N
  <2>1. k \in 0 .. N /\ k > 0
    OBVIOUS
  <2> QED
    BY <1>10, <2>1
<1>12. N = M
  <2>1. TransferKeys(N) = TransferKeys(M)
    <3>1. \A k \in 1 .. N : flows[k].keys = Entries(k)
      BY <1>7, <1>11
    <3> QED
      BY <1>5, <3>1 DEF TransferKeys
  <2>2. N <= M
    <3>1. N \in 0 .. N
      OBVIOUS
    <3> QED
      BY <1>10, <3>1
  <2> QED
    BY <1>1, <2>1, <2>2, KeysTell
<1>13. ASSUME NEW k \in 1 .. N PROVE Usable(k)
  <2>1. PICK f : f = flows[k]
    OBVIOUS
  <2>2. f.keys = Entries(k) /\ f.before = pending[k].last
    BY <1>4, <1>7, <1>11, <2>1
  <2>3. FlowValued(f) /\ snaps[f.before].equity > 0
    BY <2>1 DEF Accepted
  <2>4. EquityBefore(k) > 0
    BY <2>2, <2>3 DEF EquityBefore
  <2>5. ASSUME pending[k].shares # Nothing PROVE k = Len(pending) /\ account.still
    <3>1. PICK q1 \in Int, q2 \in Int : pending[k].shares = <<q1, q2>>
      BY <1>1, <1>12 DEF PendingOK
    <3>2. q1 # 0 \/ q2 # 0
      BY <2>5, <3>1 DEF Nothing
    <3>3. pending[k].shares[1] = q1 /\ pending[k].shares[2] = q2
      BY <3>1
    <3>4. PICK a \in Accounts : pending[k].shares[a] # 0
      <4>1. 1 \in Accounts /\ 2 \in Accounts
        BY DEF Accounts
      <4> QED
        BY ONLY <3>2, <3>3, <4>1
    <3>5. PICK key : key = <<k, a>>
      OBVIOUS
    <3>6. key \in f.keys /\ key[1] = k /\ key[2] = a
      BY <2>2, <3>4, <3>5 DEF Entries
    <3> QED
      BY <2>3, <3>4, <3>6 DEF FlowValued
  <2> QED
    BY <2>4, <2>5 DEF Usable
<1> QED
  BY <1>1, <1>4, <1>7, <1>11, <1>12, <1>13

\* The units that accepted flows leave are those of one who saw each transfer.
LEMMA UnitsAccounted ==
    ASSUME UnitsInv, state.epoch > 0, NEW flows, Declared(flows),
           NEW acc, acc = AdjustedUnits(flows), acc.valid
    PROVE  acc.units = fair
<1>1. MarketOK /\ PendingOK
  BY DEF UnitsInv
<1>2. PICK N \in Nat : N = Len(flows) /\ DOMAIN flows = 1 .. N
  BY DEF Declared
<1>3. PICK h : /\ acc = h[N]
               /\ h[0] = FirstFlow(flows)
               /\ \A k \in 1 .. N : h[k] = FlowApplied(h[k - 1], flows[k])
  BY <1>2, FlowSteps
<1>4. \A k \in 1 .. N : FlowFields(h[k - 1]) =>
          FlowFields(h[k]) /\ (h[k].valid = TRUE => Accepted(h[k - 1], flows[k], h[k]))
  <2> TAKE k \in 1 .. N
  <2>1. PICK a : a = h[k - 1]
    OBVIOUS
  <2>2. PICK b : b = h[k]
    OBVIOUS
  <2>3. PICK f : f = flows[k]
    OBVIOUS
  <2>4. b = FlowApplied(a, f)
    BY <1>3, <2>1, <2>2, <2>3
  <2>5. FlowFields(a) => FlowFields(b) /\ (b.valid = TRUE => Accepted(a, f, b))
    BY ONLY <2>4, FlowAppliedIs
  <2> QED
    BY <2>1, <2>2, <2>3, <2>5
<1>5. \A k \in 0 .. N : FlowFields(h[k])
  <2> DEFINE D == {k \in 0 .. N : FlowFields(h[k])}
  <2>1. 0 \in D
    <3>1. h[0].valid = FlowsCover(flows) /\ FlowsCover(flows) \in BOOLEAN
      BY <1>3 DEF FirstFlow, FlowsCover
    <3>2. FlowFields(h[0])
      BY <1>3, <3>1 DEF FirstFlow, FlowFields
    <3> QED
      BY <3>2
  <2>2. ASSUME NEW k \in 1 .. N, k - 1 \in D PROVE k \in D
    <3>1. k \in 0 .. N
      OBVIOUS
    <3> QED
      BY <1>4, <2>2, <3>1
  <2>3. \A k \in 0 .. N : k \in D
    <3> HIDE DEF D
    <3> QED
      BY <2>1, <2>2, StepsReach
  <2> QED
    BY <2>3
<1>6. N \in 0 .. N /\ 0 \in 0 .. N
  OBVIOUS
<1>7. \A k \in 0 .. N : h[k].valid = TRUE
  <2> DEFINE D == {i \in 0 .. N : h[N - i].valid = TRUE}
  <2>1. 0 \in D
    BY <1>3, <1>5, <1>6 DEF FlowFields
  <2>2. ASSUME NEW i \in 1 .. N, i - 1 \in D PROVE i \in D
    <3>1. PICK k \in 1 .. N : k = N - (i - 1) /\ k - 1 = N - i
      OBVIOUS
    <3>2. h[k].valid = TRUE
      BY <2>2, <3>1
    <3>3. FlowFields(h[k - 1])
      BY <1>5
    <3>4. Accepted(h[k - 1], flows[k], h[k])
      BY <1>4, <3>2, <3>3
    <3>5. h[k - 1].valid = TRUE
      BY <3>4 DEF Accepted
    <3> QED
      BY <3>1, <3>5
  <2>3. \A i \in 0 .. N : i \in D
    <3> HIDE DEF D
    <3> QED
      BY <2>1, <2>2, StepsReach
  <2> TAKE k \in 0 .. N
  <2>4. N - k \in 0 .. N /\ N - (N - k) = k
    OBVIOUS
  <2> QED
    BY <2>3, <2>4
<1>8. \A k \in 1 .. N : Accepted(h[k - 1], flows[k], h[k])
  <2> TAKE k \in 1 .. N
  <2>1. k \in 0 .. N /\ k - 1 \in 0 .. N
    OBVIOUS
  <2> QED
    BY <1>4, <1>5, <1>7, <2>1
<1>9. FlowsCover(flows)
  BY <1>3, <1>6, <1>7 DEF FirstFlow
<1>10. /\ N = Len(pending)
       /\ \A k \in 1 .. N :
             /\ flows[k].keys = Entries(k) /\ flows[k].at = k
             /\ flows[k].before = pending[k].last /\ Usable(k)
  BY <1>1, <1>2, <1>3, <1>8, <1>9, FlowsAreTransfers
<1>11. DOMAIN pending = 1 .. N
  BY <1>1, <1>10, Indices DEF PendingOK
<1>12. PICK U : UnitsThrough(U)
  <2>1. \A k \in DOMAIN pending : Usable(k)
    BY <1>10, <1>11
  <2> QED
    BY <2>1 DEF UnitsInv
<1>13. \A k \in 0 .. N : Reduced(U[k])
  BY <1>10, <1>12 DEF UnitsThrough
<1> DEFINE D == {k \in 0 .. N : h[k].units = U[k]}
<1>14. 0 \in D
  <2>1. h[0].units = state.units
    BY <1>3 DEF FirstFlow
  <2>2. U[0] = state.units
    BY <1>12 DEF UnitsThrough
  <2> QED
    BY <1>6, <2>1, <2>2
<1>15. ASSUME NEW k \in 1 .. N, k - 1 \in D PROVE k \in D
  <2>1. k \in 0 .. N /\ k - 1 \in 0 .. N /\ k \in DOMAIN pending
    BY <1>11
  <2>2. PICK a : a = h[k - 1]
    OBVIOUS
  <2>3. PICK b : b = h[k]
    OBVIOUS
  <2>4. PICK f : f = flows[k]
    OBVIOUS
  <2>5. Accepted(a, f, b)
    BY <1>8, <2>2, <2>3, <2>4
  <2>6. f.keys = Entries(k) /\ f.at = k /\ f.before = pending[k].last /\ Usable(k)
    BY <1>10, <2>4
  <2>7. PICK r : r = U[k - 1]
    OBVIOUS
  <2>8. PICK u : u = U[k]
    OBVIOUS
  <2>9. PICK t : t = b.units
    OBVIOUS
  <2>10. a.units = r /\ Reduced(r) /\ Reduced(u)
    BY <1>13, <1>15, <2>1, <2>2, <2>7, <2>8
  <2>11. PICK E \in Nat \ {0} : E = EquityBefore(k)
    BY <1>1, <2>1, <2>6 DEF PendingOK, Usable
  <2>12. FlowAmount(f) = AmountOf(k) /\ AmountOf(k) \in Int
    BY <1>1, <2>1, <2>6, FlowOfTransfer
  <2>13. PICK A \in Int : A = AmountOf(k) /\ A = FlowAmount(f)
    BY <2>12
  <2>14. InProportion(r, u, E, A)
    BY <1>12, <2>1, <2>7, <2>8, <2>11, <2>13 DEF UnitsThrough
  <2>15. Reduced(t) /\ InProportion(r, t, E, A)
    <3>1. Less(Zero, r) /\ FlowReconciled(f)
      BY <2>5, <2>10 DEF Accepted
    <3>2. CASE f.kind = "INTERNAL"
      <4>1. t = r
        BY <2>5, <2>9, <2>10, <3>2 DEF Accepted
      <4>2. A = 0
        BY <2>13, <3>1, <3>2 DEF FlowReconciled
      <4>3. PICK p \in Int, q \in Nat \ {0} : p = r[1] /\ q = r[2]
        BY <2>10 DEF Reduced
      <4>4. p * q * E = p * q * (E + 0)
        OBVIOUS
      <4> QED
        BY <2>10, <4>1, <4>2, <4>3, <4>4 DEF InProportion
    <3>3. CASE f.kind # "INTERNAL"
      <4>1. snaps[f.before].equity = E
        BY <2>6, <2>11 DEF EquityBefore
      <4>2. t = Plus(r, Over(<<A, 1>>, Over(<<E, 1>>, r)))
        BY <2>5, <2>9, <2>10, <2>13, <3>3, <4>1 DEF Accepted
      <4>3. r[1] > 0
        <5>1. r[1] \in Int /\ r[2] \in Nat
          BY <2>10 DEF Reduced
        <5> QED
          BY <3>1, <5>1 DEF Less, Zero
      <4>4. E \in Nat /\ E > 0
        OBVIOUS
      <4>5. Reduced(t) /\ t[1] * r[2] * E = r[1] * t[2] * (E + A)
        BY <2>10, <4>2, <4>3, <4>4, FlowScales
      <4> QED
        BY <4>5 DEF InProportion
    <3> QED
      BY <3>2, <3>3
  <2>16. PICK x \in Int, y \in Nat \ {0} : x = t[1] /\ y = t[2]
    BY <2>15 DEF Reduced
  <2>17. PICK p \in Int, q \in Nat \ {0} : p = r[1] /\ q = r[2]
    BY <2>10 DEF Reduced
  <2>18. PICK z \in Int, w \in Nat \ {0} : z = u[1] /\ w = u[2]
    BY <2>10 DEF Reduced
  <2>19. PICK F \in Int : F = E + A
    OBVIOUS
  <2>20. x * q * E = p * y * F /\ z * q * E = p * w * F
    BY <2>14, <2>15, <2>16, <2>17, <2>18, <2>19 DEF InProportion
  <2>21. p * q = p * q
    OBVIOUS
  <2>22. x * w = z * y
    BY ONLY <2>20, <2>21, ScaledAlike, x \in Int, y \in Nat \ {0}, z \in Int, w \in Nat \ {0},
            p \in Int, q \in Nat \ {0}, E \in Nat \ {0}, F \in Int
  <2>23. t[1] * u[2] = u[1] * t[2]
    BY <2>16, <2>18, <2>22
  <2>24. t = u
    BY ONLY <2>10, <2>15, <2>23, ReducedSame
  <2> QED
    BY <2>1, <2>3, <2>8, <2>9, <2>24
<1>16. \A k \in 0 .. N : k \in D
  <2> HIDE DEF D
  <2> QED
    BY <1>14, <1>15, StepsReach
<1>17. h[N].units = U[N]
  BY <1>6, <1>16
<1>18. U[N] = fair
  BY <1>10, <1>12 DEF UnitsThrough
<1> QED
  BY <1>3, <1>17, <1>18

\* An accepted observation starts the next accounting at those units.
LEMMA ObserveCarries ==
    ASSUME DInv, UnitsInv, NEW flows \in Declarations, NEW acc, acc = AdjustedUnits(flows),
           NEW closes, NEW a, NEW session, NEW clear, NEW zero,
           Observe(closes, a, session, clear, zero, acc)
    PROVE  UnitsInv'
<1>1. /\ state.epoch > 0 /\ acc.valid /\ Accounted /\ fair' = fair
      /\ \E o : state' = ObservedState(closes, a, acc, o)
  BY DEF Observe
<1>2. PICK o : state' = ObservedState(closes, a, acc, o)
  BY <1>1
<1>3. PICK u : u = acc.units
  OBVIOUS
<1>4. state'.units = u
  <2>1. StateFields(state)
    BY <1>1, EpochIsOpen DEF StateOK
  <2> QED
    BY <1>2, <1>3, <2>1 DEF ObservedState, StateFields
<1>5. MarketOK /\ PendingOK /\ Reduced(fair)
  BY <1>1 DEF UnitsInv
<1>6. Declared(flows)
  BY <1>5, DeclarationsAre
<1>7. u = fair
  BY <1>1, <1>3, <1>6, UnitsAccounted
<1> QED
  BY <1>1, <1>4, <1>5, <1>7, AccountedCarries

\* Every step keeps the invariant.
LEMMA UnitsStepKeeps ==
    ASSUME DInv, UnitsInv, [EpochNext]_epochVars
    PROVE  UnitsInv'
<1>0. MarketOK
  BY DEF UnitsInv
<1>1. ASSUME NEW q \in {-1, 1}, Trade(q) PROVE UnitsInv'
  BY <1>1, TradeCarries
<1>2. ASSUME NEW p \in account.horizon.prices, CloseSession(p) PROVE UnitsInv'
  BY <1>2, CloseCarries
<1>3. CASE NextDay
  <2>1. /\ account' = [account EXCEPT !.day = @ + 1, !.phase = "open"]
        /\ snaps' = snaps /\ pending' = pending /\ fair' = fair /\ state' = state
    BY <1>3 DEF NextDay
  <2>2. /\ account'.shares = account.shares /\ account'.cash = account.cash
        /\ account'.price = account.price /\ account'.cost = account.cost
        /\ account'.still = account.still /\ account'.horizon = account.horizon
        /\ AccountFields(account')
    BY <1>0, <2>1 DEF MarketOK, AccountFields
  <2>3. MarketOK'
    BY <1>0, <2>2 DEF MarketOK, AccountFields
  <2> QED
    BY <2>1, <2>2, <2>3, MoneyStays
<1>4. ASSUME NEW m \in account.horizon.moves, Transfer(m.cash, m.shares) PROVE UnitsInv'
  <2>1. /\ {m.cash, m.shares} \subseteq Int \X Int /\ {m.cash, m.shares} # {<<0, 0>>}
    BY <1>0, MarketAssumption DEF MarketOK
  <2>2. m.cash \in Int \X Int /\ m.shares \in Int \X Int
    BY <2>1
  <2>3. m.cash # Nothing \/ m.shares # Nothing
    BY <2>1 DEF Nothing
  <2> QED
    BY <1>4, <2>2, <2>3, TransferCarries
<1>5. ASSUME account' = account, snaps' = snaps, pending' = pending, fair' = fair,
             state'.epoch > 0 => state.epoch > 0 /\ state'.units = state.units
      PROVE  UnitsInv'
  <2>1. MarketOK'
    BY <1>0, <1>5 DEF MarketOK, AccountFields
  <2> QED
    BY <1>5, <2>1, MoneyStays
<1>6. CASE ConfirmBudget
  BY <1>5, <1>6 DEF ConfirmBudget
<1>7. CASE UNCHANGED epochVars
  BY <1>5, <1>7 DEF epochVars
<1>8. ASSUME UnknownEvidence PROVE UnitsInv'
  <2>1. /\ state.epoch > 0 /\ state' = Retained
        /\ account' = account /\ snaps' = snaps /\ pending' = pending /\ fair' = fair
    BY <1>8 DEF UnknownEvidence
  <2>2. StateFields(state)
    BY <2>1, EpochIsOpen DEF StateOK
  <2>3. state'.units = state.units
    BY <2>1, <2>2 DEF Retained, StateFields
  <2> QED
    BY <1>5, <2>1, <2>3
<1>9. CASE ReauthorizeDenied
  BY <1>8, <1>9 DEF ReauthorizeDenied
<1>10. ASSUME NEW session, OpenEpoch(session) PROVE UnitsInv'
  <2>1. state' = NewEpoch(1, confirmed, session) /\ fair' = state'.units /\ Accounted
    BY <1>10 DEF OpenEpoch
  <2> QED
    BY <1>0, <2>1, NewEpochCarries
<1>11. ASSUME NEW session, Reauthorize(session) PROVE UnitsInv'
  <2>1. /\ state' = NewEpoch(state.epoch + 1, confirmed, session)
        /\ fair' = state'.units /\ Accounted
    BY <1>11 DEF Reauthorize
  <2> QED
    BY <1>0, <2>1, NewEpochCarries
<1>12. CASE state.epoch > 0 /\ \E acc \in {AdjustedUnits(flows) : flows \in Declarations},
             a \in {Capital(named) : named \in 1 .. confirmed} :
             /\ acc.valid
             /\ \E session \in Named, clear \in BOOLEAN,
                   zero \in {settled /\ account.shares = 0 : settled \in BOOLEAN} :
                   \E closes \in {Closes(op, zero) : op \in {"OBSERVE", "CLOSE"}} :
                      Observe(closes, a, session, clear, zero, acc)
  <2>1. PICK acc \in {AdjustedUnits(flows) : flows \in Declarations} :
           \E a, session, clear, zero, closes : Observe(closes, a, session, clear, zero, acc)
    BY Zenon, <1>12
  <2>2. PICK a, session, clear, zero, closes : Observe(closes, a, session, clear, zero, acc)
    BY <2>1
  <2>3. PICK flows \in Declarations : acc = AdjustedUnits(flows)
    OBVIOUS
  <2> QED
    BY <2>2, <2>3, ObserveCarries
<1> QED
  BY Zenon, <1>1, <1>2, <1>3, <1>4, <1>6, <1>7, <1>8, <1>9, <1>10, <1>11, <1>12 DEF EpochNext

\* Before the first epoch there is nothing to account for.
LEMMA UnitsInitHolds == EpochInit => UnitsInv
<1> SUFFICES ASSUME EpochInit PROVE UnitsInv
  OBVIOUS
<1>1. PICK h \in Horizons : \E p \in h.prices, c \in Costs[h.shares] :
         account = [cash |-> OpeningCash, shares |-> h.shares, price |-> p, cost |-> c,
                    day |-> 1, phase |-> "open", atClose |-> FALSE, still |-> TRUE,
                    lastStock |-> 0, stock |-> 0, traded |-> 0, moved |-> 0,
                    horizon |-> h]
  BY Zenon DEF EpochInit
<1>2. PICK p \in h.prices, c \in Costs[h.shares] :
         account = [cash |-> OpeningCash, shares |-> h.shares, price |-> p, cost |-> c,
                    day |-> 1, phase |-> "open", atClose |-> FALSE, still |-> TRUE,
                    lastStock |-> 0, stock |-> 0, traded |-> 0, moved |-> 0,
                    horizon |-> h]
  BY <1>1
<1>3. h.shares \in 0 .. MaxShares /\ p \in Int /\ c \in Int /\ OpeningCash \in Int
  BY MarketAssumption
<1>4. /\ account.horizon = h /\ account.shares = h.shares /\ account.cash = OpeningCash
      /\ account.price = p /\ account.cost = c /\ AccountFields(account)
  BY <1>2 DEF AccountFields
<1>5. MarketOK
  BY <1>3, <1>4 DEF MarketOK
<1>6. state = NoEpoch /\ fair = One
  BY DEF EpochInit
<1>7. Reduced(fair)
  BY <1>6, WholeIsReduced DEF One
<1>8. ~(state.epoch > 0)
  BY <1>6, NoEpochIsZero
<1> QED
  BY <1>5, <1>7, <1>8 DEF UnitsInv

\* Where no transfer is pending, the units are those of one who saw all.
LEMMA FairWhereAccounted == UnitsInv => UnitsAreFair
<1> SUFFICES ASSUME UnitsInv, state.epoch > 0, pending = <<>> PROVE state.units = fair
  BY DEF UnitsAreFair
<1>1. Len(pending) = 0 /\ DOMAIN pending = {}
  OBVIOUS
<1>2. PICK U : UnitsThrough(U)
  BY <1>1 DEF UnitsInv
<1> QED
  BY <1>1, <1>2 DEF UnitsThrough

(* For every market, cost of liquidation and sequence of transfers:        *)
(* wherever a declaration can value the pending transfers there are units  *)
(* through them, from the retained ones to those of one who saw every      *)
(* transfer, each transfer changing the units in the proportion of its     *)
(* amount to the net equity before it (modules/portfolio/                  *)
(* drawdown_flows.py).                                                     *)
THEOREM UnitsInvHolds == EpochSpec => []UnitsInv
<1>1. DInv /\ UnitsInv /\ [EpochNext]_epochVars => UnitsInv'
  BY UnitsStepKeeps
<1> QED
  BY <1>1, UnitsInitHolds, DrawdownInvariant, PTL DEF EpochSpec

(* For every market, cost, policy and bound: where the accounting is       *)
(* current, the units the code computed afterwards from declared flows     *)
(* (adjusted_units) are those of one who issued or cancelled units at the  *)
(* net value of a unit in the instant of each transfer, however transfers, *)
(* trades and closes were interleaved and whatever else was declared.      *)
THEOREM UnitsAreFairHolds == EpochSpec => []UnitsAreFair
BY UnitsInvHolds, FairWhereAccounted, PTL
==============================================================================
