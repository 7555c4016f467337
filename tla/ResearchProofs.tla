--------------------------- MODULE ResearchProofs ---------------------------
(***************************************************************************)
(* What ResearchJourney guarantees for every number of workers, members,   *)
(* stages, drafts, requests and faults.                                    *)
(*                                                                         *)
(* The argument. A Run disappears only while nobody is working, so what a  *)
(* worker has seen of a Run lasts as long as the worker does (Rely). A Run *)
(* that was observed and then lost is never created again: a worker may    *)
(* create a Run only after it found it unobserved, and nobody observes a   *)
(* Run that does not exist for the first time (Position). Hence the drafts *)
(* of observed members are fixed, a risk Run once observed binds them for  *)
(* ever (Handed), and there is one handoff and one verdict.                *)
(***************************************************************************)
EXTENDS ResearchJourney, TLAPS

-----------------------------------------------------------------------------
(* The inductive invariant *)

Last == IF command.mode = "legacy" THEN 1 ELSE Size

Present(r) == run[r].st # "absent"

\* The points of a request at which a worker is busy with one Run, and those
\* at which that Run is known to exist.
AtRun == {"probe", "reserve", "register", "create", "created", "observe", "resume", "drive",
          "ran", "converge", "missing"}
Holding == {"created", "observe", "resume", "drive", "ran", "converge"}
Resting == {"idle", "enter"}

\* Every member has succeeded, as this worker saw it.
Ready(w) == \A k \in Cohort : k \in DOMAIN job[w].res /\ job[w].res[k].st = "SUCCEEDED"

\* A worker visits the members in order, saves the scores, and goes on to the
\* risk Run of a complete cohort; the first member's failure ends it at once.
Shape(w) ==
    LET j == job[w] IN
    /\ j.i \in 1..(Last + 1)
    /\ j.pc \in Resting => j.i = 1 /\ j.res = <<>> /\ j.existed /\ ~j.rec
    /\ j.pc \in AtRun => /\ Len(j.res) = j.i - 1
                         /\ j.i > Last => Ready(w) /\ <<Primary, "RAW_SCORE">> \in rows
    /\ j.pc = "score" => j.i = Last + 1 /\ Len(j.res) = Last /\ Ready(w)
    /\ j.pc \in {"commit", "settle"} =>
         \/ j.i = 1 /\ Len(j.res) = 1 /\ j.res[1].st = "FAILED" /\ j.pc = "commit"
         \/ j.i = Last + 1 /\ Len(j.res) = Last /\ (RanRisk(w) => Ready(w))
    /\ j.pc = "settle" => Committable(w)

\* What a worker has collected is what the Runs say and has a history.
Collected(w) ==
    LET j == job[w] IN
    /\ \A k \in DOMAIN j.res :
         /\ k < j.i => Observed(Member(k))
         /\ j.res[k].st = "SUCCEEDED" =>
              /\ run[Member(k)].st = "SUCCEEDED"
              /\ run[Member(k)].out = j.res[k].draft
              /\ j.res[k].draft \in Drafts
    /\ j.i > 1 => Present(Primary)

\* A worker that recovers knows of an observed Run; an earlier build's case
\* is always recovered.
Recovers(w) ==
    job[w].pc \notin Resting =>
      /\ command.mode # "current" => job[w].rec
      /\ job[w].rec => \E r \in RunIds : <<r, "FRAMEWORK_RUN">> \in rows

\* The Run exists, or the host has observed it already, or it is the lost
\* first Run of a case that is being recovered.
Accounted(w) ==
    \/ Present(RunOf(w))
    \/ Observed(RunOf(w))
    \/ job[w].i = 1 /\ command.mode = "current" /\ job[w].rec

\* What a worker may rely on about the Run it is busy with.
Position(w) ==
    LET j == job[w]
        r == RunOf(w)
    IN
    /\ j.pc \in Holding => Present(r)
    /\ j.pc = "drive" => run[r].st = "RUNNING" /\ run[r].lease = w
    /\ j.pc = "ran" => /\ j.got[1] # "absent"
                       /\ j.got[1] \in Terminal => run[r].st = j.got[1] /\ run[r].out = j.got[2]
    /\ j.pc = "reserve" => MayCreate(w)
    /\ j.pc \in {"register", "create"} /\ j.allow /\ ~Present(r) =>
         ~Observed(r) /\ (j.i = 1 => ~j.rec)
    /\ j.pc = "create" => j.allow
    /\ j.pc = "missing" \/ (j.pc = "register" /\ ~j.allow) => Accounted(w)
    /\ j.pc \in {"commit", "settle"} =>
         /\ j.i = 1 => Accounted(w)
         /\ RanRisk(w) =>
              /\ Present(r) \/ Observed(r)
              /\ j.got[1] \in {"SUCCEEDED", "REJECTED"} =>
                   run[r].st = j.got[1] /\ run[r].out = j.got[2]

\* No observed risk Run has been lost.
NoLostRisk == \A h \in Handoffs : Observed(Risk(h)) => Present(Risk(h))

\* A worker that found a member missing either works on a cohort without an
\* observed risk Run, or will not complete the cohort.
Pending(w) ==
    LET j == job[w] IN
    /\ j.i \in Cohort
    /\ j.pc \in {"reserve", "register", "missing"}
    /\ j.pc = "register" => ~j.allow
    /\ ~Present(RunOf(w)) /\ Observed(RunOf(w))

Unlost(w) ==
    ~job[w].existed => \/ NoLostRisk
                       \/ Pending(w)
                       \/ \E k \in DOMAIN job[w].res : job[w].res[k].st = "FAILED"

\* While somebody works on a case whose Runs nobody had observed, an observed
\* Run implies that the first Run exists.
FirstRun ==
    (\E w \in Workers : job[w].pc \notin Resting /\ ~job[w].rec)
      /\ (\E r \in RunIds : <<r, "FRAMEWORK_RUN">> \in rows) => Present(Primary)

\* An observed risk Run binds the members' drafts.
Binds(h) ==
    /\ h \in [Cohort -> Drafts]
    /\ \A i \in Cohort : /\ Observed(Member(i))
                         /\ Present(Member(i)) => /\ run[Member(i)].st = "SUCCEEDED"
                                                  /\ run[Member(i)].out = h[i]
Handed == \A h \in Handoffs : Observed(Risk(h)) => Binds(h)

\* A risk Run ends with the verdict its status says.
RiskEndings ==
    \A h \in Handoffs :
        /\ run[Risk(h)].st = "SUCCEEDED" => run[Risk(h)].out = "ACCEPTED"
        /\ run[Risk(h)].st = "REJECTED" => run[Risk(h)].out = "REJECTED"

\* The committed outcome is the verdict of its risk Run.
Decided ==
    event # None =>
      /\ Observed(Risk(event.draft))
      /\ Present(Risk(event.draft)) =>
           run[Risk(event.draft)].st = IF event.disposition = "FROZEN" THEN "SUCCEEDED" ELSE "REJECTED"

Left == command.mode # "current" => Observed(Primary)

WorkerInv(w) == Shape(w) /\ Collected(w) /\ Recovers(w) /\ Position(w) /\ Unlost(w)

StoreInv == Left /\ FirstRun /\ Handed /\ OneHandoff /\ RiskEndings /\ Decided
            /\ ScoredBeforeRisk /\ EvidenceRestored

Inv == TypeOK /\ StoreInv /\ \A w \in Workers : WorkerInv(w)

-----------------------------------------------------------------------------
(* The Runs of a worker *)

\* The cohort is an interval that begins with the first member.
LEMMA CohortIs ==
    ASSUME TypeOK
    PROVE  Cohort = 1..Last /\ Last \in 1..Size /\ Size \in Nat \ {0}
<1>1. Size \in Nat \ {0}
  BY ConstantsAssumption
<1>2. CASE command.mode = "legacy"
  BY <1>1, <1>2 DEF Cohort, Last
<1>3. CASE command.mode # "legacy"
  BY <1>1, <1>3 DEF Cohort, Last
<1> QED
  BY <1>2, <1>3

\* Member and risk identities are Run identities, and differ.
LEMMA Identities ==
    /\ \A i \in 1..Size : Member(i) \in RunIds /\ ~IsRisk(Member(i)) /\ RunTag(Member(i)) = "FRAMEWORK_RUN"
    /\ \A h \in Handoffs : Risk(h) \in RunIds /\ IsRisk(Risk(h)) /\ RunTag(Risk(h)) = "RISK_FRAMEWORK_RUN"
    /\ \A i, k \in 1..Size : Member(i) = Member(k) => i = k
    /\ \A h, k \in Handoffs : Risk(h) = Risk(k) => h = k
    /\ \A r \in RunIds : \/ ~IsRisk(r) /\ \E i \in 1..Size : r = Member(i)
                         \/ IsRisk(r) /\ \E h \in Handoffs : r = Risk(h)
    /\ \A i \in 1..Size, h \in Handoffs : Member(i) # Risk(h)
    /\ Primary = Member(1)
    /\ Primary \in RunIds /\ 1 \in 1..Size
    /\ \A r \in RunIds : RunTag(r) \in {"FRAMEWORK_RUN", "RISK_FRAMEWORK_RUN"}
<1>1. 1 \in 1..Size
  BY ConstantsAssumption
<1> QED
  BY <1>1 DEF Member, Risk, RunIds, IsRisk, RunTag, Primary

\* A handoff of the case's own cohort is a handoff.
LEMMA CohortHandoffs ==
    ASSUME TypeOK
    PROVE  [Cohort -> Drafts] \subseteq Handoffs
BY CohortIs DEF Cohort, Handoffs, Last

\* The Run a worker is busy with, by its place in the cohort.
LEMMA RunOfIs ==
    ASSUME TypeOK, NEW w \in Workers, Shape(w), Collected(w)
    PROVE  /\ job[w].i <= Last => /\ RunOf(w) = Member(job[w].i)
                                  /\ RunOf(w) \in RunIds
                                  /\ ~IsRisk(RunOf(w))
                                  /\ job[w].i \in Cohort
                                  /\ job[w].i \in 1..Size
           /\ job[w].i > Last => job[w].i = Last + 1 /\ job[w].i \notin Cohort
           /\ job[w].i > Last /\ Ready(w) => /\ RunOf(w) = Risk(HandoffOf(w))
                                             /\ HandoffOf(w) \in [Cohort -> Drafts]
                                             /\ HandoffOf(w) \in Handoffs
                                             /\ RunOf(w) \in RunIds
                                             /\ IsRisk(RunOf(w))
<1>1. Cohort = 1..Last /\ Last \in 1..Size /\ Size \in Nat \ {0} /\ job[w].i \in 1..(Last + 1)
  BY CohortIs DEF Shape
<1>2. CASE job[w].i <= Last
  BY <1>1, <1>2, Identities DEF RunOf
<1>3. CASE job[w].i > Last
  <2>1. job[w].i = Last + 1 /\ job[w].i \notin Cohort
    BY <1>1, <1>3
  <2>2. ASSUME Ready(w) PROVE HandoffOf(w) \in [Cohort -> Drafts]
    <3>1. \A k \in Cohort : job[w].res[k].draft \in Drafts
      BY <2>2 DEF Ready, Collected
    <3> QED
      BY <3>1 DEF HandoffOf
  <2> QED
    BY <1>1, <1>3, <2>1, <2>2, CohortHandoffs, Identities DEF RunOf
<1> QED
  BY <1>1, <1>2, <1>3

\* The results a worker has collected are of members.
LEMMA ResultsOf ==
    ASSUME TypeOK, NEW w \in Workers, Shape(w)
    PROVE  /\ job[w].res \in Seq(Results) /\ Len(job[w].res) <= Last
           /\ \A k \in DOMAIN job[w].res : k \in 1..Last /\ k \in Cohort /\ Member(k) \in RunIds
<1>1. job[w].res \in Seq(Results) /\ job[w].pc \in Pcs
  BY DEF TypeOK, Jobs
<1>2. Cohort = 1..Last /\ Last \in 1..Size /\ Size \in Nat \ {0}
  BY CohortIs
<1>3. Len(job[w].res) <= Last
  <2>1. CASE job[w].pc \in Resting
    BY <1>2, <2>1 DEF Shape
  <2>2. CASE job[w].pc \in AtRun \cup {"score"}
    BY <1>1, <1>2, <2>2 DEF Shape
  <2>3. CASE job[w].pc \in {"commit", "settle"}
    <3>1. Len(job[w].res) = 1 \/ Len(job[w].res) = Last
      BY <2>3 DEF Shape
    <3>2. Last \in Nat /\ 1 <= Last
      BY <1>2
    <3>3. CASE Len(job[w].res) = 1
      BY <3>2, <3>3
    <3>4. CASE Len(job[w].res) = Last
      BY <3>2, <3>4
    <3> QED
      BY <3>1, <3>3, <3>4
  <2> QED
    BY <1>1, <2>1, <2>2, <2>3 DEF Pcs, Resting, AtRun
<1>4. DOMAIN job[w].res = 1..Len(job[w].res) /\ Len(job[w].res) \in Nat
  BY <1>1
<1>5. \A k \in DOMAIN job[w].res : k \in 1..Last /\ k \in 1..Size
  BY <1>2, <1>3, <1>4
<1> QED
  BY <1>1, <1>2, <1>3, <1>5, Identities

-----------------------------------------------------------------------------
(* What a step may do to the two stores *)

KnownRun == \E r \in RunIds : <<r, "FRAMEWORK_RUN">> \in rows

\* Nothing a busy worker relies on is taken back.
Grows ==
    /\ command' = command
    /\ rows \subseteq rows'
    /\ \A r \in RunIds :
         /\ Present(r) => Present(r)'
         /\ run[r].st \in Terminal => run'[r].st = run[r].st /\ run'[r].out = run[r].out
         /\ ~Present(r) /\ Present(r)' => ~Observed(r)
         /\ Observed(r)' => \/ Observed(r)
                            \/ Present(r)
                            \/ r = Primary /\ command.mode = "current" /\ KnownRun

\* A worker leaves the others' jobs and leases alone.
Frame(w) ==
    \A v \in Workers \ {w} :
        /\ job'[v] = job[v]
        /\ \A r \in RunIds : run[r].st = "RUNNING" /\ run[r].lease = v
                               => run'[r].st = "RUNNING" /\ run'[r].lease = v

\* Whether a case is being recovered is decided on entry.
Recalls(w) ==
    job'[w].pc \notin Resting =>
        \/ job[w].pc \notin Resting /\ job'[w].rec = job[w].rec
        \/ rows' = rows /\ run' = run /\ (job'[w].rec \/ ~KnownRun)

\* The Run whose history may be written: one that exists, with everything
\* that came before it.
Due(r) ==
    \/ /\ Present(r)
       /\ Present(Primary)
       /\ \A h \in Handoffs : r = Risk(h) =>
            \E w \in Workers : job[w].i > Last /\ Ready(w) /\ h = HandoffOf(w)
    \/ r = Primary /\ command.mode = "current" /\ KnownRun

\* Rows are added, and those about Runs are due.
Learns ==
    /\ command' = command
    /\ run' = run
    /\ rows \subseteq rows'
    /\ \A r \in RunIds : Observed(r)' => Observed(r) \/ Due(r)
    /\ KnownRun' => KnownRun \/ Present(Primary)

\* Writing what is due keeps the stores sound.
LEMMA LearnsIsSound ==
    ASSUME Inv, NEW w \in Workers, Learns, Frame(w), Recalls(w),
           event' = event \/ Decided', EvidenceRestored'
    PROVE  Grows /\ StoreInv'
<1> USE DEF Learns
<1>0. TypeOK /\ StoreInv /\ \A v \in Workers : Shape(v) /\ Collected(v)
  BY DEF Inv, WorkerInv
<1>1. Grows
  BY DEF Grows, Due, Present
<1>2. Left'
  BY <1>0, Identities DEF StoreInv, Left, Observed, Primary, Member, RunTag, IsRisk
<1>3. FirstRun'
  <2>1. SUFFICES ASSUME NEW v \in Workers, job'[v].pc \notin Resting, ~job'[v].rec, KnownRun'
                 PROVE  Present(Primary)
    BY DEF FirstRun, KnownRun, Present, Primary, Member
  <2>2. CASE v # w
    BY <2>1, <2>2, <1>0 DEF Frame, StoreInv, FirstRun, KnownRun
  <2>3. CASE v = w
    BY <2>1, <2>3, <1>0 DEF Recalls, StoreInv, FirstRun, KnownRun
  <2> QED
    BY <2>2, <2>3
<1>4. ASSUME NEW h \in Handoffs, Observed(Risk(h))', ~Observed(Risk(h))
      PROVE  /\ \A i \in Cohort : /\ Observed(Member(i)) /\ Present(Member(i))
                                  /\ run[Member(i)].st = "SUCCEEDED" /\ run[Member(i)].out = h[i]
             /\ h \in [Cohort -> Drafts]
  <2>1. Risk(h) \in RunIds /\ Risk(h) # Primary
    BY Identities
  <2>2. PICK v \in Workers : job[v].i > Last /\ Ready(v) /\ h = HandoffOf(v)
    BY <1>4, <2>1 DEF Due
  <2>3. h \in [Cohort -> Drafts] /\ job[v].i = Last + 1
    BY <1>0, <2>2, RunOfIs
  <2>4. \A i \in Cohort : i < job[v].i /\ h[i] = job[v].res[i].draft
    BY <1>0, <2>2, <2>3, CohortIs DEF HandoffOf
  <2> QED
    BY <1>0, <2>2, <2>3, <2>4 DEF Collected, Ready, Present
<1>5. \A h \in Handoffs : Observed(Risk(h))' => Binds(h)'
  <2> SUFFICES ASSUME NEW h \in Handoffs, Observed(Risk(h))' PROVE Binds(h)'
    OBVIOUS
  <2>1. Binds(h)
    BY <1>0, <1>4 DEF StoreInv, Handed, Binds
  <2> QED
    BY <2>1 DEF Binds, Cohort, Observed, Present
<1>6. OneHandoff'
  <2>1. SUFFICES ASSUME NEW h \in Handoffs, NEW k \in Handoffs,
                        Observed(Risk(h))', Observed(Risk(k))'
                 PROVE  h = k
    BY DEF OneHandoff
  <2>2. CASE Observed(Risk(h)) /\ Observed(Risk(k))
    BY <1>0, <2>2 DEF StoreInv, OneHandoff
  <2>3. /\ Observed(Risk(h)) => Binds(h)
        /\ Observed(Risk(k)) => Binds(k)
    BY <1>0 DEF StoreInv, Handed
  <2>4. CASE ~Observed(Risk(h)) \/ ~Observed(Risk(k))
    <3>1. h \in [Cohort -> Drafts] /\ k \in [Cohort -> Drafts]
      BY <1>4, <2>1, <2>3 DEF Binds
    <3>2. \A i \in Cohort : h[i] = k[i]
      BY <1>4, <2>1, <2>3, <2>4 DEF Binds
    <3> QED
      BY <3>1, <3>2
  <2> QED
    BY <2>2, <2>4
<1>7. RiskEndings'
  BY <1>0 DEF StoreInv, RiskEndings
<1>8. Decided'
  BY <1>0 DEF StoreInv, Decided, Observed, Present
<1>9. ScoredBeforeRisk'
  BY <1>0 DEF StoreInv, ScoredBeforeRisk
<1> QED
  BY <1>1, <1>2, <1>3, <1>5, <1>6, <1>7, <1>8, <1>9 DEF StoreInv, Handed

\* A change to one Run that is not over: it stays in being, and comes into
\* being only unobserved.
Changes(r, x) ==
    /\ command' = command
    /\ rows' = rows
    /\ event' = event
    /\ run' = [run EXCEPT ![r] = x]
    /\ x.st # "absent"
    /\ run[r].st \notin Terminal
    /\ ~Present(r) => ~Observed(r) /\ (IsRisk(r) => <<Primary, "RAW_SCORE">> \in rows)
    /\ IsRisk(r) => /\ x.st = "SUCCEEDED" => x.out = "ACCEPTED"
                    /\ x.st = "REJECTED" => x.out = "REJECTED"

\* Such a change keeps the stores sound.
LEMMA ChangesIsSound ==
    ASSUME Inv, NEW w \in Workers, NEW r \in RunIds, NEW x \in Runs, Changes(r, x),
           Frame(w), job[w].pc \notin Resting, job'[w].rec = job[w].rec
    PROVE  Grows /\ StoreInv' /\ run' \in [RunIds -> Runs]
<1>0. TypeOK /\ StoreInv
  BY DEF Inv
<1>1. /\ run' \in [RunIds -> Runs]
      /\ run'[r] = x
      /\ \A q \in RunIds \ {r} : run'[q] = run[q]
  BY <1>0 DEF TypeOK, Changes
<1>2. Grows
  <2>1. \A q \in RunIds : Observed(q)' <=> Observed(q)
    BY DEF Changes, Observed
  <2>2. \A q \in RunIds : Present(q) => Present(q)'
    BY <1>1 DEF Changes, Present
  <2>3. \A q \in RunIds : ~Present(q) /\ Present(q)' => ~Observed(q)
    BY <1>1 DEF Changes, Present
  <2>4. \A q \in RunIds : run[q].st \in Terminal => run'[q].st = run[q].st /\ run'[q].out = run[q].out
    BY <1>1 DEF Changes
  <2> QED
    BY <2>1, <2>2, <2>3, <2>4 DEF Grows, Changes
<1>3. Left'
  BY <1>0 DEF StoreInv, Left, Observed, Changes, Primary, Member, RunTag, IsRisk
<1>4. FirstRun'
  <2>1. SUFFICES ASSUME NEW v \in Workers, job'[v].pc \notin Resting, ~job'[v].rec, KnownRun'
                 PROVE  Present(Primary)'
    BY DEF FirstRun, KnownRun
  <2>2. KnownRun
    BY <2>1 DEF KnownRun, Changes
  <2>3. job[v].pc \notin Resting /\ ~job[v].rec
    BY <2>1 DEF Frame
  <2>4. Present(Primary)
    BY <1>0, <2>2, <2>3 DEF StoreInv, FirstRun, KnownRun
  <2> QED
    BY <1>2, <2>4, Identities DEF Grows
<1>5. ASSUME NEW q \in RunIds, Observed(q), run[q].st \in Terminal \cup {"absent"}
      PROVE  run'[q] = run[q]
  BY <1>1, <1>5 DEF Changes, Present
<1>6. Handed'
  <2>1. SUFFICES ASSUME NEW h \in Handoffs, Observed(Risk(h))' PROVE Binds(h)'
    BY DEF Handed
  <2>2. Binds(h)
    BY <1>0, <2>1 DEF StoreInv, Handed, Observed, Changes
  <2>3. \A i \in Cohort : run'[Member(i)] = run[Member(i)]
    BY <1>0, <1>5, <2>2, CohortIs, Identities DEF Binds, Present, Terminal
  <2> QED
    BY <2>2, <2>3 DEF Binds, Observed, Present, Changes, Cohort
<1>7. OneHandoff'
  BY <1>0 DEF StoreInv, OneHandoff, Observed, Changes
<1>8. RiskEndings'
  <2>1. SUFFICES ASSUME NEW h \in Handoffs
                 PROVE  /\ run'[Risk(h)].st = "SUCCEEDED" => run'[Risk(h)].out = "ACCEPTED"
                        /\ run'[Risk(h)].st = "REJECTED" => run'[Risk(h)].out = "REJECTED"
    BY DEF RiskEndings
  <2> QED
    BY <1>0, <1>1, Identities DEF StoreInv, RiskEndings, Changes
<1>9. Decided'
  <2>1. SUFFICES ASSUME event # None PROVE Decided'
    BY DEF Decided, Changes
  <2>2. Risk(event.draft) \in RunIds
    BY <1>0, <2>1, Identities DEF TypeOK, ResearchOutcomes
  <2>3. run'[Risk(event.draft)] = run[Risk(event.draft)]
    BY <1>0, <1>5, <2>1, <2>2 DEF StoreInv, Decided, Present, Terminal
  <2> QED
    BY <1>0, <2>1, <2>3 DEF StoreInv, Decided, Observed, Present, Changes
<1>10. ScoredBeforeRisk'
  <2>1. SUFFICES ASSUME NEW q \in RunIds, IsRisk(q), run'[q].st # "absent"
                 PROVE  <<Primary, "RAW_SCORE">> \in rows
    BY DEF ScoredBeforeRisk, Changes, Primary, Member
  <2> QED
    BY <1>0, <1>1, <2>1 DEF StoreInv, ScoredBeforeRisk, Changes, Present
<1>11. EvidenceRestored'
  BY <1>0 DEF StoreInv, EvidenceRestored, Changes, Observed, Saved, Primary, Member
<1> QED
  BY <1>1, <1>2, <1>3, <1>4, <1>6, <1>7, <1>8, <1>9, <1>10, <1>11 DEF StoreInv

-----------------------------------------------------------------------------
(* What the others rely on *)

\* What a worker has collected stays true.
LEMMA CollectedKept ==
    ASSUME TypeOK, Grows, NEW v \in Workers, Shape(v), Collected(v),
           job'[v].i = job[v].i, job'[v].res = job[v].res
    PROVE  Collected(v)'
<1>1. SUFFICES ASSUME NEW k \in DOMAIN job[v].res
      PROVE  /\ k < job[v].i => Observed(Member(k))'
             /\ job[v].res[k].st = "SUCCEEDED" =>
                  /\ run'[Member(k)].st = "SUCCEEDED"
                  /\ run'[Member(k)].out = job[v].res[k].draft
                  /\ job[v].res[k].draft \in Drafts
  BY Identities DEF Collected, Grows
<1>2. Member(k) \in RunIds
  BY ResultsOf
<1> QED
  BY <1>2 DEF Collected, Grows, Terminal, Observed

\* An observed risk Run that exists goes on existing.
LEMMA NoLostRiskKept ==
    ASSUME Grows, NoLostRisk
    PROVE  NoLostRisk'
BY Identities DEF NoLostRisk, Grows

\* A worker that stays where it is still has what it relied on.
LEMMA OthersRely ==
    ASSUME Inv, Grows, NEW v \in Workers, job'[v] = job[v],
           \A r \in RunIds : run[r].st = "RUNNING" /\ run[r].lease = v
                               => run'[r].st = "RUNNING" /\ run'[r].lease = v
    PROVE  WorkerInv(v)'
<1>0. TypeOK /\ StoreInv /\ Shape(v) /\ Collected(v) /\ Recovers(v) /\ Position(v) /\ Unlost(v)
  BY DEF Inv, WorkerInv
<1>1. /\ Cohort' = Cohort /\ Last' = Last
      /\ Cohort = 1..Last /\ Last \in 1..Size
  BY CohortIs, <1>0 DEF Grows, Cohort, Last
<1>2. /\ \A r \in RunIds : Observed(r) => Observed(r)'
      /\ \A x : x \in rows => x \in rows'
  BY DEF Grows, Observed
<1>3. RunOf(v)' = RunOf(v) /\ Ready(v)' = Ready(v) /\ RanRisk(v)' = RanRisk(v)
      /\ Committable(v)' = Committable(v) /\ HandoffOf(v)' = HandoffOf(v)
  BY <1>1 DEF RunOf, HandoffOf, Ready, RanRisk, Committable, VetoValid
<1>4. Shape(v)'
  BY <1>0, <1>1, <1>2, <1>3 DEF Shape, Primary, Member
<1>5. Collected(v)'
  BY <1>0, CollectedKept
<1>6. Recovers(v)'
  BY <1>0, <1>2 DEF Recovers, Grows
<1>7. RunOf(v) \in RunIds \/ job[v].pc \in Resting \cup {"score"}
      \/ (job[v].pc \in {"commit", "settle"} /\ job[v].i > Last /\ ~RanRisk(v))
  <2>1. CASE job[v].i <= Last
    BY <1>0, <2>1, RunOfIs
  <2>2. CASE job[v].i > Last
    <3>1. job[v].pc \in Pcs
      BY <1>0 DEF TypeOK, Jobs
    <3>2. job[v].pc \in AtRun \/ (RanRisk(v) /\ job[v].pc \in {"commit", "settle"}) => Ready(v)
      BY <1>0, <1>1, <2>2 DEF Shape
    <3>3. Ready(v) => RunOf(v) \in RunIds
      BY <1>0, <2>2, RunOfIs
    <3> QED
      BY <2>2, <3>1, <3>2, <3>3 DEF Pcs, Resting, AtRun
  <2> QED
    BY <1>0, <1>1, <2>1, <2>2 DEF Shape
<1>8. PICK r : r = RunOf(v)
  OBVIOUS
<1>9. job[v].i = 1 => r = Primary /\ r \in RunIds
  BY <1>0, <1>1, <1>8, RunOfIs, Identities, CohortIs
<1>10. CASE r \in RunIds
  <2>1. MayCreate(v)' = MayCreate(v)
    BY <1>1, <1>3 DEF MayCreate, Grows, IsRisk
  <2>2. Accounted(v) => Accounted(v)'
    BY <1>3, <1>8, <1>10 DEF Accounted, Grows, Observed, Present
  <2>3. job[v].pc \in {"register", "create"} /\ job[v].allow /\ run'[r].st = "absent" =>
          <<r, RunTag(r)>> \notin rows' /\ (job[v].i = 1 => ~job[v].rec)
    <3>1. SUFFICES ASSUME job[v].pc \in {"register", "create"}, job[v].allow,
                          run'[r].st = "absent"
                   PROVE  <<r, RunTag(r)>> \notin rows' /\ (job[v].i = 1 => ~job[v].rec)
      OBVIOUS
    <3>2. ~Present(r)
      BY <3>1, <1>10 DEF Grows, Present
    <3>3. ~Observed(r) /\ (job[v].i = 1 => ~job[v].rec)
      BY <1>0, <1>8, <3>1, <3>2 DEF Position
    <3>4. ~(r = Primary /\ command.mode = "current" /\ KnownRun)
      <4>1. SUFFICES ASSUME r = Primary, KnownRun PROVE FALSE
        OBVIOUS
      <4>2. job[v].i = 1
        <5>1. job[v].i <= Last
          <6>1. job[v].i > Last => Ready(v)
            BY <1>0, <3>1 DEF Shape, AtRun
          <6>2. job[v].i > Last => IsRisk(r)
            BY <1>0, <1>8, <6>1, RunOfIs
          <6> QED
            BY <1>0, <1>1, <4>1, <6>2, Identities DEF Shape
        <5>2. job[v].i \in 1..Size /\ r = Member(job[v].i)
          BY <1>0, <1>8, <5>1, RunOfIs
        <5> QED
          BY <4>1, <5>2, Identities
      <4> QED
        BY <1>0, <3>1, <3>2, <3>3, <4>1, <4>2 DEF StoreInv, FirstRun, KnownRun, Resting
    <3> QED
      BY <1>10, <3>2, <3>3, <3>4 DEF Grows, Observed
  <2>4. job[v].pc = "drive" => run'[r].st = "RUNNING" /\ run'[r].lease = v
    BY <1>0, <1>8, <1>10 DEF Position
  <2>5. /\ Present(r) => run'[r].st # "absent"
        /\ Present(r) \/ Observed(r) => run'[r].st # "absent" \/ <<r, RunTag(r)>> \in rows'
        /\ \A st \in Terminal : run[r].st = st =>
             run'[r].st = run[r].st /\ run'[r].out = run[r].out
    BY <1>10 DEF Grows, Observed, Present
  <2> HIDE <1>8
  <2>6. RunOf(v) = r /\ RunOf(v)' = r
    BY <1>3, <1>8
  <2>7. Position(v)'
    BY <1>0, <1>3, <2>1, <2>2, <2>3, <2>4, <2>5, <2>6 DEF Position, Present, Observed, Terminal
  <2>8. Pending(v) => Pending(v)'
    BY <1>1, <1>3, <1>10, <2>6 DEF Pending, Grows, Present, Observed
  <2>9. NoLostRisk => NoLostRisk'
    BY Identities DEF NoLostRisk, Grows
  <2>10. Unlost(v)'
    BY <1>0, <2>8, <2>9 DEF Unlost
  <2> QED
    BY <1>4, <1>5, <1>6, <2>7, <2>10 DEF WorkerInv
<1>11. CASE r \notin RunIds
  <2>1. ~Pending(v)
    BY <1>7, <1>8, <1>11 DEF Pending, Resting
  <2>2. NoLostRisk => NoLostRisk'
    BY Identities DEF NoLostRisk, Grows
  <2>3. Unlost(v)'
    BY <1>0, <2>1, <2>2 DEF Unlost
  <2>4. Position(v)'
    BY <1>1, <1>3, <1>7, <1>8, <1>9, <1>11 DEF Position, Holding, Resting
  <2> QED
    BY <1>4, <1>5, <1>6, <2>3, <2>4 DEF WorkerInv
<1> QED
  BY <1>10, <1>11

-----------------------------------------------------------------------------
(* What a worker relies on after its own step *)

\* What a step of a worker must come to.
Good(w) == Grows /\ StoreInv' /\ TypeOK' /\ WorkerInv(w)' /\ Frame(w)

\* One worker's job changes.
JobIs(w, j) == job' = [job EXCEPT ![w] = j]

\* Giving one worker another job leaves the other jobs alone.
LEMMA JobIsType ==
    ASSUME TypeOK, NEW w \in Workers, NEW j \in Jobs, JobIs(w, j)
    PROVE  job' \in [Workers -> Jobs] /\ job'[w] = j /\ \A v \in Workers \ {w} : job'[v] = job[v]
BY DEF TypeOK, JobIs

\* A job is a record of these fields.
LEMMA JobFields ==
    ASSUME TypeOK, NEW w \in Workers
    PROVE  /\ job[w] \in Jobs /\ job[w].pc \in Pcs /\ job[w].i \in 1..(Size + 1)
           /\ job[w].rec \in BOOLEAN /\ job[w].allow \in BOOLEAN /\ job[w].existed \in BOOLEAN
           /\ job[w].got \in Statuses \X Outputs /\ job[w].res \in Seq(Results)
BY DEF TypeOK, Jobs

\* Moving on changes the program counter only.
LEMMA GotoMoves ==
    ASSUME TypeOK, NEW w \in Workers, NEW l \in Pcs, Goto(w, l)
    PROVE  /\ job' \in [Workers -> Jobs]
           /\ \A v \in Workers \ {w} : job'[v] = job[v]
           /\ job'[w].pc = l /\ job'[w].i = job[w].i /\ job'[w].rec = job[w].rec
           /\ job'[w].allow = job[w].allow /\ job'[w].existed = job[w].existed
           /\ job'[w].got = job[w].got /\ job'[w].res = job[w].res
<1>1. job[w] \in Jobs /\ job \in [Workers -> Jobs]
  BY DEF TypeOK
<1>2. [job[w] EXCEPT !.pc = l] \in Jobs
  BY <1>1 DEF Jobs
<1>3. job' = [job EXCEPT ![w] = [job[w] EXCEPT !.pc = l]]
  BY DEF Goto
<1> QED
  BY <1>1, <1>2, <1>3 DEF Jobs

\* An idle worker relies on nothing.
LEMMA ReturnRelies ==
    ASSUME TypeOK, NEW w \in Workers, Return(w), command' = command
    PROVE  /\ job' \in [Workers -> Jobs]
           /\ \A v \in Workers \ {w} : job'[v] = job[v]
           /\ job'[w] = NoJob
           /\ WorkerInv(w)'
<1>1. NoJob \in Jobs
  <2>1. <<>> \in Seq(Results)
    OBVIOUS
  <2>2. 1 \in 1..(Size + 1)
    BY ConstantsAssumption
  <2> QED
    BY <2>1, <2>2 DEF NoJob, Jobs, Pcs, Statuses, Terminal, Outputs
<1>2. /\ job' \in [Workers -> Jobs]
      /\ \A v \in Workers \ {w} : job'[v] = job[v]
      /\ job'[w] = NoJob
  BY <1>1, JobIsType DEF Return, JobIs
<1>3. Last' \in 1..Size /\ Size \in Nat
  <2>1. Last' = Last
    BY DEF Last
  <2> QED
    BY <2>1, CohortIs
<1>4. Shape(w)'
  <2>1. 1 \in 1..(Last' + 1)
    <3>1. \A n \in 1..Size : 1 \in 1..(n + 1)
      BY <1>3
    <3> QED
      BY <1>3, <3>1
  <2>2. /\ job'[w].i = 1 /\ job'[w].pc = "idle" /\ job'[w].res = <<>>
        /\ job'[w].existed /\ ~job'[w].rec
    BY <1>2 DEF NoJob
  <2> QED
    BY <2>1, <2>2 DEF Shape, AtRun
<1>5. Collected(w)'
  BY <1>2 DEF Collected, NoJob
<1>6. Recovers(w)' /\ Position(w)' /\ Unlost(w)'
  BY <1>2 DEF Recovers, Position, Unlost, NoJob, Resting, Holding
<1> QED
  BY <1>2, <1>4, <1>5, <1>6 DEF WorkerInv

\* The derived notions that depend only on a worker's place and results.
LEMMA SamePlace ==
    ASSUME command' = command, NEW w \in Workers,
           job'[w].i = job[w].i, job'[w].res = job[w].res
    PROVE  /\ Last' = Last /\ Cohort' = Cohort /\ RunOf(w)' = RunOf(w)
           /\ Ready(w)' = Ready(w) /\ HandoffOf(w)' = HandoffOf(w)
BY DEF Last, Cohort, RunOf, HandoffOf, Ready

\* The same for a worker that goes on with the same results; what its place
\* needs of the Run is left to each step.
LEMMA GoesOn ==
    ASSUME Inv, Grows, NEW w \in Workers, job[w].pc \in AtRun, job'[w].pc \in AtRun,
           job'[w].i = job[w].i, job'[w].res = job[w].res, job'[w].rec = job[w].rec
    PROVE  Shape(w)' /\ Collected(w)' /\ Recovers(w)'
<1>1. TypeOK /\ Shape(w) /\ Collected(w) /\ Recovers(w)
  BY DEF Inv, WorkerInv
<1>2. /\ Last' = Last /\ Cohort' = Cohort /\ RunOf(w)' = RunOf(w)
      /\ Ready(w)' = Ready(w) /\ HandoffOf(w)' = HandoffOf(w)
  BY SamePlace DEF Grows
<1>3. Shape(w)'
  BY <1>1, <1>2 DEF Shape, AtRun, Resting, Grows, Primary, Member
<1>4. Collected(w)'
  BY <1>1, CollectedKept
<1>5. Recovers(w)'
  BY <1>1 DEF Recovers, Grows, AtRun, Resting
<1> QED
  BY <1>3, <1>4, <1>5

\* A member's result is one of three, and a success carries a draft.
LEMMA MemberResultIs ==
    ASSUME NEW st, NEW out, NEW m, m = MemberResult(st, out)
    PROVE  /\ m \in Results
           /\ m.st = "SUCCEEDED" => st = "SUCCEEDED" /\ m.draft = out /\ out \in Drafts
           /\ st = "FAILED" => m.st = "FAILED"
BY DEF MemberResult, Results, DraftValid

\* A cohort that neither failed nor waits has succeeded.
LEMMA AggregateIs ==
    ASSUME NEW s \in Seq(Results), Aggregate(s) = "SUCCEEDED"
    PROVE  \A k \in DOMAIN s : s[k].st = "SUCCEEDED"
<1>1. \A k \in DOMAIN s : s[k] \in Results
  OBVIOUS
<1> QED
  BY <1>1 DEF Aggregate, Results

\* What a worker collects may be collected: a final status is the Run's, its
\* history is written, a Run that was given up failed.
Collectable(w, r, st, out) ==
    /\ st \in Statuses \ {"absent"}
    /\ out \in Outputs
    /\ st \in {"SUCCEEDED", "REJECTED"} => run'[r].st = st /\ run'[r].out = out
    /\ job[w].i <= Last => Observed(r)' /\ Present(Primary)'
    /\ job[w].i > Last => Present(r)' \/ Observed(r)'
    /\ job[w].pc = "missing" => st = "FAILED"

\* The risk Run is collected.
LEMMA CollectsRisk ==
    ASSUME Inv, Grows, NEW w \in Workers, job[w].pc \in AtRun, job[w].i > Last,
           NEW r, r = RunOf(w),
           NEW st, NEW out, Collectable(w, r, st, out), Collect(w, st, out)
    PROVE  /\ job' \in [Workers -> Jobs] /\ \A v \in Workers \ {w} : job'[v] = job[v]
           /\ WorkerInv(w)' /\ job'[w].rec = job[w].rec
<1>0. TypeOK /\ Shape(w) /\ Collected(w) /\ Recovers(w) /\ Unlost(w)
  BY DEF Inv, WorkerInv
<1>1. /\ Ready(w) /\ IsRisk(RunOf(w)) /\ RunOf(w) \in RunIds
      /\ job[w].i = Last + 1 /\ job[w].i \notin Cohort /\ Len(job[w].res) = job[w].i - 1
  BY <1>0, RunOfIs DEF Shape
<1> DEFINE j == [job[w] EXCEPT !.pc = "commit", !.got = <<st, out>>]
<1>2. j \in Jobs
  BY <1>0, JobFields DEF Jobs, Pcs, Collectable
<1>3. JobIs(w, j)
  BY <1>1 DEF Collect, JobIs
<1>4. job' \in [Workers -> Jobs] /\ job'[w] = j /\ \A v \in Workers \ {w} : job'[v] = job[v]
  BY <1>0, <1>2, <1>3, JobIsType
<1>5. /\ job'[w].pc = "commit" /\ job'[w].got = <<st, out>> /\ job'[w].i = job[w].i
      /\ job'[w].res = job[w].res /\ job'[w].rec = job[w].rec /\ job'[w].existed = job[w].existed
  BY <1>0, <1>4, JobFields DEF Jobs
<1> HIDE DEF j
<1>6. /\ Last' = Last /\ Cohort' = Cohort /\ RunOf(w)' = RunOf(w)
      /\ Ready(w)' = Ready(w) /\ HandoffOf(w)' = HandoffOf(w)
  BY <1>5, SamePlace DEF Grows
<1>7. Last \in 1..Size /\ Size \in Nat
  BY <1>0, CohortIs
<1>8. Shape(w)'
  <2>1. Len(job[w].res) = Last
    BY <1>1, <1>7
  <2> QED
    BY <1>0, <1>1, <1>5, <1>6, <2>1 DEF Shape, AtRun, Resting
<1>9. Collected(w)'
  BY <1>0, <1>5, CollectedKept
<1>10. Recovers(w)'
  BY <1>0, <1>5 DEF Recovers, Grows, AtRun, Resting
<1>11. Position(w)'
  <2>1. job[w].i # 1
    BY <1>1, <1>7
  <2>3. /\ run'[r].st # "absent" \/ <<r, RunTag(r)>> \in rows'
        /\ st \in {"SUCCEEDED", "REJECTED"} => run'[r].st = st /\ run'[r].out = out
    BY DEF Collectable, Present, Observed
  <2>4. RunOf(w)' = r
    BY <1>6
  <2>5. job'[w].got[1] = st /\ job'[w].got[2] = out
    BY <1>5
  <2> QED
    BY <1>5, <2>1, <2>3, <2>4, <2>5 DEF Position, Present, Observed, Holding
<1>12. Unlost(w)'
  BY <1>0, <1>1, <1>5, NoLostRiskKept DEF Unlost, Pending
<1> QED
  BY <1>4, <1>5, <1>8, <1>9, <1>10, <1>11, <1>12 DEF WorkerInv

\* The record a collected member leaves.
LEMMA JobUpdate ==
    ASSUME NEW a \in Jobs, NEW s \in Seq(Results), NEW n \in 1..(Size + 1),
           NEW g \in Statuses \X Outputs, NEW l \in Pcs
    PROVE  [a EXCEPT !.res = s, !.i = n, !.got = g, !.pc = l] \in Jobs
BY DEF Jobs

\* A member is collected, and the next one, the scores or the commit follow.
LEMMA CollectsMember ==
    ASSUME Inv, Grows, NEW w \in Workers, job[w].pc \in Holding \cup {"missing"}, job[w].i <= Last,
           NEW r, r = RunOf(w),
           NEW st, NEW out, Collectable(w, r, st, out), Collect(w, st, out)
    PROVE  /\ job' \in [Workers -> Jobs] /\ \A v \in Workers \ {w} : job'[v] = job[v]
           /\ WorkerInv(w)' /\ job'[w].rec = job[w].rec
<1>0. /\ TypeOK /\ Shape(w) /\ Collected(w) /\ Recovers(w) /\ Unlost(w)
      /\ job[w].pc \in AtRun
  BY DEF Inv, WorkerInv, Holding, AtRun
<1>1. /\ ~IsRisk(RunOf(w)) /\ RunOf(w) = Member(job[w].i)
      /\ job[w].i \in 1..Size /\ Len(job[w].res) = job[w].i - 1
  BY <1>0, RunOfIs DEF Shape
<1>2. /\ Cohort = 1..Last /\ Last \in 1..Size /\ Size \in Nat /\ job[w].i \in 1..Last
      /\ Cohort' = Cohort /\ Last' = Last
  BY <1>0, <1>1, CohortIs DEF Grows, Cohort, Last
<1> DEFINE m == MemberResult(st, out)
           s == Append(job[w].res, m)
           l == IF job[w].i + 1 \in Cohort THEN "probe"
                ELSE IF Aggregate(s) = "SUCCEEDED" /\ ~RawScoreFails THEN "score" ELSE "commit"
           j == [job[w] EXCEPT !.res = s, !.i = job[w].i + 1, !.got = <<"absent", None>>, !.pc = l]
<1>3. m \in Results
  BY MemberResultIs
<1>4. /\ s \in Seq(Results) /\ Len(s) = job[w].i
      /\ \A k \in DOMAIN s : \/ k = job[w].i /\ s[k] = m
                             \/ k \in DOMAIN job[w].res /\ s[k] = job[w].res[k]
      /\ s[job[w].i] = m
      /\ DOMAIN s = 1..job[w].i
      /\ \A k \in DOMAIN job[w].res : k \in DOMAIN s /\ s[k] = job[w].res[k]
  <2>1. job[w].res \in Seq(Results)
    BY <1>0, JobFields
  <2> QED
    BY <1>1, <1>3, <2>1
<1>5. j \in Jobs
  <2>1. job[w].i + 1 \in 1..(Size + 1)
    BY <1>1, <1>2
  <2>2. l \in Pcs /\ <<"absent", None>> \in Statuses \X Outputs
    BY DEF Pcs, Statuses, Outputs
  <2> HIDE DEF s, l
  <2> QED
    BY <1>0, <1>4, <2>1, <2>2, JobFields, JobUpdate
<1>6. JobIs(w, j)
  BY <1>1, Zenon DEF Collect, JobIs
<1>7. job' \in [Workers -> Jobs] /\ job'[w] = j /\ \A v \in Workers \ {w} : job'[v] = job[v]
  BY <1>0, <1>5, <1>6, JobIsType
<1>8. /\ job'[w].pc = l /\ job'[w].got = <<"absent", None>> /\ job'[w].i = job[w].i + 1
      /\ job'[w].res = s /\ job'[w].rec = job[w].rec /\ job'[w].existed = job[w].existed
  <2> HIDE DEF s, l
  <2> QED
    BY <1>0, <1>7, JobFields DEF Jobs
<1> HIDE DEF j
<1>9. job[w].i + 1 \in Cohort <=> job[w].i < Last
  BY <1>2
<1>10. Shape(w)'
  <2>1. job'[w].i \in 1..(Last' + 1)
    BY <1>2, <1>8
  <2>2. CASE job[w].i < Last
    <3>1. job'[w].pc = "probe" /\ Len(job'[w].res) = job'[w].i - 1 /\ ~(job'[w].i > Last')
      BY <1>2, <1>4, <1>8, <1>9, <2>2
    <3> QED
      BY <2>1, <3>1 DEF Shape, Resting
  <2>3. CASE job[w].i = Last
    <3>1. job'[w].i = Last' + 1 /\ Len(job'[w].res) = Last' /\ job'[w].pc \in {"score", "commit"}
      BY <1>2, <1>4, <1>8, <1>9, <2>3
    <3>2. job'[w].pc = "score" => Ready(w)'
      <4>1. job'[w].pc = "score" => Aggregate(s) = "SUCCEEDED"
        BY <1>8, <1>9, <1>2, <2>3
      <4>2. job'[w].pc = "score" => \A k \in DOMAIN s : s[k].st = "SUCCEEDED"
        BY <1>4, <4>1, AggregateIs
      <4>3. Cohort' = DOMAIN s
        BY <1>2, <1>4, <2>3
      <4> QED
        BY <1>8, <4>2, <4>3 DEF Ready
    <3>3. ~RanRisk(w)'
      BY <1>8 DEF RanRisk
    <3> QED
      BY <2>1, <3>1, <3>2, <3>3 DEF Shape, Resting, AtRun
  <2> QED
    BY <1>2, <2>2, <2>3
<1>11. Collected(w)'
  <2>0. /\ \A k \in DOMAIN job[w].res : k < job[w].i /\ Member(k) \in RunIds
        /\ \A k \in DOMAIN s : k < job[w].i + 1
        /\ Member(job[w].i) \in RunIds
    BY <1>0, <1>1, <1>2, <1>4, ResultsOf, RunOfIs
  <2>1. ASSUME NEW k \in DOMAIN s
        PROVE  /\ Observed(Member(k))'
               /\ s[k].st = "SUCCEEDED" => /\ run'[Member(k)].st = "SUCCEEDED"
                                           /\ run'[Member(k)].out = s[k].draft
                                           /\ s[k].draft \in Drafts
    <3>1. CASE k = job[w].i /\ s[k] = m
      <4>1. m.st = "SUCCEEDED" => st = "SUCCEEDED" /\ m.draft = out /\ out \in Drafts
        BY MemberResultIs
      <4>2. r = Member(k)
        BY <1>1, <3>1
      <4>3. <<r, RunTag(r)>> \in rows' /\ (st = "SUCCEEDED" => run'[r].st = st /\ run'[r].out = out)
        BY DEF Collectable, Observed
      <4> HIDE DEF m, s
      <4>4. s[k].st = "SUCCEEDED" => /\ run'[Member(k)].st = "SUCCEEDED"
                                     /\ run'[Member(k)].out = s[k].draft
                                     /\ s[k].draft \in Drafts
        BY <3>1, <4>1, <4>2, <4>3
      <4>5. Observed(Member(k))'
        BY <4>2, <4>3 DEF Observed
      <4> QED
        BY <4>4, <4>5
    <3>2. CASE k \in DOMAIN job[w].res /\ s[k] = job[w].res[k]
      <4> HIDE DEF s
      <4>1. Member(k) \in RunIds /\ k < job[w].i
        BY <2>0, <3>2
      <4>2. /\ Observed(Member(k))
            /\ s[k].st = "SUCCEEDED" => /\ run[Member(k)].st = "SUCCEEDED"
                                        /\ run[Member(k)].out = s[k].draft
                                        /\ s[k].draft \in Drafts
        BY <1>0, <3>2, <4>1 DEF Collected
      <4> QED
        BY <4>1, <4>2 DEF Grows, Terminal, Observed
    <3> QED
      BY <1>4, <3>1, <3>2
  <2>2. Present(Primary)'
    BY DEF Collectable
  <2> HIDE DEF s
  <2> QED
    BY <1>8, <2>1, <2>2 DEF Collected
<1>12. Recovers(w)'
  BY <1>0, <1>8 DEF Recovers, Grows, AtRun, Resting
<1>13. Position(w)'
  <2>1. job'[w].i # 1
    BY <1>2, <1>8
  <2>2. ~RanRisk(w)' /\ job'[w].pc \in {"probe", "score", "commit"}
    BY <1>8 DEF RanRisk
  <2> QED
    BY <2>1, <2>2 DEF Position, Holding
<1>14. Unlost(w)'
  <2>1. SUFFICES ASSUME ~job[w].existed, ~NoLostRisk
                 PROVE  \E k \in DOMAIN s : s[k].st = "FAILED"
    BY <1>8, NoLostRiskKept DEF Unlost
  <2>2. CASE Pending(w)
    <3>1. job[w].pc = "missing"
      BY <2>2 DEF Pending, Holding
    <3> QED
      BY <1>1, <1>4, <3>1, MemberResultIs DEF Collectable
  <2>3. CASE \E k \in DOMAIN job[w].res : job[w].res[k].st = "FAILED"
    BY <1>0, <1>1, <1>4, <2>3, JobFields
  <2> QED
    BY <1>0, <2>1, <2>2, <2>3 DEF Unlost
<1> QED
  BY <1>7, <1>8, <1>10, <1>11, <1>12, <1>13, <1>14 DEF WorkerInv

-----------------------------------------------------------------------------
(* The steps of a worker, one by one *)

\* Writing history takes nothing back.
LEMMA LearnsGrows ==
    ASSUME Learns
    PROVE  Grows
BY DEF Learns, Grows, Due, Present

\* Leaving the stores alone is learning nothing.
LEMMA Nothing ==
    ASSUME Inv, UNCHANGED <<command, run, rows>>
    PROVE  Learns /\ Grows /\ EvidenceRestored'
<1>1. Learns
  BY DEF Learns, Observed, KnownRun
<1>2. EvidenceRestored'
  BY DEF Inv, StoreInv, EvidenceRestored, Observed, Saved, Primary, Member
<1> QED
  BY <1>1, <1>2, LearnsGrows

\* Rows that settle nothing keep restored evidence restored.
LEMMA EvidenceKept ==
    ASSUME EvidenceRestored, rows \subseteq rows',
           <<Primary, "COMMIT_FAILED">> \in rows' => <<Primary, "COMMIT_FAILED">> \in rows
    PROVE  EvidenceRestored'
BY DEF EvidenceRestored, Observed, Saved, Primary, Member

\* The Run a worker is at has an identity.
LEMMA RunOfType ==
    ASSUME Inv, NEW w \in Workers, job[w].pc \in AtRun
    PROVE  /\ RunOf(w) \in RunIds
           /\ IsRisk(RunOf(w)) <=> job[w].i > Last
           /\ job[w].i > Last => Ready(w) /\ RunOf(w) = Risk(HandoffOf(w)) /\ HandoffOf(w) \in Handoffs
           /\ job[w].i <= Last => RunOf(w) = Member(job[w].i) /\ job[w].i \in 1..Size
           /\ job[w].i = 1 <=> RunOf(w) = Primary
           /\ Last \in 1..Size /\ Size \in Nat /\ job[w].i \in 1..(Last + 1)
<1>0. TypeOK /\ Shape(w) /\ Collected(w)
  BY DEF Inv, WorkerInv
<1>1. Last \in 1..Size /\ Size \in Nat /\ job[w].i \in 1..(Last + 1)
  BY <1>0, CohortIs DEF Shape
<1>2. job[w].i > Last => Ready(w)
  BY <1>0 DEF Shape
<1>3. CASE job[w].i > Last
  <2>1. /\ RunOf(w) \in RunIds /\ IsRisk(RunOf(w)) /\ Ready(w)
        /\ RunOf(w) = Risk(HandoffOf(w)) /\ HandoffOf(w) \in Handoffs
    BY <1>0, <1>2, <1>3, RunOfIs
  <2>2. RunOf(w) # Primary /\ job[w].i # 1
    BY <1>1, <1>3, <2>1, Identities
  <2> QED
    BY <1>1, <1>3, <2>1, <2>2
<1>4. CASE job[w].i <= Last
  <2>1. /\ RunOf(w) \in RunIds /\ ~IsRisk(RunOf(w)) /\ RunOf(w) = Member(job[w].i)
        /\ job[w].i \in 1..Size
    BY <1>0, <1>4, RunOfIs
  <2>2. job[w].i = 1 <=> RunOf(w) = Primary
    BY <2>1, Identities
  <2> QED
    BY <1>1, <1>4, <2>1, <2>2
<1> QED
  BY <1>1, <1>3, <1>4

\* Writing the history of the Run a worker is at, once it exists.
LEMMA ObservesRun ==
    ASSUME Inv, NEW w \in Workers, job[w].pc \in AtRun, NEW r, r = RunOf(w), Present(r),
           rows' = rows \cup {<<r, RunTag(r)>>}, UNCHANGED <<command, run>>
    PROVE  /\ Learns /\ Grows /\ rows' \subseteq RunIds \X Tags /\ EvidenceRestored'
           /\ Observed(r)' /\ Present(r)' /\ Present(Primary)'
<1>0. TypeOK /\ StoreInv /\ Collected(w)
  BY DEF Inv, WorkerInv
<1>1. r \in RunIds /\ Last \in 1..Size /\ Size \in Nat /\ job[w].i \in 1..(Last + 1)
  BY RunOfType
<1>2. Present(Primary)
  <2>1. CASE job[w].i = 1
    BY <2>1, RunOfType
  <2>2. CASE job[w].i # 1
    BY <1>0, <1>1, <2>2 DEF Collected
  <2> QED
    BY <2>1, <2>2
<1>3. Due(r)
  <2>1. SUFFICES ASSUME NEW h \in Handoffs, r = Risk(h)
                 PROVE  \E v \in Workers : job[v].i > Last /\ Ready(v) /\ h = HandoffOf(v)
    BY <1>2 DEF Due
  <2>2. job[w].i > Last
    BY <2>1, Identities, RunOfType
  <2>3. Ready(w) /\ r = Risk(HandoffOf(w)) /\ HandoffOf(w) \in Handoffs
    BY <2>2, RunOfType
  <2>4. h = HandoffOf(w)
    BY <2>1, <2>3, Identities
  <2> QED
    BY <2>2, <2>3, <2>4
<1>4. \A q \in RunIds : Observed(q)' => Observed(q) \/ Due(q)
  BY <1>3 DEF Observed
<1>5. Learns
  BY <1>2, <1>4 DEF Learns, KnownRun
<1>6. rows' \subseteq RunIds \X Tags
  BY <1>0, <1>1 DEF TypeOK, RunTag, Tags
<1>7. EvidenceRestored'
  <2>1. RunTag(r) # "COMMIT_FAILED"
    BY DEF RunTag
  <2> QED
    BY <1>0, <2>1, EvidenceKept DEF StoreInv
<1> QED
  BY <1>2, <1>5, <1>6, <1>7, LearnsGrows DEF Observed, Present, Primary, Member

\* What a step that only learns comes to.
LEMMA LearnGood ==
    ASSUME Inv, NEW w \in Workers, Learns, UNCHANGED selection, attempts' \in 0..MaxAttempts,
           event' = event \/ (event' \in ResearchOutcomes /\ Decided'),
           rows' \subseteq RunIds \X Tags, EvidenceRestored', job' \in [Workers -> Jobs],
           \A v \in Workers \ {w} : job'[v] = job[v], Recalls(w), WorkerInv(w)'
    PROVE  Good(w)
<1>1. Frame(w)
  BY DEF Frame, Learns
<1>2. Grows /\ StoreInv'
  BY <1>1, LearnsIsSound
<1>3. TypeOK'
  BY DEF Inv, TypeOK, Learns
<1> QED
  BY <1>1, <1>2, <1>3 DEF Good

\* A step of a busy worker that learns and stays busy.
LEMMA BusyRecalls ==
    ASSUME NEW w \in Workers, job[w].pc \notin Resting, job'[w].rec = job[w].rec
    PROVE  Recalls(w)
BY DEF Recalls

\* A worker that is busy with a Run is not resting.
LEMMA AtRunIsBusy == \A l \in AtRun : l \notin Resting
BY DEF AtRun, Resting

\* A new request has collected nothing.
LEMMA SubmitGood ==
    ASSUME Inv, NEW w \in Workers, Submit(w)
    PROVE  Good(w)
<1>0. TypeOK /\ Shape(w) /\ Collected(w)
  BY DEF Inv, WorkerInv
<1>1. /\ Goto(w, "enter") /\ job[w].pc = "idle" /\ UNCHANGED <<command, selection, run, rows, event>>
      /\ attempts' = attempts + 1 /\ attempts < MaxAttempts
  BY DEF Submit, At
<1>2. /\ job' \in [Workers -> Jobs]
      /\ \A v \in Workers \ {w} : job'[v] = job[v]
      /\ job'[w].pc = "enter" /\ job'[w].i = job[w].i /\ job'[w].rec = job[w].rec
      /\ job'[w].allow = job[w].allow /\ job'[w].existed = job[w].existed
      /\ job'[w].got = job[w].got /\ job'[w].res = job[w].res
  BY <1>0, <1>1, GotoMoves DEF Pcs
<1>3. Learns /\ Grows /\ EvidenceRestored'
  BY <1>1, Nothing
<1>4. Last' = Last
  BY <1>1 DEF Last
<1>5. Shape(w)'
  BY <1>0, <1>1, <1>2, <1>4 DEF Shape, Resting, AtRun
<1>6. Collected(w)'
  BY <1>0, <1>2, <1>3, CollectedKept
<1>7. Recovers(w)' /\ Position(w)' /\ Unlost(w)' /\ Recalls(w)
  BY <1>0, <1>1, <1>2 DEF Recovers, Position, Unlost, Resting, Holding, Shape, Recalls
<1>8. attempts' \in 0..MaxAttempts
  BY <1>0, <1>1, ConstantsAssumption DEF TypeOK
<1>9. rows' \subseteq RunIds \X Tags
  BY <1>0, <1>1 DEF TypeOK
<1> QED
  BY <1>1, <1>2, <1>3, <1>5, <1>6, <1>7, <1>8, <1>9, LearnGood DEF WorkerInv

\* Rows about the case itself are not about any Run.
LEMMA CaseRows ==
    ASSUME Inv, NEW T \in SUBSET CaseTags, "COMMIT_FAILED" \notin T,
           rows' = rows \cup Saved(T), UNCHANGED <<command, run>>
    PROVE  Learns /\ Grows /\ EvidenceRestored' /\ rows' \subseteq RunIds \X Tags
<1>1. \A x \in Saved(T) : x[2] \notin {"FRAMEWORK_RUN", "RISK_FRAMEWORK_RUN"} /\ x \in RunIds \X Tags
      /\ x # <<Primary, "COMMIT_FAILED">>
  BY Identities DEF Saved, CaseTags, Tags
<1>2. \A r \in RunIds : Observed(r)' => Observed(r)
  <2>1. \A r \in RunIds : <<r, RunTag(r)>> \notin Saved(T)
    BY <1>1, Identities
  <2> QED
    BY <2>1 DEF Observed
<1>3. KnownRun' => KnownRun
  <2>1. \A r \in RunIds : <<r, "FRAMEWORK_RUN">> \notin Saved(T)
    BY <1>1
  <2> QED
    BY <2>1 DEF KnownRun
<1>4. Learns
  BY <1>2, <1>3 DEF Learns
<1>5. EvidenceRestored'
  BY <1>1, EvidenceKept DEF Inv, StoreInv
<1>6. rows' \subseteq RunIds \X Tags
  BY <1>1 DEF Inv, TypeOK
<1> QED
  BY <1>4, <1>5, <1>6, LearnsGrows

\* A request that goes on has read whether any Run of the case was observed; one
\* that is closed writes no history of a Run.
LEMMA EnterGood ==
    ASSUME Inv, NEW w \in Workers, Enter(w)
    PROVE  Good(w)
<1>0. TypeOK /\ Shape(w) /\ Collected(w) /\ job[w].pc = "enter" /\ StoreInv
      /\ UNCHANGED <<command, selection, run, event, attempts>>
      /\ attempts' \in 0..MaxAttempts
  BY DEF Inv, WorkerInv, Enter, At, TypeOK
<1>1. CASE Return(w) /\ rows' = rows
  <2>1. Learns /\ Grows /\ EvidenceRestored' /\ rows' \subseteq RunIds \X Tags
    BY <1>0, <1>1, Nothing DEF TypeOK
  <2>2. /\ job' \in [Workers -> Jobs]
        /\ \A v \in Workers \ {w} : job'[v] = job[v]
        /\ job'[w] = NoJob
        /\ WorkerInv(w)'
    BY <1>0, <1>1, ReturnRelies
  <2>3. Recalls(w)
    BY <2>2 DEF Recalls, NoJob, Resting
  <2> QED
    BY <1>0, <2>1, <2>2, <2>3, LearnGood
<1>2. CASE Return(w) /\ rows' = rows \cup Saved({"RESEARCH_FAILED", "INVALID"})
  <2>1. Learns /\ Grows /\ EvidenceRestored' /\ rows' \subseteq RunIds \X Tags
    BY <1>0, <1>2, CaseRows DEF CaseTags
  <2>2. /\ job' \in [Workers -> Jobs]
        /\ \A v \in Workers \ {w} : job'[v] = job[v]
        /\ job'[w] = NoJob
        /\ WorkerInv(w)'
    BY <1>0, <1>2, ReturnRelies
  <2>3. Recalls(w)
    BY <2>2 DEF Recalls, NoJob, Resting
  <2> QED
    BY <1>0, <2>1, <2>2, <2>3, LearnGood
<1>3. CASE /\ job' = [job EXCEPT ![w] = [@ EXCEPT !.pc = "probe",
                        !.rec = \E r \in RunIds : <<r, "FRAMEWORK_RUN">> \in rows]]
           /\ rows' = rows
  <2>1. Learns /\ Grows /\ EvidenceRestored' /\ rows' \subseteq RunIds \X Tags
    BY <1>0, <1>3, Nothing DEF TypeOK
  <2> DEFINE j == [job[w] EXCEPT !.pc = "probe", !.rec = KnownRun]
  <2>2. KnownRun \in BOOLEAN
    BY DEF KnownRun
  <2>3. j \in Jobs
    BY ZenonT(60), <1>0, <2>2, JobFields DEF Jobs, Pcs
  <2>4. JobIs(w, j)
    BY <1>3 DEF JobIs, KnownRun
  <2>5. /\ job' \in [Workers -> Jobs]
        /\ \A v \in Workers \ {w} : job'[v] = job[v]
        /\ job'[w] = j
    BY <1>0, <2>3, <2>4, JobIsType
  <2>6. /\ job'[w].pc = "probe" /\ job'[w].rec = KnownRun /\ job'[w].i = job[w].i
        /\ job'[w].res = job[w].res /\ job'[w].existed = job[w].existed
    BY <1>0, <2>5, JobFields DEF Jobs
  <2> HIDE DEF j
  <2>7. job[w].i = 1 /\ job[w].res = <<>> /\ job[w].existed
    BY <1>0 DEF Shape, Resting
  <2>8. Last' = Last /\ Last \in 1..Size /\ Size \in Nat
    BY <1>0, CohortIs DEF Last
  <2>9. Shape(w)'
    <3>1. 1 \in 1..(Last' + 1) /\ ~(1 > Last') /\ Len(<<>>) = 1 - 1
      BY <2>8
    <3> QED
      BY <2>6, <2>7, <3>1 DEF Shape, Resting
  <2>10. Collected(w)'
    BY <1>0, <2>1, <2>6, CollectedKept
  <2>11. Recovers(w)'
    <3>1. command.mode # "current" => KnownRun
      BY <1>0, Identities DEF StoreInv, Left, Observed, KnownRun
    <3> QED
      BY <1>0, <1>3, <2>6, <3>1 DEF Recovers, KnownRun
  <2>12. Position(w)' /\ Unlost(w)'
    BY <2>6, <2>7 DEF Position, Unlost, Holding
  <2>13. Recalls(w)
    BY <1>0, <1>3, <2>6 DEF Recalls
  <2> QED
    BY <1>0, <2>1, <2>5, <2>9, <2>10, <2>11, <2>12, <2>13, LearnGood DEF WorkerInv
<1> QED
  BY <1>1, <1>2, <1>3 DEF Enter

\* What every step at a Run begins with.
LEMMA Begin ==
    ASSUME Inv, NEW w \in Workers, job[w].pc \in AtRun
    PROVE  /\ TypeOK /\ StoreInv /\ Shape(w) /\ Collected(w) /\ Recovers(w) /\ Position(w) /\ Unlost(w)
           /\ job[w].pc \notin Resting
           /\ rows \subseteq RunIds \X Tags /\ attempts \in 0..MaxAttempts
BY AtRunIsBusy DEF Inv, WorkerInv, TypeOK

\* A move within one Run: what is left is where the worker stands.
LEMMA MoveGood ==
    ASSUME Inv, NEW w \in Workers, job[w].pc \in AtRun, job'[w].pc \in AtRun,
           Learns, UNCHANGED <<selection, event, attempts>>,
           rows' \subseteq RunIds \X Tags, EvidenceRestored', job' \in [Workers -> Jobs],
           \A v \in Workers \ {w} : job'[v] = job[v],
           job'[w].i = job[w].i, job'[w].res = job[w].res, job'[w].rec = job[w].rec,
           Position(w)', Unlost(w)'
    PROVE  Good(w)
<1>1. Grows
  BY LearnsGrows
<1>2. Shape(w)' /\ Collected(w)' /\ Recovers(w)'
  BY <1>1, GoesOn
<1>3. Recalls(w)
  BY BusyRecalls, AtRunIsBusy
<1>4. attempts' \in 0..MaxAttempts
  BY DEF Inv, TypeOK
<1> QED
  BY <1>2, <1>3, <1>4, LearnGood DEF WorkerInv

\* A worker that finds its Run absent either needs a reservation or is not
\* allowed to create it; the first missing member ends the claim that all
\* existed.
LEMMA ProbeGood ==
    ASSUME Inv, NEW w \in Workers, Probe(w)
    PROVE  Good(w)
<1> DEFINE absent == run[RunOf(w)].st = "absent"
           l == IF absent /\ NeedsReservation(w) THEN "reserve" ELSE "register"
           e == job[w].existed /\ (IsRisk(RunOf(w)) \/ ~absent)
           j == [job[w] EXCEPT !.allow = MayCreate(w), !.existed = e, !.pc = l]
<1>1. job[w].pc = "probe" /\ job[w].pc \in AtRun /\ UNCHANGED <<command, selection, run, rows, event, attempts>>
  BY DEF Probe, At, AtRun
<1>2. /\ TypeOK /\ StoreInv /\ Shape(w) /\ Collected(w) /\ Recovers(w) /\ Position(w) /\ Unlost(w)
      /\ rows' \subseteq RunIds \X Tags
  BY <1>1, Begin
<1>3. Learns /\ Grows /\ EvidenceRestored'
  BY <1>1, Nothing
<1>4. MayCreate(w) \in BOOLEAN /\ e \in BOOLEAN /\ l \in Pcs
  BY <1>2, JobFields DEF MayCreate, Pcs
<1>5. j \in Jobs
  <2> HIDE DEF e, l
  <2> QED
    BY <1>2, <1>4, JobFields DEF Jobs
<1>6. JobIs(w, j)
  BY DEF Probe, JobIs
<1>7. job' \in [Workers -> Jobs] /\ job'[w] = j /\ \A v \in Workers \ {w} : job'[v] = job[v]
  BY <1>2, <1>5, <1>6, JobIsType
<1>8. /\ job'[w].pc = l /\ job'[w].allow = MayCreate(w) /\ job'[w].existed = e
      /\ job'[w].i = job[w].i /\ job'[w].res = job[w].res /\ job'[w].rec = job[w].rec
  <2> HIDE DEF e, l
  <2> QED
    BY <1>2, <1>7, JobFields DEF Jobs
<1> HIDE DEF j
<1>9. /\ RunOf(w) \in RunIds
      /\ IsRisk(RunOf(w)) <=> job[w].i > Last
      /\ job[w].i = 1 <=> RunOf(w) = Primary
      /\ job[w].i <= Last => RunOf(w) = Member(job[w].i) /\ job[w].i \in 1..Size
      /\ Last \in 1..Size /\ Size \in Nat /\ job[w].i \in 1..(Last + 1)
  BY <1>1, RunOfType
<1>10. /\ Last' = Last /\ Cohort' = Cohort /\ RunOf(w)' = RunOf(w)
       /\ Ready(w)' = Ready(w) /\ HandoffOf(w)' = HandoffOf(w)
  BY <1>1, <1>8, SamePlace
<1>11. MayCreate(w)' = MayCreate(w)
  BY <1>1, <1>8, <1>10 DEF MayCreate, IsRisk
<1>12. PICK r : r = RunOf(w)
  OBVIOUS
<1>13. ~MayCreate(w) =>
         /\ job[w].i <= Last
         /\ Observed(r) \/ (job[w].i = 1 /\ command.mode = "current" /\ job[w].rec)
  <2>1. SUFFICES ASSUME ~MayCreate(w)
                 PROVE  /\ job[w].i <= Last
                        /\ Observed(r) \/ (job[w].i = 1 /\ command.mode = "current" /\ job[w].rec)
    OBVIOUS
  <2>2. command.mode \in Modes
    BY <1>2, ConstantsAssumption DEF TypeOK, CommandSet
  <2>3. job[w].i <= Last
    BY <1>9, <2>1 DEF MayCreate
  <2>4. CASE command.mode = "current"
    BY <1>9, <2>1, <2>4 DEF MayCreate
  <2>5. CASE command.mode = "historical"
    BY <1>1, <1>2, <2>1, <2>5 DEF MayCreate, Recovers, Resting
  <2>6. CASE command.mode = "legacy"
    <3>0. Last = 1
      BY <2>6 DEF Last
    <3>1. job[w].i = 1
      <4>1. \A n \in 1..(1 + 1) : n <= 1 => n = 1
        OBVIOUS
      <4> QED
        BY <1>9, <2>3, <3>0, <4>1
    <3>2. Observed(Primary)
      BY <1>2, <2>6 DEF StoreInv, Left
    <3>3. r = Primary
      BY <1>9, <1>12, <3>1
    <3> QED
      BY <2>3, <3>2, <3>3
  <2> QED
    BY <2>2, <2>3, <2>4, <2>5, <2>6 DEF Modes
<1>14. IsRisk(r) => MayCreate(w)
  BY <1>12 DEF MayCreate
<1>15. l = "register" /\ MayCreate(w) /\ run[r].st = "absent" => ~Observed(r) /\ job[w].i > Last
  <2>1. SUFFICES ASSUME MayCreate(w), run[r].st = "absent", l = "register"
                 PROVE  ~Observed(r) /\ job[w].i > Last
    OBVIOUS
  <2>2. IsRisk(r) /\ ~job[w].existed
    BY <1>2, <1>12, <2>1, JobFields DEF NeedsReservation
  <2>3. job[w].i > Last
    BY <1>9, <1>12, <2>2
  <2>4. Ready(w)
    BY <1>1, <1>2, <2>3 DEF Shape
  <2>5. ~\E k \in DOMAIN job[w].res : job[w].res[k].st = "FAILED"
    <3>1. \A k \in DOMAIN job[w].res : k \in Cohort
      BY <1>2, ResultsOf
    <3> QED
      BY <2>4, <3>1 DEF Ready
  <2>6. NoLostRisk
    BY <1>1, <1>2, <2>2, <2>5 DEF Unlost, Pending
  <2>7. PICK h \in Handoffs : r = Risk(h)
    BY <1>9, <1>12, <2>2, Identities
  <2> QED
    BY <2>1, <2>3, <2>6, <2>7 DEF NoLostRisk, Present
<1>16. Position(w)'
  <2>1. RunOf(w) = r /\ RunOf(w)' = r /\ l \in {"reserve", "register"}
    BY <1>10, <1>12
  <2>2. l = "reserve" => MayCreate(w)
    BY <1>12, <1>14 DEF NeedsReservation
  <2>3. l = "register" /\ ~MayCreate(w) => Accounted(w)'
    BY <1>1, <1>8, <1>13, <2>1 DEF Accounted, Observed
  <2>4. l = "register" /\ MayCreate(w) /\ run'[r].st = "absent" =>
          <<r, RunTag(r)>> \notin rows' /\ job'[w].i # 1
    BY <1>1, <1>8, <1>9, <1>15 DEF Observed
  <2> HIDE DEF l, e
  <2> QED
    BY <1>8, <1>11, <2>1, <2>2, <2>3, <2>4 DEF Position, Present, Observed, Holding
<1>17. Unlost(w)'
  <2>1. CASE ~job[w].existed
    <3>1. NoLostRisk \/ \E k \in DOMAIN job[w].res : job[w].res[k].st = "FAILED"
      BY <1>1, <1>2, <2>1 DEF Unlost, Pending
    <3> QED
      BY <1>3, <1>8, <3>1, NoLostRiskKept DEF Unlost
  <2>2. CASE e
    BY <1>8, <2>2 DEF Unlost
  <2>3. CASE job[w].existed /\ ~e
    <3>1. ~IsRisk(r) /\ ~Present(r) /\ job[w].i <= Last
      BY <1>9, <1>12, <2>3 DEF Present
    <3>2. CASE ~Observed(r)
      <4>1. \A h \in Handoffs : ~Observed(Risk(h))
        <5>1. job[w].i \in Cohort /\ r = Member(job[w].i)
          BY <1>2, <1>9, <1>12, <3>1, CohortIs
        <5> QED
          BY <1>2, <3>2, <5>1 DEF StoreInv, Handed, Binds
      <4>2. NoLostRisk
        BY <4>1 DEF NoLostRisk
      <4> QED
        BY <1>3, <4>2, NoLostRiskKept DEF Unlost
    <3>3. CASE Observed(r)
      <4>1. Pending(w)'
        <5>1. job'[w].i \in Cohort'
          BY <1>2, <1>8, <1>9, <1>10, <3>1, CohortIs
        <5>2. RunOf(w)' = r
          BY <1>10, <1>12
        <5>3. l = "register" => ~MayCreate(w)
          BY <1>12, <1>15, <3>1, <3>3 DEF Present
        <5>4. l \in {"reserve", "register"}
          OBVIOUS
        <5> HIDE DEF l, e
        <5> QED
          BY <1>1, <1>8, <3>1, <3>3, <5>1, <5>2, <5>3, <5>4 DEF Pending, Present, Observed
      <4> QED
        BY <4>1 DEF Unlost
    <3> QED
      BY <3>2, <3>3
  <2> QED
    BY <2>1, <2>2, <2>3
<1>18. job'[w].pc \in AtRun
  BY <1>8 DEF AtRun
<1> HIDE DEF l, e
<1> QED
  BY <1>1, <1>2, <1>3, <1>7, <1>8, <1>16, <1>17, <1>18, MoveGood

\* A reservation is granted only for a Run without a history; a refused one
\* leaves the worker without leave to create.
LEMMA ReserveGood ==
    ASSUME Inv, NEW w \in Workers, Reserve(w)
    PROVE  Good(w)
<1> DEFINE b == Reservable(RunOf(w))
           j == [job[w] EXCEPT !.pc = "register", !.allow = b]
<1>1. job[w].pc = "reserve" /\ job[w].pc \in AtRun /\ UNCHANGED <<command, selection, run, event, attempts>>
  BY DEF Reserve, At, AtRun
<1>2. /\ TypeOK /\ StoreInv /\ Shape(w) /\ Collected(w) /\ Recovers(w) /\ Position(w) /\ Unlost(w)
      /\ rows \subseteq RunIds \X Tags
  BY <1>1, Begin
<1>3. PICK r : r = RunOf(w)
  OBVIOUS
<1>4. /\ r \in RunIds /\ (job[w].i = 1 <=> r = Primary)
      /\ IsRisk(r) <=> job[w].i > Last
      /\ Last \in 1..Size /\ Size \in Nat /\ job[w].i \in 1..(Last + 1)
  BY <1>1, <1>3, RunOfType
<1>5. b = (<<r, RunTag(r)>> \notin rows)
  BY <1>3 DEF Reservable, Observed
<1>6. rows' = rows \/ rows' = rows \cup {<<r, "RESERVED">>}
  BY <1>3 DEF Reserve
<1>7. rows' \subseteq RunIds \X Tags
  BY <1>2, <1>4, <1>6 DEF Tags
<1>8. \A q \in RunIds : Observed(q)' = Observed(q)
  BY <1>6, Identities DEF Observed
<1>9. Learns
  BY <1>1, <1>6, <1>8 DEF Learns, KnownRun
<1>10. Grows /\ EvidenceRestored'
  BY <1>2, <1>6, <1>9, LearnsGrows, EvidenceKept DEF StoreInv
<1>11. b \in BOOLEAN
  BY <1>5
<1>12. j \in Jobs /\ JobIs(w, j)
  <2>1. JobIs(w, j)
    BY DEF Reserve, JobIs
  <2> HIDE DEF b
  <2>2. j \in Jobs
    BY <1>2, <1>11, JobFields DEF Jobs, Pcs
  <2> QED
    BY <2>1, <2>2
<1>13. job' \in [Workers -> Jobs] /\ job'[w] = j /\ \A v \in Workers \ {w} : job'[v] = job[v]
  BY <1>2, <1>12, JobIsType
<1>14. /\ job'[w].pc = "register" /\ job'[w].allow = b /\ job'[w].existed = job[w].existed
       /\ job'[w].i = job[w].i /\ job'[w].res = job[w].res /\ job'[w].rec = job[w].rec
  <2> HIDE DEF b
  <2> QED
    BY <1>2, <1>13, JobFields DEF Jobs
<1> HIDE DEF j, b
<1>15. RunOf(w)' = r /\ Cohort' = Cohort
  BY <1>1, <1>3, <1>14, SamePlace
<1>16. Position(w)'
  <2>1. ~b => Accounted(w)'
    BY <1>5, <1>6, <1>15 DEF Accounted, Observed
  <2>2. b /\ job[w].i = 1 => ~job[w].rec
    <3>1. SUFFICES ASSUME b, job[w].i = 1, job[w].rec PROVE FALSE
      OBVIOUS
    <3>2. MayCreate(w)
      BY <1>1, <1>2 DEF Position
    <3>3. ~IsRisk(RunOf(w))
      BY <1>3, <1>4, <3>1
    <3>4. command.mode = "historical"
      BY <3>1, <3>2, <3>3 DEF MayCreate
    <3>5. Observed(Primary)
      BY <1>2, <3>4 DEF StoreInv, Left
    <3> QED
      BY <1>4, <1>5, <3>1, <3>5 DEF Observed
  <2>3. b => <<r, RunTag(r)>> \notin rows'
    BY <1>4, <1>5, <1>8 DEF Observed
  <2> QED
    BY <1>14, <1>15, <2>1, <2>2, <2>3 DEF Position, Present, Observed, Holding
<1>17. Unlost(w)'
  <2>1. Pending(w) => Pending(w)'
    <3>1. SUFFICES ASSUME Pending(w) PROVE Pending(w)'
      OBVIOUS
    <3>2. ~Present(r) /\ Observed(r) /\ ~b /\ job[w].i \in Cohort
      BY <1>3, <1>5, <3>1 DEF Pending, Observed
    <3> QED
      BY <1>1, <1>4, <1>8, <1>14, <1>15, <3>2 DEF Pending, Present, Observed
  <2> QED
    BY <1>2, <1>10, <1>14, <2>1, NoLostRiskKept DEF Unlost
<1>18. job'[w].pc \in AtRun
  BY <1>14 DEF AtRun
<1> QED
  BY <1>1, <1>7, <1>9, <1>10, <1>13, <1>14, <1>16, <1>17, <1>18, MoveGood

\* A worker that moves on without touching the stores.
LEMMA GotoGood ==
    ASSUME Inv, NEW w \in Workers, job[w].pc \in AtRun, NEW l \in AtRun, Goto(w, l),
           UNCHANGED <<command, selection, run, rows, event, attempts>>,
           NEW r, r = RunOf(w),
           l \in Holding \ {"drive", "ran"} => Present(r),
           l = "create" => job[w].pc = "register" /\ job[w].allow,
           l = "missing" => Accounted(w),
           l \in {"create", "missing"} \cup (Holding \ {"drive", "ran"}),
           job[w].pc # "reserve",
           l = "missing" \/ ~Pending(w)
    PROVE  Good(w)
<1>1. /\ TypeOK /\ StoreInv /\ Shape(w) /\ Collected(w) /\ Recovers(w) /\ Position(w) /\ Unlost(w)
      /\ rows \subseteq RunIds \X Tags
  BY Begin
<1>2. Learns /\ Grows /\ EvidenceRestored'
  BY Nothing
<1>3. /\ job' \in [Workers -> Jobs]
      /\ \A v \in Workers \ {w} : job'[v] = job[v]
      /\ job'[w].pc = l /\ job'[w].i = job[w].i /\ job'[w].rec = job[w].rec
      /\ job'[w].allow = job[w].allow /\ job'[w].existed = job[w].existed
      /\ job'[w].got = job[w].got /\ job'[w].res = job[w].res
  BY <1>1, GotoMoves DEF AtRun, Pcs
<1>4. RunOf(w)' = r /\ Cohort' = Cohort
  BY <1>3, SamePlace
<1>5. Accounted(w)' = Accounted(w)
  BY <1>3, <1>4 DEF Accounted, Present, Observed
<1>6. Position(w)'
  <2>1. l = "create" => (~Present(r) => ~Observed(r) /\ (job[w].i = 1 => ~job[w].rec))
    BY <1>1 DEF Position
  <2>2. l \notin {"drive", "ran", "reserve", "register", "commit", "settle"}
    BY DEF Holding
  <2> QED
    BY <1>3, <1>4, <1>5, <2>1, <2>2 DEF Position, Present, Observed
<1>7. Unlost(w)'
  <2>1. Pending(w) /\ l = "missing" => Pending(w)'
    BY <1>3, <1>4 DEF Pending, Present, Observed
  <2> QED
    BY <1>1, <1>2, <1>3, <2>1, NoLostRiskKept DEF Unlost
<1> QED
  BY <1>1, <1>2, <1>3, <1>6, <1>7, MoveGood

\* An absent Run is created only with leave, and is missing otherwise.
LEMMA RegisterGood ==
    ASSUME Inv, NEW w \in Workers, Register(w)
    PROVE  Good(w)
<1>1. job[w].pc = "register" /\ job[w].pc \in AtRun
      /\ UNCHANGED <<command, selection, run, rows, event, attempts>>
  BY DEF Register, At, AtRun
<1>2. Position(w)
  BY <1>1, Begin
<1>3. PICK r : r = RunOf(w)
  OBVIOUS
<1>4. CASE Present(r)
  BY <1>1, <1>3, <1>4, GotoGood DEF Register, Present, AtRun, Holding, Pending
<1>5. CASE ~Present(r) /\ job[w].allow
  BY <1>1, <1>3, <1>5, GotoGood DEF Register, Present, AtRun, Holding, Pending
<1>6. CASE ~Present(r) /\ ~job[w].allow
  <2>1. Accounted(w)
    BY <1>1, <1>2, <1>6 DEF Position
  <2> QED
    BY <1>1, <1>3, <1>6, <2>1, GotoGood DEF Register, Present, AtRun, Holding
<1> QED
  BY <1>4, <1>5, <1>6

\* At the lease deadline the Run exists, so its failure is accounted for.
LEMMA ConvergeTimeoutGood ==
    ASSUME Inv, NEW w \in Workers, ConvergeTimeout(w)
    PROVE  Good(w)
<1>1. /\ job[w].pc = "converge" /\ job[w].pc \in AtRun /\ Goto(w, "missing")
      /\ UNCHANGED <<command, selection, run, rows, event, attempts>>
  BY DEF ConvergeTimeout, Deadline, At, AtRun
<1>2. Accounted(w)
  BY <1>1, Begin DEF Position, Holding, Accounted
<1> QED
  BY <1>1, <1>2, GotoGood DEF AtRun, Holding

\* A change to the Run a worker is at, and a move: what is left is where the
\* worker stands.
LEMMA ChangeGood ==
    ASSUME Inv, NEW w \in Workers, job[w].pc \in AtRun, job'[w].pc \in AtRun,
           NEW r \in RunIds, NEW x \in Runs, Changes(r, x), UNCHANGED <<selection, attempts>>,
           \A v \in Workers \ {w} : ~(run[r].st = "RUNNING" /\ run[r].lease = v),
           job' \in [Workers -> Jobs], \A v \in Workers \ {w} : job'[v] = job[v],
           job'[w].i = job[w].i, job'[w].res = job[w].res, job'[w].rec = job[w].rec,
           Position(w)', job'[w].existed = job[w].existed, ~Pending(w)
    PROVE  Good(w)
<1>1. /\ TypeOK /\ StoreInv /\ Unlost(w) /\ job[w].pc \notin Resting
  BY Begin
<1>2. Frame(w)
  BY <1>1 DEF Frame, Changes, TypeOK
<1>3. Grows /\ StoreInv' /\ run' \in [RunIds -> Runs]
  BY <1>1, <1>2, ChangesIsSound
<1>4. TypeOK'
  BY <1>1, <1>3 DEF TypeOK, Changes
<1>5. Shape(w)' /\ Collected(w)' /\ Recovers(w)'
  BY <1>3, GoesOn
<1>6. Unlost(w)'
  BY <1>1, <1>3, NoLostRiskKept DEF Unlost
<1> QED
  BY <1>2, <1>3, <1>4, <1>5, <1>6 DEF Good, WorkerInv

\* The fields of a Run.
LEMMA RunFields ==
    ASSUME TypeOK, NEW r \in RunIds
    PROVE  /\ run[r] \in Runs /\ run[r].st \in Statuses /\ run[r].stage \in 0..Stages
           /\ run[r].out \in Outputs /\ run[r].lease \in Workers \cup {None}
           /\ run \in [RunIds -> Runs]
BY DEF TypeOK, Runs

\* A Run that is created has no history: the leave to create it still holds.
LEMMA CreateGood ==
    ASSUME Inv, NEW w \in Workers, Create(w)
    PROVE  Good(w)
<1>1. job[w].pc = "create" /\ job[w].pc \in AtRun /\ UNCHANGED <<command, selection, rows, event, attempts>>
  BY DEF Create, At, AtRun
<1>2. TypeOK /\ Position(w) /\ Shape(w) /\ ~Pending(w)
  BY <1>1, Begin DEF Pending
<1>3. PICK r : r = RunOf(w)
  OBVIOUS
<1>4. r \in RunIds /\ (IsRisk(r) <=> job[w].i > Last)
  BY <1>1, <1>3, RunOfType
<1>5. CASE run[r].st # "absent"
  <2>1. Goto(w, "converge") /\ run' = run
    BY <1>3, <1>5 DEF Create
  <2> QED
    BY <1>1, <1>2, <1>3, <1>5, <2>1, GotoGood DEF AtRun, Holding, Present
<1>6. CASE run[r].st = "absent"
  <2> DEFINE x == [run[r] EXCEPT !.st = "CREATED"]
  <2>1. Goto(w, "created") /\ run' = [run EXCEPT ![r].st = "CREATED"]
    BY <1>3, <1>6 DEF Create
  <2>2. x \in Runs /\ x.st = "CREATED" /\ run' = [run EXCEPT ![r] = x]
    BY <1>2, <1>4, <2>1, RunFields DEF Runs, Statuses
  <2> HIDE DEF x
  <2>3. ~Observed(r) /\ ~Present(r)
    BY <1>1, <1>2, <1>3, <1>6 DEF Position, Present
  <2>4. IsRisk(r) => <<Primary, "RAW_SCORE">> \in rows
    BY <1>1, <1>2, <1>4 DEF Shape
  <2>5. Changes(r, x)
    BY <1>1, <1>6, <2>2, <2>3, <2>4 DEF Changes, Terminal
  <2>6. /\ job' \in [Workers -> Jobs]
        /\ \A v \in Workers \ {w} : job'[v] = job[v]
        /\ job'[w].pc = "created" /\ job'[w].i = job[w].i /\ job'[w].rec = job[w].rec
        /\ job'[w].allow = job[w].allow /\ job'[w].existed = job[w].existed
        /\ job'[w].got = job[w].got /\ job'[w].res = job[w].res
    BY <1>2, <2>1, GotoMoves DEF Pcs
  <2>7. RunOf(w)' = r
    BY <1>1, <1>3, <2>6, SamePlace
  <2>8. run'[r] = x
    BY <1>2, <1>4, <2>2, RunFields
  <2>9. Position(w)'
    BY <2>2, <2>6, <2>7, <2>8 DEF Position, Present
  <2>10. job'[w].pc \in AtRun
    BY <2>6 DEF AtRun
  <2> QED
    BY <1>1, <1>2, <1>4, <1>6, <2>2, <2>5, <2>6, <2>9, <2>10, ChangeGood
<1> QED
  BY <1>5, <1>6

\* The history of a created Run is due: the Run exists.
LEMMA RecordCreatedGood ==
    ASSUME Inv, NEW w \in Workers, RecordCreated(w)
    PROVE  Good(w)
<1>1. /\ job[w].pc = "created" /\ job[w].pc \in AtRun /\ UNCHANGED <<command, selection, run, event, attempts>>
      /\ Goto(w, "resume") /\ rows' = rows \cup {<<RunOf(w), RunTag(RunOf(w))>>}
  BY DEF RecordCreated, At, AtRun
<1>2. TypeOK /\ Position(w) /\ Unlost(w) /\ ~Pending(w)
  BY <1>1, Begin DEF Pending
<1>3. PICK r : r = RunOf(w)
  OBVIOUS
<1>4. Present(r)
  BY <1>1, <1>2, <1>3 DEF Position, Holding
<1>5. /\ Learns /\ Grows /\ rows' \subseteq RunIds \X Tags /\ EvidenceRestored'
      /\ Observed(r)' /\ Present(r)'
  BY <1>1, <1>3, <1>4, ObservesRun
<1>6. /\ job' \in [Workers -> Jobs]
      /\ \A v \in Workers \ {w} : job'[v] = job[v]
      /\ job'[w].pc = "resume" /\ job'[w].i = job[w].i /\ job'[w].rec = job[w].rec
      /\ job'[w].allow = job[w].allow /\ job'[w].existed = job[w].existed
      /\ job'[w].got = job[w].got /\ job'[w].res = job[w].res
  BY <1>1, <1>2, GotoMoves DEF Pcs
<1>7. RunOf(w)' = r
  BY <1>1, <1>3, <1>6, SamePlace
<1>8. Position(w)'
  BY <1>5, <1>6, <1>7 DEF Position, Present
<1>9. Unlost(w)'
  BY <1>2, <1>5, <1>6, NoLostRiskKept DEF Unlost
<1>10. job'[w].pc \in AtRun
  BY <1>6 DEF AtRun
<1> QED
  BY <1>1, <1>5, <1>6, <1>8, <1>9, <1>10, MoveGood

\* A worker that writes the history of its Run and collects it.
LEMMA CollectGood ==
    ASSUME Inv, NEW w \in Workers, job[w].pc \in Holding \cup {"missing"},
           UNCHANGED <<command, selection, run, event, attempts>>,
           NEW r, r = RunOf(w), NEW st, NEW out, Collect(w, st, out),
           Collectable(w, r, st, out), Learns, rows' \subseteq RunIds \X Tags, EvidenceRestored'
    PROVE  Good(w)
<1>1. job[w].pc \in AtRun
  BY DEF Holding, AtRun
<1>2. Grows
  BY LearnsGrows
<1>3. job[w].i > Last \/ job[w].i <= Last
  BY <1>1, RunOfType
<1>4. /\ job' \in [Workers -> Jobs] /\ \A v \in Workers \ {w} : job'[v] = job[v]
      /\ WorkerInv(w)' /\ job'[w].rec = job[w].rec
  BY <1>1, <1>2, <1>3, CollectsRisk, CollectsMember
<1>5. Recalls(w)
  BY <1>1, <1>4, BusyRecalls, AtRunIsBusy
<1>6. attempts' \in 0..MaxAttempts
  BY <1>1, Begin
<1> QED
  BY <1>4, <1>5, <1>6, LearnGood

\* The history of an existing Run is due, and a terminal status is final.
LEMMA ObserveGood ==
    ASSUME Inv, NEW w \in Workers, Observe(w)
    PROVE  Good(w)
<1>1. /\ job[w].pc = "observe" /\ job[w].pc \in AtRun /\ UNCHANGED <<command, selection, run, event, attempts>>
      /\ rows' = rows \cup {<<RunOf(w), RunTag(RunOf(w))>>}
  BY DEF Observe, At, AtRun
<1>2. TypeOK /\ Position(w) /\ Unlost(w) /\ ~Pending(w)
  BY <1>1, Begin DEF Pending
<1>3. PICK r : r = RunOf(w)
  OBVIOUS
<1>4. Present(r) /\ r \in RunIds
  BY <1>1, <1>2, <1>3, RunOfType DEF Position, Holding
<1>5. /\ Learns /\ Grows /\ rows' \subseteq RunIds \X Tags /\ EvidenceRestored'
      /\ Observed(r)' /\ Present(r)' /\ Present(Primary)'
  BY <1>1, <1>3, <1>4, ObservesRun
<1>6. CASE IsTerminal(run[r].st)
  <2>1. PICK st, out : st = run[r].st /\ out = run[r].out
    OBVIOUS
  <2>2. Collect(w, st, out)
    BY <1>3, <1>6, <2>1 DEF Observe
  <2>3. Collectable(w, r, st, out)
    BY <1>1, <1>2, <1>4, <1>5, <2>1, RunFields DEF Collectable, Present
  <2> QED
    BY <1>1, <1>3, <1>5, <2>2, <2>3, CollectGood DEF Holding
<1>7. CASE ~IsTerminal(run[r].st)
  <2>1. Goto(w, "resume")
    BY <1>3, <1>7 DEF Observe
  <2>2. /\ job' \in [Workers -> Jobs]
        /\ \A v \in Workers \ {w} : job'[v] = job[v]
        /\ job'[w].pc = "resume" /\ job'[w].i = job[w].i /\ job'[w].rec = job[w].rec
        /\ job'[w].allow = job[w].allow /\ job'[w].existed = job[w].existed
        /\ job'[w].got = job[w].got /\ job'[w].res = job[w].res
    BY <1>2, <2>1, GotoMoves DEF Pcs
  <2>3. RunOf(w)' = r
    BY <1>1, <1>3, <2>2, SamePlace
  <2>4. Position(w)'
    BY <1>5, <2>2, <2>3 DEF Position, Present
  <2>5. Unlost(w)'
    BY <1>2, <1>5, <2>2, NoLostRiskKept DEF Unlost
  <2>6. job'[w].pc \in AtRun
    BY <2>2 DEF AtRun
  <2> QED
    BY <1>1, <1>5, <2>2, <2>4, <2>5, <2>6, MoveGood
<1> QED
  BY <1>6, <1>7

\* A worker takes a free lease on a Run that is not over.
LEMMA LeaseGood ==
    ASSUME Inv, NEW w \in Workers, job[w].pc \in {"resume", "converge"}, NEW r, r = RunOf(w),
           run[r].lease = None, run[r].st \notin Terminal,
           run' = [run EXCEPT ![r] = [@ EXCEPT !.st = "RUNNING", !.lease = w]], Goto(w, "drive"),
           UNCHANGED <<command, selection, rows, event, attempts>>
    PROVE  Good(w)
<1>1. job[w].pc \in AtRun
  BY DEF AtRun
<1>2. TypeOK /\ Position(w) /\ ~Pending(w)
  BY <1>1, Begin DEF Pending
<1>3. r \in RunIds /\ Present(r)
  BY <1>1, <1>2, RunOfType DEF Position, Holding
<1> DEFINE x == [run[r] EXCEPT !.st = "RUNNING", !.lease = w]
<1>4. x \in Runs /\ x.st = "RUNNING" /\ x.lease = w
  BY <1>2, <1>3, RunFields DEF Runs, Statuses
<1>5. run' = [run EXCEPT ![r] = x]
  OBVIOUS
<1> HIDE DEF x
<1>6. Changes(r, x)
  BY <1>3, <1>4, <1>5 DEF Changes
<1>7. \A v \in Workers : run[r].lease # v
  BY ConstantsAssumption
<1>8. /\ job' \in [Workers -> Jobs]
      /\ \A v \in Workers \ {w} : job'[v] = job[v]
      /\ job'[w].pc = "drive" /\ job'[w].i = job[w].i /\ job'[w].rec = job[w].rec
      /\ job'[w].allow = job[w].allow /\ job'[w].existed = job[w].existed
      /\ job'[w].got = job[w].got /\ job'[w].res = job[w].res
  BY <1>2, GotoMoves DEF Pcs
<1>9. RunOf(w)' = r
  BY <1>8, SamePlace
<1>10. run'[r] = x
  BY <1>2, <1>3, <1>5, RunFields
<1>11. Position(w)'
  BY <1>4, <1>8, <1>9, <1>10 DEF Position, Present
<1>12. job'[w].pc \in AtRun
  BY <1>8 DEF AtRun
<1> QED
  BY <1>1, <1>2, <1>3, <1>4, <1>6, <1>7, <1>8, <1>11, <1>12, ChangeGood

\* A lease is taken only when it is free and the Run has not ended.
LEMMA ResumeGood ==
    ASSUME Inv, NEW w \in Workers, Resume(w)
    PROVE  Good(w)
<1>1. /\ job[w].pc = "resume" /\ job[w].pc \in AtRun
      /\ UNCHANGED <<command, selection, rows, event, attempts>>
  BY DEF Resume, At, AtRun
<1>2. PICK r : r = RunOf(w)
  OBVIOUS
<1>3. Present(r) /\ ~Pending(w)
  BY <1>1, <1>2, Begin DEF Position, Holding, Pending
<1>4. CASE run[r].lease = None /\ ~IsTerminal(run[r].st)
  BY <1>1, <1>2, <1>4, LeaseGood DEF Resume, IsTerminal
<1>5. CASE ~(run[r].lease = None /\ ~IsTerminal(run[r].st))
  <2>1. run' = run /\ Goto(w, "converge")
    BY <1>2, <1>5 DEF Resume
  <2> QED
    BY <1>1, <1>2, <1>3, <2>1, GotoGood DEF AtRun, Holding
<1> QED
  BY <1>4, <1>5

\* What another process made of the Run is adopted, or its free lease is taken.
LEMMA ConvergeGood ==
    ASSUME Inv, NEW w \in Workers, Converge(w)
    PROVE  Good(w)
<1>1. /\ job[w].pc = "converge" /\ job[w].pc \in AtRun
      /\ UNCHANGED <<command, selection, event, attempts>>
  BY DEF Converge, At, AtRun
<1>2. PICK r : r = RunOf(w)
  OBVIOUS
<1>3. Present(r) /\ TypeOK /\ r \in RunIds
  BY <1>1, <1>2, Begin, RunOfType DEF Position, Holding
<1>4. CASE /\ run[r].st \in Terminal \cup {"WAITING"}
           /\ rows' = rows \cup {<<r, RunTag(r)>>}
           /\ Collect(w, run[r].st, run[r].out)
           /\ UNCHANGED run
  <2>1. /\ Learns /\ Grows /\ rows' \subseteq RunIds \X Tags /\ EvidenceRestored'
        /\ Observed(r)' /\ Present(r)' /\ Present(Primary)'
    BY <1>1, <1>2, <1>3, <1>4, ObservesRun
  <2>2. PICK st, out : st = run[r].st /\ out = run[r].out
    OBVIOUS
  <2>3. Collect(w, st, out)
    BY <1>4, <2>2
  <2>4. Collectable(w, r, st, out)
    BY <1>1, <1>3, <1>4, <2>1, <2>2, RunFields DEF Collectable, Present
  <2> QED
    BY <1>1, <1>2, <1>4, <2>1, <2>3, <2>4, CollectGood DEF Holding
<1>5. CASE /\ run[r].st \in {"CREATED", "RUNNING"}
           /\ run[r].lease = None
           /\ run' = [run EXCEPT ![r] = [@ EXCEPT !.st = "RUNNING", !.lease = w]]
           /\ Goto(w, "drive")
           /\ UNCHANGED rows
  BY <1>1, <1>2, <1>5, LeaseGood DEF Terminal
<1> QED
  BY <1>2, <1>4, <1>5 DEF Converge

\* A context stage changes nothing that another worker or the ledger relies on.
LEMMA NextStageGood ==
    ASSUME Inv, NEW w \in Workers, NextStage(w)
    PROVE  Good(w)
<1>1. /\ job[w].pc = "drive" /\ job[w].pc \in AtRun
      /\ UNCHANGED <<command, selection, rows, event, attempts, job>>
  BY DEF NextStage, At, AtRun
<1>2. PICK r : r = RunOf(w)
  OBVIOUS
<1>3. /\ Present(r) /\ TypeOK /\ r \in RunIds /\ ~Pending(w) /\ Position(w)
      /\ run[r].st = "RUNNING" /\ run[r].lease = w
  BY <1>1, <1>2, Begin, RunOfType DEF Position, Holding, Pending
<1> DEFINE x == [run[r] EXCEPT !.stage = @ + 1]
<1>4. run' = [run EXCEPT ![r].stage = @ + 1] /\ run[r].stage < Stages
  BY <1>2 DEF NextStage
<1>5. x \in Runs /\ x.st = "RUNNING" /\ x.lease = w
  BY <1>3, <1>4, RunFields, ConstantsAssumption DEF Runs
<1>6. run' = [run EXCEPT ![r] = x]
  BY <1>3, <1>4
<1> HIDE DEF x
<1>7. Changes(r, x)
  BY <1>1, <1>3, <1>5, <1>6 DEF Changes, Terminal
<1>8. RunOf(w)' = r
  BY <1>1, <1>2, SamePlace
<1>9. run'[r] = x
  BY <1>3, <1>6, RunFields
<1>10. Position(w)'
  BY <1>1, <1>5, <1>8, <1>9 DEF Position, Present
<1>11. job' \in [Workers -> Jobs]
  BY <1>1, <1>3 DEF TypeOK
<1> QED
  BY <1>1, <1>3, <1>5, <1>7, <1>10, <1>11, ChangeGood

\* How the Run a worker drives can end.
LEMMA EndingsAre ==
    ASSUME NEW r \in RunIds, NEW e \in IF FactsIncomplete(r) THEN {<<"FAILED", None>>} ELSE Endings(r)
    PROVE  /\ e[1] \in {"FAILED", "WAITING", "SUCCEEDED", "REJECTED"} /\ e[2] \in Outputs
           /\ e = <<e[1], e[2]>>
           /\ IsRisk(r) => /\ e[1] = "SUCCEEDED" => e[2] = "ACCEPTED"
                           /\ e[1] = "REJECTED" => e[2] = "REJECTED"
<1>1. CASE IsRisk(r)
  <2>1. e \in {<<"FAILED", None>>, <<"WAITING", None>>, Verdict}
    BY <1>1 DEF Endings, FactsIncomplete
  <2> QED
    BY <2>1 DEF Verdict, Disposition, Outputs
<1>2. CASE ~IsRisk(r)
  <2>1. e \in {<<"FAILED", None>>, <<"WAITING", None>>}
           \cup {<<"SUCCEEDED", d>> : d \in Drafts \cup {"invalid"}}
    BY <1>2 DEF Endings, DraftEndings
  <2> QED
    BY <1>2, <2>1 DEF Outputs
<1> QED
  BY <1>1, <1>2

\* A Run ends under the lease of the worker that drives it; no other worker
\* knows an ending of it yet.
LEMMA FinishGood ==
    ASSUME Inv, NEW w \in Workers, Finish(w)
    PROVE  Good(w)
<1>1. /\ job[w].pc = "drive" /\ job[w].pc \in AtRun
      /\ UNCHANGED <<command, selection, rows, event, attempts>>
  BY DEF Finish, At, AtRun
<1>2. PICK r : r = RunOf(w)
  OBVIOUS
<1>3. /\ Present(r) /\ TypeOK /\ r \in RunIds /\ ~Pending(w) /\ Position(w)
      /\ run[r].st = "RUNNING" /\ run[r].lease = w
  BY <1>1, <1>2, Begin, RunOfType DEF Position, Holding, Pending
<1>4. PICK e \in IF FactsIncomplete(r) THEN {<<"FAILED", None>>} ELSE Endings(r) :
         /\ run' = [run EXCEPT ![r] = [@ EXCEPT !.st = e[1], !.out = e[2], !.lease = None]]
         /\ job' = [job EXCEPT ![w] = [@ EXCEPT !.pc = "ran", !.got = e]]
  BY <1>2 DEF Finish
<1>5. /\ e[1] \in {"FAILED", "WAITING", "SUCCEEDED", "REJECTED"} /\ e[2] \in Outputs
      /\ e = <<e[1], e[2]>>
      /\ IsRisk(r) => /\ e[1] = "SUCCEEDED" => e[2] = "ACCEPTED"
                      /\ e[1] = "REJECTED" => e[2] = "REJECTED"
  BY <1>3, EndingsAre
<1>6. e \in Statuses \X Outputs
  BY <1>5 DEF Statuses, Terminal
<1> DEFINE x == [run[r] EXCEPT !.st = e[1], !.out = e[2], !.lease = None]
           j == [job[w] EXCEPT !.pc = "ran", !.got = e]
<1>7. x \in Runs /\ x.st = e[1] /\ x.out = e[2]
  BY <1>3, <1>5, <1>6, RunFields DEF Runs
<1>8. run' = [run EXCEPT ![r] = x]
  BY <1>4
<1>9. j \in Jobs /\ JobIs(w, j)
  BY ZenonT(60), <1>3, <1>4, <1>6, JobFields DEF Jobs, Pcs, JobIs
<1>10. job' \in [Workers -> Jobs] /\ job'[w] = j /\ \A v \in Workers \ {w} : job'[v] = job[v]
  BY <1>3, <1>9, JobIsType
<1>11. /\ job'[w].pc = "ran" /\ job'[w].got = e /\ job'[w].existed = job[w].existed
       /\ job'[w].i = job[w].i /\ job'[w].res = job[w].res /\ job'[w].rec = job[w].rec
  BY <1>3, <1>10, JobFields DEF Jobs
<1> HIDE DEF x, j
<1>12. Changes(r, x)
  BY <1>1, <1>3, <1>5, <1>7, <1>8 DEF Changes, Terminal
<1>13. RunOf(w)' = r
  BY <1>1, <1>2, <1>11, SamePlace
<1>14. run'[r] = x
  BY <1>3, <1>8, RunFields
<1>15. Position(w)'
  BY <1>5, <1>7, <1>11, <1>13, <1>14 DEF Position, Present
<1>16. job'[w].pc \in AtRun
  BY <1>11 DEF AtRun
<1> QED
  BY <1>1, <1>3, <1>7, <1>10, <1>11, <1>12, <1>15, <1>16, ChangeGood

\* The ending this worker gave its Run is the one it records.
LEMMA RecordRanGood ==
    ASSUME Inv, NEW w \in Workers, RecordRan(w)
    PROVE  Good(w)
<1>1. /\ job[w].pc = "ran" /\ job[w].pc \in AtRun
      /\ UNCHANGED <<command, selection, run, event, attempts>>
      /\ rows' = rows \cup {<<RunOf(w), RunTag(RunOf(w))>>}
  BY DEF RecordRan, At, AtRun
<1>2. PICK r : r = RunOf(w)
  OBVIOUS
<1>3. Present(r) /\ TypeOK /\ r \in RunIds /\ Position(w)
  BY <1>1, <1>2, Begin, RunOfType DEF Position, Holding
<1>4. /\ Learns /\ Grows /\ rows' \subseteq RunIds \X Tags /\ EvidenceRestored'
      /\ Observed(r)' /\ Present(r)' /\ Present(Primary)'
  BY <1>1, <1>2, <1>3, ObservesRun
<1>5. PICK st, out : st = job[w].got[1] /\ out = job[w].got[2]
  OBVIOUS
<1>6. Collect(w, st, out)
  BY <1>5 DEF RecordRan
<1>7. /\ st # "absent" /\ st \in Statuses /\ out \in Outputs
      /\ st \in Terminal => run[r].st = st /\ run[r].out = out
  BY <1>1, <1>2, <1>3, <1>5, JobFields DEF Position
<1>8. Collectable(w, r, st, out)
  BY <1>1, <1>4, <1>7 DEF Collectable, Terminal
<1> QED
  BY <1>1, <1>2, <1>4, <1>6, <1>8, CollectGood DEF Holding

\* A missing Run is recorded as failed only when it was observed before, or is
\* the lost first Run of a recovered case.
LEMMA MissingGood ==
    ASSUME Inv, NEW w \in Workers, Missing(w)
    PROVE  Good(w)
<1>1. /\ job[w].pc = "missing" /\ job[w].pc \in AtRun /\ job[w].pc \in Holding \cup {"missing"}
      /\ UNCHANGED <<command, selection, run, event, attempts>>
  BY DEF Missing, At, AtRun
<1>2. PICK r : r = RunOf(w)
  OBVIOUS
<1>3. /\ TypeOK /\ StoreInv /\ Shape(w) /\ Collected(w) /\ Recovers(w) /\ Unlost(w)
      /\ rows \subseteq RunIds \X Tags /\ attempts' \in 0..MaxAttempts /\ job[w].pc \notin Resting
  BY <1>1, Begin
<1>4. /\ r \in RunIds /\ (IsRisk(r) <=> job[w].i > Last) /\ (job[w].i = 1 <=> r = Primary)
      /\ Last \in 1..Size /\ Size \in Nat /\ job[w].i \in 1..(Last + 1)
  BY <1>1, <1>2, RunOfType
<1>5. Accounted(w)
  BY <1>1, Begin DEF Position
<1>6. Present(r) \/ Observed(r) \/ job[w].i = 1
  BY <1>2, <1>5 DEF Accounted
<1>7. CASE IsRisk(r)
  <2>1. Collect(w, "FAILED", None) /\ rows' = rows
    BY <1>2, <1>7 DEF Missing
  <2>2. Learns /\ EvidenceRestored'
    BY <1>1, <2>1, Nothing
  <2>3. job[w].i > Last /\ job[w].i # 1
    BY <1>4, <1>7
  <2>4. Present(r)' \/ Observed(r)'
    BY <1>1, <1>6, <2>1, <2>3 DEF Present, Observed
  <2>5. Collectable(w, r, "FAILED", None)
    BY <1>1, <1>4, <2>3, <2>4 DEF Collectable, Statuses, Terminal, Outputs
  <2> QED
    BY <1>1, <1>2, <1>3, <2>1, <2>2, <2>5, CollectGood
<1>8. CASE ~IsRisk(r) /\ job[w].res # <<>>
  <2>1. Collect(w, "FAILED", None) /\ rows' = rows \cup {<<r, RunTag(r)>>}
    BY <1>2, <1>8 DEF Missing
  <2>2. job[w].i > 1
    <3>1. Len(job[w].res) = job[w].i - 1 /\ job[w].res \in Seq(Results)
      BY <1>1, <1>3, JobFields DEF Shape
    <3>2. job[w].i = 1 => FALSE
      BY <1>8, <3>1
    <3> QED
      BY <1>4, <3>2
  <2>3. Present(Primary)
    BY <1>3, <2>2 DEF Collected
  <2>4. Learns /\ EvidenceRestored' /\ rows' \subseteq RunIds \X Tags /\ Observed(r)'
    <3>1. CASE Present(r)
      BY <1>1, <1>2, <2>1, <3>1, ObservesRun
    <3>2. CASE Observed(r)
      <4>1. rows' = rows
        BY <2>1, <3>2 DEF Observed
      <4> QED
        BY <1>1, <1>3, <3>2, <4>1, Nothing DEF Observed
    <3> QED
      BY <1>6, <2>2, <3>1, <3>2
  <2>5. Present(Primary)'
    BY <1>1, <2>3 DEF Present, Primary, Member
  <2>6. Collectable(w, r, "FAILED", None)
    BY <1>1, <1>4, <1>8, <2>4, <2>5 DEF Collectable, Statuses, Terminal, Outputs
  <2> QED
    BY <1>1, <1>2, <2>1, <2>4, <2>6, CollectGood
<1>9. CASE ~IsRisk(r) /\ job[w].res = <<>>
  <2> DEFINE m == MemberResult("FAILED", None)
             j == [job[w] EXCEPT !.pc = "commit", !.res = <<m>>]
  <2>1. m \in Results /\ m.st = "FAILED"
    BY MemberResultIs
  <2>2. rows' = rows /\ JobIs(w, j)
    BY <1>2, <1>9 DEF Missing, JobIs
  <2>3. <<m>> \in Seq(Results) /\ Len(<<m>>) = 1 /\ <<m>>[1] = m /\ DOMAIN <<m>> = 1..1
    BY <2>1
  <2>4. j \in Jobs
    <3>1. \A a \in Jobs, s \in Seq(Results) : [a EXCEPT !.pc = "commit", !.res = s] \in Jobs
      BY DEF Jobs, Pcs
    <3> HIDE DEF m
    <3> QED
      BY <1>3, <2>3, <3>1, JobFields
  <2>5. job' \in [Workers -> Jobs] /\ job'[w] = j /\ \A v \in Workers \ {w} : job'[v] = job[v]
    BY <1>3, <2>2, <2>4, JobIsType
  <2>6. /\ job'[w].pc = "commit" /\ job'[w].res = <<m>> /\ job'[w].i = job[w].i
        /\ job'[w].rec = job[w].rec /\ job'[w].existed = job[w].existed
    <3> HIDE DEF m
    <3> QED
      BY <1>3, <2>5, JobFields DEF Jobs
  <2> HIDE DEF m, j
  <2>7. job[w].i = 1
    <3>1. Len(job[w].res) = job[w].i - 1
      BY <1>1, <1>3 DEF Shape
    <3>2. Len(<<>>) = 0
      OBVIOUS
    <3>3. job[w].i \in Nat /\ 0 = job[w].i - 1
      BY <1>4, <1>9, <3>1, <3>2
    <3> QED
      BY <3>3
  <2>8. Learns /\ EvidenceRestored' /\ rows' \subseteq RunIds \X Tags /\ Grows
    BY <1>1, <1>3, <2>2, Nothing
  <2>9. Last' = Last /\ Cohort' = Cohort /\ 1 \in Cohort
    BY <1>1, <1>3, <1>4, CohortIs DEF Last, Cohort
  <2>10. RunOf(w)' = r
    BY <1>2, <2>6, <2>7, <2>9 DEF RunOf
  <2>11. Shape(w)'
    <3>1. 1 \in 1..(Last' + 1)
      <4>1. \A n \in 1..Size : 1 \in 1..(n + 1)
        BY <1>4
      <4> QED
        BY <1>4, <2>9, <4>1
    <3> QED
      BY <2>1, <2>3, <2>6, <2>7, <3>1 DEF Shape, Resting, AtRun
  <2>12. Collected(w)'
    <3>1. \A k \in DOMAIN <<m>> : k = 1 /\ <<m>>[k].st = "FAILED"
      BY <2>1, <2>3
    <3> QED
      BY <2>6, <2>7, <3>1 DEF Collected
  <2>13. Recovers(w)'
    BY <1>1, <1>3, <2>2, <2>6 DEF Recovers, Resting
  <2>14. Position(w)'
    <3>1. Accounted(w)'
      BY <1>1, <1>2, <1>5, <2>2, <2>6, <2>10 DEF Accounted, Present, Observed
    <3>2. ~RanRisk(w)'
      BY <2>6, <2>7, <2>9 DEF RanRisk
    <3> QED
      BY <2>6, <3>1, <3>2 DEF Position, Holding
  <2>15. Unlost(w)'
    BY <2>1, <2>3, <2>6 DEF Unlost
  <2>16. Recalls(w)
    BY <1>3, <2>6, BusyRecalls
  <2> QED
    BY <1>1, <1>3, <2>5, <2>8, <2>11, <2>12, <2>13, <2>14, <2>15, <2>16, LearnGood DEF WorkerInv
<1> QED
  BY <1>7, <1>8, <1>9

\* The raw scores are saved before the risk Run is looked for.
LEMMA ScoreGood ==
    ASSUME Inv, NEW w \in Workers, Score(w)
    PROVE  Good(w)
<1>1. /\ job[w].pc = "score" /\ Goto(w, "probe") /\ rows' = rows \cup Saved({"RAW_SCORE"})
      /\ UNCHANGED <<command, selection, run, event, attempts>>
  BY DEF Score, At, ScoreSaved
<1>2. TypeOK /\ Shape(w) /\ Collected(w) /\ Recovers(w) /\ Unlost(w) /\ attempts' \in 0..MaxAttempts
  BY <1>1 DEF Inv, WorkerInv, TypeOK
<1>3. Learns /\ Grows /\ EvidenceRestored' /\ rows' \subseteq RunIds \X Tags
  BY <1>1, CaseRows DEF CaseTags
<1>4. /\ job' \in [Workers -> Jobs]
      /\ \A v \in Workers \ {w} : job'[v] = job[v]
      /\ job'[w].pc = "probe" /\ job'[w].i = job[w].i /\ job'[w].rec = job[w].rec
      /\ job'[w].existed = job[w].existed /\ job'[w].res = job[w].res
  BY <1>1, <1>2, GotoMoves DEF Pcs
<1>5. Last' = Last /\ Ready(w)' = Ready(w)
  BY <1>1, <1>4, SamePlace
<1>6. <<Primary, "RAW_SCORE">> \in rows'
  BY <1>1 DEF Saved
<1>7. Shape(w)'
  <2>1. job[w].i = Last + 1 /\ Len(job[w].res) = Last /\ Ready(w) /\ job[w].i \in 1..(Last + 1)
    BY <1>1, <1>2 DEF Shape
  <2>2. Len(job[w].res) = job[w].i - 1
    BY <1>2, <2>1, CohortIs
  <2> QED
    BY <1>4, <1>5, <1>6, <2>1, <2>2 DEF Shape, Resting, Primary, Member
<1>8. Collected(w)'
  BY <1>2, <1>3, <1>4, CollectedKept
<1>9. Recovers(w)' /\ Position(w)' /\ Recalls(w)
  BY <1>1, <1>2, <1>3, <1>4 DEF Recovers, Position, Recalls, Resting, Holding, Grows
<1>10. Unlost(w)'
  BY <1>1, <1>2, <1>3, <1>4, NoLostRiskKept DEF Unlost, Pending
<1> QED
  BY <1>1, <1>2, <1>3, <1>4, <1>7, <1>8, <1>9, <1>10, LearnGood DEF WorkerInv

\* The rows of the commit transaction are due: the first Run's history, and
\* the risk Run's when there was one.
LEMMA ClosingRows ==
    ASSUME Inv, NEW w \in Workers, job[w].pc \in {"commit", "settle"}, NEW T \in SUBSET CaseTags,
           rows' = rows \cup RunRows(w) \cup Saved(T), UNCHANGED <<command, run>>
    PROVE  /\ Learns /\ rows' \subseteq RunIds \X Tags
           /\ RanRisk(w) => /\ HandoffOf(w) \in Handoffs /\ RunOf(w) = Risk(HandoffOf(w))
                            /\ <<RunOf(w), RunTag(RunOf(w))>> \in rows'
           /\ "COMMIT_FAILED" \notin T => EvidenceRestored'
<1>0. TypeOK /\ StoreInv /\ Shape(w) /\ Collected(w) /\ Recovers(w) /\ Position(w)
  BY DEF Inv, WorkerInv
<1>1. Last \in 1..Size /\ Size \in Nat /\ job[w].i \in 1..(Last + 1) /\ Cohort = 1..Last
  BY <1>0, CohortIs DEF Shape
<1>2. Present(Primary) \/ Observed(Primary) \/ (command.mode = "current" /\ KnownRun)
  <2>1. CASE job[w].i = 1
    <3>1. RunOf(w) = Primary
      BY <1>0, <1>1, <2>1, RunOfIs, Identities
    <3>2. Accounted(w)
      BY <1>0, <2>1 DEF Position
    <3> QED
      BY <1>0, <3>1, <3>2 DEF Accounted, Recovers, KnownRun, Resting
  <2>2. CASE job[w].i # 1
    BY <1>0, <1>1, <2>2 DEF Collected
  <2> QED
    BY <2>1, <2>2
<1>3. Observed(Primary) \/ Due(Primary)
  BY <1>2, Identities DEF Due
<1>4. Observed(Primary) => KnownRun
  BY Identities DEF Observed, KnownRun
<1>5. RanRisk(w) => /\ HandoffOf(w) \in Handoffs /\ RunOf(w) = Risk(HandoffOf(w))
                    /\ RunOf(w) \in RunIds /\ RunTag(RunOf(w)) = "RISK_FRAMEWORK_RUN"
                    /\ Observed(RunOf(w)) \/ Due(RunOf(w))
  <2>1. SUFFICES ASSUME RanRisk(w)
                 PROVE  /\ HandoffOf(w) \in Handoffs /\ RunOf(w) = Risk(HandoffOf(w))
                        /\ RunOf(w) \in RunIds /\ RunTag(RunOf(w)) = "RISK_FRAMEWORK_RUN"
                        /\ Observed(RunOf(w)) \/ Due(RunOf(w))
    OBVIOUS
  <2>2. job[w].i > Last
    BY <1>1, <2>1 DEF RanRisk
  <2>3. Ready(w)
    <3>1. job[w].i # 1
      BY <1>1, <2>2
    <3> QED
      BY <1>0, <2>1, <3>1 DEF Shape
  <2>4. HandoffOf(w) \in Handoffs /\ RunOf(w) = Risk(HandoffOf(w)) /\ RunOf(w) \in RunIds
    BY <1>0, <2>2, <2>3, RunOfIs
  <2>5. Present(RunOf(w)) \/ Observed(RunOf(w))
    BY <1>0, <2>1 DEF Position
  <2>6. Present(Primary)
    BY <1>0, <1>1, <2>2 DEF Collected
  <2>7. Present(RunOf(w)) => Due(RunOf(w))
    <3>1. SUFFICES ASSUME Present(RunOf(w)), NEW h \in Handoffs, RunOf(w) = Risk(h)
                   PROVE  \E v \in Workers : job[v].i > Last /\ Ready(v) /\ h = HandoffOf(v)
      BY <2>6 DEF Due
    <3>2. h = HandoffOf(w)
      BY <2>4, <3>1, Identities
    <3> QED
      BY <2>2, <2>3, <3>2
  <2> QED
    BY <2>4, <2>5, <2>7, Identities
<1>6. /\ \A x \in Saved(T) : x[2] \in CaseTags /\ x \in RunIds \X Tags
      /\ \A r \in RunIds : <<r, RunTag(r)>> \notin Saved(T) /\ <<r, "FRAMEWORK_RUN">> \notin Saved(T)
  <2>1. \A x \in Saved(T) : x[2] \in CaseTags /\ x \in RunIds \X Tags
    BY Identities DEF Saved, Tags
  <2>2. \A r \in RunIds : RunTag(r) \notin CaseTags /\ "FRAMEWORK_RUN" \notin CaseTags
    BY Identities DEF CaseTags
  <2> QED
    BY <2>1, <2>2
<1>7. \A x \in RunRows(w) : x = <<Primary, "FRAMEWORK_RUN">>
         \/ (RanRisk(w) /\ x = <<RunOf(w), "RISK_FRAMEWORK_RUN">>)
  BY DEF RunRows, Saved
<1>8. rows' \subseteq RunIds \X Tags
  <2>1. RunRows(w) \subseteq RunIds \X Tags
    BY <1>5, <1>7, Identities DEF Tags
  <2> QED
    BY <1>0, <1>6, <2>1 DEF TypeOK
<1>9. \A r \in RunIds : <<r, RunTag(r)>> \in rows' => Observed(r) \/ Due(r)
  <2>1. SUFFICES ASSUME NEW r \in RunIds, <<r, RunTag(r)>> \in rows', <<r, RunTag(r)>> \notin rows
                 PROVE  Observed(r) \/ Due(r)
    BY DEF Observed
  <2>2. <<r, RunTag(r)>> \in RunRows(w)
    BY <1>6, <2>1
  <2>3. r = Primary \/ (RanRisk(w) /\ r = RunOf(w))
    BY <1>7, <2>2
  <2> QED
    BY <1>3, <1>5, <2>3
<1>10. (\E r \in RunIds : <<r, "FRAMEWORK_RUN">> \in rows') => KnownRun \/ Present(Primary)
  <2>1. SUFFICES ASSUME NEW r \in RunIds, <<r, "FRAMEWORK_RUN">> \in rows',
                        <<r, "FRAMEWORK_RUN">> \notin rows
                 PROVE  KnownRun \/ Present(Primary)
    BY DEF KnownRun
  <2>2. <<r, "FRAMEWORK_RUN">> \in RunRows(w)
    BY <1>6, <2>1
  <2> QED
    BY <1>2, <1>4, <2>2
<1>11. Learns
  BY <1>9, <1>10 DEF Learns, Observed, KnownRun
<1>12. RanRisk(w) => <<RunOf(w), RunTag(RunOf(w))>> \in rows'
  <2>1. RanRisk(w) => <<RunOf(w), "RISK_FRAMEWORK_RUN">> \in RunRows(w)
    BY DEF RunRows
  <2> QED
    BY <1>5, <2>1
<1>13. "COMMIT_FAILED" \notin T => EvidenceRestored'
  <2>1. "COMMIT_FAILED" \notin T => <<Primary, "COMMIT_FAILED">> \notin Saved(T)
    BY DEF Saved
  <2> QED
    BY <1>0, <1>7, <2>1, EvidenceKept DEF StoreInv
<1> QED
  BY <1>5, <1>8, <1>11, <1>12, <1>13

\* Ending a request after rows that are due.
LEMMA EndGood ==
    ASSUME Inv, NEW w \in Workers, Return(w), Learns, UNCHANGED <<selection, attempts>>,
           rows' \subseteq RunIds \X Tags, EvidenceRestored',
           event' = event \/ (event' \in ResearchOutcomes /\ Decided')
    PROVE  Good(w)
<1>1. TypeOK /\ command' = command /\ attempts' \in 0..MaxAttempts
  BY DEF Inv, TypeOK, Learns
<1>2. /\ job' \in [Workers -> Jobs]
      /\ \A v \in Workers \ {w} : job'[v] = job[v]
      /\ job'[w] = NoJob
      /\ WorkerInv(w)'
  BY <1>1, ReturnRelies
<1>3. Recalls(w)
  BY <1>2 DEF Recalls, NoJob, Resting
<1> QED
  BY <1>1, <1>2, <1>3, LearnGood

\* The outcome a worker commits is the verdict of its risk Run.
LEMMA FrozenIsDecided ==
    ASSUME Inv, NEW w \in Workers, job[w].pc = "commit", Committable(w),
           run' = run, event' = Frozen(w), HandoffOf(w) \in Handoffs,
           RunOf(w) = Risk(HandoffOf(w)), <<RunOf(w), RunTag(RunOf(w))>> \in rows'
    PROVE  event' \in ResearchOutcomes /\ Decided'
<1>0. TypeOK /\ StoreInv /\ Position(w)
  BY DEF Inv, WorkerInv
<1>1. PICK h \in Handoffs : h = HandoffOf(w)
  OBVIOUS
<1>2. PICK d : d = IF job[w].got[2] = "REJECTED" THEN "REJECTED" ELSE "FROZEN"
  OBVIOUS
<1>3. event' = [draft |-> h, disposition |-> d] /\ d \in {"FROZEN", "REJECTED"}
  BY <1>1, <1>2 DEF Frozen
<1>4. event' \in ResearchOutcomes /\ event'.draft = h /\ event'.disposition = d
  BY <1>3 DEF ResearchOutcomes
<1>5. /\ job[w].got[1] \in {"SUCCEEDED", "REJECTED"} /\ job[w].got[2] \in {"ACCEPTED", "REJECTED"}
      /\ job[w].got[1] = "REJECTED" => job[w].got[2] = "REJECTED"
      /\ RanRisk(w)
  BY DEF Committable, VetoValid, TypedVeto
<1>6. run[Risk(h)].st = job[w].got[1] /\ run[Risk(h)].out = job[w].got[2]
  BY <1>0, <1>1, <1>5 DEF Position
<1>7. run[Risk(h)].st = IF d = "FROZEN" THEN "SUCCEEDED" ELSE "REJECTED"
  BY <1>0, <1>2, <1>5, <1>6 DEF StoreInv, RiskEndings
<1>8. <<Risk(h), RunTag(Risk(h))>> \in rows'
  BY <1>1
<1>9. Decided'
  BY <1>4, <1>7, <1>8 DEF Decided, Observed, Present
<1> QED
  BY <1>4, <1>9

\* A committed outcome is the verdict of the risk Run of a complete cohort.
LEMMA CommitGood ==
    ASSUME Inv, NEW w \in Workers, Commit(w)
    PROVE  Good(w)
<1>1. job[w].pc = "commit" /\ UNCHANGED <<command, selection, run, attempts>>
  BY DEF Commit, At
<1>2. TypeOK /\ Shape(w) /\ Collected(w) /\ Recovers(w) /\ Position(w) /\ Unlost(w)
  BY DEF Inv, WorkerInv
<1>3. CASE Return(w) /\ UNCHANGED <<rows, event>>
  BY <1>1, <1>2, <1>3, Nothing, EndGood DEF TypeOK
<1>4. CASE rows' = rows \cup RunRows(w) \cup Saved(Closing(w)) /\ Return(w) /\ UNCHANGED event
  <2>1. PICK T : T = Closing(w)
    OBVIOUS
  <2>2. T \in SUBSET CaseTags /\ "COMMIT_FAILED" \notin T
    BY <2>1 DEF Closing, CaseTags
  <2>3. Learns /\ rows' \subseteq RunIds \X Tags /\ EvidenceRestored'
    BY <1>1, <1>4, <2>1, <2>2, ClosingRows
  <2> QED
    BY <1>1, <1>4, <2>3, EndGood
<1>5. CASE /\ Committable(w)
           /\ rows' = rows \cup RunRows(w) \cup Saved(Precommit)
           /\ event' = Frozen(w)
           /\ Return(w)
  <2>1. Precommit \in SUBSET CaseTags /\ "COMMIT_FAILED" \notin Precommit
    BY DEF Precommit, CaseTags
  <2>2. /\ Learns /\ rows' \subseteq RunIds \X Tags /\ EvidenceRestored'
        /\ RanRisk(w) => /\ HandoffOf(w) \in Handoffs /\ RunOf(w) = Risk(HandoffOf(w))
                         /\ <<RunOf(w), RunTag(RunOf(w))>> \in rows'
    BY <1>1, <1>5, <2>1, ClosingRows
  <2>3. RanRisk(w)
    BY <1>5 DEF Committable
  <2>4. event' \in ResearchOutcomes /\ Decided'
    BY <1>1, <1>5, <2>2, <2>3, FrozenIsDecided
  <2> QED
    BY <1>1, <1>5, <2>2, <2>4, EndGood
<1>6. CASE Committable(w) /\ Goto(w, "settle") /\ UNCHANGED <<rows, event>>
  <2>1. Learns /\ Grows /\ EvidenceRestored' /\ rows' \subseteq RunIds \X Tags
        /\ attempts' \in 0..MaxAttempts
    BY <1>1, <1>2, <1>6, Nothing DEF TypeOK
  <2>2. /\ job' \in [Workers -> Jobs]
        /\ \A v \in Workers \ {w} : job'[v] = job[v]
        /\ job'[w].pc = "settle" /\ job'[w].i = job[w].i /\ job'[w].rec = job[w].rec
        /\ job'[w].existed = job[w].existed /\ job'[w].got = job[w].got /\ job'[w].res = job[w].res
    BY <1>2, <1>6, GotoMoves DEF Pcs
  <2>3. PICK r : r = RunOf(w)
    OBVIOUS
  <2>4. /\ Last' = Last /\ Cohort' = Cohort /\ RunOf(w)' = r /\ Ready(w)' = Ready(w)
        /\ RanRisk(w)' = RanRisk(w) /\ Committable(w)' = Committable(w) /\ RanRisk(w)
    BY <1>1, <1>6, <2>2, <2>3, SamePlace DEF RanRisk, Committable, VetoValid, Cohort
  <2>5. job[w].i # 1
    BY <1>2, <2>4, CohortIs DEF RanRisk
  <2>6. Shape(w)'
    BY <1>1, <1>2, <1>6, <2>2, <2>4, <2>5 DEF Shape, Resting, AtRun
  <2>7. Collected(w)'
    BY <1>2, <2>1, <2>2, CollectedKept
  <2>8. Recovers(w)' /\ Recalls(w)
    BY <1>1, <1>2, <1>6, <2>2 DEF Recovers, Recalls, Resting
  <2>9. Position(w)'
    BY <1>1, <1>2, <1>6, <2>2, <2>3, <2>4, <2>5 DEF Position, Present, Observed, Holding
  <2>10. Unlost(w)'
    BY <1>1, <1>2, <2>1, <2>2, NoLostRiskKept DEF Unlost, Pending
  <2> QED
    BY <1>1, <1>6, <2>1, <2>2, <2>6, <2>7, <2>8, <2>9, <2>10, LearnGood DEF WorkerInv
<1> QED
  BY <1>3, <1>4, <1>5, <1>6 DEF Commit

\* After a refused commit all the evidence is written again.
LEMMA SettleGood ==
    ASSUME Inv, NEW w \in Workers, Settle(w)
    PROVE  Good(w)
<1>1. job[w].pc = "settle" /\ Return(w) /\ UNCHANGED <<command, selection, run, event, attempts>>
  BY DEF Settle, At
<1>2. TypeOK /\ Shape(w)
  BY DEF Inv, WorkerInv
<1>3. CASE UNCHANGED rows
  BY <1>1, <1>2, <1>3, Nothing, EndGood DEF TypeOK
<1>4. CASE rows' = rows \cup Restored(w) \cup Saved({"COMMIT_FAILED"})
  <2>1. PICK T : T = Precommit \cup {"COMMIT_FAILED"}
    OBVIOUS
  <2>2. T \in SUBSET CaseTags
    BY <2>1 DEF Precommit, CaseTags
  <2>3. rows' = rows \cup RunRows(w) \cup Saved(T)
    BY <1>4, <2>1 DEF Restored, Saved
  <2>4. RanRisk(w)
    BY <1>1, <1>2 DEF Shape, Committable
  <2>5. /\ Learns /\ rows' \subseteq RunIds \X Tags
        /\ HandoffOf(w) \in Handoffs /\ RunOf(w) = Risk(HandoffOf(w))
        /\ <<RunOf(w), RunTag(RunOf(w))>> \in rows'
    BY <1>1, <2>2, <2>3, <2>4, ClosingRows
  <2>6. EvidenceRestored'
    <3>1. PICK h \in Handoffs : h = HandoffOf(w)
      BY <2>5
    <3>2. <<Risk(h), RunTag(Risk(h))>> \in rows'
      BY <2>5, <3>1
    <3>3. Saved(Precommit) \subseteq rows'
      BY <1>4 DEF Restored
    <3> QED
      BY <3>2, <3>3 DEF EvidenceRestored, Observed, Saved, Primary, Member
  <2> QED
    BY <1>1, <2>5, <2>6, EndGood
<1> QED
  BY <1>3, <1>4 DEF Settle

\* A crash frees the worker's leases and nothing else of the Runs.
LEMMA CrashGood ==
    ASSUME Inv, NEW w \in Workers, Crash(w)
    PROVE  Good(w)
<1>0. TypeOK /\ StoreInv
  BY DEF Inv
<1>1. /\ Return(w) /\ UNCHANGED <<command, selection, rows, event, attempts>>
      /\ run' = [r \in RunIds |-> IF run[r].lease = w THEN [run[r] EXCEPT !.lease = None] ELSE run[r]]
  BY DEF Crash, Return
<1>2. /\ job' \in [Workers -> Jobs]
      /\ \A v \in Workers \ {w} : job'[v] = job[v]
      /\ job'[w] = NoJob
      /\ WorkerInv(w)'
  BY <1>0, <1>1, ReturnRelies
<1>3. \A r \in RunIds : /\ run'[r] \in Runs /\ run'[r].st = run[r].st /\ run'[r].out = run[r].out
                        /\ run[r].lease # w => run'[r] = run[r]
  <2>1. SUFFICES ASSUME NEW r \in RunIds
                 PROVE  /\ run'[r] \in Runs /\ run'[r].st = run[r].st /\ run'[r].out = run[r].out
                        /\ run[r].lease # w => run'[r] = run[r]
    OBVIOUS
  <2>2. run[r] \in Runs
    BY <1>0, RunFields
  <2>3. [run[r] EXCEPT !.lease = None] \in Runs
    BY <2>2 DEF Runs
  <2> QED
    BY <1>1, <2>2, <2>3 DEF Runs
<1>4. run' \in [RunIds -> Runs]
  BY <1>1, <1>3
<1>5. TypeOK'
  BY <1>0, <1>1, <1>2, <1>4 DEF TypeOK
<1>6. Grows
  BY <1>1, <1>3 DEF Grows, Present, Observed
<1>7. Frame(w)
  BY <1>2, <1>3 DEF Frame
<1>8. FirstRun'
  <2>1. SUFFICES ASSUME NEW v \in Workers, job'[v].pc \notin Resting, ~job'[v].rec, KnownRun'
                 PROVE  Present(Primary)'
    BY DEF FirstRun, KnownRun
  <2>2. v # w
    BY <1>2, <2>1 DEF NoJob, Resting
  <2>3. job'[v] = job[v] /\ KnownRun
    BY <1>1, <1>2, <2>1, <2>2 DEF KnownRun
  <2>4. Present(Primary)
    BY <1>0, <2>1, <2>3 DEF StoreInv, FirstRun, KnownRun
  <2> QED
    BY <1>6, <2>4, Identities DEF Grows
<1>9. Left' /\ OneHandoff' /\ EvidenceRestored'
  BY <1>0, <1>1 DEF StoreInv, Left, OneHandoff, EvidenceRestored, Observed, Saved, Primary, Member
<1>10. Handed'
  <2>1. SUFFICES ASSUME NEW h \in Handoffs, Observed(Risk(h)) PROVE Binds(h)'
    BY <1>1 DEF Handed, Observed
  <2>2. Binds(h)
    BY <1>0, <2>1 DEF StoreInv, Handed
  <2>3. \A i \in Cohort : /\ run'[Member(i)].st = run[Member(i)].st
                          /\ run'[Member(i)].out = run[Member(i)].out
    BY <1>0, <1>3, CohortIs, Identities
  <2> QED
    BY <1>1, <2>2, <2>3 DEF Binds, Cohort, Observed, Present
<1>11. RiskEndings'
  BY <1>0, <1>3, Identities DEF StoreInv, RiskEndings
<1>12. Decided'
  <2>1. event # None => Risk(event.draft) \in RunIds
    BY <1>0, Identities DEF TypeOK, ResearchOutcomes
  <2> QED
    BY <1>0, <1>1, <1>3, <2>1 DEF StoreInv, Decided, Observed, Present
<1>13. ScoredBeforeRisk'
  BY <1>0, <1>1, <1>3 DEF StoreInv, ScoredBeforeRisk, Primary, Member
<1> QED
  BY <1>2, <1>5, <1>6, <1>7, <1>8, <1>9, <1>10, <1>11, <1>12, <1>13 DEF Good, StoreInv

-----------------------------------------------------------------------------
(* Every step preserves the invariant *)

\* The steps of a worker.
LEMMA WorkerGood ==
    ASSUME Inv, NEW w \in Workers, Submit(w) \/ HostStep(w) \/ NextStage(w) \/ Finish(w) \/ Crash(w)
    PROVE  Good(w)
BY SubmitGood, EnterGood, ProbeGood, ReserveGood, RegisterGood, CreateGood, RecordCreatedGood,
   ObserveGood, ResumeGood, ConvergeGood, ConvergeTimeoutGood, RecordRanGood, MissingGood,
   ScoreGood, CommitGood, SettleGood, NextStageGood, FinishGood, CrashGood
   DEF HostStep

\* The other workers rely on nothing a good step takes back.
LEMMA GoodPreserves ==
    ASSUME Inv, NEW w \in Workers, Good(w)
    PROVE  Inv'
<1>1. SUFFICES ASSUME NEW v \in Workers PROVE WorkerInv(v)'
  BY DEF Inv, Good
<1>2. CASE v = w
  BY <1>2 DEF Good
<1>3. CASE v # w
  BY <1>3, OthersRely DEF Good, Frame
<1> QED
  BY <1>2, <1>3

\* A Run is lost while nobody works: nobody relied on it.
LEMMA LoseRunPreserves ==
    ASSUME Inv, NEW r \in RunIds, LoseRun(r)
    PROVE  Inv'
<1>0. TypeOK /\ StoreInv /\ \A w \in Workers : Shape(w)
  BY DEF Inv, WorkerInv
<1>1. /\ \A w \in Workers : job[w].pc = "idle"
      /\ run' = [run EXCEPT ![r] = Absent]
      /\ UNCHANGED <<command, selection, rows, event, attempts, job>>
  BY DEF LoseRun, At
<1>2. Absent \in Runs /\ Absent.st = "absent"
  BY ConstantsAssumption DEF Absent, Runs, Statuses, Outputs
<1>3. /\ run' \in [RunIds -> Runs] /\ run'[r].st = "absent"
      /\ \A q \in RunIds \ {r} : run'[q] = run[q]
  BY <1>0, <1>1, <1>2 DEF TypeOK
<1>4. TypeOK'
  BY <1>0, <1>1, <1>3 DEF TypeOK
<1>5. ASSUME NEW w \in Workers PROVE WorkerInv(w)'
  <2>1. job'[w].pc = "idle" /\ job'[w].i = 1 /\ job'[w].res = <<>> /\ job'[w].existed
    BY <1>0, <1>1 DEF Shape, Resting
  <2>2. Shape(w)'
    BY <1>0, <1>1 DEF Shape, Last, Resting, AtRun
  <2>3. Collected(w)'
    BY <2>1 DEF Collected
  <2>4. Recovers(w)' /\ Position(w)' /\ Unlost(w)'
    BY <2>1 DEF Recovers, Position, Unlost, Resting, Holding
  <2> QED
    BY <2>2, <2>3, <2>4 DEF WorkerInv
<1>6. Left' /\ OneHandoff' /\ EvidenceRestored' /\ FirstRun'
  BY <1>0, <1>1 DEF StoreInv, Left, OneHandoff, EvidenceRestored, FirstRun, Observed, Saved,
                    Primary, Member, Resting
<1>7. Handed'
  <2>1. SUFFICES ASSUME NEW h \in Handoffs, Observed(Risk(h)) PROVE Binds(h)'
    BY <1>1 DEF Handed, Observed
  <2>2. Binds(h)
    BY <1>0, <2>1 DEF StoreInv, Handed
  <2>3. \A i \in Cohort : run'[Member(i)].st = "absent" \/ run'[Member(i)] = run[Member(i)]
    BY <1>0, <1>3, CohortIs, Identities
  <2> QED
    BY <1>1, <2>2, <2>3 DEF Binds, Cohort, Observed, Present
<1>8. RiskEndings'
  BY <1>0, <1>3, Identities DEF StoreInv, RiskEndings
<1>9. Decided'
  <2>1. event # None => Risk(event.draft) \in RunIds
    BY <1>0, Identities DEF TypeOK, ResearchOutcomes
  <2> QED
    BY <1>0, <1>1, <1>3, <2>1 DEF StoreInv, Decided, Observed, Present
<1>10. ScoredBeforeRisk'
  BY <1>0, <1>1, <1>3 DEF StoreInv, ScoredBeforeRisk, Primary, Member
<1> QED
  BY <1>4, <1>5, <1>6, <1>7, <1>8, <1>9, <1>10 DEF Inv, StoreInv

\* The upstream selection is not the research case's business.
LEMMA SelectionPreserves ==
    ASSUME Inv, UNCHANGED <<command, run, rows, event, attempts, job>>,
           selection' \in {"missing", "frozen", "unusable"}
    PROVE  Inv'
<1>1. TypeOK'
  BY DEF Inv, TypeOK
<1>2. /\ \A r : Observed(r)' = Observed(r) /\ Present(r)' = Present(r)
      /\ Cohort' = Cohort /\ Last' = Last
      /\ KnownRun' = KnownRun
  BY DEF Observed, Present, Cohort, Last, KnownRun
<1>3. StoreInv'
  <2>1. Left' /\ FirstRun' /\ OneHandoff' /\ RiskEndings' /\ ScoredBeforeRisk' /\ EvidenceRestored'
    BY DEF Inv, StoreInv, Left, FirstRun, OneHandoff, RiskEndings, ScoredBeforeRisk,
           EvidenceRestored, Observed, Present, Saved, Primary, Member
  <2>2. Handed' /\ Decided'
    BY DEF Inv, StoreInv, Handed, Binds, Decided, Observed, Present, Cohort
  <2> QED
    BY <2>1, <2>2 DEF StoreInv
<1>4. ASSUME NEW w \in Workers PROVE WorkerInv(w)'
  <2>1. Grows
    BY DEF Grows, Present, Observed
  <2> QED
    BY <2>1, OthersRely
<1> QED
  BY <1>1, <1>3, <1>4 DEF Inv

\* Every step, and a stuttering one, preserves the invariant and creates no
\* Run that the host has observed.
LEMMA StepPreserves ==
    ASSUME Inv, [Next]_vars
    PROVE  /\ Inv'
           /\ \A r \in RunIds : run[r].st = "absent" /\ run'[r].st # "absent" => ~Observed(r)
<1>1. ASSUME NEW w \in Workers,
             Submit(w) \/ HostStep(w) \/ NextStage(w) \/ Finish(w) \/ Crash(w)
      PROVE  /\ Inv'
             /\ \A r \in RunIds : run[r].st = "absent" /\ run'[r].st # "absent" => ~Observed(r)
  <2>1. Good(w)
    BY <1>1, WorkerGood
  <2>2. Inv'
    BY <2>1, GoodPreserves
  <2> QED
    BY <2>1, <2>2 DEF Good, Grows, Present
<1>2. ASSUME NEW s \in {"frozen", "unusable"}, CommitSelection(s)
      PROVE  Inv' /\ run' = run
  BY <1>2, SelectionPreserves DEF CommitSelection
<1>3. ASSUME NEW q \in RunIds, LoseRun(q)
      PROVE  /\ Inv'
             /\ \A r \in RunIds : run[r].st = "absent" /\ run'[r].st # "absent" => ~Observed(r)
  <2>1. run' = [run EXCEPT ![q] = Absent] /\ Absent.st = "absent"
    BY <1>3 DEF LoseRun, Absent
  <2>2. run \in [RunIds -> Runs]
    BY DEF Inv, TypeOK
  <2>3. \A r \in RunIds : run'[r].st = "absent" \/ run'[r] = run[r]
    BY <2>1, <2>2
  <2> QED
    BY <1>3, <2>3, LoseRunPreserves
<1>4. CASE UNCHANGED vars
  <2>1. UNCHANGED <<command, run, rows, event, attempts, job>> /\ selection' = selection
    BY <1>4 DEF vars
  <2>2. selection' \in {"missing", "frozen", "unusable"}
    BY <2>1 DEF Inv, TypeOK
  <2> QED
    BY <2>1, <2>2, SelectionPreserves
<1> QED
  BY <1>1, <1>2, <1>3, <1>4 DEF Next

\* A fresh case has no history; the case of an earlier build has the history
\* of its first Run, which exists.
LEMMA InitEstablishes ==
    ASSUME Init
    PROVE  Inv
<1>1. /\ Absent \in Runs /\ Absent.st = "absent" /\ Absent.out = None
      /\ [Absent EXCEPT !.st = "CREATED"] \in Runs
      /\ [Absent EXCEPT !.st = "CREATED"].st = "CREATED"
  BY ConstantsAssumption DEF Absent, Runs, Statuses, Outputs
<1>2. NoJob \in Jobs
  <2>1. 1 \in 1..(Size + 1)
    BY ConstantsAssumption
  <2> QED
    BY <2>1 DEF NoJob, Jobs, Pcs, Statuses, Outputs
<1>3. TypeOK
  <2>1. run \in [RunIds -> Runs]
    BY <1>1 DEF Init
  <2>2. rows \subseteq RunIds \X Tags
    BY Identities DEF Init, Saved, Tags
  <2>3. attempts \in 0..MaxAttempts
    BY ConstantsAssumption DEF Init
  <2>4. job \in [Workers -> Jobs]
    BY <1>2 DEF Init
  <2> QED
    BY <2>1, <2>2, <2>3, <2>4 DEF Init, TypeOK
<1>4. \A x : x \in rows => x = <<Primary, "FRAMEWORK_RUN">> /\ command.mode # "current"
  BY DEF Init, Saved
<1>5. /\ \A h \in Handoffs : ~Observed(Risk(h)) /\ run[Risk(h)] = Absent
      /\ \A r \in RunIds : run[r].st \in {"absent", "CREATED"}
      /\ command.mode # "current" => Observed(Primary) /\ Present(Primary)
  <2>1. \A h \in Handoffs : ~Observed(Risk(h))
    BY <1>4, Identities DEF Observed
  <2>2. \A h \in Handoffs : run[Risk(h)] = Absent
    BY Identities DEF Init
  <2>3. \A r \in RunIds : run[r].st \in {"absent", "CREATED"}
    BY <1>1 DEF Init
  <2>4. command.mode # "current" => Observed(Primary) /\ Present(Primary)
    BY <1>1, Identities DEF Init, Observed, Saved, Present
  <2> QED
    BY <2>1, <2>2, <2>3, <2>4
<1>6. \A w \in Workers : job[w] = NoJob
  BY DEF Init
<1>7. StoreInv
  <2>1. FirstRun
    BY <1>6 DEF FirstRun, NoJob, Resting
  <2>2. Left /\ Handed /\ OneHandoff /\ Decided
    BY <1>5 DEF Left, Handed, OneHandoff, Decided, Init
  <2>3. RiskEndings
    BY <1>1, <1>5 DEF RiskEndings
  <2>4. ScoredBeforeRisk
    BY <1>1, <1>5, Identities DEF ScoredBeforeRisk
  <2>5. EvidenceRestored
    BY <1>4 DEF EvidenceRestored
  <2> QED
    BY <2>1, <2>2, <2>3, <2>4, <2>5 DEF StoreInv
<1>8. ASSUME NEW w \in Workers PROVE WorkerInv(w)
  <2>1. job[w].pc = "idle" /\ job[w].i = 1 /\ job[w].res = <<>> /\ job[w].existed /\ ~job[w].rec
    BY <1>6 DEF NoJob
  <2>2. Shape(w)
    <3>1. 1 \in 1..(Last + 1)
      BY <1>3, CohortIs
    <3> QED
      BY <2>1, <3>1 DEF Shape, Resting, AtRun
  <2>3. Collected(w)
    BY <2>1 DEF Collected
  <2>4. Recovers(w) /\ Position(w) /\ Unlost(w)
    BY <2>1 DEF Recovers, Position, Unlost, Resting, Holding
  <2> QED
    BY <2>2, <2>3, <2>4 DEF WorkerInv
<1> QED
  BY <1>3, <1>7, <1>8 DEF Inv

-----------------------------------------------------------------------------
(* The theorems *)

\* The inductive invariant holds in every state of every behaviour, for any
\* number of processes running the case, any cohort and any faults.
THEOREM ResearchInvariant == Spec => []Inv
<1>1. Init => Inv
  BY InitEstablishes
<1>2. Inv /\ [Next]_vars => Inv'
  BY StepPreserves
<1> QED
  BY <1>1, <1>2, PTL DEF Spec

\* Type correctness: in particular no worker ever reads a result of a member
\* it has not collected, and the identity of every Run it drives is a member
\* or a handoff of drafts.
THEOREM ResearchTypeCorrect == Spec => []TypeOK
<1>1. Inv => TypeOK
  BY DEF Inv
<1> QED
  BY <1>1, ResearchInvariant, PTL

\* What a research case leaves in the ledger is whole and in order: the scores
\* before the risk Run, one handoff, a committed outcome that rests on every
\* member and on the verdict about exactly those drafts, and no evidence lost
\* with a refused commit (freeze_research, _commit_research_framework_result).
THEOREM EvidenceIsWholeTheorem == Spec => []EvidenceIsWhole
<1>1. Inv => EvidenceIsWhole
  <2>1. SUFFICES ASSUME Inv PROVE EvidenceIsWhole
    OBVIOUS
  <2>2. TypeOK /\ StoreInv
    BY <2>1 DEF Inv
  <2>3. ASSUME event # None
        PROVE  /\ \A i \in Cohort :
                    /\ run[Member(i)].st \in {"absent", "SUCCEEDED"}
                    /\ run[Member(i)].st = "SUCCEEDED" => run[Member(i)].out = event.draft[i]
                    /\ Observed(Member(i))
               /\ Observed(Risk(event.draft))
    <3>1. event.draft \in Handoffs
      BY <2>2, <2>3 DEF TypeOK, ResearchOutcomes
    <3>2. Observed(Risk(event.draft))
      BY <2>2, <2>3 DEF StoreInv, Decided
    <3>3. Binds(event.draft)
      BY <2>2, <3>1, <3>2 DEF StoreInv, Handed
    <3> QED
      BY <3>2, <3>3 DEF Binds, Present
  <2>4. CommittedIsVetted
    BY <2>2, <2>3 DEF CommittedIsVetted, StoreInv, Decided, Present
  <2> QED
    BY <2>2, <2>4 DEF EvidenceIsWhole, StoreInv
<1> QED
  BY <1>1, ResearchInvariant, PTL

\* A Run the host has observed is never created a second time, even when the
\* Run store has lost it: whatever the workers had read before, and in
\* whatever order they reserve, register and create (_execute_registered_run,
\* _record_research_member_run_reservation).
THEOREM RunNotReplacedTheorem == Spec => RunNotReplaced
<1>1. Inv /\ [Next]_vars =>
        [\A r \in RunIds : run[r].st = "absent" /\ run'[r].st # "absent" => ~Observed(r)]_vars
  BY StepPreserves
<1> QED
  BY <1>1, ResearchInvariant, PTL DEF Spec, RunNotReplaced
=============================================================================
