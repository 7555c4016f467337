--------------------------- MODULE WorkspaceProofs ---------------------------
(***************************************************************************)
(* What CandidateReminders guarantees for every window, number of reports, *)
(* revisions and attempts, and every sequence of reminder requests, and    *)
(* what WorkspaceCommands guarantees over the same releases and reminders  *)
(* for every number of senders, commands and inputs.                       *)
(*                                                                         *)
(* The argument for the commands.  Business objects are the point where    *)
(* races are settled: a case is run only once it is the registered object  *)
(* of its key, objects are never replaced, and an event is appended only   *)
(* for an object that has none.                                            *)
(***************************************************************************)
EXTENDS WorkspaceCommands, FiniteSetTheorems, WellFoundedInduction, TLAPS

-----------------------------------------------------------------------------
(* The least and greatest members of sets of instants and positions.       *)

\* A set of instants has a first one.
LEMMA MinIsLeast ==
    ASSUME NEW S, S \subseteq Nat, S # {}
    PROVE  Min(S) \in S /\ \A y \in S : Min(S) <= y
<1>1. \E x \in S : \A y \in S : ~(<<y, x>> \in OpToRel(<, Nat))
  BY NatLessThanWellFounded, WFMin, Zenon
<1>2. PICK x \in S : \A y \in S : ~(<<y, x>> \in OpToRel(<, Nat))
  BY <1>1
<1>3. \A y \in S : x <= y
  <2> TAKE y \in S
  <2>1. ~(y < x)
    BY <1>2 DEF OpToRel
  <2> QED
    BY <2>1
<1> QED
  BY <1>3 DEF Min

\* A bounded set of numbers has a last one.
LEMMA MaxIsGreatest ==
    ASSUME NEW n \in Nat, NEW S, S \subseteq 0..n, S # {}
    PROVE  Max(S) \in S /\ \A y \in S : Max(S) >= y
<1> DEFINE T == {n - x : x \in S}
<1>0. \A x \in S : n - x \in Nat
  OBVIOUS
<1>1. T \subseteq Nat /\ T # {}
  BY <1>0
<1>2. PICK m \in T : \A y \in T : m <= y
  BY <1>1, MinIsLeast
<1>3. PICK x \in S : m = n - x
  OBVIOUS
<1>4. \A y \in S : x >= y
  <2> TAKE y \in S
  <2>1. m <= n - y
    BY <1>2
  <2> QED
    BY <1>3, <2>1
<1> QED
  BY <1>4 DEF Max

-----------------------------------------------------------------------------
(* The inductive invariant.                                                *)

Kinds == {"INITIAL", "FINAL", "CORRECTION"}
Answers == {"ACCEPTED", "REJECTED", "UNKNOWN"}
Causes == {"report", "research", "revision"} \X Nat

Reports == [scope : bound.scopes, holds : BOOLEAN, at : Nat, fixed : Nat, qual : Nat, corrects : Nat]
Revisions == [status : Usable \union {"SUSPENDED", "REVOKED"}, at : Nat, until : Nat]
Attempts ==
    [report : Nat, kind : Kinds, intent : Kinds \X Nat \X SUBSET Causes, retry : Nat,
     status : {"DISABLED", "DEFERRED", "ATTEMPTED"}, channels : SUBSET Answers, quiet : Nat]

\* Types of the retained facts.
FactsOK ==
    /\ bound \in Cases
    /\ now \in Nat \ {0} /\ now <= bound.time
    /\ reports \in Seq(Reports)
    /\ revisions \in Seq(Revisions) /\ Len(revisions) > 0

\* Nothing is dated later than now, and a release rests on a retained revision.
Dated ==
    /\ \A k \in DOMAIN revisions : revisions[k].at <= now
    /\ \A i \in DOMAIN reports :
          /\ reports[i].at <= now /\ reports[i].fixed <= now
          /\ reports[i].qual \in DOMAIN revisions

\* A correction corrects an earlier report of its scope, which no other does.
Linear ==
    /\ \A i \in DOMAIN reports : reports[i].corrects # 0 =>
          /\ reports[i].corrects \in DOMAIN reports /\ reports[i].corrects < i
          /\ reports[reports[i].corrects].scope = reports[i].scope
    /\ \A i, j \in DOMAIN reports :
          reports[i].corrects = reports[j].corrects /\ reports[i].corrects # 0 => i = j

\* What is retained of one reminder.
Sound(n) ==
    LET a == attempts[n] IN
    /\ a.kind # "CORRECTION" => a.intent = <<a.kind, 0, {}>>
    /\ a.kind = "CORRECTION" => /\ a.intent[1] = "CORRECTION" /\ a.intent[2] = a.report
                                /\ a.status # "DISABLED"
    /\ a.status # "ATTEMPTED" => a.channels = {}
    /\ a.retry < n
    /\ a.retry # 0 => attempts[a.retry].intent = a.intent

Attempted == attempts \in Seq(Attempts) /\ \A n \in DOMAIN attempts : Sound(n)

\* Of two attempts of one intent the earlier has been retried.
Chained ==
    \A m, n \in DOMAIN attempts : m < n /\ attempts[m].intent = attempts[n].intent =>
        \E k \in DOMAIN attempts : attempts[k].retry = m

RemindersInv == FactsOK /\ Dated /\ Linear /\ Attempted /\ Chained /\ OneIntent

-----------------------------------------------------------------------------
(* What a withdrawal may name.                                             *)

\* The instant a withdrawal is judged at is the present until the window
\* closes, and the close from then on.
LEMMA WithdrawalInstant ==
    ASSUME now \in Nat
    PROVE  /\ WithdrawalAt \in Nat /\ WithdrawalAt <= now /\ WithdrawalAt <= Close
           /\ now <= Close => WithdrawalAt = now
           /\ Ended => WithdrawalAt = Close
<1>1. Min({now, Close}) \in {now, Close} /\ \A y \in {now, Close} : Min({now, Close}) <= y
  BY WindowOrder, MinIsLeast
<1> QED
  BY <1>1, WindowOrder DEF WithdrawalAt, Ended

\* The instants at which a release loses its support are instants, and there
\* is a first of them.
LEMMA BreaksOK ==
    ASSUME FactsOK, Dated, NEW i \in DOMAIN reports, NEW t \in Nat
    PROVE  /\ Breaks(i, t) \subseteq Nat
           /\ Breaks(i, t) # {} => Min(Breaks(i, t)) \in Breaks(i, t)
<1>1. reports[i].qual \in 1 .. Len(revisions) /\ Len(revisions) \in Nat
  BY DEF FactsOK, Dated
<1>2. reports[i].qual .. Len(revisions) \subseteq Nat
  BY <1>1
<1>3. Breaks(i, t) \subseteq Nat
  BY <1>2 DEF Breaks
<1> QED
  BY <1>3, MinIsLeast

\* The latest revision a check at t can see.
Seen(i, t) == {k \in reports[i].qual..Len(revisions) : revisions[k].at <= t}

\* A published release has seen at least its own qualification revision, and the
\* latest revision it has seen is well defined.
LEMMA SeenOK ==
    ASSUME FactsOK, Dated, NEW i \in DOMAIN reports, NEW t \in Nat, revisions[reports[i].qual].at <= t
    PROVE  /\ Seen(i, t) \subseteq 0..Len(revisions)
           /\ Max(Seen(i, t)) \in Seen(i, t)
           /\ \A k \in Seen(i, t) : Max(Seen(i, t)) >= k
<1>1. reports[i].qual \in 1..Len(revisions)
  BY DEF Dated, FactsOK
<1>2. reports[i].qual \in Seen(i, t)
  BY <1>1 DEF Seen, FactsOK
<1>3. Seen(i, t) \subseteq 0..Len(revisions)
  BY <1>1 DEF Seen, FactsOK
<1>4. Len(revisions) \in Nat
  BY DEF FactsOK
<1> QED
  BY <1>2, <1>3, <1>4, MaxIsGreatest

\* What disqualifies a release has an instant.
LEMMA DisqualifyingOK ==
    ASSUME FactsOK, Dated, NEW i \in DOMAIN reports, NEW t \in Nat
    PROVE  Disqualifying(i, t) \subseteq Nat
<1>1. reports[i].qual \in Nat /\ revisions[reports[i].qual] \in Revisions
  BY SMTT(30) DEF Dated, FactsOK, Reports
<1>2. CASE revisions[reports[i].qual].at > t
  BY <1>2 DEF Disqualifying
<1>3. CASE ~(revisions[reports[i].qual].at > t)
  <2>1. revisions[reports[i].qual].at <= t
    BY <1>1, <1>3 DEF Revisions
  <2>2. Max(Seen(i, t)) \in Nat
    BY <2>1, SeenOK
  <2> QED
    BY <1>1, <1>3, <2>2, BreaksOK DEF Disqualifying, Seen
<1> QED
  BY <1>2, <1>3

\* A withdrawal is given a cause the program names.
LEMMA WithdrawalOK ==
    ASSUME FactsOK, Dated, NEW i \in DOMAIN reports
    PROVE  Withdrawal(i) \subseteq Causes
<1>1. i \in Nat /\ WithdrawalAt \in Nat
  BY WithdrawalInstant DEF FactsOK
<1>2. Disqualifying(i, WithdrawalAt) \subseteq Nat
  BY <1>1, DisqualifyingOK
<1>3. Successors(i) \subseteq Nat
  BY DEF Successors, FactsOK
<1>4. (\E j \in Successors(i) : TRUE) => (CHOOSE j \in Successors(i) : TRUE) \in Nat
  BY <1>3
<1>5. \A n \in Nat : <<"report", n>> \in Causes /\ <<"research", n>> \in Causes /\ <<"revision", n>> \in Causes
  BY DEF Causes
<1>6. {IF k = 0 THEN <<"report", i>> ELSE <<"revision", k>> : k \in Disqualifying(i, WithdrawalAt)}
        \subseteq Causes
  BY <1>1, <1>2, <1>5
<1> QED
  BY <1>1, <1>4, <1>5, <1>6, Zenon DEF Withdrawal

-----------------------------------------------------------------------------
(* The invariant is inductive.                                             *)

\* What appending one record does to a ledger.
LEMMA Appended ==
    ASSUME NEW S, NEW s \in Seq(S), NEW e \in S, NEW t, t = Append(s, e)
    PROVE  /\ t \in Seq(S) /\ Len(t) = Len(s) + 1
           /\ Len(s) \in Nat /\ DOMAIN s = 1..Len(s) /\ DOMAIN t = 1..(Len(s) + 1)
           /\ DOMAIN t = DOMAIN s \union {Len(s) + 1} /\ Len(s) + 1 \notin DOMAIN s
           /\ \A n \in DOMAIN s : n < Len(s) + 1 /\ t[n] = s[n]
           /\ t[Len(s) + 1] = e
OBVIOUS

\* The empty ledger satisfies the invariant.
LEMMA RemindersInit == Init => RemindersInv
<1> SUFFICES ASSUME Init PROVE RemindersInv
  OBVIOUS
<1>1. PICK until \in bound.until : revisions = <<[status |-> "VALID", at |-> 0, until |-> until]>>
  BY DEF Init
<1>2. bound \in Cases /\ until \in Nat /\ bound.time \in Nat \ {0}
  BY CasesAssumption DEF Init
<1>3. [status |-> "VALID", at |-> 0, until |-> until] \in Revisions
  BY <1>2 DEF Revisions, Usable
<1>4. revisions \in Seq(Revisions) /\ Len(revisions) = 1 /\ DOMAIN revisions = {1} /\ revisions[1].at = 0
  BY <1>1, <1>3
<1>5. reports = <<>> /\ attempts = <<>> /\ now = 1
  BY DEF Init
<1>6. FactsOK /\ Dated /\ Linear
  BY <1>2, <1>4, <1>5 DEF FactsOK, Dated, Linear
<1>7. Attempted /\ Chained /\ OneIntent
  BY <1>5 DEF Attempted, Chained, OneIntent
<1> QED
  BY <1>6, <1>7 DEF RemindersInv

\* Publishing a release keeps the ledger of releases and revisions in order.
LEMMA PublishFacts ==
    ASSUME RemindersInv, NEW scope \in bound.scopes, NEW holds \in BOOLEAN, Publish(scope, holds)
    PROVE  FactsOK' /\ Dated' /\ Linear'
<1> DEFINE own == {i \in DOMAIN reports : reports[i].scope = scope}
           new == [scope |-> scope, holds |-> holds, at |-> now, fixed |-> Never,
                   qual |-> Len(revisions), corrects |-> IF own = {} THEN 0 ELSE Max(own)]
           last == Len(reports) + 1
<1>0. FactsOK /\ Dated /\ Linear
  BY DEF RemindersInv
<1>1. reports' = Append(reports, new) /\ UNCHANGED <<bound, now, revisions, attempts>>
  BY DEF Publish
<1>2. own # {} => Max(own) \in own /\ \A j \in own : Max(own) >= j
  <2>1. Len(reports) \in Nat /\ own \subseteq 0..Len(reports)
    BY <1>0 DEF FactsOK
  <2> QED
    BY <2>1, MaxIsGreatest
<1>3. new \in Reports /\ new.corrects \in Nat
  <2>1. own \subseteq Nat /\ Len(revisions) \in Nat /\ now \in Nat
    BY <1>0 DEF FactsOK
  <2>2. (IF own = {} THEN 0 ELSE Max(own)) \in Nat
    BY <1>2, <2>1
  <2> QED
    BY <2>1, <2>2 DEF Reports, Never
<1> HIDE DEF new
<1>4. /\ reports' \in Seq(Reports) /\ Len(reports) \in Nat /\ DOMAIN reports = 1..Len(reports)
      /\ DOMAIN reports' = DOMAIN reports \union {last} /\ last \notin DOMAIN reports
      /\ \A n \in DOMAIN reports : n < last /\ reports'[n] = reports[n]
      /\ reports'[last] = new
  BY <1>0, <1>1, <1>3, Appended DEF FactsOK
<1>5. FactsOK'
  BY <1>0, <1>1, <1>4 DEF FactsOK, Reports, Revisions
<1>6. Dated'
  <2>1. new.at = now /\ new.fixed = 0 /\ new.qual = Len(revisions) /\ Len(revisions) \in DOMAIN revisions
    BY <1>0 DEF new, Never, FactsOK
  <2> QED
    BY <1>0, <1>1, <1>4, <2>1 DEF Dated, FactsOK
<1>7. Linear'
  <2>1. new.corrects # 0 => new.corrects \in own /\ \A j \in own : new.corrects >= j
    BY <1>2 DEF new
  <2>2. new.scope = scope
    BY DEF new
  <2>3. \A i \in DOMAIN reports' : reports'[i].corrects # 0 =>
          /\ reports'[i].corrects \in DOMAIN reports' /\ reports'[i].corrects < i
          /\ reports'[reports'[i].corrects].scope = reports'[i].scope
    <3> SUFFICES ASSUME NEW i \in DOMAIN reports', reports'[i].corrects # 0
                 PROVE  /\ reports'[i].corrects \in DOMAIN reports /\ reports'[i].corrects < i
                        /\ reports[reports'[i].corrects].scope = reports'[i].scope
      BY <1>4
    <3>1. CASE i = last
      BY <3>1, <1>4, <2>1, <2>2
    <3>2. CASE i \in DOMAIN reports
      BY <3>2, <1>0, <1>4 DEF Linear
    <3> QED
      BY <3>1, <3>2, <1>4
  <2>4. ASSUME NEW j \in DOMAIN reports, reports[j].corrects = new.corrects, new.corrects # 0
        PROVE  FALSE
    <3>1. /\ reports[j].corrects \in DOMAIN reports /\ reports[j].corrects < j
          /\ reports[reports[j].corrects].scope = reports[j].scope
      BY <2>4, <1>0 DEF Linear
    <3>2. j \in own /\ new.corrects >= j
      BY <2>1, <2>4, <3>1
    <3> QED
      BY <1>4, <2>4, <3>1, <3>2
  <2> QED
    BY <1>0, <1>4, <2>3, <2>4 DEF Linear
<1> QED
  BY <1>5, <1>6, <1>7

\* So do a corrected research result, a governance revision and the clock.
LEMMA OtherFacts ==
    ASSUME RemindersInv,
           \/ \E i : CorrectResearch(i)
           \/ \E status \in {"VALID", "AT_RISK", "SUSPENDED", "REVOKED"},
                 until \in bound.until : Govern(status, until)
           \/ Tick
    PROVE  FactsOK' /\ Dated' /\ Linear' /\ UNCHANGED attempts
<1>0. FactsOK /\ Dated /\ Linear
  BY DEF RemindersInv
<1>1. ASSUME NEW i, CorrectResearch(i) PROVE FactsOK' /\ Dated' /\ Linear' /\ UNCHANGED attempts
  <2>1. /\ i \in DOMAIN reports /\ reports' = [reports EXCEPT ![i].fixed = now]
        /\ UNCHANGED <<bound, now, revisions, attempts>>
    BY <1>1 DEF CorrectResearch
  <2>2. /\ reports' \in Seq(Reports) /\ Len(reports') = Len(reports) /\ DOMAIN reports' = DOMAIN reports
        /\ \A j \in DOMAIN reports : /\ reports'[j].at = reports[j].at
                                     /\ reports'[j].qual = reports[j].qual
                                     /\ reports'[j].corrects = reports[j].corrects
                                     /\ reports'[j].scope = reports[j].scope
                                     /\ reports'[j].fixed \in {now, reports[j].fixed}
    <3>1. /\ \A j \in DOMAIN reports : reports[j] \in Reports
          /\ DOMAIN reports = 1..Len(reports) /\ Len(reports) \in Nat /\ now \in Nat
      BY <1>0 DEF FactsOK
    <3>2. \A j \in DOMAIN reports :
             reports'[j] = IF j = i THEN [reports[i] EXCEPT !.fixed = now] ELSE reports[j]
      BY <2>1, <3>1
    <3>3. [reports[i] EXCEPT !.fixed = now] \in Reports
      BY <2>1, <3>1 DEF Reports
    <3>4. reports' \in [1..Len(reports) -> Reports]
      BY <2>1, <3>1, <3>2, <3>3
    <3>5. reports' \in Seq(Reports) /\ Len(reports') = Len(reports) /\ DOMAIN reports' = DOMAIN reports
      BY <3>1, <3>4
    <3> QED
      BY ZenonT(60), <3>1, <3>2, <3>5 DEF Reports
  <2>3. FactsOK'
    BY <1>0, <2>1, <2>2 DEF FactsOK, Reports, Revisions
  <2>4. Dated'
    BY <1>0, <2>1, <2>2 DEF Dated, FactsOK
  <2>5. Linear'
    BY <1>0, <2>1, <2>2 DEF Linear
  <2> QED
    BY <2>1, <2>3, <2>4, <2>5
<1>2. ASSUME NEW status \in {"VALID", "AT_RISK", "SUSPENDED", "REVOKED"},
             NEW until \in bound.until, Govern(status, until)
      PROVE  FactsOK' /\ Dated' /\ Linear' /\ UNCHANGED attempts
  <2> DEFINE new == [status |-> status, at |-> now, until |-> until]
  <2>1. revisions' = Append(revisions, new) /\ UNCHANGED <<bound, now, reports, attempts>>
    BY <1>2 DEF Govern
  <2>2. new \in Revisions /\ new.at = now
    BY <1>0, CasesAssumption DEF FactsOK, Revisions, Usable
  <2> HIDE DEF new
  <2>3. /\ revisions' \in Seq(Revisions) /\ Len(revisions') > 0
        /\ DOMAIN revisions' = DOMAIN revisions \union {Len(revisions) + 1}
        /\ \A n \in DOMAIN revisions : revisions'[n] = revisions[n]
        /\ revisions'[Len(revisions) + 1] = new
    BY <1>0, <2>1, <2>2, Appended DEF FactsOK
  <2>4. FactsOK'
    BY <1>0, <2>1, <2>3 DEF FactsOK, Reports, Revisions
  <2>5. Dated'
    BY <1>0, <2>1, <2>2, <2>3 DEF Dated, FactsOK
  <2>6. Linear'
    BY <1>0, <2>1 DEF Linear
  <2> QED
    BY <2>1, <2>4, <2>5, <2>6
<1>3. CASE Tick
  <2>1. /\ now < bound.time /\ now' = now + 1 /\ UNCHANGED <<bound, reports, revisions, attempts>>
    BY <1>3 DEF Tick
  <2>2. bound.time \in Nat
    BY <1>0, CasesAssumption DEF FactsOK
  <2>3. FactsOK'
    BY <1>0, <2>1, <2>2 DEF FactsOK, Reports, Revisions
  <2>4. \A n \in Nat : n <= now => n <= now'
    BY <1>0, <2>1 DEF FactsOK
  <2>5. \A k \in DOMAIN revisions : revisions[k].at \in Nat
    <3>1. \A k \in DOMAIN revisions : revisions[k] \in Revisions
      BY <1>0 DEF FactsOK
    <3> QED
      BY <3>1 DEF Revisions
  <2>6. \A k \in DOMAIN reports : reports[k].at \in Nat /\ reports[k].fixed \in Nat
    <3>1. \A k \in DOMAIN reports : reports[k] \in Reports
      BY <1>0 DEF FactsOK
    <3> QED
      BY <3>1 DEF Reports
  <2>7. Dated'
    BY <1>0, <2>1, <2>4, <2>5, <2>6 DEF Dated
  <2>8. Linear'
    BY <1>0, <2>1 DEF Linear
  <2> QED
    BY <2>1, <2>3, <2>7, <2>8
<1> QED
  BY <1>1, <1>2, <1>3

\* What candidate_reminder records, as its own checks leave it.
LEMMA NewAttempt ==
    ASSUME RemindersInv, NEW r \in Requests, NEW q \in 0..Len(attempts), NEW i,
           Remind(i, [r EXCEPT !.retry = q])
    PROVE  \E a \in Attempts :
             /\ attempts' = Append(attempts, a)
             /\ a.report = i /\ a.retry = q /\ a.intent = Intent(i, a.kind)
             /\ a.kind # "CORRECTION" => a.intent = <<a.kind, 0, {}>>
             /\ a.kind = "CORRECTION" => /\ a.intent[1] = "CORRECTION" /\ a.intent[2] = i
                                         /\ a.status # "DISABLED"
             /\ a.status # "ATTEMPTED" => a.channels = {}
             /\ IF q = 0 THEN \A n \in DOMAIN attempts : attempts[n].intent # a.intent
                ELSE /\ q \in DOMAIN attempts /\ attempts[q].intent = a.intent
                     /\ attempts[q].report = i
                     /\ \A n \in DOMAIN attempts : attempts[n].retry # q
                     /\ attempts[q].status = "DEFERRED" \/ ~Delivered(attempts[q])
<1> DEFINE rq == [r EXCEPT !.retry = q]
           a == [report |-> i, kind |-> rq.kind, intent |-> Intent(i, rq.kind), retry |-> rq.retry,
                 status |-> Routed(i, rq), channels |-> Channels(i, rq), quiet |-> rq.quiet]
<1>0. FactsOK /\ Dated /\ Linear /\ Attempted
  BY DEF RemindersInv
<1>1. r \in ReminderRequests
  BY <1>0, CasesAssumption DEF FactsOK, Requests
<1>2. /\ rq.kind \in Kinds /\ rq.quiet \in Nat /\ rq.retry = q /\ rq.primary \in Answers
      /\ rq.fallback \in Answers
  BY <1>1 DEF ReminderRequests, Kinds, Answers
<1> HIDE DEF rq
<1>3. i \in DOMAIN reports /\ Accepts(i, rq) /\ attempts' = Append(attempts, a)
  BY DEF Remind, rq
<1>4. i \in Nat /\ q \in Nat
  BY <1>0, <1>3 DEF FactsOK, Attempted
<1>5. MaterialFacts(i) \subseteq Causes
  <2>1. Withdrawal(i) \subseteq Causes /\ <<"report", i>> \in Causes
    BY <1>0, <1>3, <1>4, WithdrawalOK DEF Causes
  <2>2. \A j \in Successors(i) : <<"report", j>> \in Causes
    BY <1>0 DEF Successors, FactsOK, Causes
  <2> QED
    BY <2>1, <2>2 DEF MaterialFacts
<1>6. /\ a.intent \in Kinds \X Nat \X SUBSET Causes
      /\ rq.kind # "CORRECTION" => a.intent = <<rq.kind, 0, {}>>
      /\ rq.kind = "CORRECTION" => a.intent[1] = "CORRECTION" /\ a.intent[2] = i
  BY <1>2, <1>4, <1>5 DEF Intent
<1>7. /\ a.status \in {"DISABLED", "DEFERRED", "ATTEMPTED"}
      /\ rq.kind = "CORRECTION" => a.status # "DISABLED"
      /\ a.channels \in SUBSET Answers
      /\ a.status # "ATTEMPTED" => a.channels = {}
  BY <1>2 DEF Routed, Channels
<1>8. a \in Attempts
  BY <1>2, <1>4, <1>6, <1>7 DEF Attempts
<1>9. IF q = 0 THEN \A n \in DOMAIN attempts : attempts[n].intent # a.intent
      ELSE /\ q \in DOMAIN attempts /\ attempts[q].intent = a.intent
           /\ attempts[q].report = i
           /\ \A n \in DOMAIN attempts : attempts[n].retry # q
           /\ attempts[q].status = "DEFERRED" \/ ~Delivered(attempts[q])
  BY <1>2, <1>3 DEF Accepts, MayStart, MayRetry
<1>10. a.report = i /\ a.retry = q /\ a.kind = rq.kind /\ a.intent = Intent(i, a.kind)
  BY <1>2
<1> HIDE DEF a
<1> QED
  BY <1>3, <1>6, <1>7, <1>8, <1>9, <1>10

\* A reminder attempt extends the chain of its intent or begins a new one.
LEMMA RemindAttempts ==
    ASSUME RemindersInv, NEW r \in Requests, NEW q \in 0..Len(attempts), NEW i,
           Remind(i, [r EXCEPT !.retry = q])
    PROVE  Attempted' /\ Chained' /\ OneIntent'
<1> DEFINE last == Len(attempts) + 1
<1>0. FactsOK /\ Dated /\ Linear /\ Attempted /\ Chained /\ OneIntent
  BY DEF RemindersInv
<1>1. PICK a \in Attempts :
         /\ attempts' = Append(attempts, a)
         /\ a.report = i /\ a.retry = q
         /\ a.kind # "CORRECTION" => a.intent = <<a.kind, 0, {}>>
         /\ a.kind = "CORRECTION" => /\ a.intent[1] = "CORRECTION" /\ a.intent[2] = i
                                     /\ a.status # "DISABLED"
         /\ a.status # "ATTEMPTED" => a.channels = {}
         /\ IF q = 0 THEN \A n \in DOMAIN attempts : attempts[n].intent # a.intent
            ELSE /\ q \in DOMAIN attempts /\ attempts[q].intent = a.intent
                 /\ attempts[q].report = i
                 /\ \A n \in DOMAIN attempts : attempts[n].retry # q
                 /\ attempts[q].status = "DEFERRED" \/ ~Delivered(attempts[q])
  BY NewAttempt
<1>2. /\ attempts' \in Seq(Attempts) /\ Len(attempts) \in Nat
      /\ DOMAIN attempts = 1..Len(attempts)
      /\ DOMAIN attempts' = DOMAIN attempts \union {last} /\ last \notin DOMAIN attempts
      /\ \A n \in DOMAIN attempts : n < last /\ attempts'[n] = attempts[n]
      /\ attempts'[last] = a
  BY <1>0, <1>1, Appended DEF Attempted
<1>3. \A n \in DOMAIN attempts : attempts[n] \in Attempts /\ Sound(n)
  BY <1>0 DEF Attempted
<1>4. Attempted'
  <2> SUFFICES ASSUME NEW n \in DOMAIN attempts' PROVE Sound(n)'
    BY <1>2 DEF Attempted
  <2>1. CASE n \in DOMAIN attempts
    <3>1. attempts[n].retry \in Nat /\ n \in Nat /\ attempts[n].retry < n
      BY <1>2, <1>3, <2>1 DEF Sound, Attempts
    <3>2. attempts[n].retry # 0 => attempts'[attempts[n].retry] = attempts[attempts[n].retry]
      BY <1>2, <2>1, <3>1
    <3>3. attempts'[n] = attempts[n] /\ Sound(n)
      BY <1>2, <1>3, <2>1
    <3> QED
      BY <3>2, <3>3 DEF Sound
  <2>2. CASE n = last
    <3>1. attempts'[n] = a
      BY <1>2, <2>2
    <3>2. q < n /\ (q # 0 => attempts'[q].intent = a.intent)
      BY <1>1, <1>2, <2>2
    <3> QED
      BY <1>1, <3>1, <3>2 DEF Sound
  <2> QED
    BY <1>2, <2>1, <2>2
\* An attempt of the new one's intent is the retried one or an earlier one.
<1>5. ASSUME NEW m \in DOMAIN attempts, attempts[m].intent = a.intent
      PROVE  /\ q \in DOMAIN attempts /\ m <= q /\ ~Delivered(attempts[m])
             /\ attempts[m].report = i
             /\ \E k \in DOMAIN attempts' : attempts'[k].retry = m
  <2>1. q # 0 /\ q \in DOMAIN attempts /\ attempts[q].intent = a.intent
    BY <1>1, <1>5
  <2>2. m <= q
    <3> SUFFICES ASSUME ~(m <= q) PROVE FALSE
      OBVIOUS
    <3>1. q < m
      BY <1>2, <2>1
    <3>2. \E k \in DOMAIN attempts : attempts[k].retry = q
      BY <1>0, <1>5, <2>1, <3>1 DEF Chained
    <3> QED
      BY <1>1, <2>1, <3>2
  <2>3. ~Delivered(attempts[q])
    BY <1>1, <1>3, <2>1 DEF Sound, Delivered
  <2>4. CASE m = q
    BY <1>1, <1>2, <2>1, <2>2, <2>3, <2>4
  <2>5. CASE m < q
    <3>1. \E k \in DOMAIN attempts : attempts[k].retry = m
      BY <1>0, <1>5, <2>1, <2>5 DEF Chained
    <3>2. /\ attempts[m].kind = attempts[q].kind
      BY <1>3, <1>5, <2>1 DEF Sound
    <3>3. ~Delivered(attempts[m]) /\ attempts[m].report = attempts[q].report
      BY <1>0, <1>5, <2>1, <2>5, <3>2 DEF OneIntent
    <3> QED
      BY <1>1, <1>2, <2>1, <2>2, <3>1, <3>3
  <2> QED
    BY <1>2, <2>1, <2>2, <2>4, <2>5
<1>6. Chained'
  <2> SUFFICES ASSUME NEW m \in DOMAIN attempts', NEW n \in DOMAIN attempts', m < n,
                      attempts'[m].intent = attempts'[n].intent
               PROVE  \E k \in DOMAIN attempts' : attempts'[k].retry = m
    BY DEF Chained
  <2>1. m \in DOMAIN attempts
    BY <1>2
  <2>2. CASE n = last
    BY <1>2, <1>5, <2>1, <2>2
  <2>3. CASE n \in DOMAIN attempts
    BY <1>0, <1>2, <2>1, <2>3 DEF Chained
  <2> QED
    BY <1>2, <2>2, <2>3
<1>7. OneIntent'
  <2> SUFFICES ASSUME NEW m \in DOMAIN attempts', NEW n \in DOMAIN attempts', m < n,
                      attempts'[m].kind = attempts'[n].kind,
                      attempts'[m].kind = "CORRECTION" => attempts'[m].intent = attempts'[n].intent
               PROVE  /\ ~Delivered(attempts'[m])
                      /\ attempts'[n].retry >= m
                      /\ attempts'[m].report = attempts'[n].report
    BY DEF OneIntent, Delivered
  <2>1. m \in DOMAIN attempts
    BY <1>2
  <2>2. CASE n = last
    <3>1. attempts[m].intent = a.intent
      BY ZenonT(60), <1>1, <1>2, <1>3, <2>1, <2>2 DEF Sound
    <3>2. q \in DOMAIN attempts /\ m <= q /\ ~Delivered(attempts[m]) /\ attempts[m].report = i
      BY <1>5, <2>1, <3>1
    <3> QED
      BY <1>1, <1>2, <2>1, <2>2, <3>2
  <2>3. CASE n \in DOMAIN attempts
    BY <1>0, <1>2, <2>1, <2>3 DEF OneIntent
  <2> QED
    BY <1>2, <2>2, <2>3
<1> QED
  BY <1>4, <1>6, <1>7

\* Every step preserves the invariant.
LEMMA RemindersStep == RemindersInv /\ [Next]_vars => RemindersInv'
<1> SUFFICES ASSUME RemindersInv, [Next]_vars PROVE RemindersInv'
  OBVIOUS
<1>1. UNCHANGED attempts => Attempted' /\ Chained' /\ OneIntent'
  BY DEF RemindersInv, Attempted, Sound, Chained, OneIntent, Delivered
<1>2. ASSUME NEW scope \in bound.scopes, NEW holds \in BOOLEAN, Publish(scope, holds) PROVE RemindersInv'
  BY <1>1, <1>2, PublishFacts DEF Publish, RemindersInv
<1>3. CASE \/ \E i \in 1..bound.reports : CorrectResearch(i)
           \/ \E status \in {"VALID", "AT_RISK", "SUSPENDED", "REVOKED"},
                 until \in bound.until : Govern(status, until)
           \/ Tick
  <2>1. FactsOK' /\ Dated' /\ Linear' /\ UNCHANGED attempts
    BY <1>3, OtherFacts
  <2> QED
    BY <1>1, <2>1 DEF RemindersInv
<1>4. ASSUME NEW i \in 1..bound.reports, NEW r \in Requests, NEW n \in 0..Len(attempts),
             Remind(i, [r EXCEPT !.retry = n])
      PROVE  RemindersInv'
  <2>1. UNCHANGED <<bound, now, reports, revisions>>
    BY <1>4 DEF Remind
  <2>2. FactsOK' /\ Dated' /\ Linear'
    BY <2>1 DEF RemindersInv, FactsOK, Dated, Linear, Reports, Revisions
  <2> QED
    BY <1>4, <2>2, RemindAttempts DEF RemindersInv
<1>5. CASE UNCHANGED vars
  BY <1>1, <1>5 DEF vars, RemindersInv, FactsOK, Dated, Linear, Reports, Revisions
<1> QED
  BY <1>2, <1>3, <1>4, <1>5 DEF Next

\* Every retained fact and reminder is well formed, and attempts of one intent
\* form one chain of retries, whatever the host asks for and in what order.
THEOREM RemindersInvariant == Spec => []RemindersInv
  BY RemindersInit, RemindersStep, PTL DEF Spec

-----------------------------------------------------------------------------
(* Withdrawals can be told.                                                *)

\* Who was told of a release that is now gone has been told so, or can be.
LEMMA CanBeTold == RemindersInv => WithdrawalCanBeTold
<1> SUFFICES ASSUME RemindersInv, NEW i \in DOMAIN reports, Status(i) \in Gone,
                    NEW p \in DOMAIN attempts,
                    attempts[p].report = i /\ attempts[p].kind # "CORRECTION",
                    reports[i].holds /\ attempts[p].channels \ {"REJECTED"} # {}
             PROVE  \/ \E n \in DOMAIN attempts :
                          /\ attempts[n].intent = Intent(i, "CORRECTION")
                          /\ Delivered(attempts[n])
                             \/ (attempts[n].status = "DEFERRED" /\ now < attempts[n].quiet)
                    \/ \E n \in 0..Len(attempts), q \in 0..bound.time :
                          Accepts(i, [kind |-> "CORRECTION", quiet |-> q, enabled |-> TRUE, retry |-> n,
                                      primary |-> "ACCEPTED", fallback |-> "ACCEPTED"])
  BY DEF WithdrawalCanBeTold
<1> DEFINE X == Intent(i, "CORRECTION")
           told == {n \in DOMAIN attempts : attempts[n].intent = X}
           rq(n, q) == [kind |-> "CORRECTION", quiet |-> q, enabled |-> TRUE, retry |-> n,
                        primary |-> "ACCEPTED", fallback |-> "ACCEPTED"]
<1>0. FactsOK /\ Attempted
  BY DEF RemindersInv
<1>1. /\ attempts \in Seq(Attempts) /\ DOMAIN attempts = 1..Len(attempts) /\ Len(attempts) \in Nat
      /\ \A n \in DOMAIN attempts : attempts[n] \in Attempts /\ Sound(n)
  BY <1>0 DEF Attempted
<1>2. now \in Nat /\ bound.time \in Nat /\ now <= bound.time
  BY <1>0, CasesAssumption DEF FactsOK
<1>3. X[1] = "CORRECTION" /\ X[2] = i
  BY DEF Intent
<1> HIDE DEF X
<1>4. PriorAlerts(i) # {}
  BY <1>1 DEF Sound, PriorAlerts, Reached
<1>5. MayRemind(i, "CORRECTION")
  BY <1>4 DEF MayRemind
<1>6. CASE told = {}
  <2>1. \A n \in DOMAIN attempts : attempts[n].intent # Intent(i, "CORRECTION")
    BY <1>6 DEF X
  <2>2. Accepts(i, rq(0, 0))
    BY <1>5, <2>1 DEF Accepts, MayStart
  <2>3. 0 \in 0..Len(attempts) /\ 0 \in 0..bound.time
    BY <1>1, <1>2
  <2> QED
    BY <2>2, <2>3
<1>7. CASE told # {}
  <2> DEFINE m == Max(told)
  <2>0. told \subseteq 0..Len(attempts)
    BY <1>1
  <2>1. m \in told /\ \A y \in told : m >= y
    BY <1>1, <1>7, <2>0, MaxIsGreatest
  <2> HIDE DEF m
  <2>2. m \in DOMAIN attempts /\ attempts[m].intent = X /\ m \in Nat
    BY <1>1, <2>1
  <2>3. attempts[m] \in Attempts /\ Sound(m)
    BY <1>1, <2>2
  <2>4. attempts[m].kind = "CORRECTION" /\ attempts[m].report = i
    BY <1>3, <2>2, <2>3 DEF Sound
  <2>5. \A n \in DOMAIN attempts : attempts[n].retry # m
    <3> SUFFICES ASSUME NEW n \in DOMAIN attempts, attempts[n].retry = m PROVE FALSE
      OBVIOUS
    <3>1. m < n /\ attempts[n].intent = attempts[m].intent
      BY <1>1, <2>2 DEF Sound
    <3> QED
      BY <1>1, <2>1, <2>2, <3>1
  <2>6. CASE Delivered(attempts[m])
    BY <2>2, <2>6 DEF X
  <2>7. CASE attempts[m].status = "DEFERRED" /\ now < attempts[m].quiet
    BY <2>2, <2>7 DEF X
  <2>8. CASE attempts[m].status = "DEFERRED" /\ ~(now < attempts[m].quiet)
    <3>1. attempts[m].quiet \in 0..bound.time /\ now >= attempts[m].quiet
      BY <1>2, <2>3, <2>8 DEF Attempts
    <3>2. MayRetry(i, rq(m, attempts[m].quiet))
      BY <2>2, <2>4, <2>5, <2>8, <3>1 DEF MayRetry, X
    <3>3. Accepts(i, rq(m, attempts[m].quiet))
      BY <1>1, <1>5, <2>2, <3>2 DEF Accepts
    <3>4. m \in 0..Len(attempts)
      BY <1>1, <2>2
    <3> QED
      BY <3>1, <3>3, <3>4
  <2>9. CASE attempts[m].status = "ATTEMPTED" /\ ~Delivered(attempts[m])
    <3>1. MayRetry(i, rq(m, 0))
      BY <2>2, <2>4, <2>5, <2>9 DEF MayRetry, X
    <3>2. Accepts(i, rq(m, 0))
      BY <1>1, <1>5, <2>2, <3>1 DEF Accepts
    <3>3. m \in 0..Len(attempts) /\ 0 \in 0..bound.time
      BY <1>1, <1>2, <2>2
    <3> QED
      BY <3>2, <3>3
  <2> QED
    BY <2>3, <2>4, <2>6, <2>7, <2>8, <2>9 DEF Attempts, Sound
<1> QED
  BY <1>6, <1>7

\* One intent of each kind a month, in one chain of retries of which only the
\* last can have been accepted; and an owner who may have read an alert of
\* candidates that no longer stand can be told so (prepare_candidate_reminder).
THEOREM RemindersAreSoundTheorem == Spec => []RemindersAreSound
<1>1. RemindersInv => RemindersAreSound
  BY CanBeTold DEF RemindersInv, RemindersAreSound
<1> QED
  BY <1>1, RemindersInvariant, PTL

-----------------------------------------------------------------------------
(* Withdrawals last.                                                       *)

\* Retained reports and revisions stay as they are, but for a first
\* correction of their research; what is added is dated now.
Kept ==
    /\ now' \in Nat /\ now <= now'
    /\ now' # now => now' = now + 1 /\ UNCHANGED <<reports, revisions>>
    /\ DOMAIN reports \subseteq DOMAIN reports'
    /\ \A i \in DOMAIN reports :
          /\ reports'[i].holds = reports[i].holds /\ reports'[i].at = reports[i].at
          /\ reports'[i].qual = reports[i].qual /\ reports'[i].corrects = reports[i].corrects
          /\ reports'[i].fixed # reports[i].fixed => reports[i].fixed = 0 /\ reports'[i].fixed = now
    /\ \A i \in DOMAIN reports' \ DOMAIN reports : reports'[i].at = now
    /\ Len(revisions) <= Len(revisions') /\ Len(revisions') <= Len(revisions) + 1
    /\ \A k \in DOMAIN revisions : revisions'[k] = revisions[k]
    /\ \A k \in DOMAIN revisions' \ DOMAIN revisions : revisions'[k].at = now
    /\ Len(revisions') # Len(revisions) =>
          LET old == revisions[Len(revisions)]
              new == revisions'[Len(revisions')]
          IN  old.status \in Usable /\ old.until < now /\ new.status \in Usable => new.until = old.until

\* What no step takes back about the releases there are.
LEMMA StepKeeps == ASSUME RemindersInv, [Next]_vars PROVE Kept
<1>0. FactsOK /\ now \in Nat
  BY DEF RemindersInv, FactsOK
<1>1. /\ DOMAIN reports = 1..Len(reports) /\ Len(reports) \in Nat
      /\ \A i \in DOMAIN reports : reports[i] \in Reports
  BY <1>0 DEF FactsOK
<1>2. DOMAIN revisions = 1..Len(revisions) /\ Len(revisions) \in Nat
  BY <1>0 DEF FactsOK
<1>3. CASE UNCHANGED <<now, reports, revisions>>
  BY <1>0, <1>1, <1>2, <1>3 DEF Kept
<1>4. CASE Tick
  <2>1. now' = now + 1 /\ UNCHANGED <<reports, revisions>>
    BY <1>4 DEF Tick
  <2> QED
    BY <1>0, <1>1, <1>2, <2>1 DEF Kept
<1>5. ASSUME NEW scope \in bound.scopes, NEW holds \in BOOLEAN, Publish(scope, holds) PROVE Kept
  <2> DEFINE own == {i \in DOMAIN reports : reports[i].scope = scope}
             new == [scope |-> scope, holds |-> holds, at |-> now, fixed |-> Never,
                     qual |-> Len(revisions), corrects |-> IF own = {} THEN 0 ELSE Max(own)]
  <2>1. reports' = Append(reports, new) /\ UNCHANGED <<now, revisions>>
    BY <1>5 DEF Publish
  <2>2. new.at = now
    OBVIOUS
  <2> HIDE DEF new
  <2>3. /\ DOMAIN reports' = DOMAIN reports \union {Len(reports) + 1}
        /\ \A n \in DOMAIN reports : reports'[n] = reports[n]
        /\ reports'[Len(reports) + 1] = new
    BY <1>0, <1>1, <2>1 DEF FactsOK
  <2> QED
    BY <1>0, <1>1, <1>2, <2>1, <2>2, <2>3 DEF Kept
<1>6. ASSUME NEW i, CorrectResearch(i) PROVE Kept
  <2>1. /\ i \in DOMAIN reports /\ reports[i].fixed = 0
        /\ reports' = [reports EXCEPT ![i].fixed = now] /\ UNCHANGED <<now, revisions>>
    BY <1>6 DEF CorrectResearch, Never
  <2>2. DOMAIN reports' = DOMAIN reports
    BY <1>1, <2>1
  <2>3. \A j \in DOMAIN reports :
           reports'[j] = IF j = i THEN [reports[i] EXCEPT !.fixed = now] ELSE reports[j]
    BY <1>1, <2>1
  <2>4. \A j \in DOMAIN reports :
          /\ reports'[j].holds = reports[j].holds /\ reports'[j].at = reports[j].at
          /\ reports'[j].qual = reports[j].qual /\ reports'[j].corrects = reports[j].corrects
          /\ reports'[j].fixed # reports[j].fixed => reports[j].fixed = 0 /\ reports'[j].fixed = now
    BY <1>1, <2>1, <2>3 DEF Reports
  <2> QED
    BY <1>0, <1>1, <1>2, <2>1, <2>2, <2>4 DEF Kept
<1>7. ASSUME NEW status \in {"VALID", "AT_RISK", "SUSPENDED", "REVOKED"},
             NEW until \in bound.until, Govern(status, until)
      PROVE  Kept
  <2> DEFINE new == [status |-> status, at |-> now, until |-> until]
             old == revisions[Len(revisions)]
  <2>1. /\ revisions' = Append(revisions, new) /\ UNCHANGED <<now, reports>>
        /\ old.status \in Usable /\ old.until < now /\ new.status \in Usable => new.until = old.until
    BY <1>7 DEF Govern
  <2>2. new.at = now
    OBVIOUS
  <2> HIDE DEF new
  <2>3. /\ DOMAIN revisions' = DOMAIN revisions \union {Len(revisions) + 1}
        /\ Len(revisions') = Len(revisions) + 1
        /\ \A n \in DOMAIN revisions : revisions'[n] = revisions[n]
        /\ revisions'[Len(revisions) + 1] = new
    BY <1>0, <1>2, <2>1 DEF FactsOK
  <2> QED
    <3>2. Len(revisions') = Len(revisions) + 1 /\ revisions'[Len(revisions')] = new
      BY <2>3
    <3>3. now' = now /\ reports' = reports
      BY <2>1
    <3>4. Len(revisions) <= Len(revisions') /\ Len(revisions') <= Len(revisions) + 1
      BY <1>2, <3>2
    <3>5. \A k \in DOMAIN revisions' \ DOMAIN revisions : revisions'[k].at = now
      BY <2>2, <2>3
    <3>6. now' \in Nat /\ now <= now'
      BY <1>0, <3>3
    <3> HIDE DEF old
    <3>7. LET o == revisions[Len(revisions)]
              n == revisions'[Len(revisions')]
          IN  o.status \in Usable /\ o.until < now /\ n.status \in Usable => n.until = o.until
      BY <2>1, <3>2 DEF old
    <3> QED
      BY <2>3, <3>3, <3>4, <3>5, <3>6, <3>7 DEF Kept
<1> QED
  BY <1>3, <1>4, <1>5, <1>6, <1>7 DEF Next, vars, Remind

Own(i) == reports[i].qual
Latest == Len(revisions)
Broken(i) == {k \in Own(i)..Latest : revisions[k].status \notin Usable}

\* A check at an instant when everything retained is visible.
LEMMA SeesAll ==
    ASSUME FactsOK, Dated, NEW i \in DOMAIN reports, NEW t \in Nat, now <= t
    PROVE  /\ Own(i) \in 1..Latest /\ Latest \in DOMAIN revisions
           /\ revisions[Own(i)] \in Revisions /\ revisions[Latest] \in Revisions
           /\ Disqualifying(i, t) = IF Broken(i) # {} THEN {Min(Broken(i))}
                                    ELSE IF revisions[Own(i)].until < t THEN {Own(i)}
                                    ELSE IF revisions[Latest].until < t THEN {Latest}
                                    ELSE {}
<1>1. /\ DOMAIN revisions = 1..Latest /\ Latest \in Nat /\ Latest > 0 /\ now \in Nat
      /\ \A k \in DOMAIN revisions : revisions[k] \in Revisions /\ revisions[k].at <= now
      /\ Own(i) \in 1..Latest
  BY DEF FactsOK, Dated, Own, Latest
<1>2. \A k \in DOMAIN revisions : revisions[k].at \in Nat /\ revisions[k].at <= t /\ ~(revisions[k].at > t)
  BY <1>1 DEF Revisions
<1>3. Breaks(i, t) = Broken(i)
  BY <1>1, <1>2 DEF Breaks, Broken, Own, Latest
<1>4. Seen(i, t) = Own(i)..Latest
  BY <1>1, <1>2 DEF Seen, Own, Latest
<1>5. Max(Seen(i, t)) = Latest
  <2>1. revisions[reports[i].qual].at <= t
    BY <1>1, <1>2 DEF Own
  <2>2. Max(Seen(i, t)) \in Seen(i, t) /\ \A k \in Seen(i, t) : Max(Seen(i, t)) >= k
    BY <2>1, SeenOK
  <2> QED
    BY <1>1, <1>4, <2>2
<1>6. Disqualifying(i, t) = IF revisions[Own(i)].at > t THEN {0}
                            ELSE IF Breaks(i, t) # {} THEN {Min(Breaks(i, t))}
                            ELSE IF revisions[Own(i)].until < t THEN {Own(i)}
                            ELSE IF revisions[Max(Seen(i, t))].until < t THEN {Max(Seen(i, t))}
                            ELSE {}
  BY DEF Disqualifying, Seen, Own
<1>7. ~(revisions[Own(i)].at > t)
  BY <1>1, <1>2
<1>8. Own(i) \in DOMAIN revisions /\ Latest \in DOMAIN revisions
  BY <1>1
<1> QED
  BY <1>1, <1>3, <1>5, <1>6, <1>7, <1>8

\* Why a release is gone.
GoneWhen ==
    \A i \in DOMAIN reports :
        Status(i) \in Gone <=>
            \/ Successors(i) # {}
            \/ /\ reports[i].holds
               /\ \/ Ended \/ reports[i].fixed # Never \/ Broken(i) # {}
                  \/ revisions[Own(i)].until < now \/ revisions[Latest].until < now

\* A release is gone exactly when it has a successor, or it held and its
\* window, its research or a qualification it rests on has come to an end.
LEMMA GoneWhenLemma == RemindersInv => GoneWhen
<1> SUFFICES ASSUME RemindersInv, NEW i \in DOMAIN reports
             PROVE  Status(i) \in Gone <=>
                       \/ Successors(i) # {}
                       \/ /\ reports[i].holds
                          /\ \/ Ended \/ reports[i].fixed # Never \/ Broken(i) # {}
                             \/ revisions[Own(i)].until < now \/ revisions[Latest].until < now
  BY DEF GoneWhen
<1>1. FactsOK /\ Dated /\ now \in Nat
  BY DEF RemindersInv, FactsOK
<1>2. /\ revisions[Own(i)] \in Revisions
      /\ Disqualifying(i, now) = IF Broken(i) # {} THEN {Min(Broken(i))}
                                 ELSE IF revisions[Own(i)].until < now THEN {Own(i)}
                                 ELSE IF revisions[Latest].until < now THEN {Latest}
                                 ELSE {}
  BY <1>1, SeesAll
<1>3. now > revisions[reports[i].qual].until <=> revisions[Own(i)].until < now
  BY <1>1, <1>2 DEF Own, Revisions
<1>4. Disqualifying(i, now) # {} <=>
         Broken(i) # {} \/ revisions[Own(i)].until < now \/ revisions[Latest].until < now
  BY <1>2
<1> QED
  BY <1>3, <1>4 DEF Status, Gone

\* A release that is gone stays gone.
LEMMA StaysGone ==
    ASSUME RemindersInv, RemindersInv', Kept, GoneWhen, GoneWhen',
           NEW i \in DOMAIN reports, Status(i) \in Gone
    PROVE  Status(i)' \in Gone
<1>0. /\ FactsOK /\ Dated /\ FactsOK' /\ Dated' /\ now \in Nat /\ now' \in Nat /\ now <= now'
      /\ i \in DOMAIN reports'
  BY DEF RemindersInv, FactsOK, Kept
<1>1. Status(i)' \in Gone <=>
        \/ Successors(i)' # {}
        \/ /\ reports'[i].holds
           /\ \/ Ended' \/ reports'[i].fixed # Never \/ Broken(i)' # {}
              \/ revisions'[Own(i)'].until < now' \/ revisions'[Latest'].until < now'
  BY <1>0 DEF GoneWhen, Never
<1>2. /\ DOMAIN revisions = 1..Latest /\ Latest \in Nat /\ DOMAIN revisions' = 1..Latest'
      /\ Latest' \in Nat /\ Own(i) \in 1..Latest /\ Own(i)' = Own(i)
      /\ \A k \in DOMAIN revisions : revisions[k] \in Revisions
  BY <1>0 DEF FactsOK, Dated, Own, Latest, Kept
<1>3. Latest <= Latest' /\ \A k \in DOMAIN revisions : revisions'[k] = revisions[k]
  BY DEF Kept, Latest
<1>4. CASE Successors(i) # {}
  <2>1. Successors(i) \subseteq Successors(i)'
    BY DEF Successors, Kept
  <2> QED
    BY <1>1, <1>4, <2>1
<1>5. CASE reports[i].holds
  <2>1. reports'[i].holds
    BY <1>5 DEF Kept
  <2>2. CASE Ended
    <3>1. Ended'
      BY <1>0, <2>2, WindowOrder DEF Ended
    <3> QED
      BY <1>1, <2>1, <3>1
  <2>3. CASE reports[i].fixed # Never
    <3>1. reports'[i].fixed # Never
      BY <2>3 DEF Kept, Never
    <3> QED
      BY <1>1, <2>1, <3>1
  <2>4. Broken(i) \subseteq Broken(i)'
    BY <1>2, <1>3 DEF Broken
  <2>5. CASE Broken(i) # {}
    BY <1>1, <2>1, <2>4, <2>5
  <2>6. CASE revisions[Own(i)].until < now
    <3>1. revisions'[Own(i)'].until < now'
      BY <1>0, <1>2, <1>3, <2>6 DEF Revisions
    <3> QED
      BY <1>1, <2>1, <3>1
  <2>7. CASE revisions[Latest].until < now
    <3>0. Latest \in DOMAIN revisions /\ revisions[Latest].until \in Nat
      BY <1>2 DEF Revisions
    <3>1. CASE Latest' = Latest
      <4>1. revisions'[Latest'].until < now'
        BY <1>0, <1>3, <2>7, <3>0, <3>1
      <4> QED
        BY <1>1, <2>1, <4>1
    <3>2. CASE Latest' # Latest
      <4>1. revisions[Latest].status \notin Usable => Latest \in Broken(i)
        BY <1>2 DEF Broken
      <4>2. revisions'[Latest'].status \notin Usable => Latest' \in Broken(i)'
        BY <1>2, <1>3 DEF Broken
      <4>3. revisions[Latest].status \in Usable /\ revisions'[Latest'].status \in Usable
              => revisions'[Latest'].until = revisions[Latest].until
        BY <2>7, <3>2 DEF Kept, Latest
      <4>4. revisions[Latest].until < now'
        BY <1>0, <2>7, <3>0
      <4> QED
        BY <1>1, <2>1, <2>4, <4>1, <4>2, <4>3, <4>4
    <3> QED
      BY <3>1, <3>2
  <2> QED
    BY <1>4, <2>2, <2>3, <2>5, <2>6, <2>7 DEF GoneWhen
<1> QED
  BY <1>4, <1>5 DEF GoneWhen

\* Once the window has closed, the instant withdrawals are read at stands
\* still, and whatever is committed later is dated after it.
LEMMA FrozenAfterClose ==
    ASSUME RemindersInv, RemindersInv', Kept, Ended, NEW i \in DOMAIN reports,
           Status(i) \in Gone => Status(i)' \in Gone, Withdrawal(i) # {}
    PROVE  Withdrawal(i)' = Withdrawal(i)
<1>0. /\ FactsOK /\ Dated /\ Linear /\ FactsOK' /\ Dated' /\ Linear'
      /\ now \in Nat /\ now' \in Nat /\ now <= now'
  BY DEF RemindersInv, FactsOK, Kept
<1>1. WithdrawalAt = Close /\ WithdrawalAt' = Close /\ Close \in Nat /\ Close < now
  <2>1. Ended' /\ Close \in Nat /\ Close < now
    BY <1>0, WindowOrder DEF Ended
  <2>2. Min({now', Close}) = Close
    <3>1. Min({now', Close}) \in {now', Close} /\ \A y \in {now', Close} : Min({now', Close}) <= y
      BY <1>0, <2>1, MinIsLeast
    <3> QED
      BY <1>0, <2>1, <3>1
  <2> QED
    BY <1>0, <2>1, <2>2, WithdrawalInstant DEF WithdrawalAt
<1>2. /\ DOMAIN revisions = 1..Len(revisions) /\ DOMAIN revisions' = 1..Len(revisions')
      /\ Len(revisions) \in Nat /\ Len(revisions') \in Nat /\ reports[i].qual \in 1..Len(revisions)
      /\ reports'[i].qual = reports[i].qual /\ Len(revisions) <= Len(revisions')
      /\ \A k \in DOMAIN revisions : revisions'[k] = revisions[k]
      /\ \A k \in DOMAIN revisions' \ DOMAIN revisions : revisions'[k].at = now
  BY <1>0 DEF FactsOK, Dated, Kept
<1>3. \A k \in DOMAIN revisions' \ DOMAIN revisions : ~(revisions'[k].at <= Close)
  BY <1>0, <1>1, <1>2
<1>4. Seen(i, Close)' = Seen(i, Close) /\ Breaks(i, Close)' = Breaks(i, Close)
  BY <1>2, <1>3 DEF Seen, Breaks
<1>5. Disqualifying(i, WithdrawalAt)' = Disqualifying(i, WithdrawalAt)
  <2> DEFINE own == reports[i].qual
             D(S, B) == IF revisions[own].at > Close THEN {0}
                        ELSE IF B # {} THEN {Min(B)}
                        ELSE IF revisions[own].until < Close THEN {own}
                        ELSE IF revisions[Max(S)].until < Close THEN {Max(S)} ELSE {}
  <2>1. own \in DOMAIN revisions /\ revisions'[own] = revisions[own]
    BY <1>2
  <2>2. Disqualifying(i, WithdrawalAt) = D(Seen(i, Close), Breaks(i, Close))
    BY <1>1 DEF Disqualifying, Seen
  <2>3. CASE revisions[own].at > Close
    BY <1>1, <1>2, <2>1, <2>3 DEF Disqualifying
  <2>4. CASE ~(revisions[own].at > Close)
    <3>0. revisions[own] \in Revisions
      BY <1>0, <2>1 DEF FactsOK
    <3>1. revisions[own].at \in Nat
      BY <3>0 DEF Revisions
    <3>2. revisions[own].at <= Close
      BY <1>1, <2>4, <3>1
    <3>3. Max(Seen(i, Close)) \in Seen(i, Close)
      BY <1>0, <1>1, <3>2, SeenOK
    <3>4. revisions'[Max(Seen(i, Close))] = revisions[Max(Seen(i, Close))]
      BY <1>2, <3>3 DEF Seen
    <3>5. Disqualifying(i, WithdrawalAt)' =
            IF revisions'[own].at > Close THEN {0}
            ELSE IF Breaks(i, Close)' # {} THEN {Min(Breaks(i, Close)')}
            ELSE IF revisions'[own].until < Close THEN {own}
            ELSE IF revisions'[Max(Seen(i, Close)')].until < Close THEN {Max(Seen(i, Close)')} ELSE {}
      BY <1>1, <1>2 DEF Disqualifying, Seen, Breaks
    <3> QED
      BY <1>4, <2>1, <2>2, <3>4, <3>5
  <2> QED
    BY <2>3, <2>4
<1>6. /\ (\E j \in Successors(i)' : reports'[j].at <= Close) <=> (\E j \in Successors(i) : reports[j].at <= Close)
      /\ (\E j \in Successors(i) : TRUE) => Successors(i)' = Successors(i)
  <2>1. Successors(i) \subseteq Successors(i)'
    BY DEF Successors, Kept
  <2>2. \A j \in Successors(i)' \ Successors(i) : reports'[j].at = now
    BY DEF Successors, Kept
  <2>3. i # 0
    BY <1>0 DEF FactsOK
  <2>4. \A j, k \in Successors(i)' : j = k
    BY <1>0, <2>3 DEF Linear, Successors
  <2>5. \A j \in Successors(i) : reports'[j].at = reports[j].at
    BY DEF Successors, Kept
  <2> QED
    BY <1>0, <1>1, <2>1, <2>2, <2>4, <2>5
<1>7. /\ reports'[i].holds = reports[i].holds
      /\ reports'[i].fixed # Never /\ reports'[i].fixed <= Close
           <=> reports[i].fixed # Never /\ reports[i].fixed <= Close
  BY <1>0, <1>1 DEF Kept, Never
<1>8. Withdrawal(i)' =
        IF \E j \in Successors(i)' : reports'[j].at <= WithdrawalAt'
            THEN {<<"report", CHOOSE j \in Successors(i)' : TRUE>>}
        ELSE IF ~reports'[i].holds THEN {}
        ELSE IF reports'[i].fixed # Never /\ reports'[i].fixed <= WithdrawalAt' THEN {<<"research", i>>}
        ELSE IF Disqualifying(i, WithdrawalAt)' # {}
            THEN {IF k = 0 THEN <<"report", i>> ELSE <<"revision", k>> :
                     k \in Disqualifying(i, WithdrawalAt)'}
        ELSE IF Status(i)' \in Gone THEN {<<"report", i>>}
        ELSE {}
  BY DEF Withdrawal, Never, Gone
<1> QED
  BY <1>1, <1>5, <1>6, <1>7, <1>8 DEF Withdrawal

\* Until the window closes, a tick of the clock uncovers nothing but deadlines.
LEMMA KeptByTheClock ==
    ASSUME RemindersInv, GoneWhen, now' = now + 1, UNCHANGED <<reports, revisions>>, now <= Close,
           NEW i \in DOMAIN reports, Withdrawal(i) # {}
    PROVE  \/ Withdrawal(i)' = Withdrawal(i)
           \/ OwnLapsesLast(i) /\ Withdrawal(i)' = {<<"revision", reports[i].qual>>}
<1> DEFINE t == WithdrawalAt'
<1>0. FactsOK /\ Dated /\ now \in Nat /\ Close \in Nat
  BY WindowOrder DEF RemindersInv, FactsOK
<1>1. WithdrawalAt = now /\ t \in Nat /\ now <= t /\ t <= now + 1
  <2>1. Min({now + 1, Close}) \in {now + 1, Close} /\ \A y \in {now + 1, Close} : Min({now + 1, Close}) <= y
    BY <1>0, MinIsLeast
  <2>2. WithdrawalAt' = Min({now + 1, Close})
    BY DEF WithdrawalAt
  <2> QED
    BY <1>0, <2>1, <2>2, WithdrawalInstant
<1> HIDE DEF t
<1>2. Disqualifying(i, WithdrawalAt)' = Disqualifying(i, t) /\ Successors(i)' = Successors(i)
  BY DEF Disqualifying, Breaks, Successors, t
<1>3. /\ \A j \in Successors(i) : reports[j].at <= now /\ reports[j].at <= t
      /\ reports[i].fixed <= now /\ reports[i].fixed <= t
  <2>1. \A j \in DOMAIN reports : reports[j] \in Reports /\ reports[j].at <= now /\ reports[j].fixed <= now
    BY <1>0 DEF Dated, FactsOK
  <2>2. \A j \in DOMAIN reports : reports[j].at <= t /\ reports[j].fixed <= t
    BY <1>0, <1>1, <2>1 DEF Reports
  <2> QED
    BY <2>1, <2>2 DEF Successors
<1>4. /\ Own(i) \in 1..Latest /\ Latest \in DOMAIN revisions
      /\ revisions[Own(i)] \in Revisions /\ revisions[Latest] \in Revisions
      /\ Disqualifying(i, now) = IF Broken(i) # {} THEN {Min(Broken(i))}
                                 ELSE IF revisions[Own(i)].until < now THEN {Own(i)}
                                 ELSE IF revisions[Latest].until < now THEN {Latest}
                                 ELSE {}
      /\ Disqualifying(i, t) = IF Broken(i) # {} THEN {Min(Broken(i))}
                               ELSE IF revisions[Own(i)].until < t THEN {Own(i)}
                               ELSE IF revisions[Latest].until < t THEN {Latest}
                               ELSE {}
  BY <1>0, <1>1, SeesAll
<1>5. /\ revisions[Own(i)].until \in Nat /\ revisions[Latest].until \in Nat
      /\ Own(i) \in Nat /\ Own(i) # 0 /\ Latest \in Nat /\ Latest # 0
  BY <1>0, <1>4 DEF Revisions, FactsOK, Latest
<1>6. Withdrawal(i) =
        IF Successors(i) # {} THEN {<<"report", CHOOSE j \in Successors(i) : TRUE>>}
        ELSE IF ~reports[i].holds THEN {}
        ELSE IF reports[i].fixed # Never THEN {<<"research", i>>}
        ELSE IF Disqualifying(i, now) # {}
            THEN {IF k = 0 THEN <<"report", i>> ELSE <<"revision", k>> : k \in Disqualifying(i, now)}
        ELSE IF Status(i) \in Gone THEN {<<"report", i>>}
        ELSE {}
  BY <1>1, <1>3 DEF Withdrawal
<1>7. Withdrawal(i)' =
        IF Successors(i) # {} THEN {<<"report", CHOOSE j \in Successors(i) : TRUE>>}
        ELSE IF ~reports[i].holds THEN {}
        ELSE IF reports[i].fixed # Never THEN {<<"research", i>>}
        ELSE IF Disqualifying(i, t) # {}
            THEN {IF k = 0 THEN <<"report", i>> ELSE <<"revision", k>> : k \in Disqualifying(i, t)}
        ELSE IF Status(i)' \in Gone THEN {<<"report", i>>}
        ELSE {}
  BY <1>2, <1>3 DEF Withdrawal, t, Never, Gone
<1>8. CASE Successors(i) # {} \/ reports[i].fixed # Never
  BY <1>6, <1>7, <1>8
<1>9. CASE Successors(i) = {} /\ reports[i].fixed = Never
  <2>1. reports[i].holds
    BY <1>6, <1>9
  <2>2. Disqualifying(i, now) # {}
    <3> SUFFICES ASSUME Disqualifying(i, now) = {} PROVE FALSE
      OBVIOUS
    <3>1. Status(i) \in Gone
      BY <1>6, <1>9, <2>1
    <3>2. ~Ended
      BY <1>0 DEF Ended
    <3> QED
      BY <1>4, <1>9, <3>1, <3>2 DEF GoneWhen
  <2>3. CASE Disqualifying(i, t) = Disqualifying(i, now)
    BY <1>6, <1>7, <2>3, <1>9, <2>2
  <2>4. CASE Disqualifying(i, t) # Disqualifying(i, now)
    <3>1. /\ Broken(i) = {} /\ ~(revisions[Own(i)].until < now) /\ revisions[Latest].until < now
          /\ revisions[Own(i)].until < t
      BY <1>0, <1>1, <1>4, <1>5, <2>2, <2>4
    <3>2. revisions[Own(i)].until = now
      BY <1>0, <1>1, <1>5, <3>1
    <3>3. Disqualifying(i, now) = {Latest} /\ Disqualifying(i, t) = {Own(i)}
      BY <1>4, <3>1
    <3>4. Withdrawal(i) = {<<"revision", Latest>>} /\ Withdrawal(i)' = {<<"revision", Own(i)>>}
      BY <1>5, <1>6, <1>7, <1>9, <2>1, <3>3
    <3> QED
      BY <3>1, <3>2, <3>4 DEF OwnLapsesLast, Own, Latest
  <2> QED
    BY <2>3, <2>4
<1> QED
  BY <1>8, <1>9

\* A withdrawn release stays withdrawn, by the same fact, under every order of
\* corrections, governance and ticks of the clock; the one exception is the
\* lapse of its own qualification after that of a later revision
\* (candidate_qualification_eligibility, project_candidate_workspace).
THEOREM WithdrawalIsLastingTheorem == Spec => WithdrawalIsLasting
<1>1. ASSUME RemindersInv, RemindersInv', GoneWhen, GoneWhen', [Next]_vars
      PROVE  [\A i \in DOMAIN reports :
                /\ Status(i) \in Gone => Status(i)' \in Gone
                /\ Withdrawal(i) # {} /\ (now' # now \/ Ended) =>
                      \/ Withdrawal(i)' = Withdrawal(i)
                      \/ OwnLapsesLast(i) /\ Withdrawal(i)' = {<<"revision", reports[i].qual>>}]_vars
  <2>1. Kept
    BY <1>1, StepKeeps
  <2> SUFFICES ASSUME NEW i \in DOMAIN reports
               PROVE  /\ Status(i) \in Gone => Status(i)' \in Gone
                      /\ Withdrawal(i) # {} /\ (now' # now \/ Ended) =>
                            \/ Withdrawal(i)' = Withdrawal(i)
                            \/ OwnLapsesLast(i) /\ Withdrawal(i)' = {<<"revision", reports[i].qual>>}
    OBVIOUS
  <2>2. Status(i) \in Gone => Status(i)' \in Gone
    BY <1>1, <2>1, StaysGone
  <2>3. CASE Ended
    BY <1>1, <2>1, <2>2, <2>3, FrozenAfterClose
  <2>4. CASE now' # now /\ ~Ended
    <3>1. now' = now + 1 /\ UNCHANGED <<reports, revisions>>
      BY <2>1, <2>4 DEF Kept
    <3>2. now <= Close
      BY <1>1, <2>4, WindowOrder DEF Ended, RemindersInv, FactsOK
    <3> QED
      BY <1>1, <2>2, <3>1, <3>2, KeptByTheClock
  <2> QED
    BY <2>2, <2>3, <2>4
<1> QED
  BY <1>1, RemindersInvariant, GoneWhenLemma, PTL DEF Spec, WithdrawalIsLasting

-----------------------------------------------------------------------------
(* The inductive invariant of the commands.                                *)

Contracts == {"execution", "allocation", "confirmation"}
Asks == [op : Operations, key : Nat \ {0}, plan : Nat, input : Nat, seen : Nat, seenExec : Nat]
FrozenCases == [req : Asks, ver : Nat, at : Nat]
EventRecords ==
    [kind : {"PLAN", "CONFIRM", "REVIEW", "EXECUTION"}, key : Nat, op : Operations \union {"HOST"},
     object : {<<>>} \union (Nat \X Contracts), plan : Nat, rep : Nat, rel : Nat, ver : Nat,
     ok : BOOLEAN, changed : BOOLEAN]
TaskRecords ==
    {Idle} \union [pc : {"new"}, req : Asks] \union [pc : {"ready", "running"}, case : FrozenCases]
    \union [pc : {"answered"}, req : Asks, event : Nat]

CommandsTypeOK ==
    /\ events \in Seq(EventRecords)
    /\ objects \subseteq FrozenCases
    /\ tasks \in [Senders -> TaskRecords]

\* A request of one of the commands in play, about plans that exist.
InPlay(r) ==
    /\ \E c \in bound.commands : r.op = c.op /\ r.key = c.key
    /\ r.plan \in DOMAIN events /\ r.input \in DOMAIN events

\* A request is accepted only from a command in play; the case of a running
\* request is registered; an answer names the event of a registered case.
TaskSound(task) ==
    /\ task.pc = "new" => InPlay(task.req)
    /\ task.pc \in {"ready", "running"} => InPlay(task.case.req)
    /\ task.pc = "running" => task.case \in objects
    /\ task.pc = "answered" => \E o \in objects : o.req = task.req /\ Decided(o) = {task.event}

TasksSound == \A s \in Senders : TaskSound(tasks[s])

\* One case an object, and every case asked for.
ObjectsSound ==
    /\ \A o \in objects : InPlay(o.req)
    /\ \A o, p \in objects : ObjectId(o) = ObjectId(p) => o = p

\* The host's own allocations have no object; every other event has one of its
\* own, under its key.
EventsSound ==
    /\ \A n \in DOMAIN events :
          \/ events[n].object = <<>> /\ events[n].key = 0
          \/ \E o \in objects : events[n].object = ObjectId(o) /\ events[n].key = o.req.key
    /\ \A m, n \in DOMAIN events :
          events[m].object = events[n].object /\ events[m].object # <<>> => m = n

\* Plans are made of releases that named candidates.
PlansRest == \A n \in DOMAIN events : events[n].rel \in DOMAIN reports /\ reports[events[n].rel].holds

CommandsInv == CommandsTypeOK /\ TasksSound /\ ObjectsSound /\ EventsSound /\ PlansRest

-----------------------------------------------------------------------------
(* Commands leave releases and reminders alone.                            *)

\* A command touches no release and no reminder.
LEMMA CommandsStutter == WorkspaceNext => [Next]_vars
  BY DEF WorkspaceNext, Allocate, Ask, Prepare, Register, Commit, Lose

\* With the workspace's commands running beside them, releases and reminders
\* behave as CandidateReminders says.
THEOREM WorkspaceKeepsReminders == WorkspaceSpec => Spec
<1>1. WorkspaceInit => Init
  BY DEF WorkspaceInit
<1>2. [WorkspaceNext]_workspaceVars => [Next]_vars
  BY CommandsStutter DEF workspaceVars
<1> QED
  BY <1>1, <1>2, PTL DEF WorkspaceSpec, Spec

-----------------------------------------------------------------------------
(* Keys, contracts and objects.                                            *)

\* Every operation has a contract.
LEMMA ContractOK == \A op : Contract(op) \in Contracts
  BY DEF Contract, Contracts

\* An object is identified by its key and its contract.
LEMMA ObjectIds ==
    ASSUME NEW o \in FrozenCases
    PROVE  /\ ObjectId(o) \in Nat \X Contracts /\ ObjectId(o) # <<>>
           /\ ObjectId(o)[1] = o.req.key /\ ObjectId(o)[2] = Contract(o.req.op)
<1>1. o.req.key \in Nat /\ Contract(o.req.op) \in Contracts
  BY ContractOK DEF FrozenCases, Asks
<1> QED
  BY <1>1 DEF ObjectId

\* The key of a request names one object, whichever operation it is for.
LEMMA KeyNamesObject ==
    ASSUME bound \in Cases, NEW o \in FrozenCases, NEW p \in FrozenCases,
           InPlay(o.req), InPlay(p.req), o.req.key = p.req.key
    PROVE  ObjectId(o) = ObjectId(p)
<1>1. PICK a \in bound.commands : o.req.op = a.op /\ o.req.key = a.key
  BY DEF InPlay
<1>2. PICK b \in bound.commands : p.req.op = b.op /\ p.req.key = b.key
  BY DEF InPlay
<1>3. Contract(a.op) = Contract(b.op)
  BY <1>1, <1>2, CommandsAssumption
<1> QED
  BY <1>1, <1>2, <1>3 DEF ObjectId

\* What a sender asks for names releases and plans there are.
LEMMA AskedOK ==
    ASSUME FactsOK, CommandsInv, NEW r \in Asked
    PROVE  r \in Asks /\ InPlay(r)
<1>1. PICK c \in bound.commands, p \in Plans, i \in Plans,
           n \in Of("CONFIRM") \union {0}, e \in Of("EXECUTION") \union {0} :
              r = [op |-> c.op, key |-> c.key, plan |-> p, input |-> i, seen |-> n, seenExec |-> e]
  BY DEF Asked
<1>2. DOMAIN events \subseteq Nat
  BY DEF CommandsInv, CommandsTypeOK
<1>3. p \in DOMAIN events /\ i \in DOMAIN events /\ n \in Nat /\ e \in Nat
  BY <1>2 DEF Plans, Of
<1>4. c.op \in Operations /\ c.key \in Nat \ {0}
  BY CommandsAssumption DEF FactsOK
<1> QED
  BY <1>1, <1>2, <1>3, <1>4 DEF Asks, InPlay

-----------------------------------------------------------------------------
(* The invariant is inductive.                                             *)

\* A step that moves one request and registers at most more objects.
LEMMA TaskChange ==
    ASSUME CommandsInv, NEW s \in Senders, NEW X \in TaskRecords,
           tasks' = [tasks EXCEPT ![s] = X], bound' = bound, events' = events,
           objects \subseteq objects', TaskSound(X)'
    PROVE  TasksSound' /\ tasks' \in [Senders' -> TaskRecords]
<1>1. tasks \in [Senders -> TaskRecords] /\ TasksSound
  BY DEF CommandsInv, CommandsTypeOK
<1>2. Senders' = Senders
  BY DEF Senders
<1>3. ASSUME NEW u \in Senders PROVE TaskSound(tasks[u])'
  <2>1. CASE u = s
    <3>1. tasks'[u] = X
      BY <1>1, <2>1
    <3> QED
      BY <3>1 DEF TaskSound, InPlay, Decided
  <2>2. CASE u # s
    <3>1. tasks'[u] = tasks[u] /\ TaskSound(tasks[u])
      BY <1>1, <1>3, <2>2 DEF TasksSound
    <3> QED
      BY <3>1 DEF TaskSound, InPlay, Decided
  <2> QED
    BY <2>1, <2>2
<1> QED
  BY <1>1, <1>2, <1>3 DEF TasksSound

\* A request in each of its states holds what that state needs.
LEMMA TaskShape ==
    ASSUME NEW t \in TaskRecords
    PROVE  /\ t.pc \in {"idle", "new", "ready", "running", "answered"}
           /\ t.pc = "new" => t.req \in Asks
           /\ t.pc \in {"ready", "running"} =>
                 t.case \in FrozenCases /\ [t EXCEPT !.pc = "running"] = [pc |-> "running", case |-> t.case]
<1>1. CASE t = Idle
  BY <1>1 DEF Idle
<1>2. CASE t \in [pc : {"new"}, req : Asks]
  BY <1>2
<1>3. CASE t \in [pc : {"ready", "running"}, case : FrozenCases]
  BY <1>3
<1>4. CASE t \in [pc : {"answered"}, req : Asks, event : Nat]
  BY <1>4
<1> QED
  BY <1>1, <1>2, <1>3, <1>4 DEF TaskRecords

\* The requests the actions build are requests.
LEMMA MadeTasks ==
    /\ Idle \in TaskRecords /\ Idle.pc = "idle"
    /\ \A r \in Asks : [pc |-> "new", req |-> r] \in TaskRecords
    /\ \A c \in FrozenCases : /\ [pc |-> "ready", case |-> c] \in TaskRecords
                              /\ [pc |-> "running", case |-> c] \in TaskRecords
    /\ \A r \in Asks, n \in Nat : [pc |-> "answered", req |-> r, event |-> n] \in TaskRecords
  BY DEF Idle, TaskRecords

\* What a step that only moves requests leaves alone.
LEMMA OthersKept ==
    ASSUME CommandsInv, UNCHANGED <<bound, reports, events, objects>>
    PROVE  /\ events' \in Seq(EventRecords) /\ objects' \subseteq FrozenCases
           /\ ObjectsSound' /\ EventsSound' /\ PlansRest'
  BY DEF CommandsInv, CommandsTypeOK, ObjectsSound, EventsSound, PlansRest, InPlay, ObjectId

\* Asking, or asking again, writes nothing.
LEMMA AskStep ==
    ASSUME FactsOK, CommandsInv, NEW s \in Senders, NEW r \in Asked, Ask(s, r)
    PROVE  CommandsInv'
<1> DEFINE found == Saved(r.key)
<1>1. r \in Asks /\ InPlay(r)
  BY AskedOK
<1>2. PICK X : X = IF found = {} THEN [pc |-> "new", req |-> r]
                   ELSE IF \E o \in found : found = {o} /\ o.req = r
                        THEN [pc |-> "ready", case |-> CHOOSE o \in found : TRUE]
                   ELSE Idle
  OBVIOUS
<1>3. tasks' = [tasks EXCEPT ![s] = X] /\ UNCHANGED <<vars, events, objects>>
  BY <1>2 DEF Ask
<1>4. X \in TaskRecords /\ TaskSound(X)'
  <2>1. CASE X = [pc |-> "new", req |-> r]
    <3>1. X.pc = "new" /\ X.req = r
      BY <2>1
    <3> QED
      BY <1>1, <1>3, <2>1, <3>1, MadeTasks DEF TaskSound, InPlay, vars
  <2>2. CASE X = Idle
    BY <2>2, MadeTasks DEF TaskSound, Idle
  <2>3. CASE \E o \in found : X = [pc |-> "ready", case |-> o]
    <3>1. PICK o \in found : X = [pc |-> "ready", case |-> o]
      BY <2>3
    <3>2. o \in objects /\ o \in FrozenCases /\ InPlay(o.req)
      BY <3>1 DEF Saved, CommandsInv, CommandsTypeOK, ObjectsSound
    <3>3. X.pc = "ready" /\ X.case = o
      BY <3>1
    <3> QED
      BY <1>3, <3>1, <3>2, <3>3, MadeTasks DEF TaskSound, InPlay, vars
  <2> QED
    BY <1>2, <2>1, <2>2, <2>3
<1>5. TasksSound' /\ tasks' \in [Senders' -> TaskRecords]
  BY <1>3, <1>4, TaskChange DEF vars
<1> QED
  BY <1>3, <1>5, OthersKept DEF CommandsInv, CommandsTypeOK, vars

\* Preparing a request writes nothing.
LEMMA PrepareStep ==
    ASSUME FactsOK, CommandsInv, NEW s \in Senders, Prepare(s)
    PROVE  CommandsInv'
<1> DEFINE r == tasks[s].req
<1>0. tasks \in [Senders -> TaskRecords] /\ TasksSound /\ events \in Seq(EventRecords) /\ now \in Nat
  BY DEF CommandsInv, CommandsTypeOK, FactsOK
<1>1. r \in Asks /\ InPlay(r)
  BY <1>0, TaskShape DEF Prepare, TasksSound, TaskSound
<1>2. PICK X : X = IF Preparable(r) THEN [pc |-> "ready", case |-> Prepared(r)] ELSE Idle
  OBVIOUS
<1>3. tasks' = [tasks EXCEPT ![s] = X] /\ UNCHANGED <<vars, events, objects>>
  BY <1>0, <1>2 DEF Prepare
<1>4. Prepared(r) \in FrozenCases /\ Prepared(r).req = r
  <2>1. events[r.input] \in EventRecords
    BY <1>0, <1>1 DEF InPlay
  <2>2. events[r.input].ver \in Nat
    BY <2>1 DEF EventRecords
  <2> QED
    BY <1>0, <1>1, <2>2 DEF Prepared, FrozenCases
<1>5. X \in TaskRecords /\ TaskSound(X)'
  <2>1. CASE X = [pc |-> "ready", case |-> Prepared(r)]
    <3>1. PICK c : c = Prepared(r)
      OBVIOUS
    <3>2. X.pc = "ready" /\ X.case = c /\ c \in FrozenCases /\ InPlay(c.req)
      BY <1>1, <1>4, <2>1, <3>1
    <3> QED
      BY <1>3, <2>1, <3>1, <3>2, MadeTasks DEF TaskSound, InPlay, vars
  <2>2. CASE X = Idle
    BY <2>2, MadeTasks DEF TaskSound, Idle
  <2> QED
    BY <1>2, <2>1, <2>2
<1>6. TasksSound' /\ tasks' \in [Senders' -> TaskRecords]
  BY <1>3, <1>5, TaskChange DEF vars
<1> QED
  BY <1>3, <1>6, OthersKept DEF CommandsInv, CommandsTypeOK, vars

\* Losing a request or its answer writes nothing.
LEMMA LoseStep ==
    ASSUME CommandsInv, NEW s \in Senders, Lose(s)
    PROVE  CommandsInv'
<1>1. PICK X : X = Idle
  OBVIOUS
<1>2. tasks' = [tasks EXCEPT ![s] = X] /\ UNCHANGED <<vars, events, objects>>
  BY <1>1 DEF Lose
<1>3. X \in TaskRecords /\ TaskSound(X)'
  BY <1>1, MadeTasks DEF TaskSound, Idle
<1>4. TasksSound' /\ tasks' \in [Senders' -> TaskRecords]
  BY <1>2, <1>3, TaskChange DEF vars
<1> QED
  BY <1>2, <1>4, OthersKept DEF CommandsInv, CommandsTypeOK, vars

\* Registering saves the frozen case under an unused identity, or finds the one
\* that is there.
LEMMA RegisterStep ==
    ASSUME FactsOK, CommandsInv, NEW s \in Senders, Register(s)
    PROVE  CommandsInv'
<1>0. tasks \in [Senders -> TaskRecords] /\ TasksSound /\ objects \subseteq FrozenCases
  BY DEF CommandsInv, CommandsTypeOK
<1>1. PICK c : c = tasks[s].case
  OBVIOUS
<1>2. c \in FrozenCases /\ InPlay(c.req)
  BY <1>0, <1>1, TaskShape DEF Register, TasksSound, TaskSound
<1>3. UNCHANGED <<vars, events>>
  BY DEF Register
<1>4. CASE ~Fits(c)
  <2>1. PICK X : X = Idle
    OBVIOUS
  <2>2. tasks' = [tasks EXCEPT ![s] = X] /\ UNCHANGED objects
    BY <1>1, <1>4, <2>1 DEF Register
  <2>3. X \in TaskRecords /\ TaskSound(X)'
    BY <2>1, MadeTasks DEF TaskSound, Idle
  <2>4. TasksSound' /\ tasks' \in [Senders' -> TaskRecords]
    BY <1>3, <2>2, <2>3, TaskChange DEF vars
  <2> QED
    BY <1>3, <2>2, <2>4, OthersKept DEF CommandsInv, CommandsTypeOK, vars
<1>5. CASE Fits(c)
  <2>1. PICK X : X = [pc |-> "running", case |-> c]
    OBVIOUS
  <2>2. objects' = objects \union {c} /\ tasks' = [tasks EXCEPT ![s].pc = "running"]
    BY <1>1, <1>5 DEF Register
  <2>3. tasks' = [tasks EXCEPT ![s] = X]
    <3>1. [tasks[s] EXCEPT !.pc = "running"] = X
      BY <1>0, <1>1, <2>1, TaskShape DEF Register
    <3> QED
      BY <2>2, <3>1
  <2>4. X.pc = "running" /\ X.case = c
    BY <2>1
  <2>5. X \in TaskRecords /\ TaskSound(X)'
    BY <1>2, <1>3, <2>1, <2>2, <2>4, MadeTasks DEF TaskSound, InPlay, vars
  <2>6. TasksSound' /\ tasks' \in [Senders' -> TaskRecords]
    BY <1>3, <2>2, <2>3, <2>5, TaskChange DEF vars
  <2>7. ObjectsSound'
    <3>1. \A o \in objects' : InPlay(o.req)'
      BY <1>2, <1>3, <2>2 DEF CommandsInv, ObjectsSound, InPlay, vars
    <3>2. \A o, p \in objects' : ObjectId(o) = ObjectId(p) => o = p
      BY <1>5, <2>2 DEF CommandsInv, ObjectsSound, Fits
    <3> QED
      BY <3>1, <3>2 DEF ObjectsSound, ObjectId
  <2>8. EventsSound' /\ PlansRest' /\ events' \in Seq(EventRecords) /\ objects' \subseteq FrozenCases
    BY <1>2, <1>3, <2>2
       DEF CommandsInv, CommandsTypeOK, EventsSound, PlansRest, ObjectId, vars
  <2> QED
    BY <2>6, <2>7, <2>8 DEF CommandsInv, CommandsTypeOK
<1> QED
  BY <1>4, <1>5

\* A new event: the host's own, or the first of a registered case.
LEMMA EventAppended ==
    ASSUME CommandsInv, NEW e \in EventRecords, events' = Append(events, e),
           UNCHANGED <<bound, reports, objects>>,
           e.rel \in DOMAIN reports /\ reports[e.rel].holds,
           \/ e.object = <<>> /\ e.key = 0
           \/ \E o \in objects : e.object = ObjectId(o) /\ e.key = o.req.key /\ Decided(o) = {}
    PROVE  /\ events' \in Seq(EventRecords) /\ ObjectsSound' /\ EventsSound' /\ PlansRest'
           /\ \A o \in objects : Decided(o)' = IF ObjectId(o) = e.object THEN {Len(events) + 1} ELSE Decided(o)
           /\ \A X \in TaskRecords : TaskSound(X) => TaskSound(X)'
<1> DEFINE last == Len(events) + 1
<1>0. /\ events \in Seq(EventRecords) /\ objects \subseteq FrozenCases
      /\ ObjectsSound /\ EventsSound /\ PlansRest
  BY DEF CommandsInv, CommandsTypeOK
<1>1. /\ events' \in Seq(EventRecords) /\ Len(events) \in Nat /\ DOMAIN events = 1..Len(events)
      /\ DOMAIN events' = DOMAIN events \union {last} /\ last \notin DOMAIN events
      /\ \A n \in DOMAIN events : n < last /\ events'[n] = events[n]
      /\ events'[last] = e
  BY <1>0, Appended
<1>2. \A r : InPlay(r) => InPlay(r)'
  BY <1>1 DEF InPlay
\* Nothing was decided yet under the object of the new event.
<1>3. \A n \in DOMAIN events : events[n].object = e.object => e.object = <<>>
  BY DEF Decided
<1>4. \A o \in objects : ObjectId(o) # <<>>
  BY <1>0, ObjectIds
<1>5. \A o \in objects : Decided(o)' = IF ObjectId(o) = e.object THEN {last} ELSE Decided(o)
  <2> TAKE o \in objects
  <2>1. Decided(o)' = {n \in DOMAIN events' : events'[n].object = ObjectId(o)}
    BY DEF Decided, ObjectId, Contract
  <2>2. Decided(o) = {n \in DOMAIN events : events[n].object = ObjectId(o)}
    BY DEF Decided
  <2>3. CASE ObjectId(o) = e.object
    BY <1>1, <1>3, <1>4, <2>1, <2>3
  <2>4. CASE ObjectId(o) # e.object
    BY <1>1, <2>1, <2>2, <2>4
  <2> QED
    BY <2>3, <2>4
<1>6. ObjectsSound'
  BY <1>0, <1>2 DEF ObjectsSound, ObjectId
<1>7. EventsSound'
  <2>1. \A n \in DOMAIN events' :
          \/ events'[n].object = <<>> /\ events'[n].key = 0
          \/ \E o \in objects : events'[n].object = ObjectId(o) /\ events'[n].key = o.req.key
    BY <1>0, <1>1 DEF EventsSound
  <2>2. \A m, n \in DOMAIN events' :
          events'[m].object = events'[n].object /\ events'[m].object # <<>> => m = n
    BY <1>0, <1>1, <1>3 DEF EventsSound
  <2> QED
    BY <2>1, <2>2 DEF EventsSound, ObjectId
<1>8. PlansRest'
  BY <1>0, <1>1 DEF PlansRest
<1>9. ASSUME NEW X \in TaskRecords, TaskSound(X) PROVE TaskSound(X)'
  <2>1. ASSUME X.pc = "answered"
        PROVE  \E o \in objects : o.req = X.req /\ Decided(o)' = {X.event}
    <3>1. PICK o \in objects : o.req = X.req /\ Decided(o) = {X.event}
      BY <1>9, <2>1 DEF TaskSound
    <3>2. ObjectId(o) # e.object
      BY <1>3, <1>4, <3>1 DEF Decided
    <3> QED
      BY <1>5, <3>1, <3>2
  <2> QED
    BY <1>2, <1>9, <2>1 DEF TaskSound
<1> QED
  BY <1>1, <1>5, <1>6, <1>7, <1>8, <1>9

\* An allocation is a new event of a release there is.
LEMMA AllocateStep ==
    ASSUME FactsOK, CommandsInv, NEW rel \in DOMAIN reports, NEW ver \in 1..bound.inputs, Allocate(rel, ver)
    PROVE  CommandsInv'
<1> DEFINE new == [kind |-> "PLAN", key |-> 0, op |-> "HOST", plan |-> 0, rep |-> 0,
                   rel |-> rel, ver |-> ver, ok |-> TRUE, changed |-> FALSE, object |-> <<>>]
<1>1. PICK e : e = new
  OBVIOUS
<1>2. events' = Append(events, e) /\ UNCHANGED <<vars, objects, tasks>> /\ Status(rel) = "CURRENT"
  BY <1>1 DEF Allocate
<1>3. reports[rel].holds
  BY <1>2 DEF Status
<1>4. rel \in Nat /\ ver \in Nat
  BY CommandsAssumption DEF FactsOK
<1>5. e \in EventRecords /\ e.rel = rel /\ e.object = <<>> /\ e.key = 0
  BY <1>1, <1>4 DEF EventRecords
<1>6. /\ events' \in Seq(EventRecords) /\ ObjectsSound' /\ EventsSound' /\ PlansRest'
      /\ \A X \in TaskRecords : TaskSound(X) => TaskSound(X)'
  BY <1>2, <1>3, <1>5, EventAppended DEF vars
<1>7. tasks' \in [Senders' -> TaskRecords] /\ TasksSound'
  <2>1. Senders' = Senders /\ tasks' = tasks
    BY <1>2 DEF Senders, vars
  <2>2. ASSUME NEW u \in Senders PROVE TaskSound(tasks[u])'
    <3>1. PICK X : X = tasks[u]
      OBVIOUS
    <3>2. X \in TaskRecords /\ TaskSound(X) /\ tasks'[u] = X
      BY <2>1, <3>1 DEF CommandsInv, CommandsTypeOK, TasksSound
    <3>3. TaskSound(X)'
      BY <1>6, <3>2
    <3> QED
      BY <3>2, <3>3 DEF TaskSound, InPlay, Decided
  <2> QED
    BY <2>1, <2>2 DEF TasksSound, CommandsInv, CommandsTypeOK
<1> QED
  BY <1>2, <1>6, <1>7 DEF CommandsInv, CommandsTypeOK

\* The outcome of a registered case is an event of that case.
LEMMA OutcomeOK ==
    ASSUME CommandsInv, NEW case \in objects, NEW same \in BOOLEAN
    PROVE  /\ Outcome(case, same) \in EventRecords
           /\ Outcome(case, same).object = ObjectId(case)
           /\ Outcome(case, same).key = case.req.key
           /\ Outcome(case, same).rel \in DOMAIN reports
           /\ reports[Outcome(case, same).rel].holds
<1>1. case \in FrozenCases /\ case.req \in Asks /\ case.ver \in Nat /\ InPlay(case.req)
  BY DEF CommandsInv, CommandsTypeOK, ObjectsSound, FrozenCases
<1>2. /\ case.req.op \in Operations /\ case.req.key \in Nat /\ case.req.plan \in DOMAIN events
      /\ case.req.plan \in Nat
  BY <1>1 DEF Asks, InPlay
<1>3. events[case.req.plan] \in EventRecords
  BY <1>2 DEF CommandsInv, CommandsTypeOK
<1>4. /\ events[case.req.plan].rel \in Nat /\ events[case.req.plan].rel \in DOMAIN reports
      /\ reports[events[case.req.plan].rel].holds
  BY <1>2, <1>3 DEF CommandsInv, PlansRest, EventRecords
<1>5. ObjectId(case) \in Nat \X Contracts
  BY <1>1, ObjectIds
<1>6. Kind(case.req.op) \in {"PLAN", "CONFIRM", "REVIEW", "EXECUTION"}
  BY <1>2 DEF Kind, Operations
<1>7. Succeeds(case, same) \in BOOLEAN
  BY <1>2 DEF Succeeds, Operations
<1>8. FindsChanged(case, same) \in BOOLEAN
  BY DEF FindsChanged
<1> QED
  BY <1>1, <1>2, <1>4, <1>5, <1>6, <1>7, <1>8 DEF Outcome, EventRecords

\* Committing appends the outcome of an object that has none, and answers with
\* the one it has otherwise.
LEMMA CommitStep ==
    ASSUME FactsOK, CommandsInv, NEW s \in Senders, NEW same \in BOOLEAN, Commit(s, same)
    PROVE  CommandsInv'
<1> DEFINE done == Decided(tasks[s].case)
<1>0. /\ tasks \in [Senders -> TaskRecords] /\ TasksSound /\ objects \subseteq FrozenCases
      /\ events \in Seq(EventRecords) /\ ObjectsSound /\ EventsSound
  BY DEF CommandsInv, CommandsTypeOK
<1>1. PICK c : c = tasks[s].case
  OBVIOUS
<1>2. tasks[s].pc = "running" /\ c \in objects /\ c \in FrozenCases /\ c.req \in Asks
  BY <1>0, <1>1 DEF Commit, TasksSound, TaskSound, FrozenCases
<1>3. UNCHANGED <<vars, objects>> /\ Senders' = Senders
  BY DEF Commit, vars, Senders
<1>4. CASE done # {}
  <2>1. PICK n \in DOMAIN events : done = {n}
    <3>1. PICK n \in done : TRUE
      BY <1>4
    <3>2. n \in DOMAIN events /\ events[n].object = ObjectId(c) /\ ObjectId(c) # <<>>
      BY <1>1, <1>2, <3>1, ObjectIds DEF Decided
    <3>3. \A m \in done : m = n
      BY <1>0, <1>1, <3>2 DEF EventsSound, Decided
    <3> QED
      BY <3>1, <3>2, <3>3
  <2>2. Max(done) = n /\ n \in Nat
    <3>1. n \in Nat
      BY <1>0
    <3> QED
      BY <2>1, <3>1 DEF Max
  <2>3. PICK X : X = [pc |-> "answered", req |-> c.req, event |-> n]
    OBVIOUS
  <2>4. tasks' = [tasks EXCEPT ![s] = X] /\ UNCHANGED events
    BY <1>1, <1>4, <2>2, <2>3 DEF Commit
  <2>5. X \in TaskRecords /\ X.pc = "answered" /\ X.req = c.req /\ X.event = n
    BY <1>2, <2>2, <2>3, MadeTasks
  <2>6. Decided(c) = {n} /\ Decided(c)' = Decided(c)
    BY <1>1, <2>1, <2>4 DEF Decided, ObjectId
  <2>7. TaskSound(X)'
    BY <1>2, <1>3, <2>5, <2>6 DEF TaskSound
  <2>8. TasksSound' /\ tasks' \in [Senders' -> TaskRecords]
    BY <1>3, <2>4, <2>5, <2>7, TaskChange DEF vars
  <2> QED
    BY <1>3, <2>4, <2>8, OthersKept DEF CommandsInv, CommandsTypeOK, vars
<1>5. CASE done = {}
  <2>1. PICK e : e = Outcome(c, same)
    OBVIOUS
  <2>2. PICK last : last = Len(events) + 1
    OBVIOUS
  <2>3. PICK X : X = [pc |-> "answered", req |-> c.req, event |-> last]
    OBVIOUS
  <2>4. events' = Append(events, e) /\ tasks' = [tasks EXCEPT ![s] = X]
    BY <1>1, <1>5, <2>1, <2>2, <2>3 DEF Commit
  <2>5. /\ e \in EventRecords /\ e.object = ObjectId(c) /\ e.key = c.req.key
        /\ e.rel \in DOMAIN reports /\ reports[e.rel].holds
    BY <1>2, <2>1, OutcomeOK
  <2>6. Decided(c) = {}
    BY <1>1, <1>5
  <2>7. /\ events' \in Seq(EventRecords) /\ ObjectsSound' /\ EventsSound' /\ PlansRest'
        /\ Decided(c)' = {last}
        /\ \A Y \in TaskRecords : TaskSound(Y) => TaskSound(Y)'
    BY <1>2, <1>3, <2>2, <2>4, <2>5, <2>6, EventAppended DEF vars
  <2>8. X \in TaskRecords /\ X.pc = "answered" /\ X.req = c.req /\ X.event = last
    <3>1. last \in Nat
      BY <1>0, <2>2
    <3> QED
      BY <1>2, <2>3, <3>1, MadeTasks
  <2>9. TaskSound(X)'
    BY <1>2, <1>3, <2>7, <2>8 DEF TaskSound
  <2>10. ASSUME NEW u \in Senders PROVE TaskSound(tasks[u])'
    <3>1. PICK Y : Y = tasks'[u]
      OBVIOUS
    <3>2. TaskSound(Y)'
      BY <1>0, <2>4, <2>7, <2>9, <2>10, <3>1 DEF TasksSound
    <3> QED
      BY <3>1, <3>2 DEF TaskSound, InPlay, Decided
  <2>11. TasksSound' /\ tasks' \in [Senders' -> TaskRecords]
    BY <1>0, <1>3, <2>4, <2>8, <2>10 DEF TasksSound
  <2> QED
    BY <1>0, <1>3, <2>7, <2>11 DEF CommandsInv, CommandsTypeOK
<1> QED
  BY <1>4, <1>5

\* Nothing that happens to releases disturbs the commands.
LEMMA ReleaseStep ==
    ASSUME RemindersInv, CommandsInv, [Next]_vars, UNCHANGED commandVars
    PROVE  CommandsInv'
<1>1. bound' = bound
  BY DEF Next, Publish, CorrectResearch, Govern, Remind, Tick, vars
<1>2. DOMAIN reports \subseteq DOMAIN reports' /\ \A i \in DOMAIN reports : reports'[i].holds = reports[i].holds
  BY StepKeeps DEF Kept
<1>3. events' = events /\ objects' = objects /\ tasks' = tasks
  BY DEF commandVars
<1>4. CommandsTypeOK'
  BY <1>1, <1>3 DEF CommandsInv, CommandsTypeOK, Senders
<1>5. TasksSound'
  <2>1. Senders' = Senders
    BY <1>1 DEF Senders
  <2>2. \A r : InPlay(r) => InPlay(r)'
    BY <1>1, <1>3 DEF InPlay
  <2>3. \A o : Decided(o)' = Decided(o)
    BY <1>3 DEF Decided
  <2>4. ASSUME NEW s \in Senders PROVE TaskSound(tasks[s])'
    <3>1. TaskSound(tasks[s])
      BY DEF CommandsInv, TasksSound
    <3>2. PICK X : X = tasks[s] /\ X = tasks'[s]
      BY <1>3
    <3>3. TaskSound(X)'
      BY <1>3, <2>2, <2>3, <3>1, <3>2 DEF TaskSound
    <3> QED
      BY <3>2, <3>3 DEF TaskSound, InPlay, Decided
  <2> QED
    BY <2>1, <2>4 DEF TasksSound
<1>6. ObjectsSound' /\ EventsSound'
  BY <1>1, <1>3 DEF CommandsInv, ObjectsSound, EventsSound, InPlay, ObjectId
<1>7. PlansRest'
  BY <1>2, <1>3 DEF CommandsInv, PlansRest
<1> QED
  BY <1>4, <1>5, <1>6, <1>7 DEF CommandsInv

\* The empty workspace satisfies the invariant.
LEMMA CommandsInit == WorkspaceInit => CommandsInv
<1> SUFFICES ASSUME WorkspaceInit PROVE CommandsInv
  OBVIOUS
<1>1. events = <<>> /\ objects = {} /\ tasks = [s \in Senders |-> Idle]
  BY DEF WorkspaceInit, Senders
<1>2. CommandsTypeOK
  BY <1>1, MadeTasks DEF CommandsTypeOK
<1>3. TasksSound
  BY <1>1, MadeTasks DEF TasksSound, TaskSound
<1> QED
  BY <1>1, <1>2, <1>3 DEF CommandsInv, ObjectsSound, EventsSound, PlansRest

\* Every step preserves the invariant.
LEMMA CommandsStep == RemindersInv /\ CommandsInv /\ [WorkspaceNext]_workspaceVars => CommandsInv'
<1> SUFFICES ASSUME RemindersInv, CommandsInv, [WorkspaceNext]_workspaceVars PROVE CommandsInv'
  OBVIOUS
<1>0. FactsOK
  BY DEF RemindersInv
<1>1. CASE Next /\ UNCHANGED commandVars
  BY <1>1, ReleaseStep
<1>2. CASE UNCHANGED workspaceVars
  BY <1>2, ReleaseStep DEF workspaceVars
<1>3. ASSUME NEW rel \in DOMAIN reports, NEW ver \in 1..bound.inputs, Allocate(rel, ver) PROVE CommandsInv'
  BY <1>0, <1>3, AllocateStep
<1>4. ASSUME NEW s \in Senders, NEW r \in Asked, Ask(s, r) PROVE CommandsInv'
  BY <1>0, <1>4, AskStep
<1>5. ASSUME NEW s \in Senders, Prepare(s) PROVE CommandsInv'
  BY <1>0, <1>5, PrepareStep
<1>6. ASSUME NEW s \in Senders, Register(s) PROVE CommandsInv'
  BY <1>0, <1>6, RegisterStep
<1>7. ASSUME NEW s \in Senders, NEW same \in BOOLEAN, Commit(s, same) PROVE CommandsInv'
  BY <1>0, <1>7, CommitStep
<1>8. ASSUME NEW s \in Senders, Lose(s) PROVE CommandsInv'
  BY <1>0, <1>8, LoseStep
<1> QED
  BY <1>1, <1>2, <1>3, <1>4, <1>5, <1>6, <1>7, <1>8 DEF WorkspaceNext

\* The invariant of the commands, with that of the releases beneath them.
THEOREM WorkspaceInvariant == WorkspaceSpec => [](RemindersInv /\ CommandsInv)
  BY WorkspaceKeepsReminders, RemindersInvariant, CommandsInit, CommandsStep, PTL DEF WorkspaceSpec

-----------------------------------------------------------------------------
(* What follows for the workspace.                                         *)

\* The invariant implies that an operation happens at most once per key.
LEMMA OncePerKey == RemindersInv /\ CommandsInv => CommandsHappenOnce
<1> SUFFICES ASSUME RemindersInv, CommandsInv PROVE CommandsHappenOnce
  OBVIOUS
<1>0. /\ bound \in Cases /\ objects \subseteq FrozenCases /\ ObjectsSound /\ EventsSound /\ TasksSound
  BY DEF RemindersInv, FactsOK, CommandsInv, CommandsTypeOK
<1>1. ASSUME NEW m \in DOMAIN events, NEW n \in DOMAIN events,
             events[m].key = events[n].key, events[m].key # 0
      PROVE  m = n
  <2>1. PICK o \in objects : events[m].object = ObjectId(o) /\ events[m].key = o.req.key
    BY <1>0, <1>1 DEF EventsSound
  <2>2. PICK p \in objects : events[n].object = ObjectId(p) /\ events[n].key = p.req.key
    BY <1>0, <1>1 DEF EventsSound
  <2>3. ObjectId(o) = ObjectId(p) /\ ObjectId(o) # <<>>
    BY <1>0, <1>1, <2>1, <2>2, KeyNamesObject, ObjectIds DEF ObjectsSound
  <2> QED
    BY <1>0, <2>1, <2>2, <2>3 DEF EventsSound
<1>2. \A s \in Senders : tasks[s].pc = "answered" =>
         \E o \in objects : o.req = tasks[s].req /\ Decided(o) = {tasks[s].event}
  BY <1>0 DEF TasksSound, TaskSound
<1> QED
  BY <1>1, <1>2 DEF CommandsHappenOnce

\* A command happens once: however a request is repeated, raced against itself
\* or lost on the way, its key has one event, and every answer names the event
\* decided for the request it answers (ensure_business_object, commit).
THEOREM CommandsHappenOnceTheorem == WorkspaceSpec => []CommandsHappenOnce
  BY WorkspaceInvariant, OncePerKey, PTL

\* The invariant implies that retries find the case that was saved first.
LEMMA OneCasePerKey == RemindersInv /\ CommandsInv => RetriesResume
<1> SUFFICES ASSUME RemindersInv, CommandsInv, NEW o \in objects
             PROVE  LET again == IF Saved(o.req.key) # {} THEN Saved(o.req.key) ELSE {Prepared(o.req)}
                    IN  Cardinality(again) = 1 /\ \A case \in again : Fits(case)
  BY DEF RetriesResume
<1>0. bound \in Cases /\ objects \subseteq FrozenCases /\ ObjectsSound
  BY DEF RemindersInv, FactsOK, CommandsInv, CommandsTypeOK
<1>1. \A p \in Saved(o.req.key) : p = o
  BY <1>0, KeyNamesObject DEF Saved, ObjectsSound
<1>2. Saved(o.req.key) = {o}
  BY <1>1 DEF Saved
<1>3. Cardinality({o}) = 1
  BY FS_Singleton
<1>4. Fits(o)
  BY <1>0 DEF Fits, ObjectsSound
<1> QED
  BY <1>2, <1>3, <1>4

\* A registered case can always be finished: a repetition of its request, at
\* any later time, resolves to the very case its business object accepts
\* (get_frozen_case_by_identity, ensure_business_object).
THEOREM RetriesResumeTheorem == WorkspaceSpec => []RetriesResume
  BY WorkspaceInvariant, OneCasePerKey, PTL

\* Reminders stay sound while commands run.
THEOREM WorkspaceRemindersAreSound == WorkspaceSpec => []RemindersAreSound
  BY WorkspaceKeepsReminders, RemindersAreSoundTheorem, PTL

\* Withdrawals last while commands run.
THEOREM WorkspaceWithdrawalIsLasting == WorkspaceSpec => WithdrawalIsLasting
  BY WorkspaceKeepsReminders, WithdrawalIsLastingTheorem, PTL

-----------------------------------------------------------------------------
(* Entry is current.                                                       *)

\* A release that nothing disturbs inside its window is current.
LEMMA StandsNow ==
    ASSUME RemindersInv, NEW rel \in DOMAIN reports, reports[rel].holds, Window(now), Undisturbed(rel),
           Disqualifying(rel, now) = {}
    PROVE  Status(rel) = "CURRENT"
<1>0. FactsOK /\ Dated /\ now \in Nat
  BY DEF RemindersInv, FactsOK
<1>1. ~Ended /\ ~(now < Open)
  BY <1>0, WindowOrder DEF Window, Ended
<1>2. revisions[Own(rel)] \in Revisions /\ ~(revisions[Own(rel)].until < now)
  BY <1>0, SeesAll
<1>3. ~(now > revisions[reports[rel].qual].until)
  BY <1>0, <1>2 DEF Own, Revisions
<1> QED
  BY <1>1, <1>3 DEF Status, Undisturbed

\* What a successful commit of an entry has checked, in the state it commits in.
LEMMA EntryStep ==
    ASSUME RemindersInv, CommandsInv, NEW s \in Senders, NEW same \in BOOLEAN, Commit(s, same),
           NEW n \in DOMAIN events' \ DOMAIN events, events'[n].ok,
           events'[n].op \in {"CONFIRM", "REVIEW_STEP", "REPLAN"}
    PROVE  LET new == events'[n]
               plan == IF new.op = "REPLAN" THEN new.rep ELSE new.plan
               later == {k \in Inputs(new.rel) : k > plan /\ events[k].ver # new.ver}
           IN  /\ Status(new.rel) = "CURRENT"
               /\ new.op # "REPLAN" => ~Stopped(plan)
               /\ LastIn(Inputs(new.rel)) \notin later
<1>0. /\ TasksSound /\ tasks \in [Senders -> TaskRecords] /\ events \in Seq(EventRecords)
      /\ FactsOK /\ Dated
  BY DEF CommandsInv, CommandsTypeOK, RemindersInv
<1>1. PICK c : c = tasks[s].case
  OBVIOUS
<1>2. c \in objects
  BY <1>0, <1>1 DEF Commit, TasksSound, TaskSound
<1>3. c \in FrozenCases /\ c.req \in Asks /\ c.req.plan \in DOMAIN events /\ c.req.plan \in Nat
  BY <1>0, <1>2 DEF CommandsInv, CommandsTypeOK, ObjectsSound, InPlay, FrozenCases
<1>4. PICK e : e = Outcome(c, same)
  OBVIOUS
<1>5. events' = Append(events, e)
  BY <1>1, <1>4 DEF Commit
<1>6. e \in EventRecords /\ e.rel \in DOMAIN reports /\ reports[e.rel].holds
  BY <1>2, <1>4, OutcomeOK
<1>7. events'[n] = e
  BY <1>0, <1>5, <1>6, Appended
<1>8. /\ e.op = c.req.op /\ e.rel = events[c.req.plan].rel /\ e.ver = c.ver
      /\ (IF e.op = "REPLAN" THEN e.rep ELSE e.plan) = c.req.plan
      /\ e.ok = Succeeds(c, same)
  BY <1>4 DEF Outcome
<1>9. Succeeds(c, same) /\ c.req.op \in {"CONFIRM", "REVIEW_STEP", "REPLAN"}
  BY <1>7, <1>8
<1>10. /\ ~InputsChanged(c) /\ Window(now) /\ Undisturbed(e.rel) /\ Disqualifying(e.rel, now) = {}
       /\ c.req.op # "REPLAN" => ~Replaced(c.req.plan) /\ ~FoundChanged(c.req.plan)
  <2>1. CASE c.req.op = "REPLAN"
    BY <1>8, <1>9, <2>1 DEF Succeeds, Instant
  <2>2. CASE c.req.op \in {"CONFIRM", "REVIEW_STEP"}
    <3>1. Current(c) /\ Undisturbed(e.rel)
      BY <1>8, <1>9, <2>2 DEF Succeeds
    <3> QED
      BY <1>8, <3>1 DEF Current, Instant
  <2> QED
    BY <1>9, <2>1, <2>2
<1>11. Status(e.rel) = "CURRENT"
  BY <1>6, <1>10, StandsNow
<1>12. LastIn(Inputs(e.rel)) \notin {k \in Inputs(e.rel) : k > c.req.plan /\ events[k].ver # e.ver}
  BY <1>3, <1>8, <1>10 DEF InputsChanged
<1>13. e.op # "REPLAN" => ~Stopped(c.req.plan)
  BY <1>8, <1>10 DEF Stopped
<1> QED
  BY <1>7, <1>8, <1>11, <1>12, <1>13

\* No new commitment rests on what has ceased to hold: whatever changed between
\* the resolution of a command and its commit, a confirmation, a reviewed step
\* or a replacement plan succeeds only on a current release, an unstopped plan
\* and unchanged inputs (candidate_confirmation, candidate_allocation gates).
THEOREM EntryIsCurrentTheorem == WorkspaceSpec => EntryIsCurrent
<1> DEFINE Entered ==
      \A n \in DOMAIN events' \ DOMAIN events :
          events'[n].ok /\ events'[n].op \in {"CONFIRM", "REVIEW_STEP", "REPLAN"} =>
             LET new == events'[n]
                 plan == IF new.op = "REPLAN" THEN new.rep ELSE new.plan
                 later == {k \in Inputs(new.rel) : k > plan /\ events[k].ver # new.ver}
             IN  /\ Status(new.rel) = "CURRENT"
                 /\ new.op # "REPLAN" => ~Stopped(plan)
                 /\ LastIn(Inputs(new.rel)) \notin later
<1>1. ASSUME RemindersInv, CommandsInv, [WorkspaceNext]_workspaceVars PROVE Entered
  <2>1. CASE UNCHANGED events
    BY <2>1
  <2>2. ASSUME NEW s \in Senders, NEW same \in BOOLEAN, Commit(s, same) PROVE Entered
    BY <1>1, <2>2, EntryStep
  <2>3. ASSUME NEW rel \in DOMAIN reports, NEW ver \in 1..bound.inputs, Allocate(rel, ver)
        PROVE  \A n \in DOMAIN events' \ DOMAIN events : events'[n].op = "HOST"
    <3>1. PICK e : e = [kind |-> "PLAN", key |-> 0, op |-> "HOST", plan |-> 0, rep |-> 0,
                        rel |-> rel, ver |-> ver, ok |-> TRUE, changed |-> FALSE, object |-> <<>>]
      OBVIOUS
    <3>2. events' = Append(events, e) /\ e.op = "HOST"
      BY <2>3, <3>1 DEF Allocate
    <3>3. events \in Seq(EventRecords) /\ rel \in Nat /\ ver \in Nat
      BY <1>1, CommandsAssumption DEF CommandsInv, CommandsTypeOK, RemindersInv, FactsOK
    <3>4. e \in EventRecords
      BY <3>1, <3>3 DEF EventRecords
    <3> QED
      BY <3>2, <3>3, <3>4, Appended
  <2>4. ASSUME NEW rel \in DOMAIN reports, NEW ver \in 1..bound.inputs, Allocate(rel, ver) PROVE Entered
    BY <2>3, <2>4
  <2> QED
    BY <1>1, <2>1, <2>2, <2>4
       DEF WorkspaceNext, workspaceVars, commandVars, Ask, Prepare, Register, Lose
<1> QED
  BY <1>1, WorkspaceInvariant, PTL DEF WorkspaceSpec, EntryIsCurrent
=============================================================================
