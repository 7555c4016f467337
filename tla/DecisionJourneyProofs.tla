------------------------ MODULE DecisionJourneyProofs ------------------------
(***************************************************************************)
(* What DecisionJourney guarantees for every set of workers, processes,    *)
(* objects, payloads and faults.                                           *)
(*                                                                         *)
(* The argument. A step only ever adds rows (Grown): stages, event stages  *)
(* and reports grow, a mapping and an event are written once. So a fact    *)
(* that a worker established stays established whatever the others do, and *)
(* each action has only to account for what it adds itself (Inv).          *)
(***************************************************************************)
EXTENDS DecisionJourney, TLAPS

-----------------------------------------------------------------------------
(* The inductive invariant *)

\* An original event was frozen from the mapped payload and its trail is
\* durable.
Rooted ==
    \A o \in Objects : event[Original(o)] # None =>
        /\ mapping[o] # None
        /\ event[Original(o)].pay = mapping[o].pay
        /\ event[Original(o)].trail \subseteq stage[o]

\* A report row implies a committed event whose commit row is durable.
Reported ==
    \A e \in report : /\ event[e] # None
                      /\ "COMMITTED" \in evStage[e]
                      /\ KindOf[e[1]] # "shadow"

\* A correction repeats a readable original's payload.
Corrected ==
    \A o \in Objects : event[Correction(o)] # None =>
        /\ Visible(Original(o))
        /\ event[Correction(o)].pay = event[Original(o)].pay
        /\ event[Correction(o)].trail = {}

Notified == \A o \in Objects : attempts[o] # <<>> => Visible(Original(o))

\* Before the mapping is saved.
Preparing == {"validate", "lookup", "adopt", "persist"}

\* What a worker may rely on at each point of its request.
Relies(w) ==
    LET j == job[w] IN
    /\ j.pc \in Preparing => j.op = "run"
    /\ j.pc \in {"check", "enter"} \cup (Locked \ {"verify", "settle"})
         => j.op = "run" /\ mapping[j.obj] # None
    /\ j.pc \in {"verify", "settle"}
         => /\ j.op \in {"run", "correct"}
            /\ j.why \in {"COMMIT_UNKNOWN", "COMMIT_FAILED"}
            /\ j.op = "correct" => Visible(Original(j.obj))
    /\ j.pc = "settle" /\ j.seen # None => event[Target(w)] # None
    /\ j.pc \in {"publish", "verifyReport", "confirm", "fail"}
         => j.op \in {"run", "correct"} /\ event[Target(w)] # None
    /\ j.pc = "confirm" => Target(w) \in report
    /\ j.pc = "fail" => j.why \in Closures \cup {"PUBLICATION_FAILED", "PUBLICATION_UNKNOWN"}
    /\ j.pc = "correct" => j.op = "correct"

Inv == /\ TypeOK
       /\ Rooted
       /\ Reported
       /\ Corrected
       /\ Notified
       /\ EvidenceRestored
       /\ \A w \in Workers : Relies(w)

-----------------------------------------------------------------------------
(* Job updates *)

Moves(w) == \E j \in Jobs : job' = [job EXCEPT ![w] = j]

\* A worker that only moves its program counter keeps a well-formed job.
LEMMA GotoMoves ==
    ASSUME TypeOK, NEW w \in Workers, NEW l \in Pcs, Goto(w, l)
    PROVE  Moves(w)
<1> DEFINE j == [job[w] EXCEPT !.pc = l]
<1>1. job[w] \in Jobs /\ job \in [Workers -> Jobs]
  BY DEF TypeOK
<1>2. j \in Jobs
  BY <1>1 DEF Jobs
<1>3. job' = [job EXCEPT ![w] = j]
  BY <1>1 DEF Goto
<1> QED
  BY <1>2, <1>3 DEF Moves

\* The same, when it also notes why it goes there.
LEMMA GotoForMoves ==
    ASSUME TypeOK, NEW w \in Workers, NEW l \in Pcs, NEW r \in Reasons, GotoFor(w, l, r)
    PROVE  Moves(w)
<1> DEFINE j == [job[w] EXCEPT !.pc = l, !.why = r]
<1>1. job[w] \in Jobs /\ job \in [Workers -> Jobs]
  BY DEF TypeOK
<1>2. j \in Jobs
  BY <1>1 DEF Jobs
<1>3. job' = [job EXCEPT ![w] = j]
  BY <1>1 DEF GotoFor
<1> QED
  BY <1>2, <1>3 DEF Moves

\* Clearing a job at the end of a request leaves a well-formed job.
LEMMA IdleType ==
    ASSUME NEW j \in Jobs, NEW a \in Answers
    PROVE  Idle(j, a) \in Jobs
BY ZenonT(60) DEF Idle, Jobs, Pcs, RunStates, Reasons

\* A worker that answers its request keeps a well-formed job.
LEMMA ReturnMoves ==
    ASSUME TypeOK, NEW w \in Workers, NEW a \in Answers, Return(w, a)
    PROVE  Moves(w)
<1>1. job[w] \in Jobs /\ job \in [Workers -> Jobs]
  BY DEF TypeOK
<1>2. Idle(job[w], a) \in Jobs
  BY <1>1, IdleType
<1>3. job' = [job EXCEPT ![w] = Idle(job[w], a)]
  BY <1>1 DEF Return
<1> QED
  BY <1>2, <1>3 DEF Moves

\* A worker that takes a stopped Run to the commit keeps a well-formed job.
LEMMA HeldMoves ==
    ASSUME TypeOK, NEW w \in Workers, NEW st \in RunStates, NEW l \in Pcs,
           job' = [job EXCEPT ![w] = [@ EXCEPT !.pc = l, !.fw = st]]
    PROVE  Moves(w)
<1>1. job[w] \in Jobs /\ job \in [Workers -> Jobs]
  BY DEF TypeOK
<1>2. [job[w] EXCEPT !.pc = l, !.fw = st] \in Jobs
  BY <1>1 DEF Jobs
<1> QED
  BY <1>1, <1>2 DEF Moves

\* A step of a worker replaces its own job by another well-formed one.
LEMMA StepMoves ==
    ASSUME TypeOK, NEW w \in Workers, Relies(w), Step(w)
    PROVE  Moves(w)
<1>0. job[w] \in Jobs /\ job \in [Workers -> Jobs] /\ job[w].obj \in Objects
      /\ job[w].pay \in Payloads
  BY DEF TypeOK, Jobs
<1>1. CASE Validate(w) \/ Persist(w) \/ Check(w)
  BY <1>1, GotoMoves, ReturnMoves
     DEF Validate, Persist, Check, ShownAs, StatusIn, Pcs, Answers
<1>2. CASE Lookup(w)
  <2> DEFINE k == [job[w] EXCEPT !.known = {x \in Objects : mapping[x] # None},
                     !.pc = IF job[w].rec THEN "persist" ELSE "adopt"]
             m == [job[w] EXCEPT !.pay = IF KindOf[job[w].obj] \in {"saved", "release", "keyed"}
                              THEN mapping[job[w].obj].pay ELSE job[w].pay,
                              !.pc = "persist"]
  <2>1. k \in Jobs
    BY <1>0 DEF Jobs, Pcs
  <2>2. mapping[job[w].obj] # None => m \in Jobs
    BY ZenonT(60), <1>0 DEF Jobs, Pcs, TypeOK, Mappings
  <2>3. CASE mapping[job[w].obj] = None
    BY <1>0, <1>2, <2>1, <2>3 DEF Lookup, Moves
  <2>4. CASE mapping[job[w].obj] # None
    BY <1>0, <1>2, <2>2, <2>4, ReturnMoves DEF Lookup, Moves, Answers
  <2> QED
    BY <2>3, <2>4
<1>3. CASE Adopt(w)
  <2>1. [job[w] EXCEPT !.rec = job[w].obj \in Legacy /\ run[job[w].obj] # "absent",
                       !.pc = "persist"] \in Jobs
    BY <1>0 DEF Jobs, Pcs
  <2> QED
    BY <1>0, <1>3, <2>1, ReturnMoves DEF Adopt, Moves, Answers
<1>4. CASE Enter(w)
  <2>1. [job[w] EXCEPT !.pc = "probe", !.rec = Recovering(job[w].obj)] \in Jobs
    BY <1>0 DEF Jobs, Pcs, Recovering, TypeOK, Mappings
  <2> QED
    BY <1>0, <1>4, <2>1, ReturnMoves, GotoMoves
       DEF Enter, Moves, Answers, Pcs, ShownAs, StatusIn
<1>5. CASE Probe(w) \/ CreateRun(w) \/ RecordCreated(w) \/ RecordRan(w)
           \/ StartOrResume(w) \/ ConvergeTimeout(w)
  BY <1>5, GotoMoves, ReturnMoves
     DEF Probe, CreateRun, RecordCreated, RecordRan, StartOrResume, ConvergeTimeout, Pcs, Answers
<1>6. CASE Observe(w) \/ Drive(w) \/ Converge(w)
  <2>1. run[job[w].obj] \in RunStates
    BY <1>0 DEF TypeOK
  <2> QED
    BY <1>6, <2>1, HeldMoves, GotoMoves
       DEF Observe, Drive, Converge, Pcs, RunStates, Terminal
<1>7. CASE VerifyCommit(w)
  <2> DEFINE f == event[Target(w)]
             j == [job[w] EXCEPT !.pc = "settle", !.seen = IF f = None THEN None ELSE f.by]
  <2>1. Target(w) \in Events
    BY <1>0 DEF Target, Original, Correction, Events
  <2>2. f = None \/ f.by \in Workers
    BY <2>1 DEF TypeOK, Facts
  <2>3. j \in Jobs
    BY <1>0, <2>2 DEF Jobs, Pcs
  <2> QED
    BY <1>0, <1>7, <2>3 DEF VerifyCommit, Moves
<1>8. CASE Commit(w) \/ SettleCommit(w)
  <2>1. At(w, "settle") => job[w].why \in Answers
    BY DEF Relies, At, Answers
  <2> QED
    BY <1>8, <2>1, GotoMoves, GotoForMoves, ReturnMoves
       DEF Commit, SettleCommit, AfterCommit, ShownAs, StatusIn, Pcs, Answers, Reasons
<1>9. CASE Publish(w) \/ VerifyReport(w) \/ Confirm(w) \/ RecordPublicationFailure(w)
  BY <1>9, GotoMoves, GotoForMoves, ReturnMoves
     DEF Publish, PublishWith, VerifyReport, Confirm, ConfirmWith, RecordPublicationFailure,
         PublicationGate, ShownAs, StatusIn, Pcs, Answers, Reasons, Closures
<1>10. CASE Correct(w) \/ Notify(w)
  BY <1>10, GotoMoves, GotoForMoves, ReturnMoves
     DEF Correct, Notify, AfterCommit, PublishWith, ConfirmWith, PublicationGate, StatusIn,
         Pcs, Answers, Reasons, Closures
<1> QED
  BY <1>1, <1>2, <1>3, <1>4, <1>5, <1>6, <1>7, <1>8, <1>9, <1>10 DEF Step

-----------------------------------------------------------------------------
(* Rows only accumulate *)

\* What no step takes back.
Grown ==
    /\ \A o \in Objects : /\ mapping[o] # None => mapping'[o] = mapping[o]
                          /\ stage[o] \subseteq stage'[o]
    /\ \A e \in Events : /\ event[e] # None => event'[e] = event[e]
                         /\ evStage[e] \subseteq evStage'[e]
    /\ report \subseteq report'

\* The types of the tables, without the jobs.
TablesOK ==
    /\ mapping \in [Objects -> Mappings \cup {None}]
    /\ stage \in [Objects -> SUBSET StageTags]
    /\ event \in [Events -> Facts \cup {None}]
    /\ evStage \in [Events -> SUBSET EventTags]
    /\ report \subseteq Events
    /\ attempts \in [Objects -> Seq({"SUCCEEDED", "FAILED"})]
    /\ run \in [Objects -> RunStates]
    /\ output \in [Objects -> {"none", "valid", "invalid"}]
    /\ lease \in [Objects -> Workers \cup {None}]
    /\ windowOpen \in [Objects -> BOOLEAN]
    /\ qual \in [Objects -> Quals]

\* Adding rows to one key of a table adds rows and nothing else.
LEMMA AddRows ==
    ASSUME NEW D, NEW S, NEW f \in [D -> SUBSET S], NEW d \in D, NEW T \in SUBSET S,
           NEW g, g = [f EXCEPT ![d] = @ \cup T]
    PROVE  /\ g \in [D -> SUBSET S]
           /\ \A x \in D : f[x] \subseteq g[x]
           /\ \A x \in D \ {d} : g[x] = f[x]
           /\ g[d] = f[d] \cup T
<1>1. \A x \in D : g[x] = IF x = d THEN f[x] \cup T ELSE f[x]
  OBVIOUS
<1>2. g = [x \in D |-> g[x]]
  OBVIOUS
<1> QED
  BY <1>1, <1>2

\* ensure_event_stage_results only adds rows, to one event, and one of them is
\* the commit row.
LEMMA BackfilledType ==
    ASSUME TablesOK, NEW e \in Events
    PROVE  /\ Backfilled(e) \in [Events -> SUBSET EventTags]
           /\ \A x \in Events : evStage[x] \subseteq Backfilled(e)[x]
           /\ \A x \in Events \ {e} : Backfilled(e)[x] = evStage[x]
           /\ "COMMITTED" \in Backfilled(e)[e]
<1>1. evStage \in [Events -> SUBSET EventTags] /\ OwnRows(e) \in SUBSET EventTags
      /\ "COMMITTED" \in OwnRows(e)
  BY DEF TablesOK, OwnRows, EventTags
<1> QED
  BY <1>1, AddRows DEF Backfilled

\* What publishing event e may do to the ledger.
Publishes(e) ==
    /\ evStage' \in [Events -> SUBSET EventTags]
    /\ \A x \in Events : evStage[x] \subseteq evStage'[x]
    /\ \A x \in Events \ {e} : evStage'[x] = evStage[x]
    /\ windowOpen' \in [Objects -> BOOLEAN]
    /\ report' = report \/ /\ report' = report \cup {e}
                           /\ "COMMITTED" \in evStage'[e]
                           /\ KindOf[e[1]] # "shadow"

\* The end of _publish_report_or_record_failure touches one event only.
LEMMA ConfirmWithPublishes ==
    ASSUME TablesOK, NEW w \in Workers, NEW e \in Events, NEW rows,
           rows \in [Events -> SUBSET EventTags],
           \A x \in Events : evStage[x] \subseteq rows[x],
           \A x \in Events \ {e} : rows[x] = evStage[x],
           ConfirmWith(w, e, rows), UNCHANGED report
    PROVE  Publishes(e)
<1>1. evStage \in [Events -> SUBSET EventTags] /\ windowOpen \in [Objects -> BOOLEAN]
      /\ {"PUBLISHED"} \in SUBSET EventTags /\ e[1] \in Objects
  BY DEF TablesOK, EventTags, Events
<1>2. CASE evStage' = evStage
  <2>1. windowOpen' = windowOpen \/ windowOpen' = [windowOpen EXCEPT ![e[1]] = FALSE]
    BY DEF ConfirmWith
  <2>2. windowOpen' \in [Objects -> BOOLEAN]
    BY <1>1, <2>1
  <2> QED
    BY <1>1, <1>2, <2>2 DEF Publishes
<1>3. CASE evStage' = [rows EXCEPT ![e] = @ \cup {"PUBLISHED"}] /\ windowOpen' = windowOpen
  <2>1. /\ evStage' \in [Events -> SUBSET EventTags]
        /\ \A x \in Events : rows[x] \subseteq evStage'[x]
        /\ \A x \in Events \ {e} : evStage'[x] = rows[x]
    BY <1>1, <1>3, AddRows
  <2> QED
    BY <1>1, <1>3, <2>1 DEF Publishes
<1> QED
  BY <1>2, <1>3 DEF ConfirmWith

\* So does publish_report, and a report row it adds comes with its commit row
\* and never belongs to a SHADOW object.
LEMMA PublishWithPublishes ==
    ASSUME TablesOK, NEW w \in Workers, NEW e \in Events, PublishWith(w, e)
    PROVE  Publishes(e)
<1>1. evStage \in [Events -> SUBSET EventTags] /\ windowOpen \in [Objects -> BOOLEAN]
      /\ {"SHADOW_ISOLATED"} \in SUBSET EventTags
  BY DEF TablesOK, EventTags
<1>2. /\ Backfilled(e) \in [Events -> SUBSET EventTags]
      /\ \A x \in Events : evStage[x] \subseteq Backfilled(e)[x]
      /\ \A x \in Events \ {e} : Backfilled(e)[x] = evStage[x]
      /\ "COMMITTED" \in Backfilled(e)[e]
  BY BackfilledType
<1>3. CASE /\ evStage' = [Backfilled(e) EXCEPT ![e] = @ \cup {"SHADOW_ISOLATED"}]
           /\ UNCHANGED <<report, windowOpen>>
  <2>1. /\ evStage' \in [Events -> SUBSET EventTags]
        /\ \A x \in Events : Backfilled(e)[x] \subseteq evStage'[x]
        /\ \A x \in Events \ {e} : evStage'[x] = Backfilled(e)[x]
    BY <1>1, <1>2, <1>3, AddRows
  <2> QED
    BY <1>1, <1>2, <1>3, <2>1 DEF Publishes
<1>4. CASE ConfirmWith(w, e, Backfilled(e)) /\ UNCHANGED report
  BY <1>2, <1>4, ConfirmWithPublishes
<1>5. CASE /\ report' = report \cup {e}
           /\ evStage' = Backfilled(e)
           /\ ~Isolated(e[1])
           /\ UNCHANGED windowOpen
  BY <1>1, <1>2, <1>5 DEF Publishes, Isolated
<1>6. CASE UNCHANGED <<report, evStage, windowOpen>>
  BY <1>1, <1>6 DEF Publishes
<1> QED
  BY <1>3, <1>4, <1>5, <1>6 DEF PublishWith

\* So does _record_publication_failure.
LEMMA FailurePublishes ==
    ASSUME TablesOK, NEW w \in Workers, Relies(w), Target(w) \in Events,
           RecordPublicationFailure(w)
    PROVE  Publishes(Target(w))
<1> DEFINE e == Target(w)
<1>1. evStage \in [Events -> SUBSET EventTags] /\ windowOpen \in [Objects -> BOOLEAN]
      /\ {job[w].why} \in SUBSET EventTags
  BY DEF TablesOK, RecordPublicationFailure, At, Relies, EventTags, Closures
<1>2. /\ Backfilled(e) \in [Events -> SUBSET EventTags]
      /\ \A x \in Events : evStage[x] \subseteq Backfilled(e)[x]
      /\ \A x \in Events \ {e} : Backfilled(e)[x] = evStage[x]
  BY BackfilledType
<1>3. evStage' = [Backfilled(e) EXCEPT ![e] = @ \cup {job[w].why}]
      /\ UNCHANGED <<report, windowOpen>>
  BY DEF RecordPublicationFailure, envVars
<1>4. /\ evStage' \in [Events -> SUBSET EventTags]
      /\ \A x \in Events : Backfilled(e)[x] \subseteq evStage'[x]
      /\ \A x \in Events \ {e} : evStage'[x] = Backfilled(e)[x]
  BY <1>1, <1>2, <1>3, AddRows
<1> QED
  BY <1>1, <1>2, <1>3, <1>4 DEF Publishes

\* The three publishing steps touch the rows of their own event only.
LEMMA PublishingStep ==
    ASSUME TablesOK, NEW w \in Workers, job[w] \in Jobs, Relies(w),
           Publish(w) \/ Confirm(w) \/ RecordPublicationFailure(w)
    PROVE  Publishes(Target(w)) /\ UNCHANGED <<mapping, stage, event, attempts, runVars, qual>>
<1>1. Target(w) \in Events
  BY DEF Jobs, Target, Original, Correction, Events
<1>2. evStage \in [Events -> SUBSET EventTags] /\ windowOpen \in [Objects -> BOOLEAN]
  BY DEF TablesOK
<1>3. CASE Publish(w)
  <2>1. CASE UNCHANGED <<evStage, report, windowOpen>>
    <3>1. Publishes(Target(w))
      BY <1>2, <2>1 DEF Publishes
    <3> QED
      BY <1>3, <3>1 DEF Publish
  <2>2. CASE PublishWith(w, Target(w))
    <3>1. Publishes(Target(w))
      BY <1>1, <2>2, PublishWithPublishes
    <3> QED
      BY <1>3, <3>1 DEF Publish
  <2> QED
    BY <1>3, <2>1, <2>2 DEF Publish
<1>4. CASE Confirm(w)
  <2>1. ConfirmWith(w, Target(w), evStage) /\ UNCHANGED report
    BY <1>4 DEF Confirm
  <2>2. Publishes(Target(w))
    BY <1>1, <1>2, <2>1, ConfirmWithPublishes
  <2> QED
    BY <1>4, <2>2 DEF Confirm
<1>5. CASE RecordPublicationFailure(w)
  BY <1>1, <1>5, FailurePublishes DEF RecordPublicationFailure, envVars
<1> QED
  BY <1>3, <1>4, <1>5

\* The event a commit writes, as a well-formed fact.
OriginalFact(w, o) == [by |-> w, pay |-> mapping[o].pay, disp |-> Disposition(o),
                       trail |-> stage[o] \cup Precommit]
CorrectionFact(w, o) == [by |-> w, pay |-> event[Original(o)].pay,
                         disp |-> event[Original(o)].disp, trail |-> {}]

\* What commit_event stores is a well-formed fact.
LEMMA FactTypes ==
    ASSUME TablesOK, NEW w \in Workers, NEW o \in Objects
    PROVE  /\ mapping[o] # None => OriginalFact(w, o) \in Facts
           /\ event[Original(o)] # None => CorrectionFact(w, o) \in Facts
<1>1. Disposition(o) \in Dispositions /\ stage[o] \cup Precommit \in SUBSET StageTags
  BY DEF TablesOK, Disposition, Dispositions, StageTags
<1>2. mapping[o] # None => mapping[o].pay \in Payloads
  BY DEF TablesOK, Mappings
<1>3. Original(o) \in Events
  BY DEF Original, Events
<1>4. event[Original(o)] # None => /\ event[Original(o)].pay \in Payloads
                                   /\ event[Original(o)].disp \in Dispositions
  BY <1>3 DEF TablesOK, Facts
<1> QED
  BY <1>1, <1>2, <1>4 DEF Facts, OriginalFact, CorrectionFact

\* The four things the commit step may do.
LEMMA CommitCases ==
    ASSUME TablesOK, NEW w \in Workers, NEW o, o = job[w].obj, Commit(w)
    PROVE  /\ UNCHANGED <<mapping, evStage, report, attempts, runVars, envVars>>
           /\ \/ UNCHANGED <<stage, event>>
              \/ /\ UNCHANGED event
                 /\ \/ stage' = [stage EXCEPT ![o] = @ \cup {"FRAMEWORK_RUN", "INVALID"}]
                    \/ stage' = [stage EXCEPT ![o] = @ \cup {"FRAMEWORK_RUN"}]
              \/ /\ event[Original(o)] = None
                 /\ event' = [event EXCEPT ![Original(o)] = OriginalFact(w, o)]
                 /\ stage' = [stage EXCEPT ![o] = @ \cup Precommit]
BY DEF Commit, StoreOriginal, OriginalFact, Uncommitted

\* The two things the settling step may do.
LEMMA SettleCases ==
    ASSUME TablesOK, NEW w \in Workers, SettleCommit(w)
    PROVE  /\ UNCHANGED <<mapping, event, report, attempts, runVars, envVars>>
           /\ \/ UNCHANGED <<stage, evStage>>
              \/ /\ UNCHANGED evStage
                 /\ stage' = [stage EXCEPT ![job[w].obj] = @ \cup RestoredRows(w)]
              \/ /\ UNCHANGED stage
                 /\ evStage' = [evStage EXCEPT ![Target(w)] = @ \cup {job[w].why}]
BY DEF SettleCommit

\* The three things the correcting step may do.
LEMMA CorrectCases ==
    ASSUME TablesOK, NEW w \in Workers, NEW o, o = job[w].obj, o \in Objects, Correct(w)
    PROVE  /\ UNCHANGED <<mapping, stage, attempts, runVars, qual>>
           /\ \/ UNCHANGED <<event, evStage, report, windowOpen>>
              \/ /\ UNCHANGED event
                 /\ event[Correction(o)] # None
                 /\ Publishes(Correction(o))
              \/ /\ UNCHANGED <<evStage, report, windowOpen>>
                 /\ Visible(Original(o))
                 /\ event[Correction(o)] = None
                 /\ event' = [event EXCEPT ![Correction(o)] = CorrectionFact(w, o)]
<1>1. Correction(o) \in Events
  BY DEF Correction, Events
<1>2. PublishWith(w, Correction(o)) => Publishes(Correction(o))
  BY <1>1, PublishWithPublishes
<1> QED
  BY <1>2 DEF Correct, Correctable, CorrectionFact

\* The two things the notifying step may do.
LEMMA NotifyCases ==
    ASSUME TablesOK, NEW w \in Workers, NEW o, o = job[w].obj, Notify(w)
    PROVE  /\ UNCHANGED <<mapping, stage, event, report, runVars, envVars>>
           /\ \/ UNCHANGED <<attempts, evStage>>
              \/ /\ Visible(Original(o))
                 /\ evStage' = [evStage EXCEPT ![Original(o)] = @ \cup {"NOTIFIED"}]
                 /\ \E r \in {"SUCCEEDED", "FAILED"} :
                      attempts' = [attempts EXCEPT ![o] = Append(@, r)]
BY DEF Notify

\* A step of a worker keeps the tables well typed and takes nothing back.
LEMMA StepGrows ==
    ASSUME TablesOK, Reported, NEW w \in Workers, job[w] \in Jobs, Relies(w), Step(w)
    PROVE  TablesOK' /\ Grown
<1>0. job[w].obj \in Objects /\ job[w].pay \in Payloads /\ job[w].rec \in BOOLEAN
      /\ Target(w) \in Events
  BY DEF Jobs, Target, Original, Correction, Events
<1>1. CASE UNCHANGED dbVars /\ UNCHANGED runVars /\ UNCHANGED envVars
  BY <1>1 DEF TablesOK, Grown, dbVars, runVars, envVars
<1>2. CASE Persist(w)
  <2>1. [pay |-> job[w].pay, rec |-> job[w].rec] \in Mappings
    BY <1>0 DEF Mappings
  <2>2. mapping' \in [Objects -> Mappings \cup {None}]
    BY ZenonT(60), <1>0, <1>2, <2>1 DEF Persist, TablesOK
  <2>3. \A o \in Objects : mapping[o] # None => mapping'[o] = mapping[o]
    BY <1>0, <1>2 DEF Persist, TablesOK
  <2> QED
    BY <1>2, <2>2, <2>3 DEF Persist, TablesOK, Grown, runVars, envVars
<1>3. CASE CreateRun(w) \/ StartOrResume(w) \/ Drive(w)
  <2>1. /\ run' \in [Objects -> RunStates]
        /\ output' \in [Objects -> {"none", "valid", "invalid"}]
        /\ lease' \in [Objects -> Workers \cup {None}]
    <3>1. CASE CreateRun(w)
      BY <1>0, <3>1 DEF CreateRun, TablesOK, RunStates
    <3>2. CASE StartOrResume(w)
      BY <1>0, <3>2 DEF StartOrResume, TablesOK, RunStates
    <3>3. CASE Drive(w)
      <4>1. PICK st \in {"WAITING"} \cup Terminal :
              /\ run' = [run EXCEPT ![job[w].obj] = st]
              /\ IF st = "SUCCEEDED"
                 THEN \E v \in {"valid", "invalid"} : output' = [output EXCEPT ![job[w].obj] = v]
                 ELSE UNCHANGED output
              /\ lease' = [lease EXCEPT ![job[w].obj] = None]
        BY <3>3, Zenon DEF Drive
      <4>2. st \in RunStates
        BY <4>1 DEF RunStates, Terminal
      <4>3. run' \in [Objects -> RunStates]
        BY <1>0, <4>1, <4>2 DEF TablesOK
      <4>4. output' \in [Objects -> {"none", "valid", "invalid"}]
        BY <1>0, <4>1 DEF TablesOK
      <4>5. lease' \in [Objects -> Workers \cup {None}]
        BY <1>0, <4>1 DEF TablesOK
      <4> QED
        BY <4>3, <4>4, <4>5
    <3> QED
      BY <1>3, <3>1, <3>2, <3>3
  <2>2. UNCHANGED dbVars /\ UNCHANGED envVars
    BY <1>3 DEF CreateRun, StartOrResume, Drive
  <2> QED
    BY <2>1, <2>2 DEF TablesOK, Grown, dbVars, envVars
<1>4. CASE RecordCreated(w) \/ RecordRan(w) \/ Observe(w) \/ Converge(w)
  <2>1. /\ run' \in [Objects -> RunStates]
        /\ lease' \in [Objects -> Workers \cup {None}]
    <3>1. /\ run' = run \/ run' = [run EXCEPT ![job[w].obj] = "RUNNING"]
          /\ lease' = lease \/ lease' = [lease EXCEPT ![job[w].obj] = w]
      BY <1>4 DEF RecordCreated, RecordRan, Observe, Converge, runVars
    <3> QED
      BY ZenonT(60), <1>0, <3>1 DEF TablesOK, RunStates
  <2>2. /\ stage' \in [Objects -> SUBSET StageTags]
        /\ \A o \in Objects : stage[o] \subseteq stage'[o]
    <3>1. stage' = stage \/ stage' = [stage EXCEPT ![job[w].obj] = @ \cup {"FRAMEWORK_RUN"}]
      BY <1>4 DEF RecordCreated, RecordRan, Observe, Converge, RecordTransition
    <3>2. stage \in [Objects -> SUBSET StageTags] /\ {"FRAMEWORK_RUN"} \in SUBSET StageTags
      BY DEF TablesOK, StageTags, Precommit
    <3>3. CASE stage' = stage
      BY <3>2, <3>3
    <3>4. CASE stage' = [stage EXCEPT ![job[w].obj] = @ \cup {"FRAMEWORK_RUN"}]
      BY <1>0, <3>2, <3>4, AddRows
    <3> QED
      BY <3>1, <3>3, <3>4
  <2>3. UNCHANGED <<mapping, event, evStage, report, attempts, output, envVars>>
    BY <1>4 DEF RecordCreated, RecordRan, Observe, Converge, runVars
  <2> QED
    BY <2>1, <2>2, <2>3 DEF TablesOK, Grown, envVars
<1>5. CASE Commit(w)
  <2> DEFINE o == job[w].obj
  <2>1. mapping[o] # None
    BY <1>5 DEF Commit, At, Relies, Locked
  <2>2. stage \in [Objects -> SUBSET StageTags] /\ event \in [Events -> Facts \cup {None}]
        /\ Original(o) \in Events /\ Precommit \in SUBSET StageTags
        /\ {"FRAMEWORK_RUN"} \in SUBSET StageTags
        /\ {"FRAMEWORK_RUN", "INVALID"} \in SUBSET StageTags
    BY <1>0 DEF TablesOK, StageTags, Precommit, Original, Events
  <2>3. /\ stage' \in [Objects -> SUBSET StageTags]
        /\ \A x \in Objects : stage[x] \subseteq stage'[x]
    <3>1. CASE UNCHANGED stage
      BY <2>2, <3>1
    <3>2. ASSUME NEW T \in SUBSET StageTags, stage' = [stage EXCEPT ![o] = @ \cup T]
          PROVE  <2>3!1 /\ <2>3!2
      BY <1>0, <2>2, <3>2, AddRows
    <3> QED
      BY <1>5, <2>2, <3>1, <3>2, CommitCases
  <2>4. /\ event' \in [Events -> Facts \cup {None}]
        /\ \A x \in Events : event[x] # None => event'[x] = event[x]
    <3>1. CASE UNCHANGED event
      BY <2>2, <3>1
    <3>2. CASE /\ event[Original(o)] = None
               /\ event' = [event EXCEPT ![Original(o)] = OriginalFact(w, o)]
      <4>1. OriginalFact(w, o) \in Facts
        BY <1>0, <2>1, FactTypes
      <4> QED
        BY <2>2, <3>2, <4>1
    <3> QED
      BY <1>5, <3>1, <3>2, CommitCases
  <2>5. UNCHANGED <<mapping, evStage, report, attempts, runVars, envVars>>
    BY <1>5, CommitCases
  <2> QED
    BY <2>3, <2>4, <2>5 DEF TablesOK, Grown, runVars, envVars
<1>6. CASE SettleCommit(w)
  <2>1. job[w].why \in {"COMMIT_UNKNOWN", "COMMIT_FAILED"}
    BY <1>6 DEF SettleCommit, At, Relies
  <2>2. stage \in [Objects -> SUBSET StageTags] /\ evStage \in [Events -> SUBSET EventTags]
        /\ RestoredRows(w) \in SUBSET StageTags /\ {job[w].why} \in SUBSET EventTags
    BY <2>1 DEF TablesOK, StageTags, EventTags, RestoredRows
  <2>3. /\ stage' \in [Objects -> SUBSET StageTags]
        /\ \A x \in Objects : stage[x] \subseteq stage'[x]
    <3>1. CASE UNCHANGED stage
      BY <2>2, <3>1
    <3>2. CASE stage' = [stage EXCEPT ![job[w].obj] = @ \cup RestoredRows(w)]
      BY <1>0, <2>2, <3>2, AddRows
    <3> QED
      BY <1>6, <3>1, <3>2, SettleCases
  <2>4. /\ evStage' \in [Events -> SUBSET EventTags]
        /\ \A x \in Events : evStage[x] \subseteq evStage'[x]
    <3>1. CASE UNCHANGED evStage
      BY <2>2, <3>1
    <3>2. CASE evStage' = [evStage EXCEPT ![Target(w)] = @ \cup {job[w].why}]
      BY <1>0, <2>2, <3>2, AddRows
    <3> QED
      BY <1>6, <3>1, <3>2, SettleCases
  <2>5. UNCHANGED <<mapping, event, report, attempts, runVars, envVars>>
    BY <1>6, SettleCases
  <2> QED
    BY <2>3, <2>4, <2>5 DEF TablesOK, Grown, runVars, envVars
<1>7. CASE Publish(w) \/ Confirm(w) \/ RecordPublicationFailure(w)
  <2>1. Publishes(Target(w)) /\ UNCHANGED <<mapping, stage, event, attempts, runVars, qual>>
    BY <1>7, PublishingStep
  <2>2. report' \subseteq Events /\ report \subseteq report'
    BY <1>0, <2>1 DEF Publishes, TablesOK
  <2> QED
    BY <2>1, <2>2 DEF Publishes, TablesOK, Grown, runVars
<1>8. CASE Correct(w)
  <2> DEFINE o == job[w].obj
  <2>0. Correction(o) \in Events /\ Original(o) \in Events
    BY <1>0 DEF Original, Correction, Events
  <2>1. UNCHANGED <<mapping, stage, attempts, runVars, qual>>
    BY <1>0, <1>8, CorrectCases
  <2>2. CASE UNCHANGED <<event, evStage, report, windowOpen>>
    BY <2>1, <2>2 DEF TablesOK, Grown, runVars
  <2>3. CASE UNCHANGED event /\ Publishes(Correction(o))
    <3>1. report' \subseteq Events /\ report \subseteq report'
      BY <2>0, <2>3 DEF Publishes, TablesOK
    <3> QED
      BY <2>1, <2>3, <3>1 DEF Publishes, TablesOK, Grown, runVars
  <2>4. CASE /\ UNCHANGED <<evStage, report, windowOpen>>
             /\ Visible(Original(o))
             /\ event[Correction(o)] = None
             /\ event' = [event EXCEPT ![Correction(o)] = CorrectionFact(w, o)]
    <3>1. event[Original(o)] # None
      BY <2>0, <2>4 DEF Visible, VisibleIn, Reported
    <3>2. CorrectionFact(w, o) \in Facts
      BY <1>0, <3>1, FactTypes
    <3>3. event \in [Events -> Facts \cup {None}]
      BY DEF TablesOK
    <3>4. /\ event' \in [Events -> Facts \cup {None}]
          /\ \A x \in Events : event[x] # None => event'[x] = event[x]
      BY <2>0, <2>4, <3>2, <3>3
    <3> QED
      BY <2>1, <2>4, <3>4 DEF TablesOK, Grown, runVars
  <2> QED
    BY <1>0, <1>8, <2>2, <2>3, <2>4, CorrectCases
<1>9. CASE Notify(w)
  <2> DEFINE o == job[w].obj
  <2>1. UNCHANGED <<mapping, stage, event, report, runVars, envVars>>
    BY <1>9, NotifyCases
  <2>2. evStage \in [Events -> SUBSET EventTags] /\ {"NOTIFIED"} \in SUBSET EventTags
        /\ Original(o) \in Events
    BY <1>0 DEF TablesOK, EventTags, Original, Events
  <2>3. /\ evStage' \in [Events -> SUBSET EventTags]
        /\ \A x \in Events : evStage[x] \subseteq evStage'[x]
    <3>1. CASE UNCHANGED evStage
      BY <2>2, <3>1
    <3>2. CASE evStage' = [evStage EXCEPT ![Original(o)] = @ \cup {"NOTIFIED"}]
      BY <2>2, <3>2, AddRows
    <3> QED
      BY <1>9, <3>1, <3>2, NotifyCases
  <2>4. attempts' \in [Objects -> Seq({"SUCCEEDED", "FAILED"})]
    <3>1. attempts \in [Objects -> Seq({"SUCCEEDED", "FAILED"})]
      BY DEF TablesOK
    <3>2. \/ UNCHANGED attempts
          \/ \E r \in {"SUCCEEDED", "FAILED"} : attempts' = [attempts EXCEPT ![o] = Append(@, r)]
      BY <1>9, NotifyCases
    <3>3. \A r \in {"SUCCEEDED", "FAILED"} :
            Append(attempts[o], r) \in Seq({"SUCCEEDED", "FAILED"})
      BY <1>0, <3>1
    <3> QED
      BY <1>0, <3>1, <3>2, <3>3
  <2> QED
    BY <2>1, <2>3, <2>4 DEF TablesOK, Grown, runVars, envVars
<1>10. CASE \/ Validate(w) \/ Lookup(w) \/ Adopt(w) \/ Check(w) \/ Enter(w) \/ Probe(w)
            \/ ConvergeTimeout(w) \/ VerifyCommit(w) \/ VerifyReport(w)
  BY <1>1, <1>10 DEF Validate, Lookup, Adopt, Check, Enter, Probe, ConvergeTimeout,
                     VerifyCommit, VerifyReport
<1> QED
  BY <1>2, <1>3, <1>4, <1>5, <1>6, <1>7, <1>8, <1>9, <1>10 DEF Step

-----------------------------------------------------------------------------
(* The environment and the whole next-state relation *)

\* A new request leaves a well-formed job.
LEMMA SubmitMoves ==
    ASSUME TypeOK, NEW w \in Workers, NEW op \in Ops, NEW o \in Objects, NEW p \in Payloads,
           Submit(w, op, o, p)
    PROVE  Moves(w)
<1> DEFINE j == [job[w] EXCEPT
                  !.pc = Entry(op), !.obj = o, !.pay = p, !.told = "none",
                  !.op = IF op = "replay" THEN "run" ELSE op,
                  !.rec = op = "replay"]
<1>1. job[w] \in Jobs /\ job \in [Workers -> Jobs]
  BY DEF TypeOK
<1>2. Entry(op) \in Pcs /\ (IF op = "replay" THEN "run" ELSE op) \in {"run", "correct", "notify"}
      /\ "none" \in Answers
  BY ConstantsAssumption DEF Entry, Pcs, Answers
<1>3. j \in Jobs
  BY <1>1, <1>2 DEF Jobs
<1>4. job' = [job EXCEPT ![w] = j]
  BY DEF Submit
<1> QED
  BY <1>3, <1>4 DEF Moves

\* A crash leaves a well-formed job.
LEMMA CrashMoves ==
    ASSUME TypeOK, NEW w \in Workers, Crash(w)
    PROVE  Moves(w)
<1>1. Idle(job[w], "none") \in Jobs
  BY IdleType DEF TypeOK, Answers
<1> QED
  BY <1>1 DEF Crash, Moves

\* The environment touches neither the ledger nor a job.
LEMMA EnvironmentTables ==
    ASSUME TablesOK, NEW o \in Objects,
           LeaseExpires(o) \/ LoseRun(o) \/ CloseWindow(o) \/ Govern(o)
    PROVE  TablesOK' /\ UNCHANGED dbVars /\ UNCHANGED job
<1>1. CASE LeaseExpires(o)
  BY <1>1 DEF LeaseExpires, TablesOK, dbVars, envVars
<1>2. CASE LoseRun(o)
  BY <1>2 DEF LoseRun, TablesOK, dbVars, envVars, RunStates
<1>3. CASE CloseWindow(o)
  BY <1>3 DEF CloseWindow, TablesOK, dbVars, runVars
<1>4. CASE Govern(o)
  BY <1>4 DEF Govern, TablesOK, dbVars, runVars
<1> QED
  BY <1>1, <1>2, <1>3, <1>4

\* A step moves at most one worker and takes nothing back.
LEMMA NextGrows ==
    ASSUME Inv, [Next]_vars
    PROVE  /\ TypeOK'
           /\ Grown
<1>1. TablesOK /\ job \in [Workers -> Jobs] /\ Reported
  BY DEF Inv, TypeOK, TablesOK
<1>2. ASSUME NEW w \in Workers, Moves(w) PROVE job' \in [Workers -> Jobs]
  BY <1>1, <1>2 DEF Moves
<1>3. UNCHANGED dbVars => Grown
  BY DEF dbVars, Grown
<1>4. UNCHANGED <<dbVars, runVars, envVars>> => TablesOK' /\ Grown
  BY <1>1 DEF TablesOK, Grown, dbVars, runVars, envVars
<1>5. CASE UNCHANGED vars
  BY <1>1, <1>4, <1>5 DEF TypeOK, TablesOK, vars
<1>6. ASSUME NEW w \in Workers, Step(w) PROVE TypeOK' /\ Grown
  <2>1. Relies(w) /\ TypeOK /\ job[w] \in Jobs
    BY <1>1 DEF Inv
  <2>2. TablesOK' /\ Grown
    BY <1>1, <1>6, <2>1, StepGrows
  <2>3. job' \in [Workers -> Jobs]
    BY <1>2, <1>6, <2>1, StepMoves
  <2> QED
    BY <2>2, <2>3 DEF TypeOK, TablesOK
<1>7. ASSUME NEW w \in Workers, Crash(w) PROVE TypeOK' /\ Grown
  <2>1. job' \in [Workers -> Jobs]
    BY <1>2, <1>7, CrashMoves DEF Inv
  <2> QED
    BY <1>4, <1>7, <2>1 DEF Crash, TypeOK, TablesOK
<1>8. ASSUME NEW w \in Workers, NEW op \in Ops, NEW o \in Objects, NEW p \in Payloads,
             Submit(w, op, o, p)
      PROVE  TypeOK' /\ Grown
  <2>1. job' \in [Workers -> Jobs]
    BY <1>2, <1>8, SubmitMoves DEF Inv
  <2> QED
    BY <1>4, <1>8, <2>1 DEF Submit, TypeOK, TablesOK
<1>9. ASSUME NEW o \in Objects, LeaseExpires(o) \/ LoseRun(o) \/ CloseWindow(o) \/ Govern(o)
      PROVE  TypeOK' /\ Grown
  BY <1>1, <1>3, <1>9, EnvironmentTables DEF TypeOK, TablesOK
<1> QED
  BY <1>5, <1>6, <1>7, <1>8, <1>9 DEF Next

-----------------------------------------------------------------------------
(* What workers rely on *)

\* A readable report stays readable: the three conditions of
\* get_original_formal_report are about rows that are never removed.
LEMMA VisibleStays ==
    ASSUME Grown, NEW e \in Events, Visible(e)
    PROVE  Visible(e)'
BY DEF Grown, Visible, VisibleIn

\* The identities a worker works on are identities of the ledger.
LEMMA TargetType ==
    ASSUME TypeOK, NEW w \in Workers
    PROVE  /\ Target(w) \in Events
           /\ job[w].obj \in Objects
           /\ Original(job[w].obj) \in Events
           /\ Correction(job[w].obj) \in Events
BY DEF TypeOK, Jobs, Target, Original, Correction, Events

\* A worker that does not move goes on relying on what it relied on.
LEMMA ReliesKept ==
    ASSUME TypeOK, Grown, NEW w \in Workers, Relies(w), job'[w] = job[w]
    PROVE  Relies(w)'
<1>1. Target(w)' = Target(w)
  BY DEF Target
<1>2. Target(w) \in Events /\ job[w].obj \in Objects /\ Original(job[w].obj) \in Events
  BY TargetType
<1>3. /\ mapping[job[w].obj] # None => mapping'[job[w].obj] # None
      /\ event[Target(w)] # None => event'[Target(w)] # None
      /\ Target(w) \in report => Target(w) \in report'
  BY <1>2 DEF Grown
<1>4. Visible(Original(job[w].obj)) => Visible(Original(job[w].obj))'
  BY <1>2, VisibleStays
<1> QED
  BY <1>1, <1>3, <1>4 DEF Relies, Original

\* The fields of a moved job that Relies reads.
LEMMA GotoFields ==
    ASSUME TypeOK, NEW w \in Workers, NEW l, Goto(w, l)
    PROVE  /\ job'[w].pc = l /\ job'[w].op = job[w].op /\ job'[w].obj = job[w].obj
           /\ job'[w].why = job[w].why
BY DEF TypeOK, Goto, Jobs

\* The same for a move with a reason.
LEMMA GotoForFields ==
    ASSUME TypeOK, NEW w \in Workers, NEW l, NEW r, GotoFor(w, l, r)
    PROVE  /\ job'[w].pc = l /\ job'[w].op = job[w].op /\ job'[w].obj = job[w].obj
           /\ job'[w].why = r
<1>1. job[w] \in Jobs /\ job'[w] = [job[w] EXCEPT !.pc = l, !.why = r]
  BY DEF TypeOK, GotoFor
<1> QED
  BY <1>1 DEF Jobs

\* A worker that answers is at rest.
LEMMA ReturnFields ==
    ASSUME TypeOK, NEW w \in Workers, NEW a, Return(w, a)
    PROVE  job'[w].pc = "idle"
<1>1. job[w] \in Jobs /\ job'[w] = Idle(job[w], a)
  BY DEF TypeOK, Return
<1> QED
  BY <1>1 DEF Jobs, Idle

\* The same for a worker that takes a stopped Run to the commit.
LEMMA HeldFields ==
    ASSUME TypeOK, NEW w \in Workers, NEW st, NEW l,
           job' = [job EXCEPT ![w] = [@ EXCEPT !.pc = l, !.fw = st]]
    PROVE  job'[w].pc = l /\ job'[w].op = job[w].op /\ job'[w].obj = job[w].obj
<1>1. job[w] \in Jobs /\ job'[w] = [job[w] EXCEPT !.pc = l, !.fw = st]
  BY DEF TypeOK
<1>2. ASSUME NEW j \in Jobs, NEW k, k = [j EXCEPT !.pc = l, !.fw = st]
      PROVE  k.pc = l /\ k.op = j.op /\ k.obj = j.obj
  BY <1>2 DEF Jobs
<1> QED
  BY <1>1, <1>2

\* Nothing is relied on at rest.
LEMMA RestRelies ==
    ASSUME NEW w \in Workers, job'[w].pc \in {"idle", "notify"}
    PROVE  Relies(w)'
BY DEF Relies, Locked, Preparing

\* Before the mapping is saved only the kind of request matters.
LEMMA PreparingRelies ==
    ASSUME NEW w \in Workers, job'[w].pc \in Preparing, job'[w].op = "run"
    PROVE  Relies(w)'
BY DEF Relies, Locked, Preparing

\* From the second look at the ledger to the commit.
InRun == {"check", "enter"} \cup (Locked \ {"verify", "settle"})

\* Inside the run the saved mapping is relied on.
LEMMA InRunRelies ==
    ASSUME NEW w \in Workers, mapping'[job'[w].obj] # None,
           job'[w].op = "run", job'[w].pc \in InRun
    PROVE  Relies(w)'
BY DEF Relies, Locked, Preparing, InRun

\* Publishing relies on the committed event, confirming on the report row.
LEMMA PublishingRelies ==
    ASSUME NEW w \in Workers, job'[w].op \in {"run", "correct"},
           event'[Target(w)'] # None,
           \/ job'[w].pc \in {"publish", "verifyReport"}
           \/ job'[w].pc = "confirm" /\ Target(w)' \in report'
           \/ /\ job'[w].pc = "fail"
              /\ job'[w].why \in Closures \cup {"PUBLICATION_FAILED", "PUBLICATION_UNKNOWN"}
    PROVE  Relies(w)'
BY DEF Relies, Locked, Preparing

\* Settling a commit relies on what the verifying read saw.
LEMMA VerifyingRelies ==
    ASSUME NEW w \in Workers, job'[w].pc \in {"verify", "settle"},
           job'[w].op = "run" \/ (job'[w].op = "correct" /\ Visible(Original(job[w].obj))'),
           job'[w].why \in {"COMMIT_UNKNOWN", "COMMIT_FAILED"},
           job'[w].pc = "settle" /\ job'[w].seen # None => event'[Target(w)'] # None
    PROVE  Relies(w)'
BY DEF Relies, Locked, Preparing

\* Every step establishes what the worker relies on at its next step: this is
\* where a value read in one transaction is justified in the next one.
LEMMA StepRelies ==
    ASSUME Inv, NEW w \in Workers, Step(w), Grown
    PROVE  Relies(w)'
<1> DEFINE o == job[w].obj
<1>0. TypeOK /\ Relies(w) /\ o \in Objects /\ Target(w) \in Events /\ job[w] \in Jobs
  BY TargetType DEF Inv, TypeOK
<1>a. mapping[o] # None => mapping'[o] # None
  BY <1>0 DEF Grown
<1>b. event[Target(w)] # None => event'[Target(w)] # None
  BY <1>0 DEF Grown
<1>c. job'[w].op = job[w].op /\ job'[w].obj = o => Target(w)' = Target(w)
  BY DEF Target
<1>1. CASE Validate(w) \/ Lookup(w) \/ Adopt(w)
  <2>1. job[w].op = "run"
    BY <1>0, <1>1 DEF Validate, Lookup, Adopt, At, Relies, Preparing
  <2>2. job'[w].pc = "idle" \/ (job'[w].pc \in Preparing /\ job'[w].op = "run")
    <3>1. CASE Validate(w)
      BY <1>0, <2>1, <3>1, GotoFields, ReturnFields DEF Validate, Preparing
    <3>2. CASE Lookup(w)
      <4>1. ASSUME NEW k, NEW l, job' = [job EXCEPT ![w] = [@ EXCEPT !.known = k, !.pc = l]]
            PROVE  job'[w].pc = l /\ job'[w].op = "run"
        BY <1>0, <2>1, <4>1 DEF TypeOK, Jobs
      <4>2. ASSUME NEW p, NEW l, job' = [job EXCEPT ![w] = [@ EXCEPT !.pay = p, !.pc = l]]
            PROVE  job'[w].pc = l /\ job'[w].op = "run"
        BY <1>0, <2>1, <4>2 DEF TypeOK, Jobs
      <4>3. CASE mapping[o] = None
        <5> DEFINE l == IF job[w].rec THEN "persist" ELSE "adopt"
        <5>1. job' = [job EXCEPT ![w] = [@ EXCEPT
                        !.known = {x \in Objects : mapping[x] # None}, !.pc = l]]
          BY <3>2, <4>3 DEF Lookup
        <5>2. job'[w].pc = l /\ job'[w].op = "run"
          BY <4>1, <5>1
        <5> QED
          BY <5>2 DEF Preparing
      <4>4. CASE mapping[o] # None
        <5> DEFINE p == IF KindOf[o] \in {"saved", "release", "keyed"}
                        THEN mapping[o].pay ELSE job[w].pay
        <5>1. \/ Return(w, "ERROR")
              \/ job' = [job EXCEPT ![w] = [@ EXCEPT !.pay = p, !.pc = "persist"]]
          BY <3>2, <4>4 DEF Lookup
        <5> HIDE DEF p
        <5> QED
          BY <1>0, <4>2, <5>1, ReturnFields DEF Preparing
      <4> QED
        BY <4>3, <4>4
    <3>3. CASE Adopt(w)
      <4>1. ASSUME NEW r, NEW l, job' = [job EXCEPT ![w] = [@ EXCEPT !.rec = r, !.pc = l]]
            PROVE  job'[w].pc = l /\ job'[w].op = "run"
        BY <1>0, <2>1, <4>1 DEF TypeOK, Jobs
      <4> QED
        BY ZenonT(60), <1>0, <3>3, <4>1, ReturnFields DEF Adopt, Preparing
    <3> QED
      BY <1>1, <3>1, <3>2, <3>3
  <2> QED
    BY <2>2, RestRelies, PreparingRelies
<1>2. CASE Persist(w)
  <2>1. job[w].op = "run"
    BY <1>0, <1>2 DEF Persist, At, Relies, Preparing
  <2>2. Return(w, "ERROR") \/ Goto(w, "check")
    BY <1>2 DEF Persist
  <2>3. Goto(w, "check") => mapping'[o] # None
    <3>1. event[Original(o)] # None => mapping[o] # None
      BY <1>0 DEF Inv, Rooted
    <3>2. CASE event[Original(o)] # None \/ mapping[o] # None
      BY <1>a, <3>1, <3>2
    <3>3. CASE event[Original(o)] = None /\ mapping[o] = None
      <4>1. mapping' = [mapping EXCEPT ![o] = [pay |-> job[w].pay, rec |-> job[w].rec]]
        BY <1>2, <3>3 DEF Persist
      <4>2. [pay |-> job[w].pay, rec |-> job[w].rec] \in Mappings
        BY <1>0 DEF Jobs, Mappings
      <4>3. mapping'[o] = [pay |-> job[w].pay, rec |-> job[w].rec]
        BY <1>0, <4>1 DEF TypeOK
      <4> QED
        BY <4>2, <4>3, NoneAssumption
    <3> QED
      BY <3>2, <3>3
  <2> QED
    BY <1>0, <2>1, <2>2, <2>3, GotoFields, ReturnFields, RestRelies, InRunRelies DEF InRun
<1>3. CASE Check(w)
  <2>1. job[w].op = "run" /\ mapping[o] # None /\ Target(w) = Original(o)
    BY <1>0, <1>3 DEF Check, At, Relies, Target
  <2>2. \/ \E a \in Answers : Return(w, a)
        \/ Goto(w, "publish") /\ event[Original(o)] # None
        \/ Goto(w, "enter")
    BY <1>3 DEF Check, ShownAs, StatusIn, Answers
  <2> QED
    BY <1>0, <1>a, <1>b, <1>c, <2>1, <2>2, GotoFields, ReturnFields, RestRelies, InRunRelies,
       PublishingRelies DEF InRun
<1>4. CASE Enter(w)
  <2>1. job[w].op = "run" /\ mapping[o] # None /\ Target(w) = Original(o)
    BY <1>0, <1>4 DEF Enter, At, Relies, Target
  <2>2. \/ \E a \in Answers : Return(w, a)
        \/ Goto(w, "publish") /\ event[Original(o)] # None
        \/ job' = [job EXCEPT ![w] = [@ EXCEPT !.pc = "probe", !.rec = Recovering(o)]]
    BY <1>4 DEF Enter, ShownAs, StatusIn, Answers
  <2>3. ASSUME NEW r, job' = [job EXCEPT ![w] = [@ EXCEPT !.pc = "probe", !.rec = r]]
        PROVE  Relies(w)'
    <3>1. ASSUME NEW j \in Jobs, NEW k, k = [j EXCEPT !.pc = "probe", !.rec = r]
          PROVE  k.pc = "probe" /\ k.op = j.op /\ k.obj = j.obj
      BY <3>1 DEF Jobs
    <3>2. job'[w].pc = "probe" /\ job'[w].op = "run" /\ job'[w].obj = o
      BY <1>0, <2>1, <2>3, <3>1 DEF TypeOK
    <3> QED
      BY <1>a, <2>1, <3>2, InRunRelies DEF InRun, Locked
  <2> QED
    BY <1>0, <1>b, <1>c, <2>1, <2>2, <2>3, GotoFields, ReturnFields, RestRelies,
       PublishingRelies
<1>5. CASE \/ Probe(w) \/ CreateRun(w) \/ RecordCreated(w) \/ Observe(w) \/ StartOrResume(w)
           \/ Drive(w) \/ RecordRan(w) \/ Converge(w) \/ ConvergeTimeout(w)
  <2>1. job[w].op = "run" /\ mapping[o] # None
    BY <1>0, <1>5 DEF Probe, CreateRun, RecordCreated, Observe, StartOrResume, Drive,
                      RecordRan, Converge, ConvergeTimeout, At, Relies, Locked
  <2>2. \/ Return(w, "ERROR")
        \/ \E l \in InRun : Goto(w, l)
        \/ \E st \in RunStates, l \in InRun :
             job' = [job EXCEPT ![w] = [@ EXCEPT !.pc = l, !.fw = st]]
    <3>1. run[o] \in RunStates
      BY <1>0 DEF TypeOK
    <3> QED
      BY <1>5, <3>1 DEF Probe, CreateRun, RecordCreated, Observe, StartOrResume, Drive,
                        RecordRan, Converge, ConvergeTimeout, InRun, Locked, RunStates, Terminal
  <2>3. job'[w].pc = "idle" \/ (job'[w].pc \in InRun /\ job'[w].op = "run" /\ job'[w].obj = o)
    <3>1. CASE Return(w, "ERROR")
      BY <1>0, <3>1, ReturnFields
    <3>2. ASSUME NEW l \in InRun, Goto(w, l)
          PROVE  job'[w].pc \in InRun /\ job'[w].op = "run" /\ job'[w].obj = o
      BY <1>0, <2>1, <3>2, GotoFields
    <3>3. ASSUME NEW l \in InRun, NEW st \in RunStates,
                 job' = [job EXCEPT ![w] = [@ EXCEPT !.pc = l, !.fw = st]]
          PROVE  job'[w].pc \in InRun /\ job'[w].op = "run" /\ job'[w].obj = o
      <4>1. job'[w].pc = l /\ job'[w].op = job[w].op /\ job'[w].obj = o
        BY <1>0, <3>3, HeldFields, Zenon
      <4> QED
        BY <2>1, <4>1
    <3> QED
      BY <2>2, <3>1, <3>2, <3>3
  <2> QED
    BY <1>a, <2>1, <2>3, RestRelies, InRunRelies
<1>6. CASE Commit(w)
  <2>1. job[w].op = "run" /\ mapping[o] # None /\ Target(w) = Original(o)
        /\ Original(o) \in Events
    BY <1>0, <1>6 DEF Commit, At, Relies, Target, Locked
  <2>2. \/ \E a \in Answers : Return(w, a)
        \/ Goto(w, "publish") /\ event[Original(o)] # None
        \/ Goto(w, "publish") /\ StoreOriginal(w, o)
        \/ \E r \in {"COMMIT_UNKNOWN", "COMMIT_FAILED"} : GotoFor(w, "verify", r)
    BY <1>6 DEF Commit, AfterCommit, Durable, Uncommitted, ShownAs, StatusIn, Answers
  <2>3. StoreOriginal(w, o) => event'[Original(o)] # None
    <3>1. OriginalFact(w, o) \in Facts
      BY <1>0, <2>1, FactTypes DEF TypeOK, TablesOK
    <3>2. StoreOriginal(w, o) => event'[Original(o)] = OriginalFact(w, o)
      BY <1>0, <2>1 DEF StoreOriginal, OriginalFact, TypeOK
    <3> QED
      BY <3>1, <3>2, NoneAssumption
  <2>4. CASE Goto(w, "publish") /\ event'[Original(o)] # None
    BY <1>0, <1>c, <2>1, <2>4, GotoFields, PublishingRelies
  <2>5. ASSUME NEW r \in {"COMMIT_UNKNOWN", "COMMIT_FAILED"}, GotoFor(w, "verify", r)
        PROVE  Relies(w)'
    BY <1>0, <2>1, <2>5, GotoForFields, VerifyingRelies
  <2> QED
    BY <1>0, <1>b, <2>1, <2>2, <2>3, <2>4, <2>5, ReturnFields, RestRelies
<1>7. CASE VerifyCommit(w)
  <2> DEFINE f == event[Target(w)]
             s == IF f = None THEN None ELSE f.by
  <2>1. job[w].op \in {"run", "correct"} /\ job[w].why \in {"COMMIT_UNKNOWN", "COMMIT_FAILED"}
        /\ (job[w].op = "correct" => Visible(Original(o)))
    BY <1>0, <1>7 DEF VerifyCommit, At, Relies
  <2>2. ASSUME NEW j \in Jobs, NEW k, k = [j EXCEPT !.pc = "settle", !.seen = s]
        PROVE  k.pc = "settle" /\ k.op = j.op /\ k.obj = j.obj /\ k.why = j.why /\ k.seen = s
    BY <2>2 DEF Jobs
  <2>3. job'[w] = [job[w] EXCEPT !.pc = "settle", !.seen = s]
    BY <1>0, <1>7 DEF VerifyCommit, TypeOK
  <2>4. /\ job'[w].pc = "settle" /\ job'[w].op = job[w].op /\ job'[w].obj = o
        /\ job'[w].why = job[w].why /\ job'[w].seen = s
    BY <1>0, <2>2, <2>3
  <2>5. s # None => event'[Target(w)'] # None
    BY <1>b, <1>c, <2>4
  <2>6. Visible(Original(o)) => Visible(Original(o))'
    BY <1>0, <2>4, TargetType, VisibleStays DEF Original
  <2>7. job[w].op = "correct" => Visible(Original(o))'
    BY <2>1, <2>6
  <2> HIDE DEF s
  <2> QED
    BY <2>1, <2>4, <2>5, <2>7, VerifyingRelies
<1>8. CASE SettleCommit(w)
  <2>1. job[w].op \in {"run", "correct"}
    BY <1>0, <1>8 DEF SettleCommit, At, Relies
  <2>2. job'[w].pc = "idle" \/ (Goto(w, "publish") /\ job[w].seen = w)
    BY <1>0, <1>8, ReturnFields DEF SettleCommit
  <2>3. job[w].seen = w => event'[Target(w)] # None
    BY <1>0, <1>8, <1>b, NoneAssumption DEF SettleCommit, At, Relies
  <2> QED
    BY <1>0, <1>c, <2>1, <2>2, <2>3, GotoFields, RestRelies, PublishingRelies
<1>9. CASE Publish(w) \/ VerifyReport(w) \/ Confirm(w) \/ RecordPublicationFailure(w)
  <2>1. job[w].op \in {"run", "correct"} /\ event'[Target(w)] # None
    BY <1>0, <1>9, <1>b DEF Publish, VerifyReport, Confirm, RecordPublicationFailure, At, Relies
  <2>2. \/ \E a : Return(w, a)
        \/ Goto(w, "confirm") /\ Target(w) \in report'
        \/ Goto(w, "verifyReport")
        \/ \E r \in Closures \cup {"PUBLICATION_FAILED", "PUBLICATION_UNKNOWN"} :
             GotoFor(w, "fail", r)
    BY <1>9 DEF Publish, PublishWith, VerifyReport, Confirm, ConfirmWith,
                RecordPublicationFailure, PublicationGate, Durable, Closures, dbVars
  <2> QED
    BY <1>0, <1>c, <2>1, <2>2, GotoFields, GotoForFields, ReturnFields, RestRelies,
       PublishingRelies
<1>10. CASE Correct(w)
  <2>1. job[w].op = "correct" /\ Target(w) = Correction(o) /\ Correction(o) \in Events
        /\ Original(o) \in Events
    BY <1>0, <1>10, TargetType DEF Correct, At, Relies, Target
  <2>2. CASE ~Correctable(o)
    BY <1>0, <1>10, <2>2, ReturnFields, RestRelies DEF Correct
  <2>3. CASE Correctable(o) /\ event[Correction(o)] # None
    <3>1. PublishWith(w, Correction(o))
      BY <1>10, <2>3 DEF Correct
    <3>2. \/ \E a : Return(w, a)
          \/ Goto(w, "confirm") /\ Target(w) \in report'
          \/ Goto(w, "verifyReport")
          \/ \E r \in Closures \cup {"PUBLICATION_FAILED", "PUBLICATION_UNKNOWN"} :
               GotoFor(w, "fail", r)
      BY <2>1, <3>1 DEF PublishWith, ConfirmWith, PublicationGate, Durable, Closures
    <3> QED
      BY <1>0, <1>b, <1>c, <2>1, <2>3, <3>2, GotoFields, GotoForFields, ReturnFields,
         RestRelies, PublishingRelies
  <2>4. CASE Correctable(o) /\ event[Correction(o)] = None
    <3>1. \/ /\ Goto(w, "publish")
             /\ event' = [event EXCEPT ![Correction(o)] = CorrectionFact(w, o)]
          \/ \E r \in {"COMMIT_UNKNOWN", "COMMIT_FAILED"} : GotoFor(w, "verify", r)
      BY <1>10, <2>4 DEF Correct, AfterCommit, Durable, CorrectionFact
    <3>2. CorrectionFact(w, o) \in Facts
      <4>1. event[Original(o)] # None
        BY <2>4 DEF Correctable, Visible, VisibleIn, Inv, Reported
      <4> QED
        BY <1>0, <4>1, FactTypes DEF TypeOK, TablesOK
    <3>3. event' = [event EXCEPT ![Correction(o)] = CorrectionFact(w, o)]
          => event'[Correction(o)] # None
      BY <1>0, <2>1, <3>2, NoneAssumption DEF TypeOK
    <3>4. Visible(Original(o))'
      <4>1. job'[w].obj = o
        BY <1>0, <3>1, GotoFields, GotoForFields
      <4> QED
        BY <2>1, <2>4, <4>1, VisibleStays DEF Correctable, Original
    <3> QED
      BY <1>0, <1>c, <2>1, <3>1, <3>3, <3>4, GotoFields, GotoForFields, PublishingRelies,
         VerifyingRelies
  <2> QED
    BY <2>2, <2>3, <2>4
<1>11. CASE Notify(w)
  BY <1>0, <1>11, ReturnFields, RestRelies DEF Notify
<1> QED
  BY <1>1, <1>2, <1>3, <1>4, <1>5, <1>6, <1>7, <1>8, <1>9, <1>10, <1>11 DEF Step

-----------------------------------------------------------------------------
(* What a step adds *)

\* A step leaves the events alone, or stores one original or one correction.
LEMMA StepEvents ==
    ASSUME TablesOK, NEW w \in Workers, job[w] \in Jobs, Step(w)
    PROVE  \/ UNCHANGED event
           \/ /\ Commit(w)
              /\ event[Original(job[w].obj)] = None
              /\ event' = [event EXCEPT ![Original(job[w].obj)] = OriginalFact(w, job[w].obj)]
              /\ stage' = [stage EXCEPT ![job[w].obj] = @ \cup Precommit]
           \/ /\ Correct(w)
              /\ Visible(Original(job[w].obj))
              /\ event[Correction(job[w].obj)] = None
              /\ event' = [event EXCEPT ![Correction(job[w].obj)] = CorrectionFact(w, job[w].obj)]
<1>0. job[w].obj \in Objects
  BY DEF Jobs
<1>1. CASE Commit(w)
  BY <1>1, CommitCases
<1>2. CASE Correct(w)
  BY <1>0, <1>2, CorrectCases
<1> QED
  BY <1>1, <1>2
     DEF Step, Validate, Lookup, Adopt, Persist, Check, Enter, Probe, CreateRun, RecordCreated,
         Observe, StartOrResume, Drive, RecordRan, Converge, ConvergeTimeout, VerifyCommit,
         SettleCommit,
         Publish, VerifyReport, Confirm, RecordPublicationFailure, Notify, dbVars

\* A step that adds a report row adds the one of its own committed event.
LEMMA StepReports ==
    ASSUME TablesOK, NEW w \in Workers, job[w] \in Jobs, Relies(w), Step(w)
    PROVE  \/ UNCHANGED report
           \/ /\ report' = report \cup {Target(w)}
              /\ event[Target(w)] # None
              /\ "COMMITTED" \in evStage'[Target(w)]
              /\ KindOf[Target(w)[1]] # "shadow"
<1>0. job[w].obj \in Objects
  BY DEF Jobs
<1>1. CASE Publish(w) \/ Confirm(w) \/ RecordPublicationFailure(w)
  <2>1. event[Target(w)] # None
    BY <1>1 DEF Publish, Confirm, RecordPublicationFailure, At, Relies
  <2> QED
    BY <1>1, <2>1, PublishingStep DEF Publishes
<1>2. CASE Correct(w)
  <2>1. Target(w) = Correction(job[w].obj)
    BY <1>2 DEF Correct, At, Relies, Target
  <2> QED
    BY <1>0, <1>2, <2>1, CorrectCases DEF Publishes
<1> QED
  BY <1>1, <1>2
     DEF Step, Validate, Lookup, Adopt, Persist, Check, Enter, Probe, CreateRun, RecordCreated,
         Observe, StartOrResume, Drive, RecordRan, Converge, ConvergeTimeout, Commit,
         VerifyCommit,
         SettleCommit, VerifyReport, Notify, dbVars

\* Only a readable original collects notification attempts.
LEMMA StepAttempts ==
    ASSUME TablesOK, NEW w \in Workers, job[w] \in Jobs, Step(w)
    PROVE  \A o \in Objects : attempts'[o] # attempts[o] => Visible(Original(o))
<1>0. job[w].obj \in Objects /\ attempts \in [Objects -> Seq({"SUCCEEDED", "FAILED"})]
  BY DEF Jobs, TablesOK
<1>1. CASE Notify(w)
  BY <1>0, <1>1, NotifyCases
<1> QED
  BY <1>1
     DEF Step, Validate, Lookup, Adopt, Persist, Check, Enter, Probe, CreateRun, RecordCreated,
         Observe, StartOrResume, Drive, RecordRan, Converge, ConvergeTimeout, Commit,
         VerifyCommit,
         SettleCommit, Publish, VerifyReport, Confirm, RecordPublicationFailure, Correct, dbVars

\* A step that adds a COMMIT_UNKNOWN or COMMIT_FAILED row adds the pre-commit rows.
LEMMA StepStages ==
    ASSUME TablesOK, NEW w \in Workers, job[w] \in Jobs, Relies(w), Step(w)
    PROVE  \/ UNCHANGED stage
           \/ \E T \in SUBSET (Precommit \cup {"INVALID"}) :
                stage' = [stage EXCEPT ![job[w].obj] = @ \cup T]
           \/ \E T \in SUBSET StageTags :
                /\ Precommit \subseteq T
                /\ stage' = [stage EXCEPT ![job[w].obj] = @ \cup T]
<1> DEFINE o == job[w].obj
           Adds(T) == stage' = [stage EXCEPT ![o] = @ \cup T]
<1>1. CASE RecordCreated(w) \/ RecordRan(w) \/ Observe(w) \/ Converge(w)
  <2>1. UNCHANGED stage \/ Adds({"FRAMEWORK_RUN"})
    BY <1>1 DEF RecordCreated, RecordRan, Observe, Converge, RecordTransition
  <2> QED
    BY <2>1 DEF Precommit
<1>2. CASE Commit(w)
  <2>1. UNCHANGED stage \/ Adds({"FRAMEWORK_RUN", "INVALID"}) \/ Adds({"FRAMEWORK_RUN"})
        \/ Adds(Precommit)
    BY <1>2, CommitCases
  <2> QED
    BY <2>1 DEF Precommit
<1>3. CASE SettleCommit(w)
  <2>1. UNCHANGED stage \/ Adds(RestoredRows(w))
    BY <1>3, SettleCases
  <2>2. RestoredRows(w) \in SUBSET StageTags /\ Precommit \subseteq RestoredRows(w)
    BY <1>3 DEF SettleCommit, At, Relies, RestoredRows, StageTags
  <2> QED
    BY <2>1, <2>2
<1> QED
  BY <1>1, <1>2, <1>3
     DEF Step, Validate, Lookup, Adopt, Persist, Check, Enter, Probe, CreateRun, StartOrResume,
         Drive, ConvergeTimeout, VerifyCommit, Publish, VerifyReport, Confirm,
         RecordPublicationFailure, Correct, Notify, dbVars

-----------------------------------------------------------------------------
(* The invariant is inductive *)

\* Every step of a worker preserves the ledger part of the invariant.
LEMMA StepKeepsLedger ==
    ASSUME Inv, NEW w \in Workers, Step(w), TypeOK', Grown
    PROVE  Rooted' /\ Reported' /\ Corrected' /\ Notified' /\ EvidenceRestored'
<1> DEFINE y == job[w].obj
<1>0. /\ TablesOK /\ job[w] \in Jobs /\ Relies(w) /\ y \in Objects /\ TypeOK
      /\ Target(w) \in Events
  BY TargetType DEF Inv, TypeOK, TablesOK
<1>e. \A o \in Objects : Original(o) \in Events /\ Correction(o) \in Events
  BY DEF Original, Correction, Events
<1>f. \A o, x \in Objects : Original(o) # Correction(x)
  BY DEF Original, Correction
<1>g. \A o, x \in Objects : /\ Original(o) = Original(x) => o = x
                            /\ Correction(o) = Correction(x) => o = x
  BY DEF Original, Correction
<1>v. \A o \in Objects : Visible(Original(o)) => Visible(Original(o))'
  <2> TAKE o \in Objects
  <2> QED
    BY <1>e, VisibleStays DEF Original
<1>1. Rooted'
  <2> SUFFICES ASSUME NEW o \in Objects, event'[Original(o)] # None
               PROVE  /\ mapping'[o] # None
                      /\ event'[Original(o)].pay = mapping'[o].pay
                      /\ event'[Original(o)].trail \subseteq stage'[o]
    BY DEF Rooted, Original
  <2>1. CASE event[Original(o)] # None
    <3>1. event'[Original(o)] = event[Original(o)] /\ stage[o] \subseteq stage'[o]
      BY <1>e, <2>1 DEF Grown
    <3>2. /\ mapping[o] # None
          /\ event[Original(o)].pay = mapping[o].pay
          /\ event[Original(o)].trail \subseteq stage[o]
      BY <2>1 DEF Inv, Rooted
    <3>3. mapping'[o] = mapping[o]
      BY <3>2 DEF Grown
    <3> QED
      BY <3>1, <3>2, <3>3
  <2>2. CASE event[Original(o)] = None
    <3>1. /\ Commit(w)
          /\ event' = [event EXCEPT ![Original(y)] = OriginalFact(w, y)]
          /\ stage' = [stage EXCEPT ![y] = @ \cup Precommit]
      BY <1>0, <1>e, <1>f, <2>2, StepEvents DEF TablesOK
    <3>2. o = y
      BY <1>0, <1>e, <1>g, <2>2, <3>1 DEF TablesOK
    <3>3. mapping[o] # None /\ mapping'[o] = mapping[o]
      BY <1>0, <3>1, <3>2 DEF Commit, At, Relies, Locked, Grown
    <3>4. event'[Original(o)] = OriginalFact(w, o) /\ stage'[o] = stage[o] \cup Precommit
      BY <1>0, <1>e, <3>1, <3>2 DEF TablesOK
    <3> QED
      BY <3>3, <3>4 DEF OriginalFact
  <2> QED
    BY <2>1, <2>2
<1>2. Reported'
  <2> SUFFICES ASSUME NEW e \in report'
               PROVE  /\ event'[e] # None
                      /\ "COMMITTED" \in evStage'[e]
                      /\ KindOf[e[1]] # "shadow"
    BY DEF Reported
  <2>1. CASE e \in report
    <3>1. event[e] # None /\ "COMMITTED" \in evStage[e] /\ KindOf[e[1]] # "shadow" /\ e \in Events
      BY <1>0, <2>1 DEF Inv, Reported, TablesOK
    <3> QED
      BY <3>1 DEF Grown
  <2>2. CASE e \notin report
    <3>1. /\ e = Target(w) /\ event[e] # None /\ "COMMITTED" \in evStage'[e]
          /\ KindOf[e[1]] # "shadow"
      BY <1>0, <2>2, StepReports
    <3> QED
      BY <1>0, <3>1 DEF Grown
  <2> QED
    BY <2>1, <2>2
<1>3. Corrected'
  <2> SUFFICES ASSUME NEW o \in Objects, event'[Correction(o)] # None
               PROVE  /\ Visible(Original(o))'
                      /\ event'[Correction(o)].pay = event'[Original(o)].pay
                      /\ event'[Correction(o)].trail = {}
    BY DEF Corrected, Original, Correction
  <2>1. CASE event[Correction(o)] # None
    <3>1. /\ Visible(Original(o))
          /\ event[Correction(o)].pay = event[Original(o)].pay
          /\ event[Correction(o)].trail = {}
      BY <2>1 DEF Inv, Corrected
    <3>2. event[Original(o)] # None
      BY <3>1 DEF Visible, VisibleIn, Inv, Reported
    <3>3. event'[Correction(o)] = event[Correction(o)] /\ event'[Original(o)] = event[Original(o)]
      BY <1>e, <2>1, <3>2 DEF Grown
    <3> QED
      BY <1>v, <3>1, <3>3
  <2>2. CASE event[Correction(o)] = None
    <3>1. /\ Visible(Original(y))
          /\ event' = [event EXCEPT ![Correction(y)] = CorrectionFact(w, y)]
      BY <1>0, <1>e, <1>f, <2>2, StepEvents DEF TablesOK
    <3>2. o = y
      BY <1>0, <1>e, <1>g, <2>2, <3>1 DEF TablesOK
    <3>3. event'[Correction(o)] = CorrectionFact(w, o) /\ event'[Original(o)] = event[Original(o)]
      BY <1>0, <1>e, <1>f, <3>1, <3>2 DEF TablesOK
    <3> QED
      BY <1>v, <3>1, <3>2, <3>3 DEF CorrectionFact
  <2> QED
    BY <2>1, <2>2
<1>4. Notified'
  <2> SUFFICES ASSUME NEW o \in Objects, attempts'[o] # <<>>
               PROVE  Visible(Original(o))'
    BY DEF Notified, Original
  <2>1. Visible(Original(o))
    BY <1>0, StepAttempts DEF Inv, Notified
  <2> QED
    BY <1>v, <2>1
<1>5. EvidenceRestored'
  <2> SUFFICES ASSUME NEW o \in Objects, stage'[o] \cap {"COMMIT_UNKNOWN", "COMMIT_FAILED"} # {}
               PROVE  Precommit \subseteq stage'[o]
    BY DEF EvidenceRestored
  <2>1. stage[o] \subseteq stage'[o] /\ stage \in [Objects -> SUBSET StageTags]
    BY <1>0 DEF Grown, TablesOK
  <2>2. CASE stage[o] \cap {"COMMIT_UNKNOWN", "COMMIT_FAILED"} # {}
    BY <2>1, <2>2 DEF Inv, EvidenceRestored
  <2>3. CASE stage[o] \cap {"COMMIT_UNKNOWN", "COMMIT_FAILED"} = {}
    <3>1. ASSUME NEW T \in SUBSET (Precommit \cup {"INVALID"}),
                 stage' = [stage EXCEPT ![y] = @ \cup T]
          PROVE  FALSE
      BY <1>0, <2>1, <2>3, <3>1 DEF Precommit
    <3>2. ASSUME NEW T \in SUBSET StageTags, Precommit \subseteq T,
                 stage' = [stage EXCEPT ![y] = @ \cup T]
          PROVE  Precommit \subseteq stage'[o]
      BY <1>0, <2>1, <2>3, <3>2
    <3> QED
      BY <1>0, <2>3, <3>1, <3>2, StepStages
  <2> QED
    BY <2>2, <2>3
<1> QED
  BY <1>1, <1>2, <1>3, <1>4, <1>5

\* An empty ledger satisfies the invariant.
LEMMA InvInit == Init => Inv
<1> SUFFICES ASSUME Init PROVE Inv
  OBVIOUS
<1> USE DEF Init
<1>1. PICK o \in Objects, p \in Payloads :
         job = [w \in Workers |-> [pc |-> "idle", op |-> "run", obj |-> o, pay |-> p,
                                   rec |-> FALSE, known |-> {}, fw |-> "absent",
                                   seen |-> None, why |-> "none", told |-> "none"]]
  OBVIOUS
<1>2. job \in [Workers -> Jobs]
  BY <1>1 DEF Jobs, Pcs, RunStates, Reasons, Answers
<1>3. TypeOK
  <2>1. run \in [Objects -> RunStates] /\ output \in [Objects -> {"none", "valid", "invalid"}]
    BY DEF RunStates, Terminal
  <2>2. attempts \in [Objects -> Seq({"SUCCEEDED", "FAILED"})]
    OBVIOUS
  <2>3. qual \in [Objects -> Quals]
    BY DEF Quals
  <2> QED
    BY <1>2, <2>1, <2>2, <2>3 DEF TypeOK
<1>4. \A o1 \in Objects : event[Original(o1)] = None /\ event[Correction(o1)] = None
  BY DEF Original, Correction, Events
<1>5. Rooted /\ Reported /\ Corrected /\ Notified
  BY <1>4 DEF Rooted, Reported, Corrected, Notified
<1>6. EvidenceRestored
  BY DEF EvidenceRestored
<1>7. \A w \in Workers : job[w].pc = "idle"
  BY <1>1
<1>8. \A w \in Workers : Relies(w)
  BY <1>7 DEF Relies, Locked, Preparing
<1> QED
  BY <1>3, <1>5, <1>6, <1>8 DEF Inv

\* Every step of a worker or of the environment preserves it.
LEMMA InvNext == Inv /\ [Next]_vars => Inv'
<1> SUFFICES ASSUME Inv, [Next]_vars PROVE Inv'
  OBVIOUS
<1>1. TypeOK' /\ Grown
  BY NextGrows
<1>2. TypeOK /\ TablesOK /\ job \in [Workers -> Jobs] /\ \A w \in Workers : Relies(w)
  BY DEF Inv, TypeOK, TablesOK
<1>3. UNCHANGED dbVars => Rooted' /\ Reported' /\ Corrected' /\ Notified' /\ EvidenceRestored'
  BY DEF dbVars, Inv, Rooted, Reported, Corrected, Notified, EvidenceRestored, Visible,
         VisibleIn, Original, Correction
<1>4. ASSUME NEW w \in Workers, Moves(w), Relies(w)'
      PROVE  \A v \in Workers : Relies(v)'
  <2> TAKE v \in Workers
  <2>1. CASE v = w
    BY <1>4, <2>1
  <2>2. CASE v # w
    <3>1. job'[v] = job[v]
      BY <1>2, <1>4, <2>2 DEF Moves
    <3> QED
      BY <1>1, <1>2, <3>1, ReliesKept
  <2> QED
    BY <2>1, <2>2
<1>5. UNCHANGED job => \A v \in Workers : Relies(v)'
  BY <1>1, <1>2, ReliesKept
<1>6. CASE UNCHANGED vars
  BY <1>1, <1>3, <1>5, <1>6 DEF vars, Inv
<1>7. ASSUME NEW w \in Workers, Step(w) PROVE Inv'
  <2>1. Rooted' /\ Reported' /\ Corrected' /\ Notified' /\ EvidenceRestored'
    BY <1>1, <1>7, StepKeepsLedger
  <2>2. \A v \in Workers : Relies(v)'
    BY <1>1, <1>2, <1>4, <1>7, StepMoves, StepRelies
  <2> QED
    BY <1>1, <2>1, <2>2 DEF Inv
<1>8. ASSUME NEW w \in Workers, Crash(w) PROVE Inv'
  <2>1. job'[w].pc = "idle"
    <3>1. job[w] \in Jobs /\ job'[w] = Idle(job[w], "none")
      BY <1>2, <1>8 DEF Crash
    <3> QED
      BY <3>1 DEF Jobs, Idle
  <2>2. \A v \in Workers : Relies(v)'
    BY <1>2, <1>4, <1>8, <2>1, CrashMoves, RestRelies
  <2> QED
    BY <1>1, <1>3, <1>8, <2>2 DEF Crash, Inv
<1>9. ASSUME NEW w \in Workers, NEW op \in Ops, NEW o \in Objects, NEW p \in Payloads,
             Submit(w, op, o, p)
      PROVE  Inv'
  <2> DEFINE q == IF op = "replay" THEN "run" ELSE op
  <2>1. ASSUME NEW j \in Jobs, NEW k, k = [j EXCEPT !.pc = Entry(op), !.obj = o, !.pay = p,
                  !.told = "none", !.op = q, !.rec = op = "replay"]
        PROVE  k.pc = Entry(op) /\ k.op = q
    BY <2>1 DEF Jobs
  <2>2. job'[w].pc = Entry(op) /\ job'[w].op = q
    BY <1>2, <1>9, <2>1 DEF Submit
  <2>3. Relies(w)'
    BY <2>2, ConstantsAssumption DEF Relies, Entry, Locked, Preparing
  <2>4. \A v \in Workers : Relies(v)'
    BY <1>2, <1>4, <1>9, <2>3, SubmitMoves
  <2> QED
    BY <1>1, <1>3, <1>9, <2>4 DEF Submit, Inv
<1>10. ASSUME NEW o \in Objects, LeaseExpires(o) \/ LoseRun(o) \/ CloseWindow(o) \/ Govern(o)
       PROVE  Inv'
  BY <1>1, <1>2, <1>3, <1>5, <1>10, EnvironmentTables DEF Inv
<1> QED
  BY <1>6, <1>7, <1>8, <1>9, <1>10 DEF Next

-----------------------------------------------------------------------------
(* Theorems *)

\* Whatever the workers and their environment do, every table and every job
\* keeps its type and Inv holds.
THEOREM InvariantTheorem == Spec => []Inv
BY InvInit, InvNext, PTL DEF Spec

\* Every row that service.py and decision_ledger.py write has its declared shape.
THEOREM TypeCorrect == Spec => []TypeOK
<1>1. Inv => TypeOK
  BY DEF Inv
<1> QED
  BY <1>1, InvariantTheorem, PTL

\* A report that get_original_formal_report or get_formal_report_for_event
\* returns is backed by a committed event frozen from the mapped payload, with
\* its whole stage trail durable, and never belongs to a SHADOW object.
THEOREM VisibleIsCommittedTheorem == Spec => []VisibleIsCommitted
<1>1. Inv => VisibleIsCommitted
  <2> SUFFICES ASSUME Inv, NEW e \in Events, Visible(e)
               PROVE  /\ event[e] # None
                      /\ KindOf[e[1]] # "shadow"
                      /\ event[e].pay = mapping[e[1]].pay
                      /\ event[e].trail \subseteq stage[e[1]]
    BY DEF VisibleIsCommitted
  <2>1. event[e] # None /\ KindOf[e[1]] # "shadow"
    BY DEF Visible, VisibleIn, Inv, Reported
  <2>2. PICK o \in Objects : e = Original(o) \/ e = Correction(o)
    BY DEF Events, Original, Correction
  <2>3. e[1] = o
    BY <2>2 DEF Original, Correction
  <2>4. CASE e = Original(o)
    BY <2>1, <2>3, <2>4 DEF Inv, Rooted
  <2>5. CASE e = Correction(o)
    <3>1. Visible(Original(o)) /\ event[e].pay = event[Original(o)].pay /\ event[e].trail = {}
      BY <2>1, <2>5 DEF Inv, Corrected
    <3>2. event[Original(o)] # None
      BY <3>1 DEF Visible, VisibleIn, Inv, Reported
    <3>3. event[Original(o)].pay = mapping[o].pay
      BY <3>2 DEF Inv, Rooted
    <3> QED
      BY <2>1, <2>3, <3>1, <3>3
  <2> QED
    BY <2>2, <2>4, <2>5
<1> QED
  BY <1>1, InvariantTheorem, PTL

\* correct_default_frozen_decision_case and the notification retry only ever
\* follow an original report that is, and stays, readable.
THEOREM FollowsVisibleOriginalTheorem == Spec => []FollowsVisibleOriginal
<1>1. Inv => FollowsVisibleOriginal
  BY DEF Inv, Corrected, Notified, FollowsVisibleOriginal
<1> QED
  BY <1>1, InvariantTheorem, PTL

\* _restore_precommit_stage_results works: a failed or unknown commit never
\* costs the evidence that its rollback discarded.
THEOREM EvidenceRestoredTheorem == Spec => []EvidenceRestored
<1>1. Inv => EvidenceRestored
  BY DEF Inv
<1> QED
  BY <1>1, InvariantTheorem, PTL

\* commit_event is write-once: no interleaving of processes, crashes and lost
\* acknowledgements rewrites a committed event.
THEOREM EventsAreFinalTheorem == Spec => EventsAreFinal
<1>1. Inv /\ [Next]_vars => [\A e \in Events : event[e] # None => event'[e] = event[e]]_vars
  BY NextGrows DEF Grown
<1> QED
  BY <1>1, InvariantTheorem, PTL DEF Spec, EventsAreFinal

-----------------------------------------------------------------------------
(* The journey implements FormalRecord *)

\* The refinement mapping, by name.
Shown(e) == IF Visible(e) THEN "shown" ELSE IF event[e] # None THEN "committed" ELSE "absent"
Bar == [e \in Events |-> Shown(e)]

\* A step touches the rows of at most one event.
LEMMA StepRows ==
    ASSUME TablesOK, NEW w \in Workers, job[w] \in Jobs, Relies(w), Step(w)
    PROVE  \E e \in Events : \A x \in Events \ {e} :
             evStage'[x] = evStage[x] /\ (x \in report' <=> x \in report)
<1>0. /\ job[w].obj \in Objects /\ Target(w) \in Events
      /\ Original(job[w].obj) \in Events /\ Correction(job[w].obj) \in Events
      /\ evStage \in [Events -> SUBSET EventTags]
  BY DEF Jobs, Target, Original, Correction, Events, TablesOK
<1>1. CASE UNCHANGED <<evStage, report>>
  BY <1>0, <1>1
<1>2. CASE Publish(w) \/ Confirm(w) \/ RecordPublicationFailure(w)
  BY <1>0, <1>2, PublishingStep DEF Publishes
<1>3. CASE Correct(w)
  BY <1>0, <1>1, <1>3, CorrectCases DEF Publishes
<1>4. CASE Notify(w)
  BY <1>0, <1>1, <1>4, NotifyCases
<1>5. CASE SettleCommit(w)
  BY <1>0, <1>1, <1>5, SettleCases
<1> QED
  BY <1>1, <1>2, <1>3, <1>4, <1>5
     DEF Step, Validate, Lookup, Adopt, Persist, Check, Enter, Probe, CreateRun, RecordCreated,
         Observe, StartOrResume, Drive, RecordRan, Converge, ConvergeTimeout, Commit,
         VerifyCommit,
         VerifyReport, dbVars

\* Storing an event leaves every row alone.
LEMMA StoreRows ==
    ASSUME TablesOK, NEW w \in Workers, job[w] \in Jobs, Step(w)
    PROVE  UNCHANGED event \/ UNCHANGED <<evStage, report>>
<1>0. job[w].obj \in Objects
  BY DEF Jobs
<1>1. CASE Correct(w)
  BY <1>0, <1>1, CorrectCases
<1> QED
  BY <1>1
     DEF Step, Validate, Lookup, Adopt, Persist, Check, Enter, Probe, CreateRun, RecordCreated,
         Observe, StartOrResume, Drive, RecordRan, Converge, ConvergeTimeout, Commit,
         VerifyCommit,
         SettleCommit, Publish, VerifyReport, Confirm, RecordPublicationFailure, Notify, dbVars

\* A step of a worker is a step of FormalRecord or leaves the record alone.
LEMMA StepImplements ==
    ASSUME Inv, Inv', Grown, NEW w \in Workers, Step(w)
    PROVE  \/ Bar' = Bar
           \/ \E o \in Objects :
                \/ /\ Bar[Original(o)] = "absent"
                   /\ Bar' = [Bar EXCEPT ![Original(o)] = "committed"]
                \/ /\ Bar[Original(o)] = "shown"
                   /\ Bar[Correction(o)] = "absent"
                   /\ Bar' = [Bar EXCEPT ![Correction(o)] = "committed"]
           \/ \E e \in Events :
                /\ Bar[e] = "committed"
                /\ KindOf[e[1]] # "shadow"
                /\ Bar' = [Bar EXCEPT ![e] = "shown"]
<1> DEFINE y == job[w].obj
<1>0. /\ TablesOK /\ job[w] \in Jobs /\ Relies(w) /\ y \in Objects
      /\ Original(y) \in Events /\ Correction(y) \in Events
      /\ event \in [Events -> Facts \cup {None}]
  BY DEF Inv, TypeOK, TablesOK, Jobs, Original, Correction, Events
<1>n. \A e \in Events : event[e] = None => ~Visible(e)
  BY DEF Visible, VisibleIn, Inv, Reported
<1>1. CASE UNCHANGED event
  <2>1. PICK e \in Events : \A x \in Events \ {e} :
          evStage'[x] = evStage[x] /\ (x \in report' <=> x \in report)
    BY <1>0, StepRows
  <2>2. \A x \in Events \ {e} : Shown(x)' = Shown(x)
    <3> TAKE x \in Events \ {e}
    <3>1. Visible(x)' <=> Visible(x)
      BY <2>1 DEF Visible, VisibleIn
    <3> QED
      BY <1>1, <3>1 DEF Shown
  <2>3. CASE Visible(e)' <=> Visible(e)
    <3>1. Shown(e)' = Shown(e)
      BY <1>1, <2>3 DEF Shown
    <3> QED
      BY <2>2, <3>1 DEF Bar
  <2>4. CASE ~ (Visible(e)' <=> Visible(e))
    <3>1. Visible(e)' /\ ~Visible(e)
      BY <2>4, VisibleStays
    <3>2. event[e] # None /\ KindOf[e[1]] # "shadow"
      BY <1>1, <3>1 DEF Visible, VisibleIn, Inv, Reported
    <3>3. Shown(e) = "committed" /\ Shown(e)' = "shown"
      BY <3>1, <3>2 DEF Shown
    <3>4. Bar[e] = "committed" /\ Bar' = [Bar EXCEPT ![e] = "shown"]
      BY <2>2, <3>3 DEF Bar
    <3> QED
      BY <3>2, <3>4
  <2> QED
    BY <2>3, <2>4
<1>2. ASSUME NEW e \in Events, NEW f \in Facts, event[e] = None, event' = [event EXCEPT ![e] = f],
             UNCHANGED <<evStage, report>>
      PROVE  Bar[e] = "absent" /\ Bar' = [Bar EXCEPT ![e] = "committed"]
  <2>1. \A x \in Events : Visible(x)' <=> Visible(x)
    BY <1>2 DEF Visible, VisibleIn
  <2>2. Shown(e) = "absent" /\ Shown(e)' = "committed"
    BY <1>0, <1>2, <1>n, <2>1, NoneAssumption DEF Shown
  <2>3. \A x \in Events \ {e} : Shown(x)' = Shown(x)
    BY <1>0, <1>2, <2>1 DEF Shown
  <2> QED
    BY <2>2, <2>3 DEF Bar
<1>3. CASE /\ Commit(w)
           /\ event[Original(y)] = None
           /\ event' = [event EXCEPT ![Original(y)] = OriginalFact(w, y)]
  <2>1. OriginalFact(w, y) \in Facts
    BY <1>0, <1>3, FactTypes DEF Commit, At, Relies, Locked
  <2>2. UNCHANGED <<evStage, report>>
    BY <1>3 DEF Commit
  <2> QED
    BY <1>0, <1>2, <1>3, <2>1, <2>2
<1>4. CASE /\ Correct(w)
           /\ Visible(Original(y))
           /\ event[Correction(y)] = None
           /\ event' = [event EXCEPT ![Correction(y)] = CorrectionFact(w, y)]
  <2>1. CorrectionFact(w, y) \in Facts
    BY <1>0, <1>4, <1>n, FactTypes
  <2>2. UNCHANGED event \/ UNCHANGED <<evStage, report>>
    BY <1>0, StoreRows
  <2>3. Bar[Original(y)] = "shown"
    BY <1>0, <1>4 DEF Bar, Shown
  <2> QED
    BY <1>0, <1>1, <1>2, <1>4, <2>1, <2>2, <2>3
<1> QED
  BY <1>0, <1>1, <1>3, <1>4, StepEvents

\* What readers can see of the ledger behaves like FormalRecord, whatever
\* processes, crashes, lost acknowledgements and recoveries lie behind it.
THEOREM Refinement == Spec => RefinesFormalRecord
<1>1. Init => Record!Init
  <2> SUFFICES ASSUME Init PROVE Record!Init
    OBVIOUS
  <2>1. \A e \in Events : ~Visible(e) /\ event[e] = None
    BY DEF Init, Visible, VisibleIn
  <2> QED
    BY <2>1 DEF Record!Init, Record!Versions, Events
<1>2. Inv /\ Inv' /\ [Next]_vars => [Record!Next]_Bar
  <2> SUFFICES ASSUME Inv, Inv', [Next]_vars PROVE [Record!Next]_Bar
    OBVIOUS
  <2>1. Grown
    BY NextGrows
  <2>2. UNCHANGED dbVars => Bar' = Bar
    BY DEF dbVars, Bar, Shown, Visible, VisibleIn
  <2>3. ASSUME NEW w \in Workers, Step(w) PROVE [Record!Next]_Bar
    BY <2>1, <2>3, StepImplements
       DEF Record!Next, Record!CommitOriginal, Record!CommitCorrection, Record!Show,
           Record!Versions, Events, Original, Correction, Bar, Shown
  <2>4. CASE UNCHANGED dbVars
    BY <2>2, <2>4
  <2>5. ASSUME NEW o \in Objects, LeaseExpires(o) \/ LoseRun(o) \/ CloseWindow(o) \/ Govern(o)
        PROVE  UNCHANGED dbVars
    BY <2>5, EnvironmentTables DEF Inv, TypeOK, TablesOK
  <2> QED
    BY <2>3, <2>4, <2>5 DEF Next, Crash, Submit, vars
<1>3. Bar = [e \in Events |-> IF Visible(e) THEN "shown"
                              ELSE IF event[e] # None THEN "committed" ELSE "absent"]
  BY DEF Bar, Shown
<1> QED
  BY <1>1, <1>2, <1>3, InvariantTheorem, PTL
     DEF Spec, RefinesFormalRecord, Record!Spec, Bar, Shown

-----------------------------------------------------------------------------
(* Callers are told the truth *)

\* What AnswersAreTrue says of one worker.
Answered(w) ==
    LET o == job[w].obj IN
    /\ job[w].told = "PUBLISHED" => Visible(Target(w))
    /\ job[w].told = "CLOSED_FAILED" => ShownAs(Target(w)) = "CLOSED_FAILED"
    /\ job[w].told = "UNPUBLISHED" => event[Target(w)] # None
    /\ job[w].told \in {"COMMIT_UNKNOWN", "COMMIT_FAILED"} => job[w].told \in stage[o]

\* A step within a request, and one that ends it with an answer.
SameRequest(w) == job'[w].op = job[w].op /\ job'[w].obj = job[w].obj
Silent(w) == SameRequest(w) /\ job'[w].told = job[w].told
Tells(w, a) == SameRequest(w) /\ job'[w].told = a

\* Answers that promise nothing about the ledger.
Empty == {"none", "ERROR", "NOT_ATTEMPTED", "NOTIFIED"}

\* Which steps answer.
LEMMA TellFields ==
    ASSUME TypeOK, NEW w \in Workers
    PROVE  /\ \A l : Goto(w, l) => Silent(w)
           /\ \A l, r : GotoFor(w, l, r) => Silent(w)
           /\ \A a : Return(w, a) => Tells(w, a)
<1>1. job[w] \in Jobs /\ job \in [Workers -> Jobs]
  BY DEF TypeOK
<1>2. ASSUME NEW l, Goto(w, l) PROVE Silent(w)
  BY <1>1, <1>2 DEF Goto, Silent, SameRequest, Jobs
<1>3. ASSUME NEW l, NEW r, GotoFor(w, l, r) PROVE Silent(w)
  <2>1. job'[w] = [job[w] EXCEPT !.pc = l, !.why = r]
    BY <1>1, <1>3 DEF GotoFor
  <2> QED
    BY <1>1, <2>1 DEF Silent, SameRequest, Jobs
<1>4. ASSUME NEW a, Return(w, a) PROVE Tells(w, a)
  <2>1. job'[w] = Idle(job[w], a)
    BY <1>1, <1>4 DEF Return
  <2> QED
    BY <1>1, <2>1 DEF Tells, SameRequest, Jobs, Idle
<1> QED
  BY <1>2, <1>3, <1>4

\* A closed release stays closed.
LEMMA ClosedStays ==
    ASSUME Grown, NEW e \in Events, ShownAs(e) = "CLOSED_FAILED"
    PROVE  ShownAs(e)' = "CLOSED_FAILED"
<1>1. Visible(e) /\ KindOf[e[1]] = "release" /\ Closures \cap evStage[e] # {}
  BY DEF ShownAs, StatusIn
<1>2. Visible(e)'
  BY <1>1, VisibleStays
<1>3. Closures \cap evStage'[e] # {}
  BY <1>1 DEF Grown
<1> QED
  BY <1>1, <1>2, <1>3 DEF ShownAs, StatusIn

\* An answer that was given stays true: rows only accumulate.
LEMMA SilentAnswers ==
    ASSUME TypeOK, Grown, NEW w \in Workers, Answered(w), Silent(w)
    PROVE  Answered(w)'
<1>1. PICK e, o, a : /\ e \in Events /\ e = Target(w)
                     /\ o \in Objects /\ o = job[w].obj
                     /\ a = job[w].told
  BY TargetType
<1>2. Target(w)' = e /\ job'[w].obj = o /\ job'[w].told = a
  BY <1>1 DEF Silent, SameRequest, Target
<1>3. a = "PUBLISHED" => Visible(e)'
  BY <1>1, VisibleStays DEF Answered
<1>4. a = "CLOSED_FAILED" => ShownAs(e)' = "CLOSED_FAILED"
  BY <1>1, ClosedStays DEF Answered
<1>5. a = "UNPUBLISHED" => event'[e] # None
  BY <1>1 DEF Answered, Grown
<1>6. a \in {"COMMIT_UNKNOWN", "COMMIT_FAILED"} => a \in stage'[o]
  BY <1>1 DEF Answered, Grown
<1> QED
  BY <1>2, <1>3, <1>4, <1>5, <1>6 DEF Answered

\* An answer that promises nothing is true.
LEMMA EmptyAnswers ==
    ASSUME NEW w \in Workers, job'[w].told \in Empty
    PROVE  Answered(w)'
BY DEF Answered, Empty

\* A readable report, answered with the status it is shown with.
LEMMA ShownAnswers ==
    ASSUME TypeOK, Grown, NEW w \in Workers, Visible(Target(w)), Tells(w, ShownAs(Target(w)))
    PROVE  Answered(w)'
<1>1. PICK e \in Events : e = Target(w)
  BY TargetType
<1>2. Target(w)' = e /\ job'[w].told = ShownAs(e)
  BY <1>1 DEF Tells, SameRequest, Target
<1>3. Visible(e)'
  BY <1>1, VisibleStays
<1>4. ShownAs(e) \in {"PUBLISHED", "CLOSED_FAILED"}
  BY <1>1 DEF ShownAs, StatusIn
<1>5. ShownAs(e) = "CLOSED_FAILED" => ShownAs(e)' = "CLOSED_FAILED"
  BY ClosedStays
<1> QED
  BY <1>2, <1>3, <1>4, <1>5 DEF Answered

\* Confirming a publication answers what the ledger then shows.
LEMMA ConfirmAnswers ==
    ASSUME TypeOK, Grown, NEW w \in Workers, Answered(w), NEW e \in Events, e = Target(w), NEW rows,
           rows \in [Events -> SUBSET EventTags], e \in report', "COMMITTED" \in rows[e],
           ConfirmWith(w, e, rows)
    PROVE  Answered(w)'
<1>1. CASE Silent(w)
  BY <1>1, SilentAnswers
<1>2. CASE evStage' = [rows EXCEPT ![e] = @ \cup {"PUBLISHED"}] /\ Tells(w, StatusIn(rows, e))
  <2>1. Target(w)' = e
    BY <1>2 DEF Tells, SameRequest, Target
  <2>2. evStage'[e] = rows[e] \cup {"PUBLISHED"}
    BY <1>2
  <2>3. Visible(e)'
    BY <2>2 DEF Visible, VisibleIn
  <2>4. StatusIn(rows, e) = "CLOSED_FAILED" => ShownAs(e)' = "CLOSED_FAILED"
    BY <2>2, <2>3 DEF StatusIn, ShownAs
  <2>5. StatusIn(rows, e) \in {"CLOSED_FAILED", "PUBLISHED"}
    BY DEF StatusIn
  <2> QED
    BY <1>2, <2>1, <2>3, <2>4, <2>5 DEF Answered, Tells
<1> QED
  BY <1>1, <1>2, TellFields DEF ConfirmWith

\* So does publishing it.
LEMMA PublishAnswers ==
    ASSUME TypeOK, Grown, NEW w \in Workers, Answered(w), NEW e \in Events, e = Target(w),
           event[e] # None, PublishWith(w, e)
    PROVE  Answered(w)'
<1>1. CASE Silent(w)
  BY <1>1, SilentAnswers
<1>2. CASE Tells(w, "ERROR")
  BY <1>2, EmptyAnswers DEF Tells, Empty
<1>3. CASE Tells(w, "UNPUBLISHED")
  <2>1. Target(w)' = e /\ event'[e] # None
    BY <1>3 DEF Tells, SameRequest, Target, Grown
  <2> QED
    BY <1>3, <2>1 DEF Answered, Tells
<1>4. CASE e \in report /\ ConfirmWith(w, e, Backfilled(e))
  <2>1. Backfilled(e) \in [Events -> SUBSET EventTags] /\ "COMMITTED" \in Backfilled(e)[e]
    BY BackfilledType DEF TypeOK, TablesOK
  <2>2. e \in report'
    BY <1>4 DEF Grown
  <2> QED
    BY <1>4, <2>1, <2>2, ConfirmAnswers
<1> QED
  BY <1>1, <1>2, <1>3, <1>4, TellFields DEF PublishWith

\* Every step of a worker leaves a true answer or none.
LEMMA StepAnswers ==
    ASSUME Inv, NEW w \in Workers, Answered(w), Step(w), Grown
    PROVE  Answered(w)'
<1>0. /\ TypeOK /\ Relies(w) /\ Reported /\ job[w] \in Jobs /\ job \in [Workers -> Jobs]
      /\ Target(w) \in Events /\ job[w].obj \in Objects
  BY TargetType DEF Inv, TypeOK
<1>t. /\ Silent(w) => Answered(w)'
      /\ \A a \in Empty : Tells(w, a) => Answered(w)'
  BY <1>0, SilentAnswers, EmptyAnswers DEF Tells
<1>1. CASE Validate(w) \/ Persist(w) \/ Probe(w) \/ CreateRun(w) \/ RecordCreated(w)
           \/ StartOrResume(w) \/ RecordRan(w) \/ ConvergeTimeout(w) \/ VerifyReport(w) \/ Notify(w)
  BY <1>0, <1>1, <1>t, TellFields
     DEF Validate, Persist, Probe, CreateRun, RecordCreated, StartOrResume, RecordRan,
         ConvergeTimeout, VerifyReport, Notify, Empty
<1>2. CASE Lookup(w) \/ Adopt(w) \/ Observe(w) \/ Drive(w) \/ Converge(w) \/ VerifyCommit(w)
  <2>1. /\ \A k, l : job' = [job EXCEPT ![w] = [@ EXCEPT !.known = k, !.pc = l]] => Silent(w)
        /\ \A q, l : job' = [job EXCEPT ![w] = [@ EXCEPT !.pay = q, !.pc = l]] => Silent(w)
        /\ \A b, l : job' = [job EXCEPT ![w] = [@ EXCEPT !.rec = b, !.pc = l]] => Silent(w)
        /\ \A st, l : job' = [job EXCEPT ![w] = [@ EXCEPT !.pc = l, !.fw = st]] => Silent(w)
        /\ \A v, l : job' = [job EXCEPT ![w] = [@ EXCEPT !.pc = l, !.seen = v]] => Silent(w)
    <3>1. ASSUME NEW k, NEW l, job' = [job EXCEPT ![w] = [@ EXCEPT !.known = k, !.pc = l]]
          PROVE  Silent(w)
      BY <1>0, <3>1 DEF Silent, SameRequest, Jobs
    <3>2. ASSUME NEW q, NEW l, job' = [job EXCEPT ![w] = [@ EXCEPT !.pay = q, !.pc = l]]
          PROVE  Silent(w)
      BY <1>0, <3>2 DEF Silent, SameRequest, Jobs
    <3>3. ASSUME NEW b, NEW l, job' = [job EXCEPT ![w] = [@ EXCEPT !.rec = b, !.pc = l]]
          PROVE  Silent(w)
      BY <1>0, <3>3 DEF Silent, SameRequest, Jobs
    <3>4. ASSUME NEW st, NEW l, job' = [job EXCEPT ![w] = [@ EXCEPT !.pc = l, !.fw = st]]
          PROVE  Silent(w)
      BY <1>0, <3>4 DEF Silent, SameRequest, Jobs
    <3>5. ASSUME NEW v, NEW l, job' = [job EXCEPT ![w] = [@ EXCEPT !.pc = l, !.seen = v]]
          PROVE  Silent(w)
      BY <1>0, <3>5 DEF Silent, SameRequest, Jobs
    <3> QED
      BY <3>1, <3>2, <3>3, <3>4, <3>5
  <2>2. CASE Lookup(w)
    BY <1>0, <1>t, <2>1, <2>2, TellFields DEF Lookup, Empty
  <2>3. CASE Adopt(w)
    BY <1>0, <1>t, <2>1, <2>3, TellFields DEF Adopt, Empty
  <2>4. CASE Observe(w)
    BY <1>0, <1>t, <2>1, <2>4, TellFields DEF Observe
  <2>5. CASE Drive(w)
    BY <1>0, <1>t, <2>1, <2>5 DEF Drive
  <2>6. CASE Converge(w)
    BY <1>0, <1>t, <2>1, <2>6, TellFields DEF Converge
  <2>7. CASE VerifyCommit(w)
    BY <1>0, <1>t, <2>1, <2>7 DEF VerifyCommit
  <2> QED
    BY <1>2, <2>2, <2>3, <2>4, <2>5, <2>6, <2>7
<1>3. CASE Check(w) \/ Enter(w) \/ Commit(w)
  <2>1. Target(w) = Original(job[w].obj)
    BY <1>0, <1>3 DEF Check, Enter, Commit, At, Relies, Locked, Target
  <2>2. \A b, l : job' = [job EXCEPT ![w] = [@ EXCEPT !.pc = l, !.rec = b]] => Silent(w)
    BY <1>0 DEF Silent, SameRequest, Jobs
  <2>3. CASE Visible(Target(w)) /\ Return(w, ShownAs(Target(w)))
    BY <1>0, <2>3, TellFields, ShownAnswers
  <2>4. CASE Check(w) \/ Enter(w)
    BY <1>0, <1>t, <2>1, <2>2, <2>3, <2>4, TellFields DEF Check, Enter
  <2>5. CASE Commit(w)
    <3>1. \A ack : AfterCommit(w, ack) => Silent(w)
      BY <1>0, TellFields DEF AfterCommit
    <3> QED
      BY <1>0, <1>t, <2>1, <2>3, <2>5, <3>1, TellFields DEF Commit, Empty
  <2> QED
    BY <1>3, <2>4, <2>5
<1>4. CASE SettleCommit(w)
  <2>1. CASE /\ stage' = [stage EXCEPT ![job[w].obj] = @ \cup RestoredRows(w)]
             /\ Tells(w, job[w].why)
    <3>1. job[w].why \in {"COMMIT_UNKNOWN", "COMMIT_FAILED"}
      BY <1>0, <1>4 DEF SettleCommit, At, Relies
    <3>2. stage \in [Objects -> SUBSET StageTags]
      BY <1>0 DEF TypeOK
    <3>3. job[w].why \in stage'[job[w].obj]
      BY <1>0, <2>1, <3>2 DEF RestoredRows
    <3> QED
      BY <2>1, <3>1, <3>3 DEF Answered, Tells, SameRequest
  <2> QED
    BY <1>0, <1>4, <1>t, <2>1, TellFields DEF SettleCommit, Empty
<1>5. CASE Publish(w)
  <2>1. event[Target(w)] # None
    BY <1>0, <1>5 DEF Publish, At, Relies
  <2>2. CASE Visible(Target(w)) /\ Return(w, ShownAs(Target(w)))
    BY <1>0, <2>2, TellFields, ShownAnswers
  <2>3. CASE PublishWith(w, Target(w))
    BY <1>0, <2>1, <2>3, PublishAnswers
  <2> QED
    BY <1>5, <2>2, <2>3 DEF Publish
<1>6. CASE Confirm(w)
  <2>1. ConfirmWith(w, Target(w), evStage) /\ UNCHANGED report
    BY <1>6 DEF Confirm
  <2>2. Target(w) \in report
    BY <1>0, <1>6 DEF Confirm, At, Relies
  <2>3. "COMMITTED" \in evStage[Target(w)] /\ evStage \in [Events -> SUBSET EventTags]
    BY <1>0, <2>2 DEF Reported, TypeOK
  <2> QED
    BY <1>0, <2>1, <2>2, <2>3, ConfirmAnswers
<1>7. CASE RecordPublicationFailure(w)
  <2>1. PICK e \in Events : e = Target(w)
    BY <1>0
  <2>2. PICK rows : rows = [Backfilled(e) EXCEPT ![e] = @ \cup {job[w].why}]
    OBVIOUS
  <2>3. /\ evStage' = rows /\ UNCHANGED <<event, report>>
        /\ \/ VisibleIn(rows, e) /\ StatusIn(rows, e) = "CLOSED_FAILED" /\ Tells(w, "CLOSED_FAILED")
           \/ Tells(w, "UNPUBLISHED")
           \/ Tells(w, "ERROR")
    BY <1>0, <1>7, <2>1, <2>2, TellFields DEF RecordPublicationFailure
  <2>4. event[e] # None
    BY <1>0, <1>7, <2>1 DEF RecordPublicationFailure, At, Relies
  <2>5. CASE VisibleIn(rows, e) /\ StatusIn(rows, e) = "CLOSED_FAILED" /\ Tells(w, "CLOSED_FAILED")
    <3>1. Visible(e)' /\ ShownAs(e)' = "CLOSED_FAILED"
      BY <2>3, <2>5 DEF Visible, VisibleIn, ShownAs, StatusIn
    <3>2. Target(w)' = e
      BY <2>1, <2>5 DEF Tells, SameRequest, Target
    <3> QED
      BY <2>5, <3>1, <3>2 DEF Answered, Tells
  <2>6. CASE Tells(w, "UNPUBLISHED")
    <3>1. Target(w)' = e
      BY <2>1, <2>6 DEF Tells, SameRequest, Target
    <3> QED
      BY <2>3, <2>4, <2>6, <3>1 DEF Answered, Tells
  <2> QED
    BY <1>t, <2>3, <2>5, <2>6 DEF Empty
<1>8. CASE Correct(w)
  <2>1. Target(w) = Correction(job[w].obj)
    BY <1>0, <1>8 DEF Correct, At, Relies, Target
  <2>2. CASE event[Target(w)] # None /\ PublishWith(w, Target(w))
    BY <1>0, <2>2, PublishAnswers
  <2>3. \A ack : AfterCommit(w, ack) => Silent(w)
    BY <1>0, TellFields DEF AfterCommit
  <2> QED
    BY <1>0, <1>8, <1>t, <2>1, <2>2, <2>3, TellFields DEF Correct, Empty
<1> QED
  BY <1>1, <1>2, <1>3, <1>4, <1>5, <1>6, <1>7, <1>8 DEF Step

\* Every step of the system leaves true answers.
LEMMA NextAnswers ==
    ASSUME Inv, AnswersAreTrue, [Next]_vars
    PROVE  AnswersAreTrue'
<1>1. Grown /\ TypeOK /\ job \in [Workers -> Jobs] /\ \A w \in Workers : Answered(w)
  BY NextGrows DEF Inv, TypeOK, AnswersAreTrue, Answered
<1>2. SUFFICES ASSUME NEW v \in Workers PROVE Answered(v)'
  BY DEF AnswersAreTrue, Answered
<1>3. CASE job'[v] = job[v]
  BY <1>1, <1>3, SilentAnswers DEF Silent, SameRequest
<1>4. ASSUME NEW w \in Workers, Moves(w), v # w PROVE job'[v] = job[v]
  BY <1>1, <1>4 DEF Moves
<1>5. ASSUME NEW w \in Workers, Step(w) PROVE Answered(v)'
  <2>1. Relies(w) /\ Moves(w)
    BY <1>5, StepMoves DEF Inv
  <2> QED
    BY <1>1, <1>3, <1>4, <1>5, <2>1, StepAnswers
<1>6. ASSUME NEW w \in Workers, Crash(w) PROVE Answered(v)'
  <2>1. Moves(w)
    BY <1>1, <1>6, CrashMoves
  <2>2. job'[w] = Idle(job[w], "none")
    BY <1>1, <1>6 DEF Crash
  <2>3. job'[w].told = "none"
    BY <1>1, <2>2 DEF Idle, Jobs
  <2> QED
    BY <1>3, <1>4, <2>1, <2>3, EmptyAnswers DEF Empty
<1>7. ASSUME NEW w \in Workers, NEW op \in Ops, NEW o \in Objects, NEW p \in Payloads,
             Submit(w, op, o, p)
      PROVE  Answered(v)'
  <2>1. Moves(w)
    BY <1>1, <1>7, SubmitMoves
  <2>2. PICK l, m, r : job'[w] = [job[w] EXCEPT !.pc = l, !.obj = o, !.pay = p, !.told = "none",
                                                !.op = m, !.rec = r]
    BY <1>1, <1>7 DEF Submit
  <2>3. job'[w].told = "none"
    BY <1>1, <2>2 DEF Jobs
  <2> QED
    BY <1>3, <1>4, <2>1, <2>3, EmptyAnswers DEF Empty
<1>8. ASSUME NEW o \in Objects, LeaseExpires(o) \/ LoseRun(o) \/ CloseWindow(o) \/ Govern(o)
      PROVE  Answered(v)'
  BY <1>3, <1>8 DEF LeaseExpires, LoseRun, CloseWindow, Govern
<1>9. CASE UNCHANGED vars
  BY <1>3, <1>9 DEF vars
<1> QED
  BY <1>5, <1>6, <1>7, <1>8, <1>9 DEF Next

\* What a caller was told is in the ledger, and stays there: a report it was
\* told is published can be read, a closed one is shown closed, and a failed or
\* unknown commit is on record, whatever lost acknowledgement, crash or second
\* process came between (_publish_report_or_record_failure,
\* reconcile_event_commit, reconcile_report_commit).
THEOREM AnswersAreTrueTheorem == Spec => []AnswersAreTrue
<1>1. Init => AnswersAreTrue
  <2>1. SUFFICES ASSUME Init, NEW w \in Workers PROVE job[w].told = "none"
    BY DEF AnswersAreTrue
  <2> QED
    BY <2>1 DEF Init
<1>2. Inv /\ AnswersAreTrue /\ [Next]_vars => AnswersAreTrue'
  BY NextAnswers
<1> QED
  BY <1>1, <1>2, InvariantTheorem, PTL DEF Spec

-----------------------------------------------------------------------------
(* Releases are published inside their gate *)

\* What PublishedInsideGate says of one step and one event.
InsideGate(e) ==
    Gated(e) /\ "PUBLISHED" \in evStage'[e] \ evStage[e] =>
        /\ windowOpen'[e[1]]
        /\ qual'[e[1]] # "MISMATCH"
        /\ event[e].disp = "CANDIDATES" => qual'[e[1]] # "LAPSED"

\* The publication row is written where the gate is open.
LEMMA ConfirmInside ==
    ASSUME TypeOK, NEW w \in Workers, NEW e \in Events, NEW rows,
           rows \in [Events -> SUBSET EventTags], "PUBLISHED" \in rows[e] => "PUBLISHED" \in evStage[e],
           \A x \in Events \ {e} : rows[x] = evStage[x],
           ConfirmWith(w, e, rows), UNCHANGED qual
    PROVE  \A x \in Events : InsideGate(x)
<1>1. CASE UNCHANGED evStage
  BY <1>1 DEF InsideGate
<1>2. CASE /\ PublicationGate(e) = "open"
           /\ evStage' = [rows EXCEPT ![e] = @ \cup {"PUBLISHED"}]
           /\ UNCHANGED windowOpen
  <2>1. \A x \in Events \ {e} : evStage'[x] = evStage[x]
    BY <1>2
  <2>2. InsideGate(e)
    BY <1>2 DEF InsideGate, PublicationGate
  <2> QED
    BY <2>1, <2>2 DEF InsideGate
<1> QED
  BY <1>1, <1>2 DEF ConfirmWith

\* publish_report writes the report row and the event's own rows.
LEMMA PublishInside ==
    ASSUME TypeOK, NEW w \in Workers, NEW e \in Events, PublishWith(w, e), UNCHANGED qual
    PROVE  \A x \in Events : InsideGate(x)
<1>1. /\ Backfilled(e) \in [Events -> SUBSET EventTags]
      /\ \A x \in Events \ {e} : Backfilled(e)[x] = evStage[x]
      /\ "PUBLISHED" \in Backfilled(e)[e] => "PUBLISHED" \in evStage[e]
  <2>1. evStage \in [Events -> SUBSET EventTags] /\ TablesOK
    BY DEF TypeOK, TablesOK
  <2>2. Backfilled(e)[e] = evStage[e] \cup OwnRows(e)
    BY <2>1 DEF Backfilled
  <2> QED
    BY <2>1, <2>2, BackfilledType DEF OwnRows
<1>2. CASE ConfirmWith(w, e, Backfilled(e))
  BY <1>1, <1>2, ConfirmInside
<1>3. CASE \/ evStage' = [Backfilled(e) EXCEPT ![e] = @ \cup {"SHADOW_ISOLATED"}]
           \/ evStage' = Backfilled(e)
           \/ evStage' = evStage
  <2>1. \A x \in Events : "PUBLISHED" \in evStage'[x] => "PUBLISHED" \in evStage[x]
    BY <1>1, <1>3
  <2> QED
    BY <2>1 DEF InsideGate
<1> QED
  BY <1>2, <1>3 DEF PublishWith

\* Every step that publishes a gated release has found its gate open.
LEMMA StepInside ==
    ASSUME Inv, NEW w \in Workers, Step(w)
    PROVE  \A x \in Events : InsideGate(x)
<1>0. /\ TypeOK /\ Relies(w) /\ evStage \in [Events -> SUBSET EventTags]
      /\ Target(w) \in Events /\ Correction(job[w].obj) \in Events
      /\ Original(job[w].obj) \in Events
  BY TargetType DEF Inv, TypeOK
<1>1. CASE UNCHANGED evStage
  BY <1>1 DEF InsideGate
<1>2. CASE Publish(w)
  <2>1. CASE PublishWith(w, Target(w))
    BY <1>0, <1>2, <2>1, PublishInside DEF Publish
  <2> QED
    BY <1>1, <1>2, <2>1 DEF Publish
<1>3. CASE Confirm(w)
  BY <1>0, <1>3, ConfirmInside DEF Confirm
<1>4. CASE Correct(w)
  <2>1. CASE PublishWith(w, Correction(job[w].obj))
    BY <1>0, <1>4, <2>1, PublishInside DEF Correct
  <2> QED
    BY <1>1, <1>4, <2>1 DEF Correct
<1>5. ASSUME NEW e \in Events, NEW T, "PUBLISHED" \notin T,
             \/ evStage' = [evStage EXCEPT ![e] = @ \cup T]
             \/ evStage' = [Backfilled(e) EXCEPT ![e] = @ \cup T]
      PROVE  \A x \in Events : InsideGate(x)
  <2>1. Backfilled(e) = [evStage EXCEPT ![e] = @ \cup OwnRows(e)] /\ "PUBLISHED" \notin OwnRows(e)
    BY DEF Backfilled, OwnRows
  <2>2. \A x \in Events : "PUBLISHED" \in evStage'[x] => "PUBLISHED" \in evStage[x]
    BY <1>0, <1>5, <2>1
  <2> QED
    BY <2>2 DEF InsideGate
<1>6. CASE RecordPublicationFailure(w)
  <2>1. job[w].why # "PUBLISHED"
    BY <1>0, <1>6 DEF RecordPublicationFailure, At, Relies, Closures
  <2> QED
    BY <1>0, <1>5, <1>6, <2>1 DEF RecordPublicationFailure
<1>7. CASE SettleCommit(w)
  <2>1. job[w].why # "PUBLISHED"
    BY <1>0, <1>7 DEF SettleCommit, At, Relies
  <2> QED
    BY <1>0, <1>1, <1>5, <1>7, <2>1 DEF SettleCommit
<1>8. CASE Notify(w)
  BY <1>0, <1>1, <1>5, <1>8 DEF Notify
<1> QED
  BY <1>1, <1>2, <1>3, <1>4, <1>6, <1>7, <1>8
     DEF Step, Validate, Lookup, Adopt, Persist, Check, Enter, Probe, CreateRun, RecordCreated,
         Observe, StartOrResume, Drive, RecordRan, Converge, ConvergeTimeout, Commit,
         VerifyCommit, VerifyReport, dbVars

\* A candidate release turns published only while its window is open and its
\* qualification stands at the recorded clock, whichever process publishes it
\* and whatever moved since it was committed (_publish_report_or_record_failure
\* with its second look at the release gate).
THEOREM PublishedInsideGateTheorem == Spec => PublishedInsideGate
<1> DEFINE A == \A o \in Objects : LET e == Original(o) IN
         (/\ KindOf[o] = "release"
          /\ event[e] # None
          /\ event[e].disp \in {"CANDIDATES", "ABSTAINED"}
          /\ "PUBLISHED" \in evStage'[e] \ evStage[e])
         => /\ windowOpen'[o]
            /\ qual'[o] # "MISMATCH"
            /\ event[e].disp = "CANDIDATES" => qual'[o] # "LAPSED"
<1>1. ASSUME Inv, [Next]_vars PROVE A
  <2>1. CASE UNCHANGED evStage
    BY <2>1
  <2>2. ASSUME NEW w \in Workers, Step(w) PROVE A
    <3>1. \A x \in Events : InsideGate(x)
      BY <1>1, <2>2, StepInside
    <3> QED
      BY <3>1 DEF InsideGate, Gated, Original, Events
  <2> QED
    BY <1>1, <2>1, <2>2
       DEF Next, Submit, Crash, LeaseExpires, LoseRun, CloseWindow, Govern, dbVars, vars
<1>2. Inv /\ [Next]_vars => [A]_vars
  BY <1>1
<1> QED
  BY <1>2, InvariantTheorem, PTL DEF Spec, PublishedInsideGate
=============================================================================
