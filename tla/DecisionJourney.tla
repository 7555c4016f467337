--------------------------- MODULE DecisionJourney ---------------------------
(***************************************************************************)
(* The journey of one frozen decision case through Stock Profiler:         *)
(* modules/decision_cases/service.py over adapters/persistence/            *)
(* decision_ledger.py (SQLite) and adapters/m_agent (a second store, the   *)
(* M-Agent Run store, which cannot share a transaction with the ledger).   *)
(*                                                                         *)
(* Every use of ledger.serialize_case_execution is a BEGIN IMMEDIATE       *)
(* transaction, so it is one step here; a transaction that commits in its  *)
(* middle and begins again (commit_event, publish_report, the two          *)
(* reconcile_* methods, discard_unconfirmed_publication) is cut exactly at *)
(* those points, because another process may take the write lock there.    *)
(* A crash between two steps loses the worker and nothing else; a crash    *)
(* inside a transaction is a crash before it.                              *)
(*                                                                         *)
(* Data is abstracted to what the properties tell apart: a frozen case is  *)
(* its payload, an event remembers its author, payload, disposition and    *)
(* the stage trail it froze, a stage row is a tag. Repeated occurrences of *)
(* the same row are one tag.                                               *)
(***************************************************************************)
EXTENDS Naturals, FiniteSets, Sequences

CONSTANTS
    Workers,        \* threads that run, correct or notify decision cases
    Processes,      \* the operating-system processes they live in
    ProcessOf,      \* [Workers -> Processes]
    Objects,        \* business object identities
    KindOf,         \* [Objects -> Kinds]
    Payloads,       \* frozen case payloads a request can carry
    Legacy,         \* objects whose M-Agent Run predates the ledger mapping
    LegacyPayload,  \* the payload those Runs were frozen from
    Faults,         \* which environment faults the instance contains
    Ops,            \* which requests the instance contains
    MaxAttempts,    \* bound on notification attempts per report
    None            \* no worker, no mapping, no event

Kinds == {"plain", "saved", "release", "keyed", "shadow"}

FaultKinds == {"unheard", "lost", "refused", "crash", "lose_run"}

ASSUME ConstantsAssumption ==
    /\ ProcessOf \in [Workers -> Processes]
    /\ KindOf \in [Objects -> Kinds]
    /\ Legacy \subseteq Objects
    /\ LegacyPayload \in Payloads
    /\ Faults \subseteq FaultKinds
    /\ Ops \subseteq {"run", "replay", "correct", "notify"}
    /\ MaxAttempts \in Nat

VARIABLES
    mapping,     \* decision_case_business_objects: payload and recovery flag
    stage,       \* decision_stage_events without an event id, per object
    event,       \* decision_events: the original and at most one correction
    evStage,     \* decision_stage_events with an event id, per event
    report,      \* formal_reports: the events that have a report row
    attempts,    \* decision_notification_attempts, per object
    run,         \* the M-Agent Run of the object
    output,      \* whether the saved Run output satisfies the host contract
    lease,       \* the worker that holds the M-Agent Run lease
    windowOpen,  \* the release's five-session window has not closed
    qual,        \* the qualification the release rests on, as governed now
    job          \* what each worker is doing

dbVars   == <<mapping, stage, event, evStage, report, attempts>>
runVars  == <<run, output, lease>>
envVars  == <<windowOpen, qual>>
vars     == <<dbVars, runVars, envVars, job>>

-----------------------------------------------------------------------------
(* Identities and rows *)

Events == Objects \X {"original", "correction"}
Original(o)   == <<o, "original">>
Correction(o) == <<o, "correction">>

\* The rows the commit transaction writes before the event.
Precommit == {"FRAMEWORK_RUN", "VALIDATED", "DECIDED"}
StageTags == Precommit \cup {"INVALID", "COMMIT_UNKNOWN", "COMMIT_FAILED"}

\* The closure failures _is_candidate_publication_closure_failure recognises.
Closures == {"LATE", "REQUALIFIED"}
EventTags == Closures \cup {"COMMITTED", "CORRECTION", "PUBLISHED", "SHADOW_ISOLATED",
                            "PUBLICATION_FAILED", "PUBLICATION_UNKNOWN", "NOTIFIED",
                            "COMMIT_UNKNOWN", "COMMIT_FAILED"}

Dispositions == {"RESULT", "CANDIDATES", "ABSTAINED", "FAILED"}
Quals == {"VALID", "AT_RISK", "LAPSED", "RESTORED", "MISMATCH"}
Terminal == {"SUCCEEDED", "FAILED"}
RunStates == {"absent", "CREATED", "RUNNING", "WAITING"} \cup Terminal

Mappings == [pay : Payloads, rec : BOOLEAN]
Facts == [by : Workers, pay : Payloads, disp : Dispositions, trail : SUBSET StageTags]

ASSUME NoneAssumption == None \notin Workers /\ None \notin Mappings /\ None \notin Facts

-----------------------------------------------------------------------------
(* What the ledger lets a reader see *)

\* get_original_formal_report / get_formal_report_for_event: the row exists,
\* its commit is confirmed and its publication is confirmed or closed.
VisibleIn(rows, e) == /\ e \in report
                      /\ "COMMITTED" \in rows[e]
                      /\ \/ "PUBLISHED" \in rows[e]
                         \/ Closures \cap rows[e] # {}
Visible(e) == VisibleIn(evStage, e)

\* _with_publication_history: a saved closure failure of a candidate release
\* outranks a saved publication.
StatusIn(rows, e) == IF KindOf[e[1]] = "release" /\ Closures \cap rows[e] # {}
                     THEN "CLOSED_FAILED" ELSE "PUBLISHED"
ShownAs(e) == IF Visible(e) THEN StatusIn(evStage, e) ELSE "HIDDEN"

\* ensure_event_stage_results: the rows an event carries with its own id.
OwnRows(e) == IF e[2] = "correction" THEN {"CORRECTION", "COMMITTED"} ELSE {"COMMITTED"}
Backfilled(e) == [evStage EXCEPT ![e] = @ \cup OwnRows(e)]

-----------------------------------------------------------------------------
(* Candidate releases: what the commit freezes and what publication re-checks *)

\* freeze_candidate_release and finalize_candidate_release_publication at the
\* commit clock.
Disposition(o) ==
    IF KindOf[o] # "release" THEN "RESULT"
    ELSE IF qual[o] = "MISMATCH" \/ ~windowOpen[o] THEN "FAILED"
    ELSE IF qual[o] = "LAPSED" THEN "ABSTAINED"
    ELSE "CANDIDATES"

\* Only an original release with one of these dispositions is re-checked.
Gated(e) == /\ KindOf[e[1]] = "release"
            /\ e[2] = "original"
            /\ event[e].disp \in {"CANDIDATES", "ABSTAINED"}

\* Post-commit diagnostic alerts and their closures are left out of the
\* comparison, so VALID and AT_RISK count alike.
Bug_WindowNotRechecked(e) ==
    IF Gated(e) /\ qual[e[1]] = "MISMATCH" THEN "REQUALIFIED" ELSE "open"
PublicationGate(e) ==
    IF ~Gated(e) THEN "open"
    ELSE IF qual[e[1]] = "MISMATCH" THEN "REQUALIFIED"
    ELSE IF ~windowOpen[e[1]] THEN "LATE"
    ELSE IF event[e].disp = "CANDIDATES" /\ qual[e[1]] = "LAPSED" THEN "REQUALIFIED"
    ELSE "open"

-----------------------------------------------------------------------------
(* Workers *)

Pcs == {"idle", "validate", "lookup", "adopt", "persist", "check", "enter", "probe",
        "create", "created", "observe", "resume", "drive", "ran", "converge", "commit",
        "verify", "settle", "publish", "verifyReport", "confirm", "fail",
        "correct", "notify"}

\* Inside _serialize_local_framework_execution.
Locked == {"probe", "create", "created", "observe", "resume", "drive", "ran", "converge",
           "commit", "verify", "settle"}

Answers == {"none", "PUBLISHED", "CLOSED_FAILED", "UNPUBLISHED", "NOT_ATTEMPTED",
            "COMMIT_UNKNOWN", "COMMIT_FAILED", "NOTIFIED", "ERROR"}
Reasons == Closures \cup {"none", "COMMIT_UNKNOWN", "COMMIT_FAILED",
                          "PUBLICATION_FAILED", "PUBLICATION_UNKNOWN"}

Jobs == [pc : Pcs, op : {"run", "correct", "notify"}, obj : Objects, pay : Payloads,
         rec : BOOLEAN, known : SUBSET Objects, fw : RunStates,
         seen : Workers \cup {None}, why : Reasons, told : Answers]

Target(w) == IF job[w].op = "correct" THEN Correction(job[w].obj) ELSE Original(job[w].obj)

Goto(w, l) == job' = [job EXCEPT ![w].pc = l]
GotoFor(w, l, r) == job' = [job EXCEPT ![w] = [@ EXCEPT !.pc = l, !.why = r]]
\* Nothing but the answer outlives a request.
Idle(j, a) == [j EXCEPT !.pc = "idle", !.rec = FALSE, !.known = {}, !.fw = "absent",
                        !.seen = None, !.why = "none", !.told = a]
Return(w, a) == job' = [job EXCEPT ![w] = Idle(@, a)]

At(w, l) == job[w].pc = l

LockFree(w) == \A v \in Workers \ {w} :
    ~ /\ ProcessOf[v] = ProcessOf[w]
      /\ job[v].op = "run"
      /\ job[v].obj = job[w].obj
      /\ job[v].pc \in Locked

TypeOK ==
    /\ mapping \in [Objects -> Mappings \cup {None}]
    /\ stage \in [Objects -> SUBSET StageTags]
    /\ event \in [Events -> Facts \cup {None}]
    /\ evStage \in [Events -> SUBSET EventTags]
    /\ report \subseteq Events
    /\ attempts \in [Objects -> Seq({"SUCCEEDED", "FAILED"})]
    /\ run \in [Objects -> RunStates]
    /\ output \in [Objects -> {"none", "valid", "invalid"}]
    /\ lease \in [Objects -> Workers \cup {None}]
    /\ windowOpen \in [Objects -> BOOLEAN]
    /\ qual \in [Objects -> Quals]
    /\ job \in [Workers -> Jobs]

Init ==
    /\ mapping = [o \in Objects |-> None]
    /\ stage = [o \in Objects |-> {}]
    /\ event = [e \in Events |-> None]
    /\ evStage = [e \in Events |-> {}]
    /\ report = {}
    /\ attempts = [o \in Objects |-> <<>>]
    /\ run = [o \in Objects |-> IF o \in Legacy THEN "SUCCEEDED" ELSE "absent"]
    /\ output = [o \in Objects |-> IF o \in Legacy THEN "valid" ELSE "none"]
    /\ lease = [o \in Objects |-> None]
    /\ windowOpen = [o \in Objects |-> TRUE]
    /\ qual = [o \in Objects |-> "VALID"]
    /\ \E o \in Objects, p \in Payloads :
         job = [w \in Workers |-> [pc |-> "idle", op |-> "run", obj |-> o, pay |-> p,
                                   rec |-> FALSE, known |-> {}, fw |-> "absent",
                                   seen |-> None, why |-> "none", told |-> "none"]]

-----------------------------------------------------------------------------
(* Requests *)

\* run_frozen_decision_case, replay_default_frozen_decision_case with the
\* original snapshot, correct_default_..., retry_..._notification.
Entry(op) == CASE op = "run" -> "lookup"
               [] op = "replay" -> "validate"
               [] OTHER -> op

Submit(w, op, o, p) ==
    /\ At(w, "idle")
    /\ op = "notify" => Len(attempts[o]) < MaxAttempts
    /\ job' = [job EXCEPT ![w] = [@ EXCEPT
                  !.pc = Entry(op), !.obj = o, !.pay = p, !.told = "none",
                  !.op = IF op = "replay" THEN "run" ELSE op,
                  !.rec = op = "replay"]]
    /\ UNCHANGED <<dbVars, runVars, envVars>>

\* A Run's identity binds the frozen payload it was created from.
RunIs(o, p) == /\ run[o] # "absent"
               /\ p = IF mapping[o] = None THEN LegacyPayload ELSE mapping[o].pay

\* validate_frozen_recovery_case: the original Run must already be durable.
Validate(w) ==
    /\ At(w, "validate")
    /\ IF RunIs(job[w].obj, job[w].pay) THEN Goto(w, "lookup") ELSE Return(w, "ERROR")
    /\ UNCHANGED <<dbVars, runVars, envVars>>

\* First transaction: saved snapshots replace the request, a reused
\* idempotency key must carry the same payload, known Runs are read.
Lookup(w) ==
    LET o == job[w].obj IN
    /\ At(w, "lookup")
    /\ IF mapping[o] = None
       THEN job' = [job EXCEPT ![w] = [@ EXCEPT
                      !.known = {x \in Objects : mapping[x] # None},
                      !.pc = IF job[w].rec THEN "persist" ELSE "adopt"]]
       ELSE IF KindOf[o] = "keyed" /\ job[w].pay # mapping[o].pay
       THEN Return(w, "ERROR")
       ELSE job' = [job EXCEPT ![w] = [@ EXCEPT
                      !.pay = IF KindOf[o] \in {"saved", "release", "keyed"}
                              THEN mapping[o].pay ELSE job[w].pay,
                      !.pc = "persist"]]
    /\ UNCHANGED <<dbVars, runVars, envVars>>

\* find_unmapped_legacy_frozen_decision_case: an unmapped Run of another
\* identity vetoes the request; the identity's own legacy Run is adopted.
Adopt(w) ==
    LET o == job[w].obj
        unmapped == {x \in Objects \ job[w].known : run[x] # "absent"} IN
    /\ At(w, "adopt")
    /\ IF unmapped = {} \/ (unmapped = {o} /\ RunIs(o, job[w].pay))
       THEN job' = [job EXCEPT ![w] = [@ EXCEPT
                      !.rec = o \in Legacy /\ run[o] # "absent", !.pc = "persist"]]
       ELSE Return(w, "ERROR")
    /\ UNCHANGED <<dbVars, runVars, envVars>>

\* persist_business_mapping_before_framework: the mapping is durable before
\* the M-Agent store can hold any work of the case. Once the original event
\* exists the payload is not compared any more.
Persist(w) ==
    LET o == job[w].obj IN
    /\ At(w, "persist")
    /\ IF event[Original(o)] # None
       THEN Goto(w, "check") /\ UNCHANGED mapping
       ELSE IF mapping[o] = None
       THEN /\ mapping' = [mapping EXCEPT ![o] = [pay |-> job[w].pay, rec |-> job[w].rec]]
            /\ Goto(w, "check")
       ELSE /\ UNCHANGED mapping
            /\ IF mapping[o].pay = job[w].pay THEN Goto(w, "check") ELSE Return(w, "ERROR")
    /\ UNCHANGED <<stage, event, evStage, report, attempts, runVars, envVars>>

\* An already visible report answers the request; a committed event skips
\* the framework.
Check(w) ==
    LET e == Original(job[w].obj) IN
    /\ At(w, "check")
    /\ IF Visible(e) THEN Return(w, ShownAs(e))
       ELSE Goto(w, IF event[e] # None THEN "publish" ELSE "enter")
    /\ UNCHANGED <<dbVars, runVars, envVars>>

\* A Run may be created for the object only while neither the saved snapshot
\* nor the stage history names one.
Recovering(o) == mapping[o].rec \/ "FRAMEWORK_RUN" \in stage[o]

\* The in-process lock, then the second look; a Run the host has already
\* observed must still exist.
Enter(w) ==
    LET e == Original(job[w].obj) IN
    /\ At(w, "enter")
    /\ LockFree(w)
    /\ IF Visible(e) THEN Return(w, ShownAs(e))
       ELSE IF event[e] # None THEN Goto(w, "publish")
       ELSE job' = [job EXCEPT ![w] = [@ EXCEPT !.pc = "probe", !.rec = Recovering(job[w].obj)]]
    /\ UNCHANGED <<dbVars, runVars, envVars>>

-----------------------------------------------------------------------------
(* The framework Run: execute_frozen_decision_case *)

\* _record_framework_transition: a transaction of its own.
RecordTransition(o) == stage' = [stage EXCEPT ![o] = @ \cup {"FRAMEWORK_RUN"}]

Probe(w) ==
    LET o == job[w].obj IN
    /\ At(w, "probe")
    /\ IF run[o] # "absent" THEN Goto(w, "observe")
       ELSE IF job[w].rec THEN Return(w, "ERROR") ELSE Goto(w, "create")
    /\ UNCHANGED <<dbVars, runVars, envVars>>

\* create_run; a duplicate means another owner got there first.
CreateRun(w) ==
    LET o == job[w].obj IN
    /\ At(w, "create")
    /\ IF run[o] = "absent"
       THEN run' = [run EXCEPT ![o] = "CREATED"] /\ Goto(w, "created")
       ELSE UNCHANGED run /\ Goto(w, "converge")
    /\ UNCHANGED <<dbVars, output, lease, envVars>>

RecordCreated(w) ==
    /\ At(w, "created")
    /\ RecordTransition(job[w].obj)
    /\ Goto(w, "resume")
    /\ UNCHANGED <<mapping, event, evStage, report, attempts, runVars, envVars>>

\* A recovered Run is recorded before it is reused or resumed.
Observe(w) ==
    LET o == job[w].obj IN
    /\ At(w, "observe")
    /\ RecordTransition(o)
    /\ IF run[o] \in Terminal
       THEN job' = [job EXCEPT ![w] = [@ EXCEPT !.pc = "commit", !.fw = run[o]]]
       ELSE Goto(w, "resume")
    /\ UNCHANGED <<mapping, event, evStage, report, attempts, runVars, envVars>>

Drivable(o) == run[o] \in {"CREATED", "RUNNING", "WAITING"} /\ lease[o] = None

\* start_run / resume_run take the lease; any concurrency error converges.
StartOrResume(w) ==
    LET o == job[w].obj IN
    /\ At(w, "resume")
    /\ IF Drivable(o)
       THEN /\ run' = [run EXCEPT ![o] = "RUNNING"]
            /\ lease' = [lease EXCEPT ![o] = w]
            /\ Goto(w, "drive")
       ELSE UNCHANGED <<run, lease>> /\ Goto(w, "converge")
    /\ UNCHANGED <<dbVars, output, envVars>>

\* The Run stops: waiting, failed, or with an output the host may reject.
Drive(w) ==
    LET o == job[w].obj IN
    /\ At(w, "drive")
    /\ \E st \in {"WAITING"} \cup Terminal :
         /\ run' = [run EXCEPT ![o] = st]
         /\ job' = [job EXCEPT ![w] = [@ EXCEPT !.pc = "ran", !.fw = st]]
         /\ IF st = "SUCCEEDED"
            THEN \E v \in {"valid", "invalid"} : output' = [output EXCEPT ![o] = v]
            ELSE UNCHANGED output
    /\ lease' = [lease EXCEPT ![o] = None]
    /\ UNCHANGED <<dbVars, envVars>>

\* record_framework_statuses once the Run has stopped.
RecordRan(w) ==
    /\ At(w, "ran")
    /\ RecordTransition(job[w].obj)
    /\ Goto(w, "commit")
    /\ UNCHANGED <<mapping, event, evStage, report, attempts, runVars, envVars>>

\* _recover_concurrent_run: wait for the other owner, never replace its Run.
Converge(w) ==
    LET o == job[w].obj IN
    /\ At(w, "converge")
    /\ \/ /\ run[o] \in Terminal \cup {"WAITING"}
          /\ RecordTransition(o)
          /\ job' = [job EXCEPT ![w] = [@ EXCEPT !.pc = "commit", !.fw = run[o]]]
          /\ UNCHANGED runVars
       \/ /\ run[o] # "WAITING"
          /\ Drivable(o)
          /\ run' = [run EXCEPT ![o] = "RUNNING"]
          /\ lease' = [lease EXCEPT ![o] = w]
          /\ Goto(w, "drive")
          /\ UNCHANGED <<stage, output>>
    /\ UNCHANGED <<mapping, event, evStage, report, attempts, envVars>>

\* The lease time-to-live passes without the Run becoming recoverable.
Bug_WaitForever(w) == FALSE
ConvergeTimeout(w) ==
    LET o == job[w].obj IN
    /\ At(w, "converge")
    /\ run[o] \notin Terminal \cup {"WAITING"}
    /\ ~Drivable(o)
    /\ Return(w, "ERROR")
    /\ UNCHANGED <<dbVars, runVars, envVars>>

-----------------------------------------------------------------------------
(* Committing the event *)

\* What a COMMIT may do: be acknowledged, succeed unheard, be lost; or the
\* INSERT before it is refused.
Acks == {"acked"} \cup (Faults \cap {"unheard", "lost", "refused"})
Durable == {"acked", "unheard"}

\* Where the caller goes after an attempt with outcome ack.
Bug_TrustLostCommit(w, ack) ==
    IF ack # "refused" THEN Goto(w, "publish") ELSE GotoFor(w, "verify", "COMMIT_FAILED")
AfterCommit(w, ack) ==
    IF ack = "acked" THEN Goto(w, "publish")
    ELSE GotoFor(w, "verify", IF ack = "refused" THEN "COMMIT_FAILED" ELSE "COMMIT_UNKNOWN")

\* commit_event: event row and pre-commit rows share the transaction.
StoreOriginal(w, o) ==
    /\ event' = [event EXCEPT ![Original(o)] =
                   [by |-> w, pay |-> mapping[o].pay, disp |-> Disposition(o),
                    trail |-> stage[o] \cup Precommit]]
    /\ stage' = [stage EXCEPT ![o] = @ \cup Precommit]

\* The commit transaction looks again before it writes.
Bug_NoSecondLook(e) == TRUE
Uncommitted(e) == event[e] = None

\* _commit_framework_result in its transaction.
Commit(w) ==
    LET o == job[w].obj
        e == Original(o) IN
    /\ At(w, "commit")
    /\ \/ /\ Visible(e)
          /\ Return(w, ShownAs(e))
          /\ UNCHANGED <<stage, event>>
       \/ /\ ~Visible(e)
          /\ ~Uncommitted(e)
          /\ Goto(w, "publish")
          /\ UNCHANGED <<stage, event>>
       \/ /\ ~Visible(e) /\ Uncommitted(e)
          /\ job[w].fw # "SUCCEEDED" \/ output[o] # "valid"
          /\ stage' = [stage EXCEPT ![o] = @ \cup
                         (IF job[w].fw = "SUCCEEDED" THEN {"FRAMEWORK_RUN", "INVALID"}
                                                     ELSE {"FRAMEWORK_RUN"})]
          /\ Return(w, "NOT_ATTEMPTED")
          /\ UNCHANGED event
       \/ /\ ~Visible(e) /\ Uncommitted(e)
          /\ job[w].fw = "SUCCEEDED" /\ output[o] = "valid"
          /\ \E ack \in Acks :
               /\ IF ack \in Durable THEN StoreOriginal(w, o) ELSE UNCHANGED <<stage, event>>
               /\ AfterCommit(w, ack)
    /\ UNCHANGED <<mapping, evStage, report, attempts, runVars, envVars>>

\* reconcile_event_commit, first half: a fresh read outside the write lock.
VerifyCommit(w) ==
    LET f == event[Target(w)] IN
    /\ At(w, "verify")
    /\ job' = [job EXCEPT ![w] = [@ EXCEPT
                  !.pc = "settle", !.seen = IF f = None THEN None ELSE f.by]]
    /\ UNCHANGED <<dbVars, runVars, envVars>>

\* _restore_precommit_stage_results: the rollback lost the pre-commit rows, so
\* they are written again beside the failed or unknown commit.
Bug_NothingRestored(w) == {job[w].why}
Bug_ReasonDropped(w) == Precommit \cup {"none"}
RestoredRows(w) == Precommit \cup {job[w].why}

\* reconcile_event_commit, second half.
SettleCommit(w) ==
    LET o == job[w].obj
        e == Target(w) IN
    /\ At(w, "settle")
    /\ \/ /\ job[w].seen = None
          /\ IF job[w].op = "run"
             THEN /\ stage' = [stage EXCEPT ![o] = @ \cup RestoredRows(w)]
                  /\ Return(w, job[w].why)
                  /\ UNCHANGED evStage
             ELSE /\ evStage' = [evStage EXCEPT ![e] = @ \cup {job[w].why}]
                  /\ Return(w, "ERROR")
                  /\ UNCHANGED stage
       \/ /\ job[w].seen = w
          /\ Goto(w, "publish")
          /\ UNCHANGED <<stage, evStage>>
       \/ /\ job[w].seen \notin {None, w}
          /\ Return(w, "ERROR")
          /\ UNCHANGED <<stage, evStage>>
    /\ UNCHANGED <<mapping, event, report, attempts, runVars, envVars>>

-----------------------------------------------------------------------------
(* Publishing the report *)

\* The end of _publish_report_or_record_failure in a transaction that already
\* holds rows: re-check the release, record PUBLICATION SUCCEEDED, re-check at
\* the recorded clock (which may have passed the window meanwhile).
ConfirmWith(w, e, rows) ==
    \/ /\ PublicationGate(e) # "open"
       /\ GotoFor(w, "fail", PublicationGate(e))
       /\ UNCHANGED <<evStage, windowOpen>>
    \/ /\ PublicationGate(e) = "open"
       /\ evStage' = [rows EXCEPT ![e] = @ \cup {"PUBLISHED"}]
       /\ Return(w, StatusIn(rows, e))
       /\ UNCHANGED windowOpen
    \/ /\ PublicationGate(e) = "open"
       /\ Gated(e)
       /\ "PUBLISHED" \notin rows[e]
       /\ windowOpen' = [windowOpen EXCEPT ![e[1]] = FALSE]
       /\ GotoFor(w, "fail", "LATE")
       /\ UNCHANGED evStage

\* A SHADOW result is committed and never becomes a user report.
Isolated(o) == KindOf[o] = "shadow"

\* publish_report after ensure_event_stage_results. The rows without an event
\* id were stored with the event, so only the event's own rows can be missing.
PublishWith(w, e) ==
    \/ /\ Isolated(e[1])
       /\ evStage' = [Backfilled(e) EXCEPT ![e] = @ \cup {"SHADOW_ISOLATED"}]
       /\ Return(w, IF job[w].op = "run" THEN "UNPUBLISHED" ELSE "ERROR")
       /\ UNCHANGED <<report, windowOpen>>
    \/ /\ ~Isolated(e[1])
       /\ e \in report
       /\ ConfirmWith(w, e, Backfilled(e))
       /\ UNCHANGED report
    \/ /\ ~Isolated(e[1])
       /\ e \notin report
       /\ \E ack \in Acks :
            /\ IF ack \in Durable
               THEN report' = report \cup {e} /\ evStage' = Backfilled(e)
               ELSE UNCHANGED <<report, evStage>>
            /\ CASE ack = "acked" -> Goto(w, "confirm")
                 [] ack = "refused" -> GotoFor(w, "fail", "PUBLICATION_FAILED")
                 [] OTHER -> Goto(w, "verifyReport")
       /\ UNCHANGED windowOpen

\* The last transaction of _run_frozen_decision_case, and the second half of
\* a correction.
Publish(w) ==
    LET e == Target(w) IN
    /\ At(w, "publish")
    /\ \/ /\ job[w].op = "run" /\ Visible(e)
          /\ Return(w, ShownAs(e))
          /\ UNCHANGED <<evStage, report, windowOpen>>
       \/ /\ ~ (job[w].op = "run" /\ Visible(e))
          /\ PublishWith(w, e)
    /\ UNCHANGED <<mapping, stage, event, attempts, runVars, qual>>

\* reconcile_report_commit: a fresh read outside the write lock.
Bug_TrustLostReport(w) ==
    /\ At(w, "verifyReport")
    /\ Goto(w, "confirm")
    /\ UNCHANGED <<dbVars, runVars, envVars>>
VerifyReport(w) ==
    /\ At(w, "verifyReport")
    /\ IF Target(w) \in report THEN Goto(w, "confirm")
       ELSE GotoFor(w, "fail", "PUBLICATION_UNKNOWN")
    /\ UNCHANGED <<dbVars, runVars, envVars>>

Confirm(w) ==
    /\ At(w, "confirm")
    /\ ConfirmWith(w, Target(w), evStage)
    /\ UNCHANGED <<mapping, stage, event, report, attempts, runVars, qual>>

\* _record_publication_failure after its rollback: backfill, then the failure.
Bug_FailureNotSaved(w) ==
    /\ At(w, "fail")
    /\ Return(w, IF job[w].why \in Closures THEN "CLOSED_FAILED" ELSE "UNPUBLISHED")
    /\ UNCHANGED <<dbVars, runVars, envVars>>
RecordPublicationFailure(w) ==
    LET e == Target(w)
        rows == [Backfilled(e) EXCEPT ![e] = @ \cup {job[w].why}] IN
    /\ At(w, "fail")
    /\ evStage' = rows
    /\ Return(w, IF VisibleIn(rows, e) /\ StatusIn(rows, e) = "CLOSED_FAILED"
                    /\ job[w].why \in Closures
                 THEN "CLOSED_FAILED"
                 ELSE IF job[w].op = "run" THEN "UNPUBLISHED" ELSE "ERROR")
    /\ UNCHANGED <<mapping, stage, event, report, attempts, runVars, envVars>>

-----------------------------------------------------------------------------
(* Corrections and notifications *)

\* Both need the original report readable, not merely its event committed.
Bug_CommittedIsEnough(o) == event[Original(o)] # None
Correctable(o) == Visible(Original(o))

\* correct_default_frozen_decision_case: at most one correction of a visible
\* original; an existing one is published again in the same transaction.
Correct(w) ==
    LET o == job[w].obj
        e == Correction(o) IN
    /\ At(w, "correct")
    /\ \/ /\ ~Correctable(o)
          /\ Return(w, "ERROR")
          /\ UNCHANGED <<event, evStage, report, windowOpen>>
       \/ /\ Correctable(o)
          /\ event[e] # None
          /\ PublishWith(w, e)
          /\ UNCHANGED event
       \/ /\ Correctable(o)
          /\ event[e] = None
          /\ \E ack \in Acks :
               /\ event' = IF ack \in Durable
                           THEN [event EXCEPT ![e] = [by |-> w, pay |-> event[Original(o)].pay,
                                                      disp |-> event[Original(o)].disp,
                                                      trail |-> {}]]
                           ELSE event
               /\ AfterCommit(w, ack)
          /\ UNCHANGED <<evStage, report, windowOpen>>
    /\ UNCHANGED <<mapping, stage, attempts, runVars, qual>>

\* retry_default_frozen_decision_case_notification.
Notify(w) ==
    LET o == job[w].obj
        e == Original(o) IN
    /\ At(w, "notify")
    /\ IF Visible(e)
       THEN /\ \E s \in {"SUCCEEDED", "FAILED"} :
                 attempts' = [attempts EXCEPT ![o] = Append(@, s)]
            /\ evStage' = [evStage EXCEPT ![e] = @ \cup {"NOTIFIED"}]
            /\ Return(w, "NOTIFIED")
       ELSE Return(w, "ERROR") /\ UNCHANGED <<attempts, evStage>>
    /\ UNCHANGED <<mapping, stage, event, report, runVars, envVars>>

-----------------------------------------------------------------------------
(* The environment *)

\* A worker dies between two steps; its M-Agent lease outlives it.
Crash(w) ==
    /\ "crash" \in Faults
    /\ ~At(w, "idle")
    /\ job' = [job EXCEPT ![w] = Idle(@, "none")]
    /\ UNCHANGED <<dbVars, runVars, envVars>>

LeaseExpires(o) ==
    /\ lease[o] # None
    /\ ~ (job[lease[o]].pc = "drive" /\ job[lease[o]].obj = o)
    /\ lease' = [lease EXCEPT ![o] = None]
    /\ UNCHANGED <<dbVars, run, output, envVars, job>>

\* The Run store is replaced while nothing runs.
LoseRun(o) ==
    /\ "lose_run" \in Faults
    /\ \A w \in Workers : At(w, "idle")
    /\ run[o] # "absent"
    /\ run' = [run EXCEPT ![o] = "absent"]
    /\ output' = [output EXCEPT ![o] = "none"]
    /\ lease' = [lease EXCEPT ![o] = None]
    /\ UNCHANGED <<dbVars, envVars, job>>

\* The release window closes; governance moves the qualification.
CloseWindow(o) ==
    /\ KindOf[o] = "release" /\ windowOpen[o]
    /\ windowOpen' = [windowOpen EXCEPT ![o] = FALSE]
    /\ UNCHANGED <<dbVars, runVars, qual, job>>

QualMoves == {<<"VALID", "AT_RISK">>, <<"AT_RISK", "VALID">>, <<"VALID", "LAPSED">>,
              <<"AT_RISK", "LAPSED">>, <<"LAPSED", "RESTORED">>, <<"RESTORED", "LAPSED">>}
             \cup {<<q, "MISMATCH">> : q \in Quals \ {"MISMATCH"}}

Govern(o) ==
    /\ KindOf[o] = "release"
    /\ \E q \in Quals : /\ <<qual[o], q>> \in QualMoves
                        /\ qual' = [qual EXCEPT ![o] = q]
    /\ UNCHANGED <<dbVars, runVars, windowOpen, job>>

Step(w) ==
    \/ Validate(w) \/ Lookup(w) \/ Adopt(w) \/ Persist(w) \/ Check(w) \/ Enter(w)
    \/ Probe(w) \/ CreateRun(w) \/ RecordCreated(w) \/ Observe(w) \/ StartOrResume(w)
    \/ Drive(w) \/ RecordRan(w) \/ Converge(w) \/ ConvergeTimeout(w)
    \/ Commit(w) \/ VerifyCommit(w) \/ SettleCommit(w)
    \/ Publish(w) \/ VerifyReport(w) \/ Confirm(w) \/ RecordPublicationFailure(w)
    \/ Correct(w) \/ Notify(w)

Next ==
    \/ \E w \in Workers, op \in Ops, o \in Objects, p \in Payloads : Submit(w, op, o, p)
    \/ \E w \in Workers : Step(w) \/ Crash(w)
    \/ \E o \in Objects : LeaseExpires(o) \/ LoseRun(o) \/ CloseWindow(o) \/ Govern(o)

Spec == Init /\ [][Next]_vars

\* A worker that is not killed goes on: threads are scheduled, SQLite's busy
\* timeout bounds every wait for the write lock, and the convergence loop has
\* a deadline. Nothing is assumed of the environment.
FairSpec == Spec /\ \A w \in Workers : WF_vars(Step(w))

-----------------------------------------------------------------------------
(* Safety *)

\* A report anyone can read is backed by a committed event of a non-shadow
\* object, frozen from the payload the mapping holds, with every stage row it
\* was decided on durable.
VisibleIsCommitted ==
    \A e \in Events : Visible(e) =>
        /\ event[e] # None
        /\ KindOf[e[1]] # "shadow"
        /\ event[e].pay = mapping[e[1]].pay
        /\ event[e].trail \subseteq stage[e[1]]

\* Whatever two processes do, a committed event is never written again.
EventsAreFinal ==
    [][\A e \in Events : event[e] # None => event'[e] = event[e]]_vars

\* A commit whose outcome is unknown or failed never costs the evidence that
\* led to it, although the rollback discarded that evidence.
EvidenceRestored ==
    \A o \in Objects : stage[o] \cap {"COMMIT_UNKNOWN", "COMMIT_FAILED"} # {}
        => Precommit \subseteq stage[o]

\* A correction exists, and a notification was attempted, only for an original
\* report that is still readable.
FollowsVisibleOriginal ==
    \A o \in Objects : (event[Correction(o)] # None \/ attempts[o] # <<>>)
        => Visible(Original(o))

\* A release is newly published only while its window is open at the recorded
\* clock; one that offers candidates only while its qualification stands.
PublishedInsideGate ==
    [][\A o \in Objects : LET e == Original(o) IN
         (/\ KindOf[o] = "release"
          /\ event[e] # None
          /\ event[e].disp \in {"CANDIDATES", "ABSTAINED"}
          /\ "PUBLISHED" \in evStage'[e] \ evStage[e])
         => /\ windowOpen'[o]
            /\ qual'[o] # "MISMATCH"
            /\ event[e].disp = "CANDIDATES" => qual'[o] # "LAPSED"]_vars

\* What a caller was told is in the ledger.
AnswersAreTrue ==
    \A w \in Workers :
        LET o == job[w].obj IN
        /\ job[w].told = "PUBLISHED" => Visible(Target(w))
        /\ job[w].told = "CLOSED_FAILED" => ShownAs(Target(w)) = "CLOSED_FAILED"
        /\ job[w].told = "UNPUBLISHED" => event[Target(w)] # None
        /\ job[w].told \in {"COMMIT_UNKNOWN", "COMMIT_FAILED"} => job[w].told \in stage[o]

\* A readable report that was published stays published: candidate-workspace.md
\* says the original commit and publication are preserved.
PublishedIsPreserved ==
    [][\A e \in Events : ShownAs(e) = "PUBLISHED" => ShownAs(e)' = "PUBLISHED"]_vars

-----------------------------------------------------------------------------
(* Refinement *)

\* Seen from outside, an identity's record only ever moves from absent through
\* committed to shown, and a correction only follows a shown original.
Record == INSTANCE FormalRecord WITH
    Hidden <- {o \in Objects : KindOf[o] = "shadow"},
    state <- [e \in Events |-> IF Visible(e) THEN "shown"
                               ELSE IF event[e] # None THEN "committed" ELSE "absent"]
RefinesFormalRecord == Record!Spec

-----------------------------------------------------------------------------
(* Liveness *)

\* Every request is answered.
EveryRequestReturns == \A w \in Workers : ~At(w, "idle") ~> At(w, "idle")

\* A worker that reaches publication leaves a saved publication verdict, unless
\* it dies and its caller is told nothing.
Verdicts == Closures \cup {"PUBLISHED", "SHADOW_ISOLATED", "PUBLICATION_FAILED",
                           "PUBLICATION_UNKNOWN"}
PublicationIsDecided ==
    \A w \in Workers, e \in Events :
        (At(w, "publish") /\ Target(w) = e)
            ~> (evStage[e] \cap Verdicts # {} \/ (At(w, "idle") /\ job[w].told = "none"))
=============================================================================
