--------------------------- MODULE ResearchJourney ---------------------------
(***************************************************************************)
(* One fixed-cohort research case: execute_research_risk_journey and       *)
(* _commit_research_framework_result of modules/decision_cases/service.py  *)
(* over the Runs of adapters/m_agent/frozen_decision_case.py and the pure  *)
(* checks of modules/research.                                             *)
(*                                                                         *)
(* Every cohort member has a durable M-Agent Run of its own. When all have *)
(* succeeded, the raw scores are saved, and an independent risk Run whose  *)
(* identity is a digest of the whole handoff decides the veto. The ledger  *)
(* and the Run store do not share a transaction, so every read or write of *)
(* either store is a step of its own, a worker may crash between any two,  *)
(* and several processes may run the same case. Publication of the         *)
(* committed event is the business of DecisionJourney.                     *)
(*                                                                         *)
(* A draft stands for everything the handoff digest covers of one member:  *)
(* its text, its references and the tool evidence of its Run. Workers are  *)
(* threads of different processes; threads of one process are serialised   *)
(* by _serialize_local_framework_execution.                                *)
(***************************************************************************)
EXTENDS Naturals, Sequences, FiniteSets

CONSTANTS
    Workers,      \* processes that run the case
    Size,         \* cohort size (ten in the program)
    Stages,       \* context stages of a member Run (four in the program)
    Drafts,       \* drafts a member Run can produce
    Commands,     \* the frozen commands the instance starts from
    Faults,       \* "crash", "refused" (event insert rolls back), "lose_run"
    MaxAttempts,  \* bound on requests
    None

\* research_contract_mode_for_versions
Modes == {"current", "historical", "legacy"}

CommandSet == [mode : Modes,
               failure_mode : {"NONE", "DATA", "RESEARCH", "RAW_SCORE", "RISK"},
               incomplete : SUBSET (1..Size),  \* required facts missing
               rejected : SUBSET (1..Size),    \* what the risk Definition rejects
               trained : BOOLEAN]              \* has_sufficient_training_evidence

ASSUME ConstantsAssumption ==
    /\ Size \in Nat \ {0}
    /\ Stages \in Nat \ {0}
    /\ Commands \subseteq CommandSet
    /\ Faults \subseteq {"crash", "refused", "lose_run"}
    /\ MaxAttempts \in Nat
    /\ None \notin Drafts \cup Workers

VARIABLES
    command,    \* case.research, frozen with the mapping
    selection,  \* the upstream selection event the command names
    run,        \* the M-Agent Run store
    rows,       \* decision_stage_events: <<Run identity, tag>>
    event,      \* the committed research event
    attempts,   \* requests so far
    job         \* what each worker is doing

vars == <<command, selection, run, rows, event, attempts, job>>

-----------------------------------------------------------------------------
(* Identities *)

\* A legacy case has one aggregate Run instead of one per member.
Cohort == IF command.mode = "legacy" THEN 1..1 ELSE 1..Size

\* research_member_run_id; the first member owns the case's framework Run.
Member(i) == <<"member", i>>
Primary == Member(1)

\* risk_run_id_for: a digest of the drafts, scores and member handoffs.
Handoffs == [1..1 -> Drafts] \cup [1..Size -> Drafts]
Risk(h) == <<"risk", h>>
RunIds == {Member(i) : i \in 1..Size} \cup {Risk(h) : h \in Handoffs}
IsRisk(r) == r[1] = "risk"

Terminal == {"SUCCEEDED", "REJECTED", "FAILED"}
Statuses == {"absent", "CREATED", "RUNNING", "WAITING"} \cup Terminal
Outputs == Drafts \cup {"ACCEPTED", "REJECTED", "invalid", None}
Runs == [st : Statuses, stage : 0..Stages, out : Outputs, lease : Workers \cup {None}]
Absent == [st |-> "absent", stage |-> 0, out |-> None, lease |-> None]

RunTag(r) == IF IsRisk(r) THEN "RISK_FRAMEWORK_RUN" ELSE "FRAMEWORK_RUN"
CaseTags == {"RESEARCH_FAILED", "RESEARCH", "RAW_SCORE", "RAW_SCORE_FAILED", "RISK_VETO",
             "RISK_FAILED", "INVALID", "VALIDATED", "DECIDED", "COMMIT_FAILED"}
Tags == CaseTags \cup {"RESERVED", "FRAMEWORK_RUN", "RISK_FRAMEWORK_RUN"}

Saved(tags) == {<<Primary, t>> : t \in tags}
Observed(r) == <<r, RunTag(r)>> \in rows

Results == [st : {"SUCCEEDED", "FAILED", "WAITING"}, draft : Drafts \cup {None}]
ResearchOutcomes == [draft : Handoffs, disposition : {"FROZEN", "REJECTED"}]
Pcs == {"idle", "enter", "probe", "reserve", "register", "create", "created", "observe",
        "resume", "drive", "ran", "converge", "missing", "score", "commit", "settle"}
Jobs == [pc : Pcs, i : 1..(Size + 1), rec : BOOLEAN, allow : BOOLEAN, existed : BOOLEAN,
         got : Statuses \X Outputs, res : Seq(Results)]
NoJob == [pc |-> "idle", i |-> 1, rec |-> FALSE, allow |-> FALSE, existed |-> TRUE,
          got |-> <<"absent", None>>, res |-> <<>>]

TypeOK ==
    /\ command \in Commands
    /\ selection \in {"missing", "frozen", "unusable"}
    /\ run \in [RunIds -> Runs]
    /\ rows \subseteq RunIds \X Tags
    /\ event \in ResearchOutcomes \cup {None}
    /\ attempts \in 0..MaxAttempts
    /\ job \in [Workers -> Jobs]

\* A historical or legacy case was left behind by an earlier build, with its
\* first Run created and observed.
Init ==
    /\ command \in Commands
    /\ selection = IF command.mode = "current" THEN "missing" ELSE "frozen"
    /\ run = [r \in RunIds |-> IF command.mode # "current" /\ r = Primary
                               THEN [Absent EXCEPT !.st = "CREATED"] ELSE Absent]
    /\ rows = IF command.mode = "current" THEN {} ELSE Saved({"FRAMEWORK_RUN"})
    /\ event = None
    /\ attempts = 0
    /\ job = [w \in Workers |-> NoJob]

At(w, l) == job[w].pc = l
Goto(w, l) == job' = [job EXCEPT ![w].pc = l]
Return(w) == job' = [job EXCEPT ![w] = NoJob]

\* The Run this worker is busy with: its next member, then the risk Run of
\* the handoff it has collected.
HandoffOf(w) == [i \in Cohort |-> job[w].res[i].draft]
RunOf(w) == IF job[w].i \in Cohort THEN Member(job[w].i) ELSE Risk(HandoffOf(w))

-----------------------------------------------------------------------------
(* The request *)

CommitSelection(s) ==
    /\ selection = "missing"
    /\ selection' = s
    /\ UNCHANGED <<command, run, rows, event, attempts, job>>

Submit(w) ==
    /\ At(w, "idle")
    /\ attempts < MaxAttempts
    /\ attempts' = attempts + 1
    /\ Goto(w, "enter")
    /\ UNCHANGED <<command, selection, run, rows, event>>

\* A Run the host has observed for the object, under any identity, must be
\* recovered; _validate_research_selection_event closes the request while the
\* upstream selection is not the frozen one.
Enter(w) ==
    /\ At(w, "enter")
    /\ \/ /\ event # None
          /\ Return(w)
          /\ UNCHANGED rows
       \/ /\ event = None
          /\ selection # "frozen"
          /\ rows' = rows \cup Saved({"RESEARCH_FAILED", "INVALID"})
          /\ Return(w)
       \/ /\ event = None
          /\ selection = "frozen"
          /\ job' = [job EXCEPT ![w] = [@ EXCEPT !.pc = "probe",
                        !.rec = \E r \in RunIds : <<r, "FRAMEWORK_RUN">> \in rows]]
          /\ UNCHANGED rows
    /\ UNCHANGED <<command, selection, run, event, attempts>>

-----------------------------------------------------------------------------
(* One durable Run: execute_research_member_run, execute_research_risk_run and *)
(* the _execute_registered_run they share                                      *)

\* Whether a missing Run may be created at all.
MayCreate(w) ==
    \/ IsRisk(RunOf(w))
    \/ command.mode = "current" /\ (job[w].rec => job[w].i > 1)
    \/ command.mode = "historical" /\ job[w].rec

\* A missing risk Run needs a reservation once every member Run existed
\* before this attempt; a missing member Run always needs one.
NeedsReservation(w) == IF IsRisk(RunOf(w)) THEN job[w].existed ELSE MayCreate(w)

Probe(w) ==
    LET absent == run[RunOf(w)].st = "absent" IN
    /\ At(w, "probe")
    /\ job' = [job EXCEPT ![w] = [@ EXCEPT
                  !.allow = MayCreate(w),
                  !.existed = job[w].existed /\ (IsRisk(RunOf(w)) \/ ~absent),
                  !.pc = IF absent /\ NeedsReservation(w) THEN "reserve" ELSE "register"]]
    /\ UNCHANGED <<command, selection, run, rows, event, attempts>>

\* _record_research_member_run_reservation, _record_auxiliary_run_reservation:
\* a Run whose execution the host has observed is not reserved again.
ReservableAgain(r) == TRUE
Reservable(r) == ~Observed(r)

Reserve(w) ==
    LET r == RunOf(w) IN
    /\ At(w, "reserve")
    /\ rows' = IF Reservable(r) THEN rows \cup {<<r, "RESERVED">>} ELSE rows
    /\ job' = [job EXCEPT ![w] = [@ EXCEPT !.pc = "register", !.allow = Reservable(r)]]
    /\ UNCHANGED <<command, selection, run, event, attempts>>

Register(w) ==
    /\ At(w, "register")
    /\ Goto(w, IF run[RunOf(w)].st # "absent" THEN "observe"
               ELSE IF job[w].allow THEN "create" ELSE "missing")
    /\ UNCHANGED <<command, selection, run, rows, event, attempts>>

\* A duplicate identity means another process got there first.
Create(w) ==
    LET r == RunOf(w) IN
    /\ At(w, "create")
    /\ IF run[r].st = "absent"
       THEN run' = [run EXCEPT ![r].st = "CREATED"] /\ Goto(w, "created")
       ELSE UNCHANGED run /\ Goto(w, "converge")
    /\ UNCHANGED <<command, selection, rows, event, attempts>>

RecordCreated(w) ==
    /\ At(w, "created")
    /\ rows' = rows \cup {<<RunOf(w), RunTag(RunOf(w))>>}
    /\ Goto(w, "resume")
    /\ UNCHANGED <<command, selection, run, event, attempts>>

\* The next thing to do with a settled result: the next member, the raw
\* scores, or the commit.
UnparsedResult(st, out) == [st |-> "SUCCEEDED", draft |-> out]
\* validate_research_draft: identities, provenance and cutoff are the frozen ones.
DraftValid(out) == out \in Drafts
MemberResult(st, out) ==
    IF st = "WAITING" THEN [st |-> "WAITING", draft |-> None]
    ELSE IF st = "SUCCEEDED" /\ DraftValid(out) THEN [st |-> "SUCCEEDED", draft |-> out]
    ELSE [st |-> "FAILED", draft |-> None]
Aggregate(res) ==
    IF \E k \in DOMAIN res : res[k].st = "FAILED" THEN "FAILED"
    ELSE IF \E k \in DOMAIN res : res[k].st = "WAITING" THEN "WAITING"
    ELSE "SUCCEEDED"

\* freeze_raw_score for every member; a failure ends the journey before risk.
RawScoreFails == command.failure_mode = "RAW_SCORE" \/ ~command.trained

Collect(w, st, out) ==
    LET res == Append(job[w].res, MemberResult(st, out)) IN
    IF IsRisk(RunOf(w))
    THEN job' = [job EXCEPT ![w] = [@ EXCEPT !.pc = "commit", !.got = <<st, out>>]]
    ELSE job' = [job EXCEPT ![w] = [@ EXCEPT
                    !.res = res, !.i = job[w].i + 1, !.got = <<"absent", None>>,
                    !.pc = IF job[w].i + 1 \in Cohort THEN "probe"
                           ELSE IF Aggregate(res) = "SUCCEEDED" /\ ~RawScoreFails
                           THEN "score" ELSE "commit"]]

\* The Run exists: its state is recorded, a terminal one is final.
IsTerminal(st) == st \in Terminal

Observe(w) ==
    LET r == RunOf(w) IN
    /\ At(w, "observe")
    /\ run[r].st # "absent"
    /\ rows' = rows \cup {<<r, RunTag(r)>>}
    /\ IF IsTerminal(run[r].st) THEN Collect(w, run[r].st, run[r].out) ELSE Goto(w, "resume")
    /\ UNCHANGED <<command, selection, run, event, attempts>>

\* start_run and resume_run take the lease or fail.
Resume(w) ==
    LET r == RunOf(w) IN
    /\ At(w, "resume")
    /\ IF run[r].lease = None /\ ~IsTerminal(run[r].st)
       THEN /\ run' = [run EXCEPT ![r] = [@ EXCEPT !.st = "RUNNING", !.lease = w]]
            /\ Goto(w, "drive")
       ELSE UNCHANGED run /\ Goto(w, "converge")
    /\ UNCHANGED <<command, selection, rows, event, attempts>>

\* _recover_registered_run: adopt what the other process made of the Run, take
\* over a free lease, or give up at the lease deadline.
Converge(w) ==
    LET r == RunOf(w) IN
    /\ At(w, "converge")
    /\ \/ /\ run[r].st \in Terminal \cup {"WAITING"}
          /\ rows' = rows \cup {<<r, RunTag(r)>>}
          /\ Collect(w, run[r].st, run[r].out)
          /\ UNCHANGED run
       \/ /\ run[r].st \in {"CREATED", "RUNNING"}
          /\ run[r].lease = None
          /\ run' = [run EXCEPT ![r] = [@ EXCEPT !.st = "RUNNING", !.lease = w]]
          /\ Goto(w, "drive")
          /\ UNCHANGED rows
    /\ UNCHANGED <<command, selection, event, attempts>>

NoDeadline(w) == FALSE
Deadline(w) == At(w, "converge") /\ run[RunOf(w)].st \notin Terminal \cup {"WAITING"}

ConvergeTimeout(w) ==
    /\ Deadline(w)
    /\ Goto(w, "missing")
    /\ UNCHANGED <<command, selection, run, rows, event, attempts>>

\* What the Run's own code leaves it with: a provider that lacks required
\* facts fails the Run, the framework may fail or suspend it, an output may
\* break the draft contract ("invalid"), and the risk policy turns a rejecting
\* verdict into the terminal status.
Disposition == IF command.rejected = {} THEN "ACCEPTED" ELSE "REJECTED"
Verdict == <<IF Disposition = "REJECTED" THEN "REJECTED" ELSE "SUCCEEDED", Disposition>>
DraftEndings == IF command.failure_mode = "RESEARCH" THEN {}
                ELSE {<<"SUCCEEDED", d>> : d \in Drafts \cup {"invalid"}}
Endings(r) ==
    {<<"FAILED", None>>, <<"WAITING", None>>} \cup
    IF ~IsRisk(r) THEN DraftEndings
    ELSE IF command.failure_mode = "RISK" THEN {} ELSE {Verdict}

FactsIncomplete(r) == /\ ~IsRisk(r)
                      /\ \/ command.failure_mode = "DATA"
                         \/ r[2] \in command.incomplete
                         \/ command.mode = "legacy" /\ command.incomplete # {}

\* One context stage consumes the checkpoint of the stage before it.
NextStage(w) ==
    LET r == RunOf(w) IN
    /\ At(w, "drive")
    /\ ~IsRisk(r)
    /\ ~FactsIncomplete(r)
    /\ run[r].stage < Stages
    /\ run' = [run EXCEPT ![r].stage = @ + 1]
    /\ UNCHANGED <<command, selection, rows, event, attempts, job>>

Finish(w) ==
    LET r == RunOf(w) IN
    /\ At(w, "drive")
    /\ \E e \in IF FactsIncomplete(r) THEN {<<"FAILED", None>>} ELSE Endings(r) :
         /\ IsRisk(r) \/ FactsIncomplete(r) \/ run[r].stage = Stages
         /\ run' = [run EXCEPT ![r] = [@ EXCEPT !.st = e[1], !.out = e[2], !.lease = None]]
         /\ job' = [job EXCEPT ![w] = [@ EXCEPT !.pc = "ran", !.got = e]]
    /\ UNCHANGED <<command, selection, rows, event, attempts>>

RecordRan(w) ==
    /\ At(w, "ran")
    /\ rows' = rows \cup {<<RunOf(w), RunTag(RunOf(w))>>}
    /\ Collect(w, job[w].got[1], job[w].got[2])
    /\ UNCHANGED <<command, selection, run, event, attempts>>

\* MappedDurableRunMissingError or ValueError. The first member's failure
\* fails the whole research Run and is saved by the commit transaction; a
\* later member's is saved at once and the cohort goes on.
Missing(w) ==
    /\ At(w, "missing")
    /\ IF IsRisk(RunOf(w))
       THEN Collect(w, "FAILED", None) /\ UNCHANGED rows
       ELSE IF job[w].res = <<>>
       THEN /\ job' = [job EXCEPT ![w] = [@ EXCEPT !.pc = "commit",
                          !.res = <<MemberResult("FAILED", None)>>]]
            /\ UNCHANGED rows
       ELSE /\ rows' = rows \cup {<<RunOf(w), RunTag(RunOf(w))>>}
            /\ Collect(w, "FAILED", None)
    /\ UNCHANGED <<command, selection, run, event, attempts>>

-----------------------------------------------------------------------------
(* The handoff and the commit *)

\* _record_raw_score_checkpoint, before the risk Run can start or fail.
ScoreSaved == rows \cup Saved({"RAW_SCORE"})

Score(w) ==
    /\ At(w, "score")
    /\ rows' = ScoreSaved
    /\ Goto(w, "probe")
    /\ UNCHANGED <<command, selection, run, event, attempts>>

RanRisk(w) == job[w].i \notin Cohort /\ job[w].got[1] # "absent"

\* The rows of the commit transaction: the final status of the research Run,
\* the risk Run's own history, and what the host made of them.
RunRows(w) == Saved({"FRAMEWORK_RUN"}) \cup
              IF RanRisk(w) THEN {<<RunOf(w), "RISK_FRAMEWORK_RUN">>} ELSE {}

\* A decision for every member, each as its gates say.
TypedVeto(out) == out \in {"ACCEPTED", "REJECTED"}

\* The veto must be a typed verdict of a Run that ended as the verdict says.
VetoOfAnyRun(w) == job[w].got[1] \in Terminal
VetoValid(w) == /\ TypedVeto(job[w].got[2])
                /\ job[w].got[1] \in {"SUCCEEDED", "REJECTED"}
                /\ job[w].got[1] = "REJECTED" => job[w].got[2] = "REJECTED"

Closing(w) ==
    IF Aggregate(job[w].res) = "WAITING" THEN {}
    ELSE IF Aggregate(job[w].res) = "FAILED" THEN {"RESEARCH_FAILED"}
    ELSE IF RawScoreFails THEN {"RESEARCH", "RAW_SCORE_FAILED", "INVALID"}
    ELSE IF job[w].got[1] = "WAITING" THEN {"RESEARCH", "RAW_SCORE"}
    ELSE {"RESEARCH", "RAW_SCORE", "RISK_FAILED", "INVALID"}

Committable(w) == /\ Aggregate(job[w].res) = "SUCCEEDED"
                  /\ RanRisk(w)
                  /\ VetoValid(w)

Precommit == {"RESEARCH", "RAW_SCORE", "RISK_VETO", "VALIDATED", "DECIDED"}

\* freeze_research
Frozen(w) == [draft |-> HandoffOf(w),
              disposition |-> IF job[w].got[2] = "REJECTED" THEN "REJECTED" ELSE "FROZEN"]

Commit(w) ==
    /\ At(w, "commit")
    /\ \/ /\ event # None
          /\ Return(w)
          /\ UNCHANGED <<rows, event>>
       \/ /\ event = None
          /\ ~Committable(w)
          /\ rows' = rows \cup RunRows(w) \cup Saved(Closing(w))
          /\ Return(w)
          /\ UNCHANGED event
       \/ /\ event = None
          /\ Committable(w)
          /\ rows' = rows \cup RunRows(w) \cup Saved(Precommit)
          /\ event' = Frozen(w)
          /\ Return(w)
       \/ /\ event = None
          /\ Committable(w)
          /\ "refused" \in Faults
          /\ Goto(w, "settle")
          /\ UNCHANGED <<rows, event>>
    /\ UNCHANGED <<command, selection, run, attempts>>

\* The insert was rolled back with its transaction: adopt an event another
\* process has committed since, or write the lost evidence again.
Restored(w) == RunRows(w) \cup Saved(Precommit)

Settle(w) ==
    /\ At(w, "settle")
    /\ IF event # None
       THEN Return(w) /\ UNCHANGED rows
       ELSE /\ rows' = rows \cup Restored(w) \cup Saved({"COMMIT_FAILED"})
            /\ Return(w)
    /\ UNCHANGED <<command, selection, run, event, attempts>>

-----------------------------------------------------------------------------
(* Faults *)

\* The lease of a dead worker expires.
Crash(w) ==
    /\ "crash" \in Faults
    /\ ~At(w, "idle")
    /\ job' = [job EXCEPT ![w] = NoJob]
    /\ run' = [r \in RunIds |-> IF run[r].lease = w THEN [run[r] EXCEPT !.lease = None] ELSE run[r]]
    /\ UNCHANGED <<command, selection, rows, event, attempts>>

\* The Run store is replaced by an older copy while no process is running.
LoseRun(r) ==
    /\ "lose_run" \in Faults
    /\ \A w \in Workers : At(w, "idle")
    /\ run[r].st # "absent"
    /\ run' = [run EXCEPT ![r] = Absent]
    /\ UNCHANGED <<command, selection, rows, event, attempts, job>>

HostStep(w) ==
    \/ Enter(w) \/ Probe(w) \/ Reserve(w) \/ Register(w) \/ Create(w) \/ RecordCreated(w)
    \/ Observe(w) \/ Resume(w) \/ Converge(w) \/ ConvergeTimeout(w) \/ RecordRan(w)
    \/ Missing(w) \/ Score(w) \/ Commit(w) \/ Settle(w)

Next ==
    \/ \E s \in {"frozen", "unusable"} : CommitSelection(s)
    \/ \E w \in Workers : Submit(w) \/ HostStep(w) \/ NextStage(w) \/ Finish(w) \/ Crash(w)
    \/ \E r \in RunIds : LoseRun(r)

\* The host's own steps are taken; a model or a context provider may never
\* answer.
Spec == Init /\ [][Next]_vars /\ \A w \in Workers : WF_vars(HostStep(w))

-----------------------------------------------------------------------------
(* Properties *)

\* A committed outcome rests on the whole cohort and on one verdict about
\* exactly that cohort: every member Run that still exists succeeded with the
\* frozen draft, the risk Run bound to those drafts ended with the verdict the
\* outcome reports, and every one of these Runs has a history in the ledger
\* (freeze_research, execute_research_member_runs).
CommittedIsVetted == event # None =>
    LET k == Risk(event.draft) IN
    /\ \A i \in Cohort : /\ run[Member(i)].st \in {"absent", "SUCCEEDED"}
                         /\ run[Member(i)].st = "SUCCEEDED" => run[Member(i)].out = event.draft[i]
                         /\ Observed(Member(i))
    /\ Observed(k)
    /\ run[k].st # "absent" =>
         run[k].st = IF event.disposition = "FROZEN" THEN "SUCCEEDED" ELSE "REJECTED"

\* Raw scores are durable before an independent risk Run can start or fail,
\* whichever process computed them and wherever it crashed.
ScoredBeforeRisk == \A r \in RunIds : IsRisk(r) /\ run[r].st # "absent" => <<Primary, "RAW_SCORE">> \in rows

\* One cohort is put to one risk Run: retries, concurrent processes and
\* crashes never produce a second handoff identity.
OneHandoff == \A h, k \in Handoffs : Observed(Risk(h)) /\ Observed(Risk(k)) => h = k

\* A failed commit loses no evidence: the research, score, risk and validation
\* rows and the risk Run's history are all back in the ledger.
EvidenceRestored == <<Primary, "COMMIT_FAILED">> \in rows =>
    /\ Saved(Precommit) \subseteq rows
    /\ \E h \in Handoffs : Observed(Risk(h))

\* What one cohort leaves in the ledger is whole and in order: its scores
\* before its risk Run, one handoff, an outcome that rests on all of it, and
\* no evidence lost with a commit.
EvidenceIsWhole == CommittedIsVetted /\ ScoredBeforeRisk /\ OneHandoff /\ EvidenceRestored

\* A Run whose execution the host has observed is never created a second
\* time, even when the Run store has lost it.
RunNotReplaced == [][\A r \in RunIds :
    run[r].st = "absent" /\ run'[r].st # "absent" => ~Observed(r)]_vars

\* A request waits for nothing but the Run it drives itself: a Run that
\* another process holds, even for ever, does not hold it up
\* (_recover_registered_run).
OnlyOwnRunBlocks == \A w \in Workers :
    job[w].pc # "idle" ~> job[w].pc \in {"idle", "drive"}
=============================================================================
