--------------------------- MODULE SchemaMigrations ---------------------------
(***************************************************************************)
(* The application database under its Alembic migrations 0003 to 0007,     *)
(* upward and downward, interrupted at any statement and started again,    *)
(* with the application appending facts whenever it finds its own revision *)
(* (migrations/versions, adapters/persistence/runtime_ownership.py).       *)
(*                                                                         *)
(* SQLite does not roll DDL back, so an interruption leaves the database   *)
(* as it was after some statement, not necessarily the last one that ran.  *)
(* Each statement is a step and an interruption may follow any of them,    *)
(* which covers every such state.  Migrations run while no other process   *)
(* holds the database.                                                     *)
(***************************************************************************)
EXTENDS Integers, Sequences, FiniteSets

CONSTANTS
    Legacy,     \* decision events of earlier releases, in the order committed
    Events,     \* bound: events there may be, Legacy included
    Unreadable, \* bound: legacy events and reports that may fail validation
    MaxLeft     \* bound: interrupted migrations not completed at a time

ASSUME BoundsAssumption ==
    /\ Legacy \in Seq(Events)
    /\ Unreadable \subseteq {"event", "report"} \X {Legacy[i] : i \in DOMAIN Legacy}

VARIABLES
    version,   \* alembic_version
    job,       \* the migration that runs, and its next statement
    db,        \* the tables
    left,      \* migrations interrupted and not completed since
    raised     \* why the last migration stopped: "no", "data" or "schema"

vars == <<version, job, db, left, raised>>

Oldest == 2
Newest == 7

Idle == [rev |-> 0, up |-> TRUE, at |-> "idle"]
Absent == [there |-> FALSE]

(* A table of decision events: its rows in rowid order, and whether it has *)
(* the correction column, the event sequence and its unique index, and     *)
(* the unique Run of old.                                                  *)
EventTable(lineage, rows) ==
    [there |-> TRUE, lineage |-> lineage, sequenced |-> FALSE, indexed |-> FALSE,
     rows |-> rows]

Row(e, corrects) == [event |-> e, corrects |-> corrects, seq |-> 0]

LegacyEvents == {Legacy[i] : i \in DOMAIN Legacy}

(* Rows as a table without some columns keeps them. *)
Copied(rows, lineage) ==
    [i \in DOMAIN rows |->
        Row(rows[i].event, IF lineage THEN rows[i].corrects ELSE "none")]

HasLineage == db.events.lineage

(* The exact table that permits corrections. *)
Canonical == db.events.lineage /\ ~db.events.sequenced /\ ~db.events.indexed

(* The stage rows of legacy facts whose payloads carry no stage results of *)
(* their own: those of an event, and the publication of its report.        *)
EventPhases == {"FRAMEWORK_RUN", "HOST_VALIDATION", "BUSINESS_DECISION", "BUSINESS_COMMIT"}
LegacyStages ==
    {<<db.events.rows[i].event, p>> :
        i \in {j \in DOMAIN db.events.rows : db.events.rows[j].event \notin db.staged},
        p \in EventPhases}
    \union {<<e, "PUBLICATION">> : e \in db.reported \ db.staged}

Max0(S) == IF S = {} THEN 0 ELSE CHOOSE n \in S : \A k \in S : k <= n
Sequences(t) == {t.rows[i].seq : i \in DOMAIN t.rows}

-----------------------------------------------------------------------------
(* Running a migration.                                                    *)

At(rev, up, statement) ==
    job.rev = rev /\ job.up = up /\ job.at = statement

Goto(statement) ==
    /\ job' = [job EXCEPT !.at = statement]
    /\ UNCHANGED <<version, left, raised>>

(* The migration raises; nothing of it is stamped. *)
Raise(why) ==
    /\ job' = Idle
    /\ raised' = why
    /\ UNCHANGED <<version, db, left>>

Stamp ==
    /\ job.at = "stamp"
    /\ version' = IF job.up THEN job.rev ELSE job.rev - 1
    /\ left' = left \ {<<job.rev, job.up>>}
    /\ job' = Idle
    /\ UNCHANGED <<db, raised>>

(* alembic upgrade and downgrade, one revision at a time. *)
Start(up) ==
    /\ job = Idle
    /\ IF up THEN version < Newest ELSE version > Oldest
    /\ job' = [rev |-> IF up THEN version + 1 ELSE version, up |-> up, at |-> "begin"]
    /\ raised' = "no"
    /\ UNCHANGED <<version, db, left>>

Interrupt ==
    /\ job # Idle
    /\ left' = left \union {<<job.rev, job.up>>}
    /\ Cardinality(left') <= MaxLeft
    /\ job' = Idle
    /\ UNCHANGED <<version, db, raised>>

(* A statement that creates or drops what may already be there, or gone. *)
CreateTable(t) == db' = [db EXCEPT ![t] = [there |-> TRUE, used |-> FALSE]]
DropTable(t) == db' = [db EXCEPT ![t] = Absent]

(* 0003: the table of stage results. *)
Upgrade3 ==
    /\ At(3, TRUE, "begin")
    /\ IF db.stages.there THEN UNCHANGED db
       ELSE db' = [db EXCEPT !.stages = [there |-> TRUE, rows |-> {}]]
    /\ Goto("stamp")

Downgrade3 ==
    /\ At(3, FALSE, "begin")
    /\ IF db.stages.there /\ db.stages.rows # {} THEN Raise("data")
       ELSE DropTable("stages") /\ Goto("stamp")

(* 0004: correction lineage, stage history and notification attempts.      *)
(* Every legacy payload of the authoritative table is validated before any *)
(* statement runs.                                                         *)
AuthoritativeRows ==
    IF db.events.there THEN db.events.rows ELSE db.replacement.rows

(* The payload of every event keeps the legacy contract and names its own  *)
(* row; that of every report is the one its event projects.                *)
EventsReadable ==
    \A i \in DOMAIN AuthoritativeRows :
        <<"event", AuthoritativeRows[i].event>> \notin db.unreadable
ReportsReadable == \A e \in db.reported : <<"report", e>> \notin db.unreadable

Readable == EventsReadable /\ ReportsReadable


Preflight4 ==
    /\ At(4, TRUE, "begin")
    /\ IF ~db.events.there /\ ~db.replacement.there THEN Raise("schema")
       ELSE IF ~Readable THEN Raise("data")
       ELSE Goto("repair") /\ UNCHANGED db

(* What an interrupted replacement left: the copy goes while the original  *)
(* is there, and takes its place when it is not.                           *)
ReplacementKept ==
    IF db.events.there THEN db
    ELSE [db EXCEPT !.events = db.replacement, !.replacement = Absent]
ReplacementRepaired ==
    IF ~db.replacement.there THEN db
    ELSE IF db.events.there THEN [db EXCEPT !.replacement = Absent]
    ELSE [db EXCEPT !.events = db.replacement, !.replacement = Absent]

Repair4 ==
    /\ At(4, TRUE, "repair")
    /\ db' = ReplacementRepaired
    /\ Goto("lineage")

NextOfLineageRebuilt == IF Canonical THEN "notices" ELSE "create"
NextOfLineage == IF Canonical THEN "history" ELSE "create"

Lineage4 ==
    /\ At(4, TRUE, "lineage")
    /\ Goto(NextOfLineage)
    /\ UNCHANGED db

(* The next stage row of legacy history, unless it is recorded already; in *)
(* one fixed order.                                                        *)
History4 ==
    /\ At(4, TRUE, "history")
    /\ LET missing == IF db.stages.there THEN LegacyStages \ db.stages.rows ELSE LegacyStages
       IN  IF missing = {} THEN Goto("notices") /\ UNCHANGED db
           ELSE IF ~db.stages.there THEN Raise("schema")
           ELSE /\ db' = [db EXCEPT !.stages.rows =
                                         @ \union {CHOOSE s \in missing : TRUE}]
                /\ UNCHANGED <<version, job, left, raised>>

Notices4 ==
    /\ At(4, TRUE, "notices")
    /\ IF db.notices.there THEN UNCHANGED db ELSE CreateTable("notices")
    /\ Goto("stamp")

(* Replacing the table of events, either way: create, copy, drop, rename.  *)
CreateReplacement ==
    /\ job.rev = 4 /\ job.at = "create"
    /\ IF db.replacement.there THEN Raise("schema")
       ELSE /\ db' = [db EXCEPT !.replacement = EventTable(job.up, <<>>)]
            /\ Goto("copy")

CopyEvents ==
    /\ job.rev = 4 /\ job.at = "copy"
    /\ db' = [db EXCEPT !.replacement.rows =
                  Copied(db.events.rows, job.up /\ db.events.lineage)]
    /\ Goto("drop")

DropEvents ==
    /\ job.at = "drop"
    /\ DropTable("events")
    /\ Goto("rename")

RenameReplacement ==
    /\ job.rev = 4 /\ job.at = "rename"
    /\ db' = [db EXCEPT !.events = db.replacement, !.replacement = Absent]
    /\ Goto(IF job.up THEN "history" ELSE "stamp")

(* Downgrading 0004: an interrupted downgrade is recognised by the table   *)
(* of events it has already replaced.                                      *)
DowngradeRepair4 ==
    /\ At(4, FALSE, "begin")
    /\ IF ~ReplacementRepaired.events.there THEN Raise("schema")
       ELSE /\ db' = ReplacementRepaired
            /\ Goto(IF db'.events.lineage THEN "corrections" ELSE "notices")

CorrectedUnseen == FALSE
Corrected == \E i \in DOMAIN db.events.rows : db.events.rows[i].corrects # "none"

DowngradeCorrections4 ==
    /\ At(4, FALSE, "corrections")
    /\ IF Corrected THEN Raise("data") ELSE Goto("notices") /\ UNCHANGED db

DowngradeNotices4 ==
    /\ At(4, FALSE, "notices")
    /\ IF db.notices.there /\ db.notices.used THEN Raise("data")
       ELSE DropTable("notices") /\ Goto(IF HasLineage THEN "create" ELSE "stamp")

(* 0005: the snapshots of frozen cases, a column. *)
Upgrade5 ==
    /\ At(5, TRUE, "begin")
    /\ IF db.snapshots.there THEN UNCHANGED db ELSE CreateTable("snapshots")
    /\ Goto("stamp")

Downgrade5 ==
    /\ At(5, FALSE, "begin")
    /\ IF db.snapshots.there /\ db.snapshots.used THEN Raise("data")
       ELSE DropTable("snapshots") /\ Goto("stamp")

(* 0006: the access audit and the facts of users; the only migration that  *)
(* does not expect what an interrupted run of its own has left.            *)
Upgrade6 ==
    \/ /\ At(6, TRUE, "begin")
       /\ IF db.audit.there THEN Raise("schema")
          ELSE CreateTable("audit") /\ Goto("facts")
    \/ /\ At(6, TRUE, "facts")
       /\ IF db.facts.there THEN Raise("schema")
          ELSE CreateTable("facts") /\ Goto("stamp")

Downgrade6 ==
    \/ /\ At(6, FALSE, "begin")
       /\ IF ~db.facts.there \/ ~db.audit.there THEN Raise("schema")
          ELSE IF db.facts.used \/ db.audit.used THEN Raise("data")
          ELSE Goto("facts") /\ UNCHANGED db
    \/ /\ At(6, FALSE, "facts")
       /\ DropTable("facts")
       /\ Goto("audit")
    \/ /\ At(6, FALSE, "audit")
       /\ DropTable("audit")
       /\ Goto("stamp")

(* 0007: the sequence of events, backfilled in the order of insertion. *)
Upgrade7 ==
    /\ At(7, TRUE, "begin")
    /\ IF ~db.events.there THEN Raise("schema")
       ELSE db' = [db EXCEPT !.events.sequenced = TRUE] /\ Goto("backfill")

NextSequence == Max0(Sequences(db.events)) + 1

NextUnsequenced(empty) == CHOOSE k \in empty : \A j \in empty : k <= j

Backfill7 ==
    /\ At(7, TRUE, "backfill")
    /\ LET empty == {i \in DOMAIN db.events.rows : db.events.rows[i].seq = 0}
       IN  IF empty = {} THEN Goto("index") /\ UNCHANGED db
           ELSE /\ db' = [db EXCEPT !.events.rows[NextUnsequenced(empty)].seq = NextSequence]
                /\ UNCHANGED <<version, job, left, raised>>

Index7 ==
    /\ At(7, TRUE, "index")
    /\ db' = [db EXCEPT !.events.indexed = TRUE]
    /\ Goto("stamp")

DowngradeRepair7 ==
    /\ At(7, FALSE, "begin")
    /\ IF db.unsequenced.there /\ ~db.events.there
       THEN /\ db' = [db EXCEPT !.events = db.unsequenced, !.unsequenced = Absent]
            /\ Goto("stamp")
       ELSE /\ db' = [db EXCEPT !.unsequenced = Absent]
            /\ Goto(IF db.events.sequenced THEN "unindex" ELSE "stamp")

Unindex7 ==
    /\ At(7, FALSE, "unindex")
    /\ db' = [db EXCEPT !.events.indexed = FALSE]
    /\ Goto("create")

CreateUnsequenced7 ==
    /\ At(7, FALSE, "create")
    /\ IF db.unsequenced.there THEN Raise("schema")
       ELSE /\ db' = [db EXCEPT !.unsequenced = EventTable(TRUE, <<>>)]
            /\ Goto("copy")

CopyUnsequenced7 ==
    /\ At(7, FALSE, "copy")
    /\ db' = [db EXCEPT !.unsequenced.rows = Copied(db.events.rows, TRUE)]
    /\ Goto("drop")

RenameUnsequenced7 ==
    /\ At(7, FALSE, "rename")
    /\ db' = [db EXCEPT !.events = db.unsequenced, !.unsequenced = Absent]
    /\ Goto("stamp")

-----------------------------------------------------------------------------
(* The application, which opens the database only at its own revision.     *)

AppOpen == job = Idle /\ version = Newest

(* An event with its stage rows and, unless it corrects another, the       *)
(* snapshot of its case; where a table or column is missing the statement  *)
(* fails and nothing is recorded.                                          *)
AppCommit(e, corrects) ==
    /\ AppOpen
    /\ db.events.there /\ db.events.sequenced /\ db.events.lineage
    /\ db.stages.there /\ db.snapshots.there
    /\ \A i \in DOMAIN db.events.rows : db.events.rows[i].event # e
    /\ corrects = "none" \/ \E i \in DOMAIN db.events.rows : db.events.rows[i].event = corrects
    /\ db' = [db EXCEPT !.events.rows =
                            Append(@, [event |-> e, corrects |-> corrects,
                                       seq |-> Max0(Sequences(db.events)) + 1]),
                        !.stages.rows = @ \union {<<e, p>> : p \in EventPhases},
                        !.staged = @ \union {e},
                        !.snapshots.used = @ \/ corrects = "none"]
    /\ UNCHANGED <<version, job, left, raised>>

AppRecord(t) ==
    /\ AppOpen
    /\ db[t].there
    /\ db' = [db EXCEPT ![t].used = TRUE]
    /\ UNCHANGED <<version, job, left, raised>>

(* The legacy releases end in either of two revisions; at the second one   *)
(* they record the stages of some events themselves.                       *)
Init ==
    \E staged \in SUBSET LegacyEvents, unreadable \in SUBSET Unreadable,
       v \in {Oldest, Oldest + 1} :
        /\ v = Oldest => staged = {}
        /\ version = v
        /\ job = Idle
        /\ left = {}
        /\ raised = "no"
        /\ db = [events |-> EventTable(FALSE, [i \in DOMAIN Legacy |-> Row(Legacy[i], "none")]),
                 replacement |-> Absent, unsequenced |-> Absent,
                 stages |-> IF v = Oldest THEN Absent
                            ELSE [there |-> TRUE, rows |-> staged \X EventPhases],
                 staged |-> staged, unreadable |-> unreadable, reported |-> LegacyEvents,
                 notices |-> Absent, snapshots |-> Absent, audit |-> Absent,
                 facts |-> Absent]

Migrate ==
    \/ Stamp \/ Upgrade3 \/ Downgrade3
    \/ Preflight4 \/ Repair4 \/ Lineage4 \/ History4 \/ Notices4
    \/ CreateReplacement \/ CopyEvents \/ DropEvents \/ RenameReplacement
    \/ DowngradeRepair4 \/ DowngradeCorrections4 \/ DowngradeNotices4
    \/ Upgrade5 \/ Downgrade5 \/ Upgrade6 \/ Downgrade6
    \/ Upgrade7 \/ Backfill7 \/ Index7
    \/ DowngradeRepair7 \/ Unindex7 \/ CreateUnsequenced7 \/ CopyUnsequenced7
    \/ RenameUnsequenced7

Next ==
    \/ \E up \in BOOLEAN : Start(up)
    \/ Interrupt
    \/ Migrate
    \/ \E e \in Events, corrects \in Events \union {"none"} : AppCommit(e, corrects)
    \/ \E t \in {"notices", "audit", "facts"} : AppRecord(t)

Spec == Init /\ [][Next]_vars

-----------------------------------------------------------------------------
(* Properties.                                                             *)

(* The events where a retry will find them: the table, or the copy of it   *)
(* that a replacement was about to rename.                                 *)
Held ==
    IF ~db.events.there /\ db.unsequenced.there THEN db.unsequenced.rows
    ELSE AuthoritativeRows

Facts == [i \in DOMAIN Held |-> <<Held[i].event, Held[i].corrects>>]

Recorded(t) == db[t].there /\ db[t].used

(* Whatever is interrupted and tried again, in either direction, no event  *)
(* is lost, altered or reordered, no correction loses its original, and    *)
(* what was recorded of stages, notifications, snapshots, denials and user *)
(* facts stays: a downgrade that would drop any of it is refused.          *)
NothingIsLost ==
    [][/\ Len(Facts) <= Len(Facts') /\ Facts = SubSeq(Facts', 1, Len(Facts))
       /\ db.stages.there => db.stages.rows = {}
                             \/ (db'.stages.there /\ db.stages.rows \subseteq db'.stages.rows)
       /\ \A t \in {"notices", "snapshots", "audit", "facts"} :
             Recorded(t) => Recorded(t)']_vars

(* Once a database is past 0004, every legacy event and report has all its *)
(* stage rows, whichever statement an earlier attempt stopped at.          *)
HistoryIsComplete ==
    (version >= 4 /\ db.events.there)
        => \A s \in LegacyStages : db.stages.there /\ s \in db.stages.rows

(* The sequence of events is their order of insertion: assigned in it, to  *)
(* every event before the application reads by it, across interrupted and  *)
(* repeated backfills.                                                     *)
SequenceIsOrder ==
    db.events.there =>
        LET rows == db.events.rows
        IN  /\ \A i, j \in DOMAIN rows :
                  (i < j /\ rows[j].seq # 0) => rows[i].seq # 0 /\ rows[i].seq < rows[j].seq
            /\ (version = Newest /\ db.events.sequenced) => \A i \in DOMAIN rows : rows[i].seq # 0

(* A payload that cannot be read stops the database before 0004 with its   *)
(* tables as the release that wrote it left them.                          *)
UnreadableIsUntouched ==
    db.unreadable # {} =>
        /\ version < 4
        /\ db.events.there /\ ~db.events.lineage /\ ~db.replacement.there
        /\ ~db.notices.there

(* What the migrations leave of the ledger is whole: complete, in order,   *)
(* or untouched.                                                           *)
LedgerIsWhole == HistoryIsComplete /\ SequenceIsOrder /\ UnreadableIsUntouched

(* Interrupted at any statement, as often as may be, every migration but   *)
(* 0006 can be run again to its end and is refused only for recorded data, *)
(* as long as it is finished before the revision is taken the other way.   *)
RetriesSucceed ==
    [][(raised' = "schema" /\ job # Idle)
         => job.rev = 6 \/ left \ {<<job.rev, job.up>>} # {}]_vars

=============================================================================
