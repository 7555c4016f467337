---------------------------- MODULE SchemaProofs ----------------------------
(***************************************************************************)
(* What SchemaMigrations guarantees for every legacy history, every number *)
(* of events and every number of interruptions, in either direction.       *)
(***************************************************************************)
EXTENDS SchemaMigrations, WellFoundedInduction, SequenceTheorems, TLAPS

-----------------------------------------------------------------------------
(* The inductive invariant.                                                *)

Rows == [event : Events, corrects : Events \cup {"none"}, seq : Nat]
EventTables ==
    {Absent} \cup [there : {TRUE}, lineage : BOOLEAN, sequenced : BOOLEAN,
                   indexed : BOOLEAN, rows : Seq(Rows)]
StageTables ==
    {Absent} \cup [there : {TRUE},
                   rows : SUBSET (Events \X (EventPhases \cup {"PUBLICATION"}))]
UseTables == {Absent} \cup [there : {TRUE}, used : BOOLEAN]

(* The shape of the tables. *)
Databases ==
    [events : EventTables, replacement : EventTables, unsequenced : EventTables,
     stages : StageTables, staged : SUBSET Events,
     unreadable : SUBSET Unreadable, reported : {LegacyEvents},
     notices : UseTables, snapshots : UseTables, audit : UseTables, facts : UseTables]
TablesOK == db \in Databases

(* The statements of each migration. *)
Statements ==
    {"begin", "repair", "lineage", "history", "notices", "create", "copy", "drop", "rename",
     "corrections", "facts", "audit", "backfill", "index", "unindex", "stamp"}
Jobs == [rev : 3..7, up : BOOLEAN, at : Statements]
StatementsOf(rev, up) ==
    CASE rev = 4 /\ up  -> {"begin", "repair", "lineage", "history", "notices",
                            "create", "copy", "drop", "rename", "stamp"}
      [] rev = 4 /\ ~up -> {"begin", "corrections", "notices", "create", "copy", "drop",
                            "rename", "stamp"}
      [] rev = 6 /\ up  -> {"begin", "facts", "stamp"}
      [] rev = 6 /\ ~up -> {"begin", "facts", "audit", "stamp"}
      [] rev = 7 /\ up  -> {"begin", "backfill", "index", "stamp"}
      [] rev = 7 /\ ~up -> {"begin", "unindex", "create", "copy", "drop", "rename", "stamp"}
      [] OTHER          -> {"begin", "stamp"}

(* A migration runs from the revision it leaves, and nothing has stopped it. *)
JobOK ==
    /\ version \in Oldest..Newest
    /\ left \in SUBSET ((3..7) \X BOOLEAN)
    /\ raised \in {"no", "data", "schema"}
    /\ job \in Jobs \cup {Idle}
    /\ job # Idle => /\ job.rev \in 3..7
                     /\ job.at \in StatementsOf(job.rev, job.up)
                     /\ version = IF job.up THEN job.rev - 1 ELSE job.rev
                     /\ raised = "no"

NoneCorrects(rows) == \A i \in DOMAIN rows : rows[i].corrects = "none"
Unnumbered(t) == ~t.sequenced /\ \A i \in DOMAIN t.rows : t.rows[i].seq = 0
SameFacts(r, s) ==
    Len(r) = Len(s) /\ \A i \in 1..Len(r) : r[i].event = s[i].event /\ r[i].corrects = s[i].corrects

(* A table without the correction column names no correction, and a copy   *)
(* has no sequence.                                                        *)
Plain ==
    /\ db.events.there /\ ~db.events.lineage => NoneCorrects(db.events.rows)
    /\ db.replacement.there => /\ ~db.replacement.lineage => NoneCorrects(db.replacement.rows)
                               /\ Unnumbered(db.replacement)
    /\ db.unsequenced.there => db.unsequenced.lineage /\ Unnumbered(db.unsequenced)

(* Where the events are, and the interrupted downgrades that explain a     *)
(* missing table.                                                          *)
Placed ==
    /\ db.unsequenced.there => version = 7
    /\ ~db.events.there => IF version = 7 THEN db.unsequenced.there ELSE db.replacement.there
    /\ version \in 4..6 /\ ~db.events.there
          => <<4, FALSE>> \in left \/ (At(4, FALSE, "rename"))
    /\ version >= 3 /\ ~db.stages.there
          => <<3, FALSE>> \in left \/ At(3, FALSE, "stamp")
    /\ At(3, TRUE, "stamp") => db.stages.there

(* What the migration has established before its next statement. *)
Replacing ==
    job.rev = 4 =>
        /\ job.at \notin {"begin", "repair", "rename"} => db.events.there
        /\ job.at \notin {"begin", "repair", "copy", "drop", "rename"} => ~db.replacement.there
        /\ job.at \in {"copy", "drop", "rename"} => db.replacement.there
        /\ job.at = "rename" => ~db.events.there
        /\ job.at \in {"copy", "drop", "rename"} => db.replacement.lineage = job.up
        /\ job.at = "drop" => SameFacts(db.replacement.rows, db.events.rows)
        /\ ~job.up /\ job.at \in {"notices", "create", "copy", "drop"} =>
              NoneCorrects(db.events.rows)

Dropping ==
    job.rev = 6 /\ ~job.up =>
        /\ job.at = "facts" => ~Recorded("facts")
        /\ job.at \in {"facts", "audit"} => ~Recorded("audit")

Numbering ==
    job.rev = 7 /\ job.up /\ job.at # "begin" =>
        /\ db.events.there /\ db.events.sequenced
        /\ job.at \in {"index", "stamp"} => \A i \in DOMAIN db.events.rows : db.events.rows[i].seq # 0

Unnumbering ==
    job.rev = 7 /\ ~job.up =>
        /\ job.at \notin {"begin", "rename"} => db.events.there
        /\ job.at \in {"unindex", "create", "stamp"} => ~db.unsequenced.there
        /\ job.at \in {"copy", "drop", "rename"} => db.unsequenced.there
        /\ job.at = "rename" => ~db.events.there
        /\ job.at = "drop" => SameFacts(db.unsequenced.rows, db.events.rows)

(* The stage rows of every event held that has none of its own. *)
Staged(s) == db.stages.there /\ s \in db.stages.rows
HistoryDone ==
    /\ \A i \in DOMAIN Held : Held[i].event \notin db.staged =>
          \A p \in EventPhases : Staged(<<Held[i].event, p>>)
    /\ \A e \in db.reported \ db.staged : Staged(<<e, "PUBLICATION">>)

Complete ==
    version >= 4 \/ (job.rev = 4 /\ job.up /\ job.at \in {"notices", "stamp"}) => HistoryDone

(* A database with an unreadable payload is as the legacy release left it. *)
Untouched ==
    db.unreadable # {} =>
        /\ version < 4
        /\ job = Idle \/ job.rev = 3 \/ At(4, TRUE, "begin")
        /\ db.events.there /\ ~db.events.lineage /\ ~db.replacement.there /\ ~db.notices.there
        /\ Len(db.events.rows) = Len(Legacy)
        /\ \A i \in DOMAIN Legacy : db.events.rows[i].event = Legacy[i]

MInv ==
    /\ TablesOK /\ JobOK /\ Plain /\ Placed
    /\ Replacing /\ Dropping /\ Numbering /\ Unnumbering
    /\ SequenceIsOrder /\ Complete /\ Untouched

-----------------------------------------------------------------------------
(* Tables and statements.                                                  *)

(* What a step keeps of everything recorded: the events held, in order,    *)
(* and the rows of every other table.                                      *)
Kept ==
    /\ \/ SameFacts(Held', Held)
       \/ \E r \in Rows : Held' = Append(Held, r)
    /\ db.stages.there => db.stages.rows = {}
                          \/ (db'.stages.there /\ db.stages.rows \subseteq db'.stages.rows)
    /\ \A t \in {"notices", "snapshots", "audit", "facts"} : Recorded(t) => Recorded(t)'

(* The only migration refused for its schema is 0006, unless another one   *)
(* was left half-way.                                                      *)
Resumed ==
    (raised' = "schema" /\ job # Idle) => job.rev = 6 \/ left \ {<<job.rev, job.up>>} # {}

Sound == MInv' /\ Kept /\ Resumed

(* A step that changes no table of events and no fact about them. *)
EventsStay ==
    /\ db'.events = db.events /\ db'.replacement = db.replacement
    /\ db'.unsequenced = db.unsequenced /\ db'.staged = db.staged
    /\ db'.unreadable = db.unreadable /\ db'.reported = db.reported

\* A migration that runs has a statement of its own and a revision it leaves.
LEMMA JobRuns ==
    ASSUME JobOK, job # Idle
    PROVE  /\ job \in Jobs
           /\ version = (IF job.up THEN job.rev - 1 ELSE job.rev)
           /\ job.at \in StatementsOf(job.rev, job.up)
           /\ raised = "no"
BY DEF JobOK

\* A migration as it begins.
LEMMA JobRecord ==
    ASSUME NEW r \in 3..7, NEW u \in BOOLEAN, NEW j, j = [rev |-> r, up |-> u, at |-> "begin"]
    PROVE  /\ j \in Jobs
           /\ j.rev = r /\ j.up = u /\ j.at = "begin"
<1>1. j.rev = r /\ j.up = u /\ j.at = "begin"
  OBVIOUS
<1>2. j \in Jobs
  BY DEF Jobs, Statements
<1> QED
  BY <1>1, <1>2

\* The next statement keeps the migration and its revision.
LEMMA GotoMoves ==
    ASSUME JobOK, job # Idle, NEW s \in Statements, s \in StatementsOf(job.rev, job.up), Goto(s)
    PROVE  /\ JobOK' /\ job' # Idle
           /\ job'.rev = job.rev /\ job'.up = job.up /\ job'.at = s
           /\ version' = version /\ left' = left /\ raised' = raised /\ raised = "no"
<1>1. /\ job \in Jobs
      /\ version = (IF job.up THEN job.rev - 1 ELSE job.rev)
      /\ raised = "no"
  BY JobRuns
<1>2. job' = [job EXCEPT !.at = s] /\ version' = version /\ left' = left /\ raised' = raised
  BY DEF Goto
<1>3. job'.rev = job.rev /\ job'.up = job.up /\ job'.at = s
      /\ job' \in Jobs
  BY <1>1, <1>2 DEF Jobs
<1>4. job' # Idle
  BY <1>1, <1>3 DEF Idle, Jobs
<1>5. JobOK'
  BY <1>1, <1>2, <1>3 DEF JobOK
<1> QED
  BY <1>1, <1>2, <1>3, <1>4, <1>5

\* A table that is there has its columns.
LEMMA TableRows ==
    ASSUME NEW t \in EventTables, t.there
    PROVE  t \in [there : {TRUE}, lineage : BOOLEAN, sequenced : BOOLEAN,
                  indexed : BOOLEAN, rows : Seq(Rows)]
<1>1. Absent.there = FALSE
  BY DEF Absent
<1>2. t # Absent
  BY <1>1
<1> QED
  BY <1>2 DEF EventTables

\* The tables of events are such tables.
LEMMA EventTablesOK ==
    ASSUME TablesOK
    PROVE  /\ db.events \in EventTables /\ db.replacement \in EventTables
           /\ db.unsequenced \in EventTables
BY DEF TablesOK, Databases

\* Events are held somewhere, as rows.
LEMMA HeldIsRows ==
    ASSUME TablesOK, Placed
    PROVE  Held \in Seq(Rows)
<1>1. CASE db.events.there
  BY <1>1, EventTablesOK, TableRows DEF Held, AuthoritativeRows
<1>2. CASE ~db.events.there /\ db.unsequenced.there
  BY <1>2, EventTablesOK, TableRows DEF Held
<1>3. CASE ~db.events.there /\ ~db.unsequenced.there
  <2>1. db.replacement.there
    BY <1>3 DEF Placed
  <2> QED
    BY <1>3, <2>1, EventTablesOK, TableRows DEF Held, AuthoritativeRows
<1> QED
  BY <1>1, <1>2, <1>3

\* Steps that leave the tables of events alone hold the same events.
LEMMA StayHolds ==
    ASSUME EventsStay
    PROVE  Held' = Held
BY DEF EventsStay, Held, AuthoritativeRows

\* A history holds the same facts as itself.
LEMMA SameFactsReflexive ==
    ASSUME NEW r \in Seq(Rows)
    PROVE  SameFacts(r, r)
BY DEF SameFacts

\* History that is complete stays so while events and stage rows stay.
LEMMA HistoryStays ==
    ASSUME TablesOK, Placed, TablesOK', Placed', HistoryDone, SameFacts(Held', Held),
           db'.staged = db.staged, db'.reported = db.reported,
           db.stages.there => db'.stages.there /\ db.stages.rows \subseteq db'.stages.rows
    PROVE  HistoryDone'
<1>1. Held \in Seq(Rows) /\ Held' \in Seq(Rows)
  <2>1. (TablesOK /\ Placed => Held \in Seq(Rows))'
    BY HeldIsRows, PTL
  <2> QED
    BY HeldIsRows, <2>1
<1>2. \A i \in DOMAIN Held' : i \in DOMAIN Held /\ Held'[i].event = Held[i].event
  BY <1>1 DEF SameFacts
<1>3. \A s : Staged(s) => Staged(s)'
  BY DEF Staged
<1> QED
  BY <1>2, <1>3 DEF HistoryDone

\* What stays with the tables of events and the revision.
LEMMA StayKeeps ==
    ASSUME TablesOK, Placed, Plain, SequenceIsOrder, EventsStay, version' = version
    PROVE  Plain' /\ SequenceIsOrder' /\ SameFacts(Held', Held)
<1>1. Plain'
  BY DEF EventsStay, Plain, NoneCorrects, Unnumbered
<1>2. SequenceIsOrder'
  BY DEF EventsStay, SequenceIsOrder
<1>3. SameFacts(Held', Held)
  BY HeldIsRows, StayHolds, SameFactsReflexive
<1> QED
  BY <1>1, <1>2, <1>3

-----------------------------------------------------------------------------
(* Steps that change no table.                                             *)

\* Nothing recorded changes with the tables.
LEMMA UnchangedKeeps ==
    ASSUME MInv, db' = db
    PROVE  /\ TablesOK' /\ Plain' /\ Kept /\ EventsStay
           /\ HistoryDone => HistoryDone'
<1>1. TablesOK' /\ EventsStay
  BY DEF MInv, TablesOK, EventsStay
<1>2. Plain'
  BY DEF MInv, Plain, NoneCorrects, Unnumbered
<1>3. SameFacts(Held', Held)
  BY <1>1, HeldIsRows, StayHolds, SameFactsReflexive DEF MInv
<1>4. Kept
  BY <1>3 DEF Kept, Recorded
<1>5. HistoryDone => HistoryDone'
  BY <1>1, StayHolds DEF HistoryDone, Staged
<1> QED
  BY <1>1, <1>2, <1>4, <1>5

\* A migration that raises leaves everything as it is.
LEMMA RaiseSound ==
    ASSUME MInv, job # Idle, NEW why \in {"data", "schema"}, Raise(why),
           ~At(4, FALSE, "rename"), ~At(3, FALSE, "stamp"),
           why = "schema" => job.rev = 6 \/ left \ {<<job.rev, job.up>>} # {}
    PROVE  Sound
<1>1. job' = Idle /\ raised' = why /\ db' = db /\ version' = version /\ left' = left
  BY DEF Raise
<1>2. job'.rev = 0 /\ job'.at = "idle"
  BY <1>1 DEF Idle
<1>3. JobOK'
  BY <1>1 DEF MInv, JobOK
<1>4. Placed'
  BY <1>1, <1>2 DEF MInv, Placed, At
<1>5. Replacing' /\ Dropping' /\ Numbering' /\ Unnumbering'
  BY <1>2 DEF Replacing, Dropping, Numbering, Unnumbering
<1>6. SequenceIsOrder'
  BY <1>1 DEF MInv, SequenceIsOrder
<1>7. Complete'
  BY <1>1, <1>2, UnchangedKeeps DEF MInv, Complete
<1>8. Untouched'
  BY <1>1 DEF MInv, Untouched
<1> QED
  BY <1>1, <1>3, <1>4, <1>5, <1>6, <1>7, <1>8, UnchangedKeeps DEF Sound, MInv, Resumed

\* A migration that starts leaves every table as it is.
LEMMA StartSound ==
    ASSUME MInv, NEW up \in BOOLEAN, Start(up)
    PROVE  Sound
<1>1. /\ job = Idle /\ db' = db /\ version' = version /\ left' = left /\ raised' = "no"
      /\ job' = [rev |-> IF up THEN version + 1 ELSE version, up |-> up, at |-> "begin"]
      /\ IF up THEN version < Newest ELSE version > Oldest
  BY DEF Start
<1>2. version \in 2..7
  BY DEF MInv, JobOK, Oldest, Newest
<1>3. /\ job'.rev \in 3..7 /\ job'.up = up /\ job'.at = "begin"
      /\ job'.rev = (IF up THEN version + 1 ELSE version)
      /\ job' \in Jobs
  <2>1. PICK rev : rev = (IF up THEN version + 1 ELSE version)
    OBVIOUS
  <2>2. rev \in 3..7
    BY <1>1, <1>2, <2>1 DEF Oldest, Newest
  <2>3. job' = [rev |-> rev, up |-> up, at |-> "begin"]
    BY <1>1, <2>1
  <2> QED
    BY <2>1, <2>2, <2>3, JobRecord
<1>4. "begin" \in StatementsOf(job'.rev, job'.up)
  BY DEF StatementsOf
<1>5. JobOK'
  BY <1>1, <1>2, <1>3, <1>4 DEF MInv, JobOK
<1>6. Placed'
  BY <1>1 DEF MInv, Placed, At, Idle
<1>7. Replacing' /\ Dropping' /\ Numbering' /\ Unnumbering'
  BY <1>3 DEF Replacing, Dropping, Numbering, Unnumbering
<1>8. SequenceIsOrder'
  BY <1>1 DEF MInv, SequenceIsOrder
<1>9. Complete'
  BY <1>1, <1>3, UnchangedKeeps DEF MInv, Complete
<1>10. Untouched'
  BY <1>1, <1>2, <1>3 DEF MInv, Untouched, At
<1> QED
  BY <1>1, <1>5, <1>6, <1>7, <1>8, <1>9, <1>10, UnchangedKeeps DEF Sound, MInv, Resumed

\* An interruption leaves the tables as they are, and is remembered.
LEMMA InterruptSound ==
    ASSUME MInv, Interrupt
    PROVE  Sound
<1>1. /\ job # Idle /\ job' = Idle /\ raised' = raised /\ db' = db /\ version' = version
      /\ left' = left \union {<<job.rev, job.up>>}
  BY DEF Interrupt
<1>2. job'.rev = 0 /\ job'.at = "idle"
  BY <1>1 DEF Idle
<1>3. job.rev \in 3..7 /\ job.up \in BOOLEAN /\ raised = "no"
  BY <1>1, JobRuns DEF MInv, Jobs
<1>4. JobOK'
  BY <1>1, <1>3 DEF MInv, JobOK
<1>5. Placed'
  BY <1>1, <1>2 DEF MInv, Placed, At
<1>6. Replacing' /\ Dropping' /\ Numbering' /\ Unnumbering'
  BY <1>2 DEF Replacing, Dropping, Numbering, Unnumbering
<1>7. SequenceIsOrder'
  BY <1>1 DEF MInv, SequenceIsOrder
<1>8. Complete'
  BY <1>1, <1>2, UnchangedKeeps DEF MInv, Complete
<1>9. Untouched'
  BY <1>1 DEF MInv, Untouched
<1> QED
  BY <1>1, <1>3, <1>4, <1>5, <1>6, <1>7, <1>8, <1>9, UnchangedKeeps DEF Sound, MInv, Resumed

\* A migration that ends stands for what it has done.
LEMMA StampSound ==
    ASSUME MInv, Stamp
    PROVE  Sound
<1>1. /\ job.at = "stamp" /\ job' = Idle /\ raised' = raised /\ db' = db
      /\ version' = (IF job.up THEN job.rev ELSE job.rev - 1)
      /\ left' = left \ {<<job.rev, job.up>>}
  BY DEF Stamp
<1>2. job'.rev = 0 /\ job'.at = "idle" /\ job # Idle
  BY <1>1 DEF Idle
<1>3. /\ job.rev \in 3..7 /\ job.up \in BOOLEAN /\ raised = "no"
      /\ version = (IF job.up THEN job.rev - 1 ELSE job.rev)
  BY <1>2, JobRuns DEF MInv, Jobs
<1>4. JobOK'
  BY <1>1, <1>3 DEF MInv, JobOK, Oldest, Newest
<1>5. Placed'
  <2>1. db.unsequenced.there => version' = 7
    BY <1>1, <1>3 DEF MInv, Placed, Unnumbering
  <2>2. ~db.events.there => IF version' = 7 THEN db.unsequenced.there ELSE db.replacement.there
    BY <1>1, <1>3 DEF MInv, Placed, Unnumbering, Numbering
  <2>3. version' \in 4..6 /\ ~db.events.there => <<4, FALSE>> \in left'
    <3> SUFFICES ASSUME version' \in 4..6, ~db.events.there PROVE <<4, FALSE>> \in left'
      OBVIOUS
    <3>1. job.rev # 4 /\ version # 7
      BY <1>1, <1>3 DEF MInv, Unnumbering, Replacing
    <3>2. version \in 4..6
      BY <1>1, <1>3, <3>1 DEF MInv, Placed, Numbering
    <3>3. <<4, FALSE>> \in left
      BY <3>1, <3>2 DEF MInv, Placed, At
    <3> QED
      BY <1>1, <3>1, <3>3
  <2>4. version' >= 3 /\ ~db.stages.there => <<3, FALSE>> \in left'
    <3> SUFFICES ASSUME version' >= 3, ~db.stages.there PROVE <<3, FALSE>> \in left'
      OBVIOUS
    <3>1. job.rev # 3
      BY <1>1, <1>3 DEF MInv, Placed, At
    <3>2. version >= 3
      BY <1>1, <1>3, <3>1
    <3>3. <<3, FALSE>> \in left
      BY <3>1, <3>2 DEF MInv, Placed, At
    <3> QED
      BY <1>1, <3>1, <3>3
  <2> QED
    BY <1>1, <1>2, <2>1, <2>2, <2>3, <2>4 DEF Placed, At
<1>6. Replacing' /\ Dropping' /\ Numbering' /\ Unnumbering'
  BY <1>2 DEF Replacing, Dropping, Numbering, Unnumbering
<1>7. SequenceIsOrder'
  BY <1>1, <1>3 DEF MInv, SequenceIsOrder, Numbering, Newest
<1>8. Complete'
  BY <1>1, <1>2, <1>3, UnchangedKeeps DEF MInv, Complete
<1>9. Untouched'
  BY <1>1, <1>2, <1>3 DEF MInv, Untouched, At
<1> QED
  BY <1>1, <1>3, <1>4, <1>5, <1>6, <1>7, <1>8, <1>9, UnchangedKeeps DEF Sound, MInv, Resumed

-----------------------------------------------------------------------------
(* Steps that change no table of events.                                   *)

UseNames == {"notices", "snapshots", "audit", "facts"}

\* A statement on one of the tables that are only created, used and dropped.
LEMMA SetUse ==
    ASSUME TablesOK, NEW n \in UseNames, NEW t \in UseTables, db' = [db EXCEPT ![n] = t]
    PROVE  /\ TablesOK' /\ EventsStay /\ db'.stages = db.stages
           /\ db'[n] = t /\ \A m \in UseNames \ {n} : db'[m] = db[m]
<1>1. CASE n = "notices"
  BY <1>1 DEF TablesOK, Databases, EventsStay, UseNames
<1>2. CASE n = "snapshots"
  BY <1>2 DEF TablesOK, Databases, EventsStay, UseNames
<1>3. CASE n = "audit"
  BY <1>3 DEF TablesOK, Databases, EventsStay, UseNames
<1>4. CASE n = "facts"
  BY <1>4 DEF TablesOK, Databases, EventsStay, UseNames
<1> QED
  BY <1>1, <1>2, <1>3, <1>4 DEF UseNames

\* A statement on the table of stage results.
LEMMA SetStages ==
    ASSUME TablesOK, NEW t \in StageTables, db' = [db EXCEPT !.stages = t]
    PROVE  /\ TablesOK' /\ EventsStay /\ db'.stages = t
           /\ \A m \in UseNames : db'[m] = db[m]
BY DEF TablesOK, Databases, EventsStay, UseNames

\* What is recorded there stays while the table stays.
LEMMA UseStays ==
    ASSUME NEW S \in SUBSET UseNames, \A m \in UseNames \ S : db'[m] = db[m],
           \A m \in S : ~Recorded(m)
    PROVE  \A m \in UseNames : Recorded(m) => Recorded(m)'
BY DEF Recorded

\* The migrations 0003, 0005 and 0006 touch nothing that the others rely on.
LEMMA ElsewhereSound ==
    ASSUME MInv, job # Idle, job.rev \in {3, 5, 6},
           NEW s \in Statements, s \in StatementsOf(job.rev, job.up), Goto(s),
           TablesOK', EventsStay, db'.notices = db.notices,
           \A m \in UseNames : Recorded(m) => Recorded(m)',
           db'.stages = db.stages
              \/ (job.rev = 3 /\ (~db.stages.there \/ db.stages.rows = {})),
           Placed', Dropping'
    PROVE  Sound
<1>1. /\ JobOK' /\ job' # Idle
      /\ job'.rev = job.rev /\ job'.up = job.up /\ job'.at = s
      /\ version' = version /\ left' = left /\ raised' = raised /\ raised = "no"
  BY GotoMoves DEF MInv
<1>2. Plain' /\ SequenceIsOrder' /\ SameFacts(Held', Held)
  BY <1>1, StayKeeps DEF MInv
<1>3. Replacing' /\ Numbering' /\ Unnumbering'
  BY <1>1 DEF Replacing, Numbering, Unnumbering
<1>4. /\ version = (IF job.up THEN job.rev - 1 ELSE job.rev)
      /\ job.up \in BOOLEAN
  BY JobRuns DEF MInv, Jobs
<1>5. Complete'
  <2>1. CASE job.rev = 3
    BY <1>1, <1>4, <2>1 DEF Complete
  <2>2. CASE job.rev # 3
    <3>1. HistoryDone /\ db'.stages = db.stages
      BY <1>4, <2>2 DEF MInv, Complete
    <3>2. HistoryDone'
      BY <1>2, <3>1, HistoryStays DEF MInv, EventsStay
    <3> QED
      BY <3>2 DEF Complete
  <2> QED
    BY <2>1, <2>2
<1>6. Untouched'
  <2>1. db.unreadable # {} => job.rev = 3
    BY <1>4 DEF MInv, Untouched, At
  <2> QED
    BY <1>1, <2>1 DEF MInv, Untouched, EventsStay
<1>7. Kept
  BY <1>2 DEF Kept, UseNames
<1>8. Resumed
  BY <1>1 DEF Resumed
<1> QED
  BY <1>1, <1>2, <1>3, <1>5, <1>6, <1>7, <1>8 DEF Sound, MInv

\* 0003 creates its table, and drops it only without a row.
LEMMA Stages3Sound ==
    ASSUME MInv, Upgrade3 \/ Downgrade3
    PROVE  Sound
<1>0. TablesOK /\ JobOK /\ Placed /\ db.stages \in StageTables
  BY DEF MInv, TablesOK, Databases
<1>1. CASE Upgrade3
  <2>1. job.rev = 3 /\ job.up = TRUE /\ job.at = "begin" /\ job # Idle /\ Goto("stamp")
    BY <1>1 DEF Upgrade3, At, Idle
  <2>2. PICK t \in StageTables : /\ db' = [db EXCEPT !.stages = t] /\ t.there
                                 /\ db.stages.there => t = db.stages
    <3>1. CASE db.stages.there
      BY <1>0, <1>1, <3>1 DEF Upgrade3, TablesOK, Databases
    <3>2. CASE ~db.stages.there
      <4>1. db' = [db EXCEPT !.stages = [there |-> TRUE, rows |-> {}]]
        BY <1>1, <3>2 DEF Upgrade3
      <4>2. [there |-> TRUE, rows |-> {}] \in StageTables
        BY DEF StageTables
      <4> QED
        BY <3>2, <4>1, <4>2
    <3> QED
      BY <3>1, <3>2
  <2>3. TablesOK' /\ EventsStay /\ db'.stages = t /\ \A m \in UseNames : db'[m] = db[m]
    BY <1>0, <2>2, SetStages
  <2>4. job'.rev = 3 /\ job'.up = TRUE /\ job'.at = "stamp" /\ version' = version /\ left' = left
    BY <1>0, <2>1, GotoMoves DEF Statements, StatementsOf
  <2>5. Placed'
    BY <1>0, <2>1, <2>2, <2>3, <2>4 DEF Placed, At, EventsStay
  <2>6. Dropping'
    BY <2>4 DEF Dropping
  <2>7. \A m \in UseNames : Recorded(m) => Recorded(m)'
    BY <2>3 DEF Recorded
  <2>8. "stamp" \in Statements /\ "stamp" \in StatementsOf(job.rev, job.up)
    BY <2>1 DEF Statements, StatementsOf
  <2>9. db'.notices = db.notices
    BY <2>3 DEF UseNames
  <2> QED
    BY <2>1, <2>2, <2>3, <2>5, <2>6, <2>7, <2>8, <2>9, ElsewhereSound
<1>2. CASE Downgrade3
  <2>1. job.rev = 3 /\ job.up = FALSE /\ job.at = "begin" /\ job # Idle
    BY <1>2 DEF Downgrade3, At, Idle
  <2>2. CASE db.stages.there /\ db.stages.rows # {}
    <3>1. Raise("data")
      BY <1>2, <2>2 DEF Downgrade3
    <3> QED
      BY <2>1, <3>1, RaiseSound DEF At
  <2>3. CASE ~(db.stages.there /\ db.stages.rows # {})
    <3>1. db' = [db EXCEPT !.stages = Absent] /\ Goto("stamp")
      BY <1>2, <2>3 DEF Downgrade3, DropTable
    <3>2. Absent \in StageTables
      BY DEF StageTables
    <3>3. TablesOK' /\ EventsStay /\ db'.stages = Absent /\ \A m \in UseNames : db'[m] = db[m]
      BY <1>0, <3>1, <3>2, SetStages
    <3>4. job'.rev = 3 /\ job'.up = FALSE /\ job'.at = "stamp" /\ version' = version /\ left' = left
      BY <1>0, <2>1, <3>1, GotoMoves DEF Statements, StatementsOf
    <3>5. Placed'
      BY <1>0, <2>1, <3>3, <3>4 DEF Placed, At, EventsStay
    <3>6. Dropping'
      BY <3>4 DEF Dropping
    <3>7. \A m \in UseNames : Recorded(m) => Recorded(m)'
      BY <3>3 DEF Recorded
    <3>8. "stamp" \in Statements /\ "stamp" \in StatementsOf(job.rev, job.up)
      BY <2>1 DEF Statements, StatementsOf
    <3>9. db'.notices = db.notices
      BY <3>3 DEF UseNames
    <3> QED
      BY <2>1, <2>3, <3>1, <3>3, <3>5, <3>6, <3>7, <3>8, <3>9, ElsewhereSound
  <2> QED
    BY <2>2, <2>3
<1> QED
  BY <1>1, <1>2

\* 0005 and 0006 leave the stages and where the events are alone.
LEMMA PlacedElsewhere ==
    ASSUME MInv, job # Idle, job.rev \in {5, 6},
           NEW s \in Statements, s \in StatementsOf(job.rev, job.up), Goto(s),
           EventsStay, db'.stages = db.stages
    PROVE  Placed' /\ job'.rev = job.rev /\ job'.up = job.up /\ job'.at = s
<1>1. /\ job'.rev = job.rev /\ job'.up = job.up /\ job'.at = s
      /\ version' = version /\ left' = left
  BY GotoMoves DEF MInv
<1> QED
  BY <1>1 DEF MInv, Placed, At, EventsStay

\* Creating or dropping one of their tables loses nothing recorded.
LEMMA UseStepSound ==
    ASSUME MInv, job # Idle, job.rev \in {5, 6},
           NEW s \in Statements, s \in StatementsOf(job.rev, job.up), Goto(s),
           NEW n \in UseNames \ {"notices"}, NEW t \in UseTables,
           db' = [db EXCEPT ![n] = t],
           Recorded(n) => t.there /\ t.used,
           job.rev = 6 /\ ~job.up /\ s = "audit" => n = "facts" /\ ~Recorded("audit"),
           job.rev = 6 /\ ~job.up => s # "facts"
    PROVE  Sound
<1>1. /\ TablesOK' /\ EventsStay /\ db'.stages = db.stages
      /\ db'[n] = t /\ \A m \in UseNames \ {n} : db'[m] = db[m]
  BY SetUse DEF MInv
<1>2. Placed' /\ job'.rev = job.rev /\ job'.up = job.up /\ job'.at = s
  BY <1>1, PlacedElsewhere
<1>3. \A m \in UseNames : Recorded(m) => Recorded(m)'
  BY <1>1 DEF Recorded
<1>4. db'.notices = db.notices
  BY <1>1 DEF UseNames
<1>5. Dropping'
  <2>1. n = "facts" => db'.audit = db.audit
    BY <1>1 DEF UseNames
  <2> QED
    BY <1>2, <2>1 DEF Dropping, Recorded
<1> QED
  BY <1>1, <1>2, <1>3, <1>4, <1>5, ElsewhereSound

\* The tables of this kind, empty or gone.
LEMMA UseValues == Absent \in UseTables /\ [there |-> TRUE, used |-> FALSE] \in UseTables
BY DEF UseTables

\* 0005 creates the snapshot table, and drops it only when nothing is in it.
LEMMA Snapshots5Sound ==
    ASSUME MInv, Upgrade5 \/ Downgrade5
    PROVE  Sound
<1>0. /\ job.rev = 5 /\ job.at = "begin" /\ job # Idle
      /\ "stamp" \in Statements /\ "stamp" \in StatementsOf(job.rev, job.up)
      /\ "snapshots" \in UseNames \ {"notices"}
  <2>1. job.rev = 5 /\ job.at = "begin"
    BY DEF Upgrade5, Downgrade5, At
  <2>2. job # Idle
    BY <2>1 DEF Idle
  <2>3. "stamp" \in StatementsOf(job.rev, job.up)
    BY <2>1 DEF StatementsOf
  <2>4. "stamp" \in Statements /\ "snapshots" \in UseNames \ {"notices"}
    BY DEF Statements, UseNames
  <2> QED
    BY <2>1, <2>2, <2>3, <2>4
<1>1. db \in Databases /\ db.snapshots \in UseTables
  BY DEF MInv, TablesOK, Databases
<1>2. CASE Upgrade5
  <2>1. Goto("stamp")
    BY <1>2 DEF Upgrade5
  <2>2. PICK t \in UseTables : db' = [db EXCEPT !["snapshots"] = t] /\ (Recorded("snapshots") => t.there /\ t.used)
    <3>1. CASE db.snapshots.there
      <4>1. db' = [db EXCEPT !["snapshots"] = db.snapshots]
        BY <1>1, <1>2, <3>1 DEF Upgrade5, Databases
      <4> QED
        BY <1>1, <4>1 DEF Recorded
    <3>2. CASE ~db.snapshots.there
      BY <1>2, <3>2, UseValues DEF Upgrade5, CreateTable, Recorded
    <3> QED
      BY <3>1, <3>2
  <2> QED
    BY <1>0, <2>1, <2>2, UseStepSound
<1>3. CASE Downgrade5
  <2>1. CASE db.snapshots.there /\ db.snapshots.used
    <3>1. Raise("data")
      BY <1>3, <2>1 DEF Downgrade5
    <3> QED
      BY <1>0, <3>1, RaiseSound DEF At
  <2>2. CASE ~(db.snapshots.there /\ db.snapshots.used)
    <3>1. db' = [db EXCEPT !["snapshots"] = Absent] /\ Goto("stamp") /\ ~Recorded("snapshots")
      BY <1>3, <2>2 DEF Downgrade5, DropTable, Recorded
    <3> QED
      BY <1>0, <3>1, UseValues, UseStepSound
  <2> QED
    BY <2>1, <2>2
<1> QED
  BY <1>2, <1>3

\* 0006 creates its tables only where there are none.
LEMMA Upgrade6Sound ==
    ASSUME MInv, Upgrade6
    PROVE  Sound
<1>0. job.rev = 6 /\ job.up = TRUE /\ job # Idle
  BY DEF Upgrade6, At, Idle
<1>1. /\ {"stamp", "facts"} \subseteq Statements
      /\ {"stamp", "facts"} \subseteq StatementsOf(job.rev, job.up)
      /\ "facts" \in UseNames \ {"notices"} /\ "audit" \in UseNames \ {"notices"}
  BY <1>0 DEF Statements, StatementsOf, UseNames
<1>2. CASE Raise("schema")
  BY <1>0, <1>2, RaiseSound DEF At
<1>3. ASSUME NEW n \in {"facts", "audit"}, NEW s \in {"stamp", "facts"},
             Goto(s), CreateTable(n), ~db[n].there
      PROVE  Sound
  <2>1. db' = [db EXCEPT ![n] = [there |-> TRUE, used |-> FALSE]] /\ ~Recorded(n)
    BY <1>3 DEF CreateTable, Recorded
  <2> QED
    BY <1>0, <1>1, <1>3, <2>1, UseValues, UseStepSound
<1> QED
  BY <1>2, <1>3 DEF Upgrade6

\* 0006 drops its tables only when both are unused.
LEMMA Downgrade6Sound ==
    ASSUME MInv, Downgrade6
    PROVE  Sound
<1>0. job.rev = 6 /\ job.up = FALSE /\ job # Idle
  BY DEF Downgrade6, At, Idle
<1>1. /\ {"stamp", "facts", "audit"} \subseteq Statements
      /\ {"stamp", "facts", "audit"} \subseteq StatementsOf(job.rev, job.up)
      /\ "facts" \in UseNames \ {"notices"} /\ "audit" \in UseNames \ {"notices"}
  BY <1>0 DEF Statements, StatementsOf, UseNames
<1>2. ASSUME NEW why \in {"data", "schema"}, Raise(why) PROVE Sound
  BY <1>0, <1>2, RaiseSound DEF At
<1>3. ASSUME Goto("facts"), UNCHANGED db, ~(db.facts.used \/ db.audit.used)
      PROVE  Sound
  <2>1. TablesOK' /\ EventsStay /\ db' = db
    BY <1>3, UnchangedKeeps
  <2>2. Placed' /\ job'.rev = job.rev /\ job'.up = job.up /\ job'.at = "facts"
    BY <1>0, <1>1, <1>3, <2>1, PlacedElsewhere
  <2>3. Dropping'
    BY <1>3, <2>1 DEF Dropping, Recorded
  <2>4. \A m \in UseNames : Recorded(m) => Recorded(m)'
    BY <2>1 DEF Recorded
  <2> QED
    BY <1>0, <1>1, <1>3, <2>1, <2>2, <2>3, <2>4, ElsewhereSound
<1>4. ASSUME At(6, FALSE, "facts"), DropTable("facts"), Goto("audit") PROVE Sound
  <2>1. db' = [db EXCEPT !["facts"] = Absent] /\ ~Recorded("facts") /\ ~Recorded("audit")
    BY <1>0, <1>4 DEF MInv, Dropping, DropTable, At
  <2> QED
    BY <1>0, <1>1, <1>4, <2>1, UseValues, UseStepSound
<1>5. ASSUME At(6, FALSE, "audit"), DropTable("audit"), Goto("stamp") PROVE Sound
  <2>1. db' = [db EXCEPT !["audit"] = Absent] /\ ~Recorded("audit")
    BY <1>0, <1>5 DEF MInv, Dropping, DropTable, At
  <2> QED
    BY <1>0, <1>1, <1>5, <2>1, UseValues, UseStepSound
<1> QED
  BY <1>2, <1>3, <1>4, <1>5 DEF Downgrade6

-----------------------------------------------------------------------------
(* 0004: the statements that replace nothing.                              *)

\* A statement of 0004 that leaves the events and the stages alone.
LEMMA Quiet4Sound ==
    ASSUME MInv, job # Idle, job.rev = 4, job.at # "rename", db.unreadable = {},
           NEW s \in Statements, s \in StatementsOf(job.rev, job.up), Goto(s),
           TablesOK', EventsStay, db'.stages = db.stages,
           \A m \in UseNames : Recorded(m) => Recorded(m)',
           Replacing', job.up /\ s \in {"notices", "stamp"} => HistoryDone
    PROVE  Sound
<1>1. /\ JobOK' /\ job' # Idle
      /\ job'.rev = 4 /\ job'.up = job.up /\ job'.at = s
      /\ version' = version /\ left' = left /\ raised' = raised /\ raised = "no"
  BY GotoMoves DEF MInv
<1>2. Plain' /\ SequenceIsOrder' /\ SameFacts(Held', Held)
  BY <1>1, StayKeeps DEF MInv
<1>3. Dropping' /\ Numbering' /\ Unnumbering'
  BY <1>1 DEF Dropping, Numbering, Unnumbering
<1>4. Placed'
  BY <1>1 DEF MInv, Placed, At, EventsStay
<1>5. Complete'
  <2>1. HistoryDone => HistoryDone'
    BY <1>2, <1>4, HistoryStays DEF MInv, EventsStay
  <2> QED
    BY <1>1, <2>1 DEF MInv, Complete
<1>6. Untouched'
  BY DEF Untouched, EventsStay
<1>7. Kept
  BY <1>2 DEF Kept, UseNames
<1>8. Resumed
  BY <1>1 DEF Resumed
<1> QED
  BY <1>1, <1>2, <1>3, <1>4, <1>5, <1>6, <1>7, <1>8 DEF Sound, MInv

\* Past the validation of legacy payloads there is none that cannot be read.
LEMMA Validated ==
    ASSUME MInv, job.rev = 4, ~(job.up /\ job.at = "begin")
    PROVE  db.unreadable = {}
BY DEF MInv, Untouched, At, Idle

\* Every payload that cannot be read is found.
LEMMA ReadableIsAll ==
    ASSUME MInv, Readable
    PROVE  db.unreadable = {}
<1> SUFFICES ASSUME db.unreadable # {} PROVE FALSE
  OBVIOUS
<1>1. /\ db.unreadable \in SUBSET Unreadable /\ db.reported = LegacyEvents
      /\ db.events \in EventTables
  BY DEF MInv, TablesOK, Databases
<1>2. /\ db.events.there /\ Len(db.events.rows) = Len(Legacy)
      /\ \A i \in DOMAIN Legacy : db.events.rows[i].event = Legacy[i]
  BY DEF MInv, Untouched
<1>3. PICK u \in db.unreadable : TRUE
  OBVIOUS
<1>4. u \in {"event", "report"} \X {Legacy[i] : i \in DOMAIN Legacy}
  BY <1>1, <1>3, BoundsAssumption
<1>5. PICK kind \in {"event", "report"}, i \in DOMAIN Legacy : u = <<kind, Legacy[i]>>
  BY <1>4
<1>6. CASE kind = "event"
  <2>1. db.events.rows \in Seq(Rows) /\ Legacy \in Seq(Events)
    BY <1>1, <1>2, TableRows, BoundsAssumption
  <2>2. i \in DOMAIN db.events.rows
    BY <1>2, <2>1
  <2>3. <<"event", db.events.rows[i].event>> \notin db.unreadable
    BY <1>2, <2>2 DEF Readable, EventsReadable, AuthoritativeRows
  <2> QED
    BY <1>2, <1>3, <1>5, <1>6, <2>3
<1>7. CASE kind = "report"
  <2>1. Legacy[i] \in db.reported
    BY <1>1 DEF LegacyEvents
  <2> QED
    BY <1>3, <1>5, <1>7, <2>1 DEF Readable, ReportsReadable
<1> QED
  BY <1>6, <1>7

\* The validation of 0004 changes nothing and stops for what it cannot read.
LEMMA Preflight4Sound ==
    ASSUME MInv, Preflight4
    PROVE  Sound
<1>0. job.rev = 4 /\ job.up = TRUE /\ job.at = "begin" /\ job # Idle
  BY DEF Preflight4, At, Idle
<1>1. version = 3
  BY <1>0, JobRuns DEF MInv
<1>2. db.events.there \/ db.replacement.there
  BY <1>1 DEF MInv, Placed
<1>3. CASE ~Readable
  <2>1. Raise("data")
    BY <1>2, <1>3 DEF Preflight4
  <2> QED
    BY <1>0, <2>1, RaiseSound DEF At
<1>4. CASE Readable
  <2>1. Goto("repair") /\ db' = db
    BY <1>2, <1>4 DEF Preflight4
  <2>2. TablesOK' /\ EventsStay /\ \A m \in UseNames : Recorded(m) => Recorded(m)'
    BY <2>1, UnchangedKeeps DEF Recorded
  <2>3. "repair" \in Statements /\ "repair" \in StatementsOf(job.rev, job.up)
    BY <1>0 DEF Statements, StatementsOf
  <2>4. job'.at = "repair"
    BY <1>0, <2>1, <2>3, GotoMoves DEF MInv
  <2>5. Replacing'
    BY <2>4 DEF Replacing
  <2> QED
    BY <1>0, <1>4, <2>1, <2>2, <2>3, <2>5, Quiet4Sound, ReadableIsAll
<1> QED
  BY <1>3, <1>4

\* Recognising the table that permits corrections changes nothing.
LEMMA Lineage4Sound ==
    ASSUME MInv, Lineage4
    PROVE  Sound
<1>0. job.rev = 4 /\ job.up = TRUE /\ job.at = "lineage" /\ job # Idle
  BY DEF Lineage4, At, Idle
<1>1. PICK s \in {"history", "create"} : Goto(s)
  BY DEF Lineage4, NextOfLineage
<1>2. TablesOK' /\ EventsStay /\ db' = db
  BY UnchangedKeeps DEF Lineage4
<1>3. s \in Statements /\ s \in StatementsOf(job.rev, job.up)
  BY <1>0, <1>1 DEF Statements, StatementsOf
<1>4. job'.at = s /\ job'.up = TRUE /\ job'.rev = 4
  BY <1>0, <1>1, <1>3, GotoMoves DEF MInv
<1>5. Replacing'
  BY <1>0, <1>1, <1>2, <1>4 DEF MInv, Replacing
<1>6. \A m \in UseNames : Recorded(m) => Recorded(m)'
  BY <1>2 DEF Recorded
<1> QED
  BY <1>0, <1>1, <1>2, <1>3, <1>5, <1>6, Quiet4Sound, Validated

\* Legacy history is complete when no stage row is missing.
LEMMA NoneMissing ==
    ASSUME MInv, db.events.there, \A s \in LegacyStages : Staged(s)
    PROVE  HistoryDone
<1>1. Held = db.events.rows
  BY DEF Held, AuthoritativeRows
<1>2. ASSUME NEW i \in DOMAIN db.events.rows, db.events.rows[i].event \notin db.staged,
             NEW p \in EventPhases
      PROVE  <<db.events.rows[i].event, p>> \in LegacyStages
  BY <1>2 DEF LegacyStages
<1>3. ASSUME NEW e \in db.reported \ db.staged
      PROVE  <<e, "PUBLICATION">> \in LegacyStages
  BY DEF LegacyStages
<1> QED
  BY <1>1, <1>2, <1>3 DEF HistoryDone

\* The stage rows of legacy facts name events and phases.
LEMMA LegacyStagesOK ==
    ASSUME MInv, db.events.there
    PROVE  LegacyStages \subseteq Events \X (EventPhases \cup {"PUBLICATION"})
<1>1. db.events.rows \in Seq(Rows) /\ db.reported \subseteq Events
  <2>1. db.events \in EventTables /\ db.reported = LegacyEvents
    BY DEF MInv, TablesOK, Databases
  <2>2. LegacyEvents \subseteq Events
    BY BoundsAssumption DEF LegacyEvents
  <2> QED
    BY <2>1, <2>2, TableRows
<1>2. \A i \in DOMAIN db.events.rows : db.events.rows[i].event \in Events
  <2>1. \A i \in DOMAIN db.events.rows : db.events.rows[i] \in Rows
    BY <1>1
  <2>2. \A r \in Rows : r.event \in Events
    BY DEF Rows
  <2> QED
    BY <2>1, <2>2
<1>3. \A s \in LegacyStages :
         \/ \E i \in DOMAIN db.events.rows, p \in EventPhases : s = <<db.events.rows[i].event, p>>
         \/ \E e \in db.reported : s = <<e, "PUBLICATION">>
  BY DEF LegacyStages
<1> QED
  BY <1>1, <1>2, <1>3

\* Legacy history grows row by row.
LEMMA History4Sound ==
    ASSUME MInv, History4
    PROVE  Sound
<1>0. job.rev = 4 /\ job.up = TRUE /\ job.at = "history" /\ job # Idle
  BY DEF History4, At, Idle
<1>1. db.events.there
  BY <1>0 DEF MInv, Replacing
<1>2. PICK missing : missing = IF db.stages.there THEN LegacyStages \ db.stages.rows ELSE LegacyStages
  OBVIOUS
<1>3. IF missing = {} THEN Goto("notices") /\ UNCHANGED db
      ELSE IF ~db.stages.there THEN Raise("schema")
      ELSE /\ db' = [db EXCEPT !.stages.rows = @ \union {CHOOSE s \in missing : TRUE}]
           /\ UNCHANGED <<version, job, left, raised>>
  BY <1>2 DEF History4
<1>4. version = 3
  BY <1>0, JobRuns DEF MInv
<1>5. CASE missing = {}
  <2>1. Goto("notices") /\ db' = db
    BY <1>3, <1>5
  <2>2. HistoryDone
    <3>1. \A s \in LegacyStages : Staged(s)
      BY <1>2, <1>5 DEF Staged
    <3> QED
      BY <1>1, <3>1, NoneMissing
  <2>3. TablesOK' /\ EventsStay /\ \A m \in UseNames : Recorded(m) => Recorded(m)'
    BY <2>1, UnchangedKeeps DEF Recorded
  <2>4. "notices" \in Statements /\ "notices" \in StatementsOf(job.rev, job.up)
    BY <1>0 DEF Statements, StatementsOf
  <2>5. job'.at = "notices" /\ job'.up = TRUE
    BY <1>0, <2>1, <2>4, GotoMoves DEF MInv
  <2>6. Replacing'
    BY <1>0, <2>1, <2>5 DEF MInv, Replacing
  <2> QED
    BY <1>0, <2>1, <2>2, <2>3, <2>4, <2>6, Quiet4Sound, Validated
<1>6. CASE missing # {} /\ ~db.stages.there
  <2>1. Raise("schema")
    BY <1>3, <1>6
  <2>2. <<3, FALSE>> \in left
    BY <1>0, <1>4, <1>6 DEF MInv, Placed, At
  <2>3. left \ {<<job.rev, job.up>>} # {}
    BY <1>0, <2>2
  <2> QED
    BY <1>0, <2>1, <2>3, RaiseSound DEF At
<1>7. CASE missing # {} /\ db.stages.there
  <2>1. PICK s \in missing : db' = [db EXCEPT !.stages.rows = @ \union {s}]
    BY <1>3, <1>7
  <2>2. version' = version /\ job' = job /\ left' = left /\ raised' = raised
    BY <1>3, <1>7
  <2>3. db.stages \in StageTables /\ db \in Databases
    BY DEF MInv, TablesOK, Databases
  <2>4. db.stages \in [there : {TRUE}, rows : SUBSET (Events \X (EventPhases \cup {"PUBLICATION"}))]
    <3>1. Absent.there = FALSE
      BY DEF Absent
    <3>2. db.stages # Absent
      BY <1>7, <3>1
    <3> QED
      BY <2>3, <3>2 DEF StageTables
  <2>5. s \in Events \X (EventPhases \cup {"PUBLICATION"})
    BY <1>1, <1>2, <1>7, LegacyStagesOK
  <2>6. PICK t : t = [db.stages EXCEPT !.rows = @ \union {s}]
    OBVIOUS
  <2>7. t.there /\ t.rows = db.stages.rows \cup {s} /\ t \in StageTables
    BY <2>4, <2>5, <2>6 DEF StageTables
  <2>8. db' = [db EXCEPT !.stages = t]
    BY <2>1, <2>6
  <2>9. TablesOK' /\ EventsStay /\ db'.stages = t /\ \A m \in UseNames : db'[m] = db[m]
    BY <2>7, <2>8, SetStages DEF MInv
  <2>10. Plain' /\ SequenceIsOrder' /\ SameFacts(Held', Held)
    BY <2>2, <2>9, StayKeeps DEF MInv
  <2>11. JobOK' /\ Dropping' /\ Numbering' /\ Unnumbering'
    BY <1>0, <2>2 DEF MInv, JobOK, Dropping, Numbering, Unnumbering
  <2>12. Placed' /\ Replacing'
    <3>1. Placed'
      BY <1>0, <2>2, <2>7, <2>9 DEF MInv, Placed, At, EventsStay
    <3>2. Replacing'
      BY <1>0, <2>2, <2>9 DEF MInv, Replacing, EventsStay
    <3> QED
      BY <3>1, <3>2
  <2>13. Complete'
    BY <1>0, <1>4, <2>2 DEF Complete
  <2>14. Untouched'
    BY <1>0, <2>9, Validated DEF Untouched, EventsStay
  <2>15. Kept
    BY <1>7, <2>7, <2>9, <2>10 DEF Kept, Recorded, UseNames
  <2>16. Resumed
    BY <1>0, <2>2, JobRuns DEF Resumed, MInv
  <2> QED
    BY <2>9, <2>10, <2>11, <2>12, <2>13, <2>14, <2>15, <2>16 DEF Sound, MInv
<1> QED
  BY <1>5, <1>6, <1>7

\* The table of attempts is created once, and dropped only unused.
LEMMA Notices4Sound ==
    ASSUME MInv, Notices4 \/ DowngradeNotices4
    PROVE  Sound
<1>0. job.rev = 4 /\ job.at = "notices" /\ job # Idle /\ job.up \in BOOLEAN
  <2>1. job.rev = 4 /\ job.at = "notices"
    BY DEF Notices4, DowngradeNotices4, At
  <2>2. job # Idle
    BY <2>1 DEF Idle
  <2> QED
    BY <2>1, <2>2, JobRuns DEF MInv, Jobs
<1>1. /\ db.notices \in UseTables /\ db \in Databases /\ "notices" \in UseNames
      /\ db.events.there /\ ~db.replacement.there /\ db.unreadable = {}
  BY <1>0, Validated DEF MInv, Replacing, TablesOK, Databases, UseNames
<1>2. ASSUME NEW s \in {"stamp", "create"}, job.up => s = "stamp", Goto(s),
             NEW t \in UseTables, db' = [db EXCEPT !["notices"] = t],
             Recorded("notices") => t.there /\ t.used
      PROVE  Sound
  <2>1. /\ TablesOK' /\ EventsStay /\ db'.stages = db.stages
        /\ db'["notices"] = t /\ \A m \in UseNames \ {"notices"} : db'[m] = db[m]
    BY <1>1, <1>2, SetUse DEF MInv
  <2>2. s \in Statements /\ s \in StatementsOf(job.rev, job.up)
    BY <1>0, <1>2 DEF Statements, StatementsOf
  <2>3. job'.rev = 4 /\ job'.up = job.up /\ job'.at = s
    BY <1>0, <1>2, <2>2, GotoMoves DEF MInv
  <2>4. Replacing'
    BY <1>0, <1>1, <1>2, <2>1, <2>3 DEF MInv, Replacing, EventsStay
  <2>5. \A m \in UseNames : Recorded(m) => Recorded(m)'
    BY <1>2, <2>1 DEF Recorded
  <2>6. job.up => HistoryDone
    BY <1>0 DEF MInv, Complete
  <2> QED
    BY <1>0, <1>1, <1>2, <2>1, <2>2, <2>4, <2>5, <2>6, Quiet4Sound
<1>3. CASE Notices4
  <2>1. Goto("stamp")
    BY <1>3 DEF Notices4
  <2>2. CASE db.notices.there
    <3>1. db' = [db EXCEPT !["notices"] = db.notices]
      BY <1>1, <1>3, <2>2 DEF Notices4, Databases
    <3> QED
      BY <1>1, <1>2, <2>1, <3>1 DEF Recorded
  <2>3. CASE ~db.notices.there
    <3>1. db' = [db EXCEPT !["notices"] = [there |-> TRUE, used |-> FALSE]] /\ ~Recorded("notices")
      BY <1>3, <2>3 DEF Notices4, CreateTable, Recorded
    <3> QED
      BY <1>2, <2>1, <3>1, UseValues
  <2> QED
    BY <2>2, <2>3
<1>4. CASE DowngradeNotices4
  <2>1. job.up = FALSE
    BY <1>4 DEF DowngradeNotices4, At
  <2>2. CASE db.notices.there /\ db.notices.used
    <3>1. Raise("data")
      BY <1>4, <2>2 DEF DowngradeNotices4
    <3> QED
      BY <1>0, <3>1, RaiseSound DEF At
  <2>3. CASE ~(db.notices.there /\ db.notices.used)
    <3>1. /\ db' = [db EXCEPT !["notices"] = Absent] /\ ~Recorded("notices")
          /\ Goto(IF HasLineage THEN "create" ELSE "stamp")
      BY <1>4, <2>3 DEF DowngradeNotices4, DropTable, Recorded
    <3>2. PICK s \in {"stamp", "create"} : Goto(s)
      BY <3>1
    <3> QED
      BY <1>2, <2>1, <3>1, <3>2, UseValues
  <2> QED
    BY <2>2, <2>3
<1> QED
  BY <1>3, <1>4

\* A downgrade goes on only where no event corrects another.
LEMMA Corrections4Sound ==
    ASSUME MInv, DowngradeCorrections4
    PROVE  Sound
<1>0. job.rev = 4 /\ job.up = FALSE /\ job.at = "corrections" /\ job # Idle
  BY DEF DowngradeCorrections4, At, Idle
<1>1. CASE Corrected
  <2>1. Raise("data")
    BY <1>1 DEF DowngradeCorrections4
  <2> QED
    BY <1>0, <2>1, RaiseSound DEF At
<1>2. CASE ~Corrected
  <2>1. Goto("notices") /\ db' = db
    BY <1>2 DEF DowngradeCorrections4
  <2>2. TablesOK' /\ EventsStay /\ \A m \in UseNames : Recorded(m) => Recorded(m)'
    BY <2>1, UnchangedKeeps DEF Recorded
  <2>3. "notices" \in Statements /\ "notices" \in StatementsOf(job.rev, job.up)
    BY <1>0 DEF Statements, StatementsOf
  <2>4. job'.rev = 4 /\ job'.at = "notices" /\ job'.up = FALSE
    BY <1>0, <2>1, <2>3, GotoMoves DEF MInv
  <2>5. NoneCorrects(db.events.rows)
    BY <1>2 DEF Corrected, NoneCorrects
  <2>6. Replacing'
    BY <1>0, <2>1, <2>4, <2>5 DEF MInv, Replacing, NoneCorrects
  <2> QED
    BY <1>0, <2>1, <2>2, <2>3, <2>6, Quiet4Sound, Validated
<1> QED
  BY <1>1, <1>2

-----------------------------------------------------------------------------
(* Replacing the table of events.                                          *)

OthersStay ==
    /\ db'.stages = db.stages /\ db'.staged = db.staged /\ db'.reported = db.reported
    /\ db'.unreadable = db.unreadable /\ \A m \in UseNames : db'[m] = db[m]

(* The database with other tables of events. *)
WithEvents(e, r, u) == [db EXCEPT !.events = e, !.replacement = r, !.unsequenced = u]

\* Statements on the tables of events.
LEMMA SetEvents ==
    ASSUME TablesOK, NEW e \in EventTables, NEW r \in EventTables, NEW u \in EventTables,
           db' = WithEvents(e, r, u)
    PROVE  /\ TablesOK' /\ OthersStay
           /\ db'.events = e /\ db'.replacement = r /\ db'.unsequenced = u
<1>1. TablesOK'
  BY DEF TablesOK, Databases, WithEvents
<1>2. db'.events = e /\ db'.replacement = r /\ db'.unsequenced = u
  BY DEF TablesOK, Databases, WithEvents
<1>3. OthersStay
  BY DEF TablesOK, Databases, WithEvents, OthersStay, UseNames
<1> QED
  BY <1>1, <1>2, <1>3

\* A statement that replaces tables of events and holds the same events.
LEMMA TableSound ==
    ASSUME MInv, job # Idle, job.rev \in {4, 7}, db.unreadable = {},
           NEW s \in Statements, s \in StatementsOf(job.rev, job.up), Goto(s),
           job.rev = 4 /\ job.up => s \notin {"notices", "stamp"},
           TablesOK', OthersStay, SameFacts(Held', Held),
           Plain', Placed', SequenceIsOrder', Replacing', Numbering', Unnumbering'
    PROVE  Sound
<1>1. /\ JobOK' /\ job' # Idle
      /\ job'.rev = job.rev /\ job'.up = job.up /\ job'.at = s
      /\ version' = version /\ left' = left /\ raised' = raised /\ raised = "no"
  BY GotoMoves DEF MInv
<1>2. Dropping'
  BY <1>1 DEF Dropping
<1>3. Complete'
  <2>1. HistoryDone => HistoryDone'
    BY HistoryStays DEF MInv, OthersStay
  <2> QED
    BY <1>1, <2>1 DEF MInv, Complete
<1>4. Untouched'
  BY DEF Untouched, OthersStay
<1>5. Kept
  BY DEF Kept, OthersStay, UseNames, Recorded
<1>6. Resumed
  BY <1>1 DEF Resumed
<1> QED
  BY <1>1, <1>2, <1>3, <1>4, <1>5, <1>6 DEF Sound, MInv

\* A statement names only the tables it changes.
LEMMA SetSome ==
    ASSUME TablesOK, NEW x, NEW y
    PROVE  /\ [db EXCEPT !.events = x]
                = WithEvents(x, db.replacement, db.unsequenced)
           /\ [db EXCEPT !.replacement = x]
                = WithEvents(db.events, x, db.unsequenced)
           /\ [db EXCEPT !.unsequenced = x]
                = WithEvents(db.events, db.replacement, x)
           /\ [db EXCEPT !.events = x, !.replacement = y]
                = WithEvents(x, y, db.unsequenced)
           /\ [db EXCEPT !.events = x, !.unsequenced = y]
                = WithEvents(x, db.replacement, y)
<1> USE DEF TablesOK, Databases, WithEvents
<1>1. [db EXCEPT !.events = x]
                = WithEvents(x, db.replacement, db.unsequenced)
  OBVIOUS
<1>2. [db EXCEPT !.replacement = x]
                = WithEvents(db.events, x, db.unsequenced)
  OBVIOUS
<1>3. [db EXCEPT !.unsequenced = x]
                = WithEvents(db.events, db.replacement, x)
  OBVIOUS
<1>4. [db EXCEPT !.events = x, !.replacement = y]
                = WithEvents(x, y, db.unsequenced)
  OBVIOUS
<1>5. [db EXCEPT !.events = x, !.unsequenced = y]
                = WithEvents(x, db.replacement, y)
  OBVIOUS
<1> QED
  BY <1>1, <1>2, <1>3, <1>4, <1>5

\* Order is kept by tables that keep their rows and by copies without numbers.
LEMMA OrderStays ==
    ASSUME SequenceIsOrder, version' = version,
           db'.events = db.events \/ ~db'.events.there \/ Unnumbered(db'.events)
    PROVE  SequenceIsOrder'
BY DEF SequenceIsOrder, Unnumbered

\* A table that is gone is not there.
LEMMA AbsentIsGone == Absent \in EventTables /\ Absent.there = FALSE
BY DEF EventTables, Absent

\* What an interrupted replacement left is repaired: the events are in their
\* table, the same as were held, and there is no copy.
LEMMA Repaired ==
    ASSUME MInv, version \in {3, 4}, version' = version, db' = ReplacementRepaired
    PROVE  /\ TablesOK' /\ OthersStay /\ db'.unsequenced = db.unsequenced
           /\ db'.events.there /\ ~db'.replacement.there
           /\ SameFacts(Held', Held) /\ Plain' /\ SequenceIsOrder'
<1>0. /\ TablesOK /\ Plain /\ SequenceIsOrder /\ Held \in Seq(Rows)
      /\ db.events \in EventTables /\ db.replacement \in EventTables
      /\ db.unsequenced \in EventTables /\ ~db.unsequenced.there
      /\ db.events.there \/ db.replacement.there
  <2>1. TablesOK /\ Plain /\ SequenceIsOrder /\ Placed
    BY DEF MInv
  <2>2. ~db.unsequenced.there /\ (db.events.there \/ db.replacement.there)
    BY <2>1 DEF Placed
  <2> QED
    BY <2>1, <2>2, HeldIsRows, EventTablesOK
<1>1. CASE ~db.replacement.there
  <2>1. db' = db
    BY <1>1 DEF ReplacementRepaired
  <2>2. TablesOK' /\ Plain' /\ EventsStay
    BY <2>1, UnchangedKeeps
  <2>3. SameFacts(Held', Held)
    BY <1>0, <2>2, StayHolds, SameFactsReflexive
  <2>4. SequenceIsOrder'
    BY <1>0, <2>1, OrderStays
  <2> QED
    BY <1>0, <1>1, <2>1, <2>2, <2>3, <2>4 DEF OthersStay
<1>2. CASE db.replacement.there /\ db.events.there
  <2>1. db' = WithEvents(db.events, Absent, db.unsequenced)
    BY <1>0, <1>2, SetSome DEF ReplacementRepaired
  <2>2. /\ TablesOK' /\ OthersStay /\ db'.events = db.events /\ db'.replacement = Absent
        /\ db'.unsequenced = db.unsequenced
    BY <1>0, <2>1, SetEvents, AbsentIsGone
  <2>3. Held' = Held
    BY <1>2, <2>2 DEF Held, AuthoritativeRows
  <2>4. Plain'
    BY <1>0, <2>2, AbsentIsGone DEF Plain, NoneCorrects
  <2> QED
    BY <1>0, <1>2, <2>2, <2>3, <2>4, OrderStays, SameFactsReflexive, AbsentIsGone
<1>3. CASE db.replacement.there /\ ~db.events.there
  <2>1. db' = WithEvents(db.replacement, Absent, db.unsequenced)
    BY <1>0, <1>3, SetSome DEF ReplacementRepaired
  <2>2. /\ TablesOK' /\ OthersStay /\ db'.events = db.replacement /\ db'.replacement = Absent
        /\ db'.unsequenced = db.unsequenced
    BY <1>0, <2>1, SetEvents, AbsentIsGone
  <2>3. Held' = Held
    BY <1>0, <1>3, <2>2 DEF Held, AuthoritativeRows
  <2>4. Plain' /\ Unnumbered(db'.events)
    BY <1>0, <1>3, <2>2, AbsentIsGone DEF Plain, NoneCorrects, Unnumbered
  <2> QED
    BY <1>0, <1>3, <2>2, <2>3, <2>4, OrderStays, SameFactsReflexive, AbsentIsGone
<1> QED
  BY <1>0, <1>1, <1>2, <1>3

\* 0004 repairs before it does anything else, in either direction.
LEMMA Repair4Sound ==
    ASSUME MInv, Repair4 \/ DowngradeRepair4
    PROVE  Sound
<1>0. /\ job.rev = 4 /\ job # Idle
      /\ Repair4 => job.up = TRUE /\ job.at = "repair"
      /\ DowngradeRepair4 => job.up = FALSE /\ job.at = "begin"
  BY DEF Repair4, DowngradeRepair4, At, Idle
<1>1. version \in {3, 4} /\ job.up \in BOOLEAN /\ db.unreadable = {}
  BY <1>0, JobRuns, Validated DEF MInv, Jobs
<1>2. db.events.there \/ db.replacement.there
  BY <1>1 DEF MInv, Placed
<1>3. ReplacementRepaired.events.there
  <2>1. CASE ~db.replacement.there \/ db.events.there
    BY <1>2, <2>1 DEF ReplacementRepaired, MInv, TablesOK, Databases
  <2>2. CASE db.replacement.there /\ ~db.events.there
    BY <2>2 DEF ReplacementRepaired, MInv, TablesOK, Databases
  <2> QED
    BY <2>1, <2>2
<1>4. /\ db' = ReplacementRepaired
      /\ \E s \in {"lineage", "corrections", "notices"} :
            /\ Goto(s) /\ (job.up <=> s = "lineage")
            /\ s = "notices" => ~db'.events.lineage
  <2>1. CASE Repair4
    BY <1>0, <2>1 DEF Repair4
  <2>2. CASE DowngradeRepair4
    BY <1>0, <1>3, <2>2 DEF DowngradeRepair4
  <2> QED
    BY <2>1, <2>2
<1>5. PICK s \in {"lineage", "corrections", "notices"} :
            /\ Goto(s) /\ (job.up <=> s = "lineage")
            /\ s = "notices" => ~db'.events.lineage
  BY <1>4
<1>6. s \in Statements /\ s \in StatementsOf(job.rev, job.up)
  BY <1>0, <1>1, <1>5 DEF Statements, StatementsOf
<1>7. /\ job'.rev = 4 /\ job'.up = job.up /\ job'.at = s /\ version' = version /\ left' = left
  BY <1>0, <1>5, <1>6, GotoMoves DEF MInv
<1>8. /\ TablesOK' /\ OthersStay /\ db'.unsequenced = db.unsequenced
      /\ db'.events.there /\ ~db'.replacement.there
      /\ SameFacts(Held', Held) /\ Plain' /\ SequenceIsOrder'
  BY <1>1, <1>4, <1>7, Repaired
<1>9. Placed'
  BY <1>0, <1>1, <1>7, <1>8 DEF MInv, Placed, At, OthersStay
<1>10. Replacing'
  BY <1>5, <1>7, <1>8 DEF Replacing, Plain
<1>11. Numbering' /\ Unnumbering'
  BY <1>7 DEF Numbering, Unnumbering
<1> QED
  BY <1>0, <1>1, <1>5, <1>6, <1>7, <1>8, <1>9, <1>10, <1>11, TableSound

\* A copy has the rows it was made of, without their sequence, and without
\* their corrections where there were none.
LEMMA CopiedRows ==
    ASSUME NEW rows \in Seq(Rows), NEW l \in BOOLEAN, l \/ NoneCorrects(rows)
    PROVE  /\ Copied(rows, l) \in Seq(Rows) /\ SameFacts(Copied(rows, l), rows)
           /\ \A i \in DOMAIN Copied(rows, l) : Copied(rows, l)[i].seq = 0
           /\ ~l => NoneCorrects(Copied(rows, l))
<1>1. PICK c : c = Copied(rows, l)
  OBVIOUS
<1>2. c = [i \in 1..Len(rows) |-> Row(rows[i].event, IF l THEN rows[i].corrects ELSE "none")]
  BY <1>1 DEF Copied
<1>3. ASSUME NEW i \in 1..Len(rows)
      PROVE  /\ rows[i] \in Rows /\ c[i] \in Rows /\ c[i].event = rows[i].event
             /\ c[i].corrects = rows[i].corrects /\ c[i].seq = 0
  <2>1. rows[i] \in Rows
    OBVIOUS
  <2>2. ~l => rows[i].corrects = "none"
    BY DEF NoneCorrects
  <2>3. PICK e, k : e = rows[i].event /\ k = rows[i].corrects
    OBVIOUS
  <2>4. c[i] = [event |-> e, corrects |-> k, seq |-> 0]
    BY <1>2, <2>2, <2>3 DEF Row
  <2>5. e \in Events /\ k \in Events \cup {"none"}
    BY <2>1, <2>3 DEF Rows
  <2> QED
    BY <2>1, <2>3, <2>4, <2>5 DEF Rows
<1>4. c \in Seq(Rows) /\ Len(c) = Len(rows) /\ DOMAIN c = 1..Len(rows)
  BY <1>2, <1>3
<1>5. SameFacts(c, rows)
  BY <1>3, <1>4 DEF SameFacts
<1>6. ~l => NoneCorrects(c)
  BY <1>3, <1>4 DEF NoneCorrects
<1> QED
  BY <1>1, <1>3, <1>4, <1>5, <1>6

\* A new table is empty.
LEMMA EmptyTable ==
    ASSUME NEW l \in BOOLEAN
    PROVE  /\ EventTable(l, <<>>) \in EventTables /\ EventTable(l, <<>>).there
           /\ EventTable(l, <<>>).lineage = l /\ Unnumbered(EventTable(l, <<>>))
           /\ NoneCorrects(EventTable(l, <<>>).rows)
<1>1. PICK t : t = EventTable(l, <<>>)
  OBVIOUS
<1>2. t = [there |-> TRUE, lineage |-> l, sequenced |-> FALSE, indexed |-> FALSE, rows |-> <<>>]
  BY <1>1 DEF EventTable
<1>3. t.there /\ t.lineage = l /\ t.sequenced = FALSE /\ t.rows = <<>>
  BY <1>2
<1>4. t \in EventTables
  <2>1. <<>> \in Seq(Rows)
    OBVIOUS
  <2> QED
    BY <1>2, <2>1 DEF EventTables
<1>5. Unnumbered(t) /\ NoneCorrects(t.rows)
  BY <1>3 DEF Unnumbered, NoneCorrects
<1> QED
  BY <1>1, <1>3, <1>4, <1>5

\* A table filled with other rows.
LEMMA FilledTable ==
    ASSUME NEW t \in EventTables, t.there, NEW rows \in Seq(Rows),
           NEW x, x = [t EXCEPT !.rows = rows]
    PROVE  /\ x \in EventTables /\ x.there /\ x.rows = rows
           /\ x.lineage = t.lineage /\ x.sequenced = t.sequenced
<1>1. t \in [there : {TRUE}, lineage : BOOLEAN, sequenced : BOOLEAN,
             indexed : BOOLEAN, rows : Seq(Rows)]
  BY TableRows
<1> QED
  BY <1>1 DEF EventTables

\* Creating the copy changes no event.
LEMMA CreateReplacementSound ==
    ASSUME MInv, CreateReplacement
    PROVE  Sound
<1>0. job.rev = 4 /\ job.at = "create" /\ job # Idle
  BY DEF CreateReplacement, Idle
<1>1. version \in {3, 4} /\ job.up \in BOOLEAN /\ db.unreadable = {}
  BY <1>0, JobRuns, Validated DEF MInv, Jobs
<1>2. db.events.there /\ ~db.replacement.there /\ ~db.unsequenced.there
  BY <1>0, <1>1 DEF MInv, Replacing, Placed
<1>3. db' = [db EXCEPT !.replacement = EventTable(job.up, <<>>)] /\ Goto("copy")
  BY <1>2 DEF CreateReplacement
<1>4. PICK t : t = EventTable(job.up, <<>>)
  OBVIOUS
<1>5. t \in EventTables /\ t.there /\ t.lineage = job.up /\ Unnumbered(t) /\ NoneCorrects(t.rows)
  BY <1>1, <1>4, EmptyTable
<1>6. /\ TablesOK' /\ OthersStay /\ db'.events = db.events /\ db'.replacement = t
      /\ db'.unsequenced = db.unsequenced
  <2>1. TablesOK
    BY DEF MInv
  <2>2. db' = WithEvents(db.events, t, db.unsequenced)
    BY <1>3, <1>4, <2>1, SetSome
  <2> QED
    BY <1>5, <2>1, <2>2, SetEvents, EventTablesOK
<1>7. "copy" \in Statements /\ "copy" \in StatementsOf(job.rev, job.up)
  BY <1>0, <1>1 DEF Statements, StatementsOf
<1>8. /\ job'.rev = 4 /\ job'.up = job.up /\ job'.at = "copy" /\ version' = version /\ left' = left
  BY <1>0, <1>3, <1>7, GotoMoves DEF MInv
<1>9. SameFacts(Held', Held)
  <2>1. Held' = Held
    BY <1>2, <1>6 DEF Held, AuthoritativeRows
  <2> QED
    BY <2>1, HeldIsRows, SameFactsReflexive DEF MInv
<1>10. Plain'
  BY <1>5, <1>6 DEF MInv, Plain
<1>11. Placed'
  BY <1>0, <1>1, <1>2, <1>6, <1>8 DEF MInv, Placed, At, OthersStay
<1>12. Replacing'
  BY <1>0, <1>2, <1>5, <1>6, <1>8 DEF MInv, Replacing
<1>13. Numbering' /\ Unnumbering'
  BY <1>8 DEF Numbering, Unnumbering
<1>14. SequenceIsOrder'
  BY <1>6, <1>8, OrderStays DEF MInv
<1> QED
  BY <1>0, <1>1, <1>3, <1>6, <1>7, <1>9, <1>10, <1>11, <1>12, <1>13, <1>14, TableSound

\* The copy has the events of the table.
LEMMA CopyEventsSound ==
    ASSUME MInv, CopyEvents
    PROVE  Sound
<1>0. job.rev = 4 /\ job.at = "copy" /\ job # Idle
  BY DEF CopyEvents, Idle
<1>1. version \in {3, 4} /\ job.up \in BOOLEAN /\ db.unreadable = {}
  BY <1>0, JobRuns, Validated DEF MInv, Jobs
<1>2. /\ db.events.there /\ db.replacement.there /\ ~db.unsequenced.there
      /\ db.replacement.lineage = job.up
  BY <1>0, <1>1 DEF MInv, Replacing, Placed
<1>3. /\ db.events \in EventTables /\ db.replacement \in EventTables
      /\ db.unsequenced \in EventTables /\ TablesOK
      /\ db.events.rows \in Seq(Rows) /\ db.events.lineage \in BOOLEAN
  BY <1>2, EventTablesOK, TableRows DEF MInv
<1>4. PICK c : c = Copied(db.events.rows, job.up /\ db.events.lineage)
  OBVIOUS
<1>5. /\ c \in Seq(Rows) /\ SameFacts(c, db.events.rows) /\ \A i \in DOMAIN c : c[i].seq = 0
      /\ ~(job.up /\ db.events.lineage) => NoneCorrects(c)
  <2>1. (job.up /\ db.events.lineage) \/ NoneCorrects(db.events.rows)
    BY <1>0, <1>1, <1>2 DEF MInv, Plain, Replacing
  <2>2. PICK l \in BOOLEAN : l = (job.up /\ db.events.lineage)
    OBVIOUS
  <2> QED
    BY <1>3, <1>4, <2>1, <2>2, CopiedRows
<1>6. PICK t : t = [db.replacement EXCEPT !.rows = c]
  OBVIOUS
<1>7. /\ t \in EventTables /\ t.there /\ t.rows = c /\ t.lineage = job.up
      /\ t.sequenced = db.replacement.sequenced
  BY <1>2, <1>3, <1>5, <1>6, FilledTable
<1>8. Unnumbered(t)
  BY <1>2, <1>5, <1>7 DEF MInv, Plain, Unnumbered
<1>9. db' = [db EXCEPT !.replacement = t] /\ Goto("drop")
  BY <1>4, <1>6 DEF CopyEvents
<1>10. /\ TablesOK' /\ OthersStay /\ db'.events = db.events /\ db'.replacement = t
      /\ db'.unsequenced = db.unsequenced
  <2>1. db' = WithEvents(db.events, t, db.unsequenced)
    BY <1>3, <1>9, SetSome
  <2> QED
    BY <1>3, <1>7, <2>1, SetEvents
<1>11. "drop" \in Statements /\ "drop" \in StatementsOf(job.rev, job.up)
  BY <1>0, <1>1 DEF Statements, StatementsOf
<1>12. /\ job'.rev = 4 /\ job'.up = job.up /\ job'.at = "drop" /\ version' = version /\ left' = left
  BY <1>0, <1>9, <1>11, GotoMoves DEF MInv
<1>13. SameFacts(Held', Held)
  <2>1. Held' = Held
    BY <1>2, <1>10 DEF Held, AuthoritativeRows
  <2> QED
    BY <2>1, HeldIsRows, SameFactsReflexive DEF MInv
<1>14. Plain'
  BY <1>5, <1>7, <1>8, <1>10 DEF MInv, Plain
<1>15. Placed'
  BY <1>0, <1>1, <1>2, <1>10, <1>12 DEF MInv, Placed, At, OthersStay
<1>16. Replacing'
  BY <1>0, <1>2, <1>5, <1>7, <1>10, <1>12 DEF MInv, Replacing
<1>17. Numbering' /\ Unnumbering'
  BY <1>12 DEF Numbering, Unnumbering
<1>18. SequenceIsOrder'
  BY <1>10, <1>12, OrderStays DEF MInv
<1> QED
  BY <1>0, <1>1, <1>9, <1>10, <1>11, <1>13, <1>14, <1>15, <1>16, <1>17, <1>18, TableSound

\* The copy takes the place of the table.
LEMMA RenameReplacementSound ==
    ASSUME MInv, RenameReplacement
    PROVE  Sound
<1>0. job.rev = 4 /\ job.at = "rename" /\ job # Idle
  BY DEF RenameReplacement, Idle
<1>1. version \in {3, 4} /\ job.up \in BOOLEAN /\ db.unreadable = {}
  BY <1>0, JobRuns, Validated DEF MInv, Jobs
<1>2. ~db.events.there /\ db.replacement.there /\ ~db.unsequenced.there /\ TablesOK
  BY <1>0, <1>1 DEF MInv, Replacing, Placed
<1>3. db' = WithEvents(db.replacement, Absent, db.unsequenced)
  BY <1>2, SetSome DEF RenameReplacement
<1>4. PICK s \in {"history", "stamp"} : Goto(s) /\ (s = "history" <=> job.up)
  BY DEF RenameReplacement
<1>5. /\ TablesOK' /\ OthersStay /\ db'.events = db.replacement /\ db'.replacement = Absent
      /\ db'.unsequenced = db.unsequenced
  BY <1>2, <1>3, SetEvents, EventTablesOK, AbsentIsGone
<1>6. s \in Statements /\ s \in StatementsOf(job.rev, job.up)
  BY <1>0, <1>1, <1>4 DEF Statements, StatementsOf
<1>7. /\ job'.rev = 4 /\ job'.up = job.up /\ job'.at = s /\ version' = version /\ left' = left
  BY <1>0, <1>4, <1>6, GotoMoves DEF MInv
<1>8. SameFacts(Held', Held)
  <2>1. Held' = Held
    BY <1>2, <1>5 DEF Held, AuthoritativeRows
  <2> QED
    BY <2>1, HeldIsRows, SameFactsReflexive DEF MInv
<1>9. Plain' /\ Unnumbered(db'.events)
  BY <1>2, <1>5, AbsentIsGone DEF MInv, Plain, Unnumbered
<1>10. Placed'
  BY <1>0, <1>1, <1>2, <1>5, <1>7 DEF MInv, Placed, At, OthersStay
<1>11. Replacing'
  BY <1>2, <1>4, <1>5, <1>7, AbsentIsGone DEF Replacing
<1>12. Numbering' /\ Unnumbering'
  BY <1>7 DEF Numbering, Unnumbering
<1>13. SequenceIsOrder'
  BY <1>7, <1>9, OrderStays DEF MInv
<1> QED
  BY <1>0, <1>1, <1>4, <1>5, <1>6, <1>7, <1>8, <1>9, <1>10, <1>11, <1>12, <1>13, TableSound

\* The revision 0007 has no unreadable payload left.
LEMMA Validated7 ==
    ASSUME MInv, job.rev = 7
    PROVE  job # Idle /\ version \in {6, 7} /\ job.up \in BOOLEAN
           /\ (version = 7 <=> ~job.up) /\ db.unreadable = {}
<1>1. job # Idle
  BY DEF Idle
<1>2. version = (IF job.up THEN job.rev - 1 ELSE job.rev) /\ job.up \in BOOLEAN
  BY <1>1, JobRuns DEF MInv, Jobs
<1>3. version \in {6, 7} /\ (version = 7 <=> ~job.up)
  BY <1>2
<1> QED
  BY <1>1, <1>2, <1>3 DEF MInv, Untouched

\* The table goes when its copy is complete.
LEMMA DropEventsSound ==
    ASSUME MInv, DropEvents
    PROVE  Sound
<1>0. job.at = "drop" /\ job # Idle /\ Goto("rename") /\ db' = [db EXCEPT !.events = Absent]
  <2>1. job.at = "drop" /\ Goto("rename") /\ db' = [db EXCEPT !.events = Absent]
    BY DEF DropEvents, DropTable
  <2>2. job # Idle
    BY <2>1 DEF Idle
  <2> QED
    BY <2>1, <2>2
<1>1. job \in Jobs /\ version = (IF job.up THEN job.rev - 1 ELSE job.rev) /\ job.rev \in {4, 7}
      /\ (job.rev = 7 => ~job.up)
  <2>1. /\ job \in Jobs /\ version = (IF job.up THEN job.rev - 1 ELSE job.rev)
        /\ job.at \in StatementsOf(job.rev, job.up)
    BY <1>0, JobRuns DEF MInv
  <2>2. job.rev \in 3..7 /\ job.up \in BOOLEAN
    BY <2>1 DEF Jobs
  <2> QED
    BY <1>0, <2>1, <2>2 DEF StatementsOf
<1>2. db.unreadable = {} /\ job.up \in BOOLEAN
  BY <1>0, <1>1, Validated, Validated7 DEF Jobs
<1>3. db' = WithEvents(Absent, db.replacement, db.unsequenced)
  BY <1>0, SetSome DEF MInv
<1>4. /\ TablesOK' /\ OthersStay /\ db'.events = Absent /\ db'.replacement = db.replacement
      /\ db'.unsequenced = db.unsequenced
  BY <1>3, SetEvents, EventTablesOK, AbsentIsGone DEF MInv
<1>5. "rename" \in Statements /\ "rename" \in StatementsOf(job.rev, job.up)
  BY <1>1, <1>2 DEF Statements, StatementsOf
<1>6. /\ job'.rev = job.rev /\ job'.up = job.up /\ job'.at = "rename" /\ version' = version
      /\ left' = left
  BY <1>0, <1>5, GotoMoves DEF MInv
<1>7. SameFacts(Held', Held)
  <2>1. CASE job.rev = 4
    <3>1. /\ db.events.there /\ SameFacts(db.replacement.rows, db.events.rows)
          /\ ~db.unsequenced.there
      BY <1>0, <1>1, <2>1 DEF MInv, Replacing, Placed
    <3> QED
      BY <1>4, <3>1, AbsentIsGone DEF Held, AuthoritativeRows
  <2>2. CASE job.rev = 7
    <3>1. /\ db.events.there /\ SameFacts(db.unsequenced.rows, db.events.rows)
          /\ db.unsequenced.there
      BY <1>0, <1>1, <2>2 DEF MInv, Unnumbering
    <3> QED
      BY <1>4, <3>1, AbsentIsGone DEF Held, AuthoritativeRows
  <2> QED
    BY <1>1, <2>1, <2>2
<1>8. Plain'
  BY <1>4, AbsentIsGone DEF MInv, Plain
<1>9. Placed'
  <2>1. CASE job.rev = 4
    <3>1. db.replacement.there /\ version \in {3, 4} /\ (version = 4 <=> ~job.up)
      BY <1>0, <1>1, <1>2, <2>1 DEF MInv, Replacing
    <3> QED
      BY <1>2, <1>4, <1>6, <2>1, <3>1 DEF MInv, Placed, At, OthersStay
  <2>2. CASE job.rev = 7
    <3>1. db.unsequenced.there /\ version = 7
      BY <1>0, <1>1, <2>2 DEF MInv, Unnumbering
    <3> QED
      BY <1>4, <1>6, <2>2, <3>1 DEF MInv, Placed, At, OthersStay
  <2> QED
    BY <1>1, <2>1, <2>2
<1>10. Replacing'
  BY <1>0, <1>4, <1>6, AbsentIsGone DEF MInv, Replacing
<1>11. Numbering' /\ Unnumbering'
  BY <1>0, <1>1, <1>4, <1>6, AbsentIsGone DEF MInv, Numbering, Unnumbering
<1>12. SequenceIsOrder'
  BY <1>4, <1>6, OrderStays, AbsentIsGone DEF MInv
<1> QED
  BY <1>0, <1>1, <1>2, <1>4, <1>5, <1>7, <1>8, <1>9, <1>10, <1>11, <1>12, TableSound

-----------------------------------------------------------------------------
(* Downgrading 0007.                                                       *)

\* The conditions under which a statement of this downgrade is sound.
LEMMA Unnumber7Sound ==
    ASSUME MInv, job.rev = 7, job.up = FALSE,
           NEW s \in {"unindex", "create", "copy", "drop", "stamp"}, Goto(s),
           TablesOK', OthersStay, db'.replacement = db.replacement, db'.events.there,
           SameFacts(Held', Held),
           db'.events = db.events \/ Unnumbered(db'.events),
           ~db'.events.lineage => NoneCorrects(db'.events.rows),
           db'.unsequenced.there => db'.unsequenced.lineage /\ Unnumbered(db'.unsequenced),
           db'.unsequenced.there <=> s \in {"copy", "drop"},
           s = "drop" => SameFacts(db'.unsequenced.rows, db'.events.rows)
    PROVE  Sound
<1>1. job # Idle /\ version = 7 /\ db.unreadable = {}
  BY Validated7
<1>2. s \in Statements /\ s \in StatementsOf(job.rev, job.up)
  BY DEF Statements, StatementsOf
<1>3. /\ job'.rev = 7 /\ job'.up = FALSE /\ job'.at = s /\ version' = version
      /\ left' = left
  BY <1>1, <1>2, GotoMoves DEF MInv
<1>4. Plain'
  BY DEF MInv, Plain
<1>5. Placed'
  BY <1>1, <1>3 DEF MInv, Placed, At, OthersStay
<1>6. Replacing' /\ Numbering'
  BY <1>3 DEF Replacing, Numbering
<1>7. Unnumbering'
  BY <1>3 DEF Unnumbering
<1>8. SequenceIsOrder'
  BY <1>3, OrderStays DEF MInv
<1> QED
  BY <1>1, <1>2, <1>4, <1>5, <1>6, <1>7, <1>8, TableSound

\* What an interrupted downgrade left is finished or thrown away.
LEMMA Repair7Sound ==
    ASSUME MInv, DowngradeRepair7
    PROVE  Sound
<1>0. job.rev = 7 /\ job.up = FALSE /\ TablesOK
  BY DEF DowngradeRepair7, At, MInv
<1>1. version = 7
  BY <1>0, Validated7
<1>2. /\ db.events \in EventTables /\ db.replacement \in EventTables
      /\ db.unsequenced \in EventTables /\ Held \in Seq(Rows)
      /\ ~db.events.there => db.unsequenced.there
  BY <1>1, EventTablesOK, HeldIsRows DEF MInv, Placed
<1>3. CASE ~db.events.there
  <2>1. /\ db' = [db EXCEPT !.events = db.unsequenced, !.unsequenced = Absent]
        /\ Goto("stamp")
    BY <1>2, <1>3 DEF DowngradeRepair7
  <2>2. db' = WithEvents(db.unsequenced, db.replacement, Absent)
    BY <1>0, <2>1, SetSome
  <2>3. /\ TablesOK' /\ OthersStay /\ db'.events = db.unsequenced
        /\ db'.replacement = db.replacement /\ db'.unsequenced = Absent
    BY <1>0, <1>2, <2>2, SetEvents, AbsentIsGone
  <2>4. Held' = Held
    BY <1>2, <1>3, <2>3 DEF Held, AuthoritativeRows
  <2>5. db'.events.there /\ db'.events.lineage /\ Unnumbered(db'.events)
    BY <1>2, <1>3, <2>3 DEF MInv, Plain
  <2> QED
    BY <1>0, <1>2, <2>1, <2>3, <2>4, <2>5, AbsentIsGone, SameFactsReflexive, Unnumber7Sound
<1>4. CASE db.events.there
  <2>1. /\ db' = [db EXCEPT !.unsequenced = Absent]
        /\ Goto(IF db.events.sequenced THEN "unindex" ELSE "stamp")
    BY <1>4 DEF DowngradeRepair7
  <2>2. PICK s \in {"unindex", "stamp"} : Goto(s)
    BY <2>1
  <2>3. db' = WithEvents(db.events, db.replacement, Absent)
    BY <1>0, <2>1, SetSome
  <2>4. /\ TablesOK' /\ OthersStay /\ db'.events = db.events
        /\ db'.replacement = db.replacement /\ db'.unsequenced = Absent
    BY <1>0, <1>2, <2>3, SetEvents, AbsentIsGone
  <2>5. Held' = Held
    BY <1>4, <2>4 DEF Held, AuthoritativeRows
  <2>6. ~db'.events.lineage => NoneCorrects(db'.events.rows)
    BY <1>4, <2>4 DEF MInv, Plain
  <2> QED
    BY <1>0, <1>2, <1>4, <2>2, <2>4, <2>5, <2>6, AbsentIsGone, SameFactsReflexive, Unnumber7Sound
<1> QED
  BY <1>3, <1>4

\* A table with another index has the same rows.
LEMMA Reindexed ==
    ASSUME NEW t \in EventTables, t.there, NEW b \in BOOLEAN, NEW x, x = [t EXCEPT !.indexed = b]
    PROVE  /\ x \in EventTables /\ x.there /\ x.rows = t.rows
           /\ x.lineage = t.lineage /\ x.sequenced = t.sequenced
<1>1. t \in [there : {TRUE}, lineage : BOOLEAN, sequenced : BOOLEAN,
             indexed : BOOLEAN, rows : Seq(Rows)]
  BY TableRows
<1> QED
  BY <1>1 DEF EventTables

\* Dropping or creating the index changes no row, in either direction.
LEMMA IndexSound ==
    ASSUME MInv, Unindex7 \/ Index7
    PROVE  Sound
<1>0. /\ job.rev = 7 /\ TablesOK
      /\ Unindex7 => job.up = FALSE /\ job.at = "unindex" /\ Goto("create")
      /\ Index7 => job.up = TRUE /\ job.at = "index" /\ Goto("stamp")
  BY DEF Unindex7, Index7, At, MInv
<1>1. /\ job # Idle /\ version \in {6, 7} /\ job.up \in BOOLEAN
      /\ (version = 7 <=> ~job.up) /\ db.unreadable = {}
  BY <1>0, Validated7
<1>2. db.events.there /\ ~db.unsequenced.there
  <2>1. CASE Unindex7
    BY <1>0, <2>1 DEF MInv, Unnumbering
  <2>2. CASE Index7
    BY <1>0, <1>1, <2>2 DEF MInv, Numbering, Placed
  <2> QED
    BY <2>1, <2>2
<1>3. /\ db.events \in EventTables /\ db.replacement \in EventTables
      /\ db.unsequenced \in EventTables /\ Held \in Seq(Rows)
  BY EventTablesOK, HeldIsRows DEF MInv
<1>4. PICK b \in BOOLEAN : db' = [db EXCEPT !.events.indexed = b]
  BY DEF Unindex7, Index7
<1>5. PICK t : t = [db.events EXCEPT !.indexed = b]
  OBVIOUS
<1>6. /\ t \in EventTables /\ t.there /\ t.rows = db.events.rows
      /\ t.lineage = db.events.lineage /\ t.sequenced = db.events.sequenced
  BY <1>2, <1>3, <1>5, Reindexed
<1>7. db' = WithEvents(t, db.replacement, db.unsequenced)
  <2>1. db' = [db EXCEPT !.events = t]
    BY <1>4, <1>5
  <2> QED
    BY <1>0, <2>1, SetSome
<1>8. /\ TablesOK' /\ OthersStay /\ db'.events = t
      /\ db'.replacement = db.replacement /\ db'.unsequenced = db.unsequenced
  BY <1>0, <1>3, <1>6, <1>7, SetEvents
<1>9. PICK s \in {"create", "stamp"} : Goto(s) /\ (job.up <=> s = "stamp")
  BY <1>0
<1>10. s \in Statements /\ s \in StatementsOf(job.rev, job.up)
  BY <1>0, <1>1, <1>9 DEF Statements, StatementsOf
<1>11. /\ job'.rev = 7 /\ job'.up = job.up /\ job'.at = s /\ version' = version
       /\ left' = left
  BY <1>0, <1>1, <1>9, <1>10, GotoMoves DEF MInv
<1>12. SameFacts(Held', Held)
  <2>1. Held' = Held
    BY <1>2, <1>6, <1>8 DEF Held, AuthoritativeRows
  <2> QED
    BY <1>3, <2>1, SameFactsReflexive
<1>13. Plain'
  BY <1>2, <1>6, <1>8 DEF MInv, Plain
<1>14. Placed'
  BY <1>0, <1>1, <1>2, <1>6, <1>8, <1>11 DEF MInv, Placed, At, OthersStay
<1>15. Replacing' /\ Unnumbering'
  BY <1>2, <1>6, <1>8, <1>9, <1>11 DEF Replacing, Unnumbering
<1>16. Numbering'
  BY <1>0, <1>6, <1>8, <1>11 DEF MInv, Numbering
<1>17. SequenceIsOrder'
  BY <1>2, <1>6, <1>8, <1>11 DEF MInv, SequenceIsOrder
<1> QED
  BY <1>0, <1>1, <1>8, <1>9, <1>10, <1>12, <1>13, <1>14, <1>15, <1>16, <1>17, TableSound

\* The copy without a sequence is created, filled and takes the place of the
\* table as that of 0004 does.
LEMMA Unsequence7Sound ==
    ASSUME MInv, CreateUnsequenced7 \/ CopyUnsequenced7 \/ RenameUnsequenced7
    PROVE  Sound
<1>0. /\ job.rev = 7 /\ job.up = FALSE /\ TablesOK
      /\ CreateUnsequenced7 => job.at = "create"
      /\ CopyUnsequenced7 => job.at = "copy"
      /\ RenameUnsequenced7 => job.at = "rename"
  BY DEF CreateUnsequenced7, CopyUnsequenced7, RenameUnsequenced7, At, MInv
<1>1. /\ db.events \in EventTables /\ db.replacement \in EventTables
      /\ db.unsequenced \in EventTables /\ Held \in Seq(Rows)
  BY EventTablesOK, HeldIsRows DEF MInv
<1>2. db.events.there /\ ~db.events.lineage => NoneCorrects(db.events.rows)
  BY DEF MInv, Plain
<1>3. CASE CreateUnsequenced7
  <2>1. db.events.there /\ ~db.unsequenced.there
    BY <1>0, <1>3 DEF MInv, Unnumbering
  <2>2. db' = [db EXCEPT !.unsequenced = EventTable(TRUE, <<>>)] /\ Goto("copy")
    BY <1>3, <2>1 DEF CreateUnsequenced7
  <2>3. PICK t : t = EventTable(TRUE, <<>>)
    OBVIOUS
  <2>4. t \in EventTables /\ t.there /\ t.lineage = TRUE /\ Unnumbered(t)
    BY <2>3, EmptyTable
  <2>5. db' = WithEvents(db.events, db.replacement, t)
    BY <1>0, <2>2, <2>3, SetSome
  <2>6. /\ TablesOK' /\ OthersStay /\ db'.events = db.events
        /\ db'.replacement = db.replacement /\ db'.unsequenced = t
    BY <1>0, <1>1, <2>4, <2>5, SetEvents
  <2>7. Held' = Held
    BY <2>1, <2>6 DEF Held, AuthoritativeRows
  <2> QED
    BY <1>0, <1>1, <1>2, <2>1, <2>2, <2>4, <2>6, <2>7, SameFactsReflexive, Unnumber7Sound
<1>4. CASE CopyUnsequenced7
  <2>1. db.events.there /\ db.unsequenced.there
    BY <1>0, <1>4 DEF MInv, Unnumbering
  <2>2. PICK c : c = Copied(db.events.rows, TRUE)
    OBVIOUS
  <2>3. /\ c \in Seq(Rows) /\ SameFacts(c, db.events.rows) /\ \A i \in DOMAIN c : c[i].seq = 0
    <3>1. db.events.rows \in Seq(Rows)
      BY <1>1, <2>1, TableRows
    <3> QED
      BY <2>2, <3>1, CopiedRows
  <2>4. PICK t : t = [db.unsequenced EXCEPT !.rows = c]
    OBVIOUS
  <2>5. /\ t \in EventTables /\ t.there /\ t.rows = c /\ t.lineage = db.unsequenced.lineage
        /\ t.sequenced = db.unsequenced.sequenced
    BY <1>1, <2>1, <2>3, <2>4, FilledTable
  <2>6. t.lineage /\ Unnumbered(t)
    BY <2>1, <2>3, <2>5 DEF MInv, Plain, Unnumbered
  <2>7. db' = [db EXCEPT !.unsequenced = t] /\ Goto("drop")
    BY <1>4, <2>2, <2>4 DEF CopyUnsequenced7
  <2>8. db' = WithEvents(db.events, db.replacement, t)
    BY <1>0, <2>7, SetSome
  <2>9. /\ TablesOK' /\ OthersStay /\ db'.events = db.events
        /\ db'.replacement = db.replacement /\ db'.unsequenced = t
    BY <1>0, <1>1, <2>5, <2>8, SetEvents
  <2>10. Held' = Held
    BY <2>1, <2>9 DEF Held, AuthoritativeRows
  <2> QED
    BY <1>0, <1>1, <1>2, <2>1, <2>3, <2>5, <2>6, <2>7, <2>9, <2>10, SameFactsReflexive, Unnumber7Sound
<1>5. CASE RenameUnsequenced7
  <2>1. ~db.events.there /\ db.unsequenced.there
    BY <1>0, <1>5 DEF MInv, Unnumbering
  <2>2. db' = WithEvents(db.unsequenced, db.replacement, Absent) /\ Goto("stamp")
    BY <1>0, <1>5, SetSome DEF RenameUnsequenced7
  <2>3. /\ TablesOK' /\ OthersStay /\ db'.events = db.unsequenced
        /\ db'.replacement = db.replacement /\ db'.unsequenced = Absent
    BY <1>0, <1>1, <2>2, SetEvents, AbsentIsGone
  <2>4. Held' = Held
    BY <2>1, <2>3 DEF Held, AuthoritativeRows
  <2>5. db'.events.there /\ db'.events.lineage /\ Unnumbered(db'.events)
    BY <2>1, <2>3 DEF MInv, Plain
  <2> QED
    BY <1>0, <1>1, <2>2, <2>3, <2>4, <2>5, AbsentIsGone, SameFactsReflexive, Unnumber7Sound
<1> QED
  BY <1>3, <1>4, <1>5

-----------------------------------------------------------------------------
(* The sequence of events.                                                 *)

\* A set of numbers has a least one.
LEMMA LeastExists ==
    ASSUME NEW S, S \subseteq Nat, S # {}
    PROVE  \E x \in S : \A y \in S : x <= y
<1>1. \E x \in S : \A y \in S : ~(<<y, x>> \in OpToRel(<, Nat))
  BY NatLessThanWellFounded, WFMin, Zenon
<1>2. PICK x \in S : \A y \in S : ~(<<y, x>> \in OpToRel(<, Nat))
  BY <1>1
<1>3. ASSUME NEW y \in S PROVE x <= y
  <2>1. ~(y < x)
    BY <1>2 DEF OpToRel
  <2> QED
    BY <2>1
<1> QED
  BY <1>3

\* A bounded set of numbers has a greatest one.
LEMMA GreatestExists ==
    ASSUME NEW n \in Nat, NEW S, S \subseteq 0..n, S # {}
    PROVE  \E x \in S : \A y \in S : y <= x
<1> DEFINE T == {n - x : x \in S}
<1>1. T \subseteq Nat /\ T # {}
  <2>1. \A x \in S : n - x \in Nat
    OBVIOUS
  <2> QED
    BY <2>1
<1>2. PICK m \in T : \A y \in T : m <= y
  BY <1>1, LeastExists
<1>3. PICK x \in S : m = n - x
  OBVIOUS
<1>4. ASSUME NEW y \in S PROVE y <= x
  <2>1. m <= n - y
    BY <1>2
  <2> QED
    BY <1>3, <2>1
<1> QED
  BY <1>4

(* The rows are numbered in their order, from the first on. *)
InOrder(rows) ==
    \A i, j \in DOMAIN rows :
        (i < j /\ rows[j].seq # 0) => rows[i].seq # 0 /\ rows[i].seq < rows[j].seq

\* The next number is above every number given.
LEMMA NextIsAbove ==
    ASSUME NEW rows \in Seq(Rows), InOrder(rows), NEW S, S = {rows[i].seq : i \in DOMAIN rows}
    PROVE  Max0(S) \in Nat /\ \A i \in DOMAIN rows : rows[i].seq <= Max0(S)
<1>0. \A i \in DOMAIN rows : rows[i].seq \in Nat
  <2>1. \A i \in DOMAIN rows : rows[i] \in Rows
    OBVIOUS
  <2>2. \A r \in Rows : r.seq \in Nat
    BY DEF Rows
  <2> QED
    BY <2>1, <2>2
<1>1. CASE S = {}
  BY <1>1 DEF Max0
<1>2. CASE S # {}
  <2>1. \E n \in S : \A k \in S : k <= n
    <3> DEFINE I == {i \in 1..Len(rows) : rows[i].seq # 0}
    <3>1. CASE I = {}
      <4>1. ASSUME NEW i \in DOMAIN rows PROVE rows[i].seq = 0
        <5>1. i \in 1..Len(rows) /\ i \notin I
          BY <3>1
        <5> QED
          BY <5>1
      <4>2. PICK n \in S : TRUE
        BY <1>2
      <4>3. n = 0 /\ \A k \in S : k = 0
        BY <4>1
      <4> QED
        BY <4>2, <4>3
    <3>2. CASE I # {}
      <4>1. PICK m \in I : \A i \in I : i <= m
        <5>1. I \subseteq 0..Len(rows) /\ Len(rows) \in Nat
          OBVIOUS
        <5>2. \E m \in I : \A i \in I : i <= m
          <6> HIDE DEF I
          <6> QED
            BY <3>2, <5>1, GreatestExists
        <5> QED
          BY <5>2
      <4>2. ASSUME NEW i \in DOMAIN rows PROVE rows[i].seq <= rows[m].seq
        <5>1. CASE rows[i].seq = 0
          BY <1>0, <4>1, <5>1
        <5>2. CASE rows[i].seq # 0
          <6>1. i = m \/ i < m
            BY <4>1, <5>2
          <6> QED
            BY <1>0, <4>1, <6>1 DEF InOrder
        <5> QED
          BY <5>1, <5>2
      <4> QED
        BY <4>1, <4>2
    <3> QED
      BY <3>1, <3>2
  <2>2. Max0(S) \in S /\ \A k \in S : k <= Max0(S)
    BY <1>2, <2>1 DEF Max0
  <2> QED
    BY <1>0, <2>2
<1> QED
  BY <1>1, <1>2

\* The columns of the sequence are added to a table that is there.
LEMMA Upgrade7Sound ==
    ASSUME MInv, Upgrade7
    PROVE  Sound
<1>0. job.rev = 7 /\ job.up = TRUE /\ job.at = "begin" /\ TablesOK
  BY DEF Upgrade7, At, MInv
<1>1. job # Idle /\ version = 6 /\ db.unreadable = {}
  BY <1>0, Validated7
<1>2. CASE ~db.events.there
  <2>1. Raise("schema")
    BY <1>2 DEF Upgrade7
  <2>2. <<4, FALSE>> \in left
    BY <1>0, <1>1, <1>2 DEF MInv, Placed, At
  <2>3. left \ {<<job.rev, job.up>>} # {}
    BY <1>0, <2>2
  <2> QED
    BY <1>0, <1>1, <2>1, <2>3, RaiseSound DEF At
<1>3. CASE db.events.there
  <2>1. db' = [db EXCEPT !.events.sequenced = TRUE] /\ Goto("backfill")
    BY <1>3 DEF Upgrade7
  <2>2. /\ db.events \in EventTables /\ db.replacement \in EventTables
        /\ db.unsequenced \in EventTables /\ Held \in Seq(Rows) /\ ~db.unsequenced.there
    <3>1. TablesOK /\ Placed
      BY DEF MInv
    <3>2. ~db.unsequenced.there
      BY <1>1, <3>1 DEF Placed
    <3> QED
      BY <3>1, <3>2, EventTablesOK, HeldIsRows
  <2>3. PICK t : t = [db.events EXCEPT !.sequenced = TRUE]
    OBVIOUS
  <2>4. /\ t \in EventTables /\ t.there /\ t.rows = db.events.rows
        /\ t.lineage = db.events.lineage /\ t.sequenced
    <3>1. db.events \in [there : {TRUE}, lineage : BOOLEAN, sequenced : BOOLEAN,
                         indexed : BOOLEAN, rows : Seq(Rows)]
      BY <1>3, <2>2, TableRows
    <3> QED
      BY <2>3, <3>1 DEF EventTables
  <2>5. db' = WithEvents(t, db.replacement, db.unsequenced)
    <3>1. db' = [db EXCEPT !.events = t]
      BY <2>1, <2>3
    <3> QED
      BY <1>0, <3>1, SetSome
  <2>6. /\ TablesOK' /\ OthersStay /\ db'.events = t
        /\ db'.replacement = db.replacement /\ db'.unsequenced = db.unsequenced
    BY <1>0, <2>2, <2>4, <2>5, SetEvents
  <2>7. "backfill" \in Statements /\ "backfill" \in StatementsOf(job.rev, job.up)
    BY <1>0 DEF Statements, StatementsOf
  <2>8. /\ job'.rev = 7 /\ job'.up = TRUE /\ job'.at = "backfill" /\ version' = version
        /\ left' = left
    BY <1>0, <1>1, <2>1, <2>7, GotoMoves DEF MInv
  <2>9. SameFacts(Held', Held)
    <3>1. Held' = Held
      BY <1>3, <2>4, <2>6 DEF Held, AuthoritativeRows
    <3> QED
      BY <2>2, <3>1, SameFactsReflexive
  <2>10. Plain'
    BY <1>3, <2>4, <2>6 DEF MInv, Plain
  <2>11. Placed'
    BY <1>0, <1>1, <2>4, <2>6, <2>8 DEF MInv, Placed, At, OthersStay
  <2>12. Replacing' /\ Unnumbering'
    BY <2>8 DEF Replacing, Unnumbering
  <2>13. Numbering'
    BY <2>4, <2>6, <2>8 DEF Numbering
  <2>14. SequenceIsOrder'
    BY <1>1, <1>3, <2>4, <2>6, <2>8 DEF MInv, SequenceIsOrder, Newest
  <2> QED
    BY <1>0, <1>1, <2>1, <2>6, <2>7, <2>9, <2>10, <2>11, <2>12, <2>13, <2>14, TableSound
<1> QED
  BY <1>2, <1>3

\* Numbering the first row without a number keeps the order.
LEMMA NumberFirst ==
    ASSUME NEW rows \in Seq(Rows), InOrder(rows), NEW k \in DOMAIN rows, rows[k].seq = 0,
           \A i \in DOMAIN rows : i < k => rows[i].seq # 0,
           NEW n \in Nat, \A i \in DOMAIN rows : rows[i].seq < n,
           NEW x, x = [rows EXCEPT ![k].seq = n]
    PROVE  x \in Seq(Rows) /\ SameFacts(x, rows) /\ InOrder(x)
<1>1. PICK r : r = [rows[k] EXCEPT !.seq = n]
  OBVIOUS
<1>2. rows[k] \in Rows
  OBVIOUS
<1>3. r \in Rows /\ r.event = rows[k].event /\ r.corrects = rows[k].corrects /\ r.seq = n
  BY <1>1, <1>2 DEF Rows
<1>4. x = [rows EXCEPT ![k] = r]
  BY <1>1
<1>5. x \in Seq(Rows) /\ Len(x) = Len(rows) /\ DOMAIN x = DOMAIN rows
  BY <1>3, <1>4
<1>6. x[k] = r /\ \A i \in DOMAIN rows : i # k => x[i] = rows[i]
  BY <1>4
<1>7. SameFacts(x, rows)
  BY <1>3, <1>5, <1>6 DEF SameFacts
<1>8. InOrder(x)
  <2> SUFFICES ASSUME NEW i \in DOMAIN rows, NEW j \in DOMAIN rows, i < j, x[j].seq # 0
               PROVE  x[i].seq # 0 /\ x[i].seq < x[j].seq
    BY <1>5 DEF InOrder
  <2>1. CASE j = k
    BY <1>3, <1>6, <2>1
  <2>2. CASE j # k
    <3>1. i # k
      BY <1>6, <2>2 DEF InOrder
    <3> QED
      BY <1>6, <2>2, <3>1 DEF InOrder
  <2> QED
    BY <2>1, <2>2
<1> QED
  BY <1>5, <1>7, <1>8

\* The backfill numbers the rows in their order, wherever it was left.
LEMMA Backfill7Sound ==
    ASSUME MInv, Backfill7
    PROVE  Sound
<1>0. job.rev = 7 /\ job.up = TRUE /\ job.at = "backfill" /\ TablesOK
  BY DEF Backfill7, At, MInv
<1>1. job # Idle /\ version = 6 /\ db.unreadable = {}
  BY <1>0, Validated7
<1>2. db.events.there /\ db.events.sequenced
  BY <1>0 DEF MInv, Numbering
<1>3. /\ db.events \in EventTables /\ db.replacement \in EventTables
      /\ db.unsequenced \in EventTables /\ Held \in Seq(Rows) /\ ~db.unsequenced.there
  <2>1. TablesOK /\ Placed
    BY DEF MInv
  <2>2. ~db.unsequenced.there
    BY <1>1, <2>1 DEF Placed
  <2> QED
    BY <2>1, <2>2, EventTablesOK, HeldIsRows
<1>4. PICK rows \in Seq(Rows) : rows = db.events.rows
  BY <1>2, <1>3, TableRows
<1>5. InOrder(rows)
  BY <1>2, <1>4 DEF MInv, SequenceIsOrder, InOrder
<1>6. PICK empty : empty = {i \in DOMAIN rows : rows[i].seq = 0}
  OBVIOUS
<1>7. IF empty = {} THEN Goto("index") /\ UNCHANGED db
      ELSE /\ db' = [db EXCEPT !.events.rows[NextUnsequenced(empty)].seq = NextSequence]
           /\ UNCHANGED <<version, job, left, raised>>
  BY <1>4, <1>6 DEF Backfill7
<1>8. ASSUME NEW s \in {"backfill", "index"}, Goto(s), NEW t \in EventTables,
             db' = WithEvents(t, db.replacement, db.unsequenced),
             t.there, t.lineage = db.events.lineage, t.sequenced,
             SameFacts(t.rows, rows), InOrder(t.rows),
             s = "index" => \A i \in DOMAIN t.rows : t.rows[i].seq # 0
      PROVE  Sound
  <2>1. /\ TablesOK' /\ OthersStay /\ db'.events = t
        /\ db'.replacement = db.replacement /\ db'.unsequenced = db.unsequenced
    BY <1>0, <1>3, <1>8, SetEvents
  <2>2. s \in Statements /\ s \in StatementsOf(job.rev, job.up)
    BY <1>0, <1>8 DEF Statements, StatementsOf
  <2>3. /\ job'.rev = 7 /\ job'.up = TRUE /\ job'.at = s /\ version' = version
        /\ left' = left
    BY <1>0, <1>1, <1>8, <2>2, GotoMoves DEF MInv
  <2>4. SameFacts(Held', Held)
    <3>1. Held = rows /\ Held' = t.rows
      BY <1>2, <1>4, <1>8, <2>1 DEF Held, AuthoritativeRows
    <3> QED
      BY <1>8, <3>1
  <2>5. Plain'
    <3>1. ~t.lineage => NoneCorrects(t.rows)
      <4>1. ~t.lineage => NoneCorrects(rows)
        BY <1>2, <1>4, <1>8 DEF MInv, Plain
      <4>2. t.rows \in Seq(Rows)
        BY <1>8, TableRows
      <4> QED
        BY <1>8, <4>1, <4>2 DEF SameFacts, NoneCorrects
    <3> QED
      BY <2>1, <3>1 DEF MInv, Plain
  <2>6. Placed'
    BY <1>0, <1>1, <1>8, <2>1, <2>3 DEF MInv, Placed, At, OthersStay
  <2>7. Replacing' /\ Unnumbering'
    BY <2>3 DEF Replacing, Unnumbering
  <2>8. Numbering'
    BY <1>8, <2>1, <2>3 DEF Numbering
  <2>9. SequenceIsOrder'
    BY <1>1, <1>8, <2>1, <2>3 DEF SequenceIsOrder, InOrder, Newest
  <2> QED
    BY <1>0, <1>1, <1>8, <2>1, <2>2, <2>4, <2>5, <2>6, <2>7, <2>8, <2>9, TableSound
<1>9. CASE empty = {}
  <2>1. Goto("index") /\ db' = db
    BY <1>7, <1>9
  <2>2. db' = WithEvents(db.events, db.replacement, db.unsequenced)
    <3>1. [db EXCEPT !.events = db.events] = db
      BY <1>0 DEF TablesOK, Databases
    <3> QED
      BY <1>0, <2>1, <3>1, SetSome
  <2>3. \A i \in DOMAIN rows : rows[i].seq # 0
    BY <1>6, <1>9
  <2> QED
    BY <1>2, <1>3, <1>4, <1>5, <1>8, <2>1, <2>2, <2>3, SameFactsReflexive
<1>10. CASE empty # {}
  <2>1. PICK k : k = NextUnsequenced(empty)
    OBVIOUS
  <2>2. k \in empty /\ \A j \in empty : k <= j
    <3>1. empty \subseteq Nat
      BY <1>6
    <3>2. \E x \in empty : \A y \in empty : x <= y
      BY <1>10, <3>1, LeastExists
    <3> QED
      BY <2>1, <3>2 DEF NextUnsequenced
  <2>3. PICK n \in Nat : n = NextSequence /\ \A i \in DOMAIN rows : rows[i].seq < n
    <3>1. PICK S : S = {rows[i].seq : i \in DOMAIN rows}
      OBVIOUS
    <3>2. Max0(S) \in Nat /\ \A i \in DOMAIN rows : rows[i].seq <= Max0(S)
      BY <1>5, <3>1, NextIsAbove
    <3>3. NextSequence = Max0(S) + 1
      BY <1>4, <3>1 DEF NextSequence, Sequences
    <3>4. \A i \in DOMAIN rows : rows[i].seq \in Nat
      <4>1. \A i \in DOMAIN rows : rows[i] \in Rows
        OBVIOUS
      <4>2. \A r \in Rows : r.seq \in Nat
        BY DEF Rows
      <4> QED
        BY <4>1, <4>2
    <3> QED
      BY <3>2, <3>3, <3>4
  <2>4. PICK x : x = [rows EXCEPT ![k].seq = n]
    OBVIOUS
  <2>5. x \in Seq(Rows) /\ SameFacts(x, rows) /\ InOrder(x)
    <3>1. k \in DOMAIN rows /\ rows[k].seq = 0
      BY <1>6, <2>2
    <3>2. \A i \in DOMAIN rows : i < k => rows[i].seq # 0
      BY <1>6, <2>2
    <3> QED
      BY <1>5, <2>3, <2>4, <3>1, <3>2, NumberFirst
  <2>6. PICK t : t = [db.events EXCEPT !.rows = x]
    OBVIOUS
  <2>7. /\ t \in EventTables /\ t.there /\ t.rows = x /\ t.lineage = db.events.lineage
        /\ t.sequenced = db.events.sequenced
    <3>1. PICK e \in EventTables : e = db.events
      BY <1>3
    <3>2. e.there /\ x \in Seq(Rows) /\ t = [e EXCEPT !.rows = x]
      BY <1>2, <2>5, <2>6, <3>1
    <3>3. /\ t \in EventTables /\ t.there /\ t.rows = x /\ t.lineage = e.lineage
          /\ t.sequenced = e.sequenced
      BY ONLY <3>2, FilledTable, e \in EventTables
    <3> QED
      BY <3>1, <3>3
  <2>8. db' = WithEvents(t, db.replacement, db.unsequenced)
    <3>1. db' = [db EXCEPT !.events.rows[k].seq = n]
      BY <1>7, <1>10, <2>1, <2>3
    <3>2. db' = [db EXCEPT !.events = t]
      BY <1>4, <2>4, <2>6, <3>1
    <3> QED
      BY <1>0, <3>2, SetSome
  <2>9. Goto("backfill")
    <3>1. job \in Jobs
      BY <1>1, JobRuns DEF MInv
    <3>2. job = [job EXCEPT !.at = "backfill"]
      BY <1>0, <3>1 DEF Jobs
    <3> QED
      BY <1>7, <1>10, <3>2 DEF Goto
  <2>10. t.sequenced /\ SameFacts(t.rows, rows) /\ InOrder(t.rows)
    BY <1>2, <2>5, <2>7
  <2> QED
    BY <1>8, <2>7, <2>8, <2>9, <2>10
<1> QED
  BY <1>9, <1>10

-----------------------------------------------------------------------------
(* The application.                                                        *)

\* Between migrations nothing is established for a next statement.
LEMMA IdleSound ==
    ASSUME MInv, job = Idle, version = 7, UNCHANGED <<version, job, left, raised>>,
           TablesOK', Plain', Placed', SequenceIsOrder', HistoryDone',
           db'.unreadable = db.unreadable, Kept
    PROVE  Sound
<1>1. job'.rev = 0 /\ job' = job /\ version' = version /\ left' = left /\ raised' = raised
  BY DEF Idle
<1>2. JobOK'
  BY <1>1 DEF MInv, JobOK
<1>3. Replacing' /\ Dropping' /\ Numbering' /\ Unnumbering'
  BY <1>1 DEF Replacing, Dropping, Numbering, Unnumbering
<1>4. Complete' /\ Resumed
  BY DEF Complete, Resumed
<1>5. Untouched'
  BY DEF MInv, Untouched
<1> QED
  BY <1>2, <1>3, <1>4, <1>5 DEF Sound, MInv

\* The application uses a table that is there.
LEMMA AppRecordSound ==
    ASSUME MInv, NEW n \in {"notices", "audit", "facts"}, AppRecord(n)
    PROVE  Sound
<1>1. /\ job = Idle /\ version = 7 /\ db[n].there /\ TablesOK
      /\ UNCHANGED <<version, job, left, raised>>
      /\ db' = [db EXCEPT ![n].used = TRUE]
  BY DEF AppRecord, AppOpen, Newest, MInv
<1>2. db[n] \in UseTables /\ n \in UseNames
  BY <1>1 DEF TablesOK, Databases, UseNames
<1>3. PICK u \in UseTables : u = db[n]
  BY <1>2
<1>4. PICK t : t = [u EXCEPT !.used = TRUE]
  OBVIOUS
<1>5. t \in UseTables /\ t.there /\ t.used
  <2>1. Absent.there = FALSE
    BY DEF Absent
  <2>2. u # Absent
    BY <1>1, <1>3, <2>1
  <2>3. u \in [there : {TRUE}, used : BOOLEAN]
    BY <2>2 DEF UseTables
  <2> QED
    BY <1>4, <2>3 DEF UseTables
<1>6. db' = [db EXCEPT ![n] = t]
  BY <1>1, <1>3, <1>4
<1>7. /\ TablesOK' /\ EventsStay /\ db'.stages = db.stages
      /\ db'[n] = t /\ \A m \in UseNames \ {n} : db'[m] = db[m]
  BY <1>1, <1>2, <1>5, <1>6, SetUse
<1>8. Placed'
  BY <1>1, <1>7 DEF MInv, Placed, EventsStay, At, Idle
<1>9. Plain' /\ SequenceIsOrder' /\ SameFacts(Held', Held)
  BY <1>1, <1>7, StayKeeps DEF MInv
<1>10. HistoryDone'
  <2>1. HistoryDone
    BY <1>1 DEF MInv, Complete
  <2> QED
    BY <1>1, <1>7, <1>8, <1>9, <2>1, HistoryStays DEF MInv, EventsStay
<1>11. Kept
  <2>1. \A m \in UseNames : Recorded(m) => Recorded(m)'
    BY <1>5, <1>7 DEF Recorded
  <2> QED
    BY <1>7, <1>9, <2>1 DEF Kept, UseNames
<1> QED
  BY <1>1, <1>7, <1>8, <1>9, <1>10, <1>11, IdleSound DEF EventsStay

\* An event is appended with the next number.
LEMMA AppendInOrder ==
    ASSUME NEW rows \in Seq(Rows), InOrder(rows), \A i \in DOMAIN rows : rows[i].seq # 0,
           NEW r \in Rows, r.seq # 0, \A i \in DOMAIN rows : rows[i].seq < r.seq
    PROVE  /\ Append(rows, r) \in Seq(Rows) /\ InOrder(Append(rows, r))
           /\ \A i \in DOMAIN Append(rows, r) : Append(rows, r)[i].seq # 0
<1>1. PICK x : x = Append(rows, r)
  OBVIOUS
<1>2. /\ x \in Seq(Rows) /\ Len(x) = Len(rows) + 1 /\ x[Len(rows) + 1] = r
      /\ \A i \in 1..Len(rows) : x[i] = rows[i]
  BY <1>1
<1>3. \A i \in DOMAIN x : i \in DOMAIN rows \/ i = Len(rows) + 1
  BY <1>2
<1>4. \A i \in DOMAIN x : x[i].seq # 0
  BY <1>2, <1>3
<1>5. InOrder(x)
  BY <1>2, <1>3 DEF InOrder
<1> QED
  BY <1>1, <1>2, <1>4, <1>5

(* The database after the commit of an event. *)
Committed(t, g, x, v) ==
    [db EXCEPT !.events = t, !.stages = g, !.staged = x, !.snapshots = v]

\* What a commit changes.
LEMMA CommittedFields ==
    ASSUME TablesOK, NEW t \in EventTables, NEW g \in StageTables, NEW x \in SUBSET Events,
           NEW v \in UseTables, db' = Committed(t, g, x, v)
    PROVE  /\ TablesOK' /\ db'.events = t /\ db'.stages = g /\ db'.staged = x /\ db'.snapshots = v
           /\ db'.replacement = db.replacement /\ db'.unsequenced = db.unsequenced
           /\ db'.unreadable = db.unreadable /\ db'.reported = db.reported
           /\ db'.notices = db.notices /\ db'.audit = db.audit /\ db'.facts = db.facts
<1>1. TablesOK'
  BY DEF TablesOK, Databases, Committed
<1>2. db'.events = t /\ db'.stages = g /\ db'.staged = x /\ db'.snapshots = v
  BY DEF TablesOK, Databases, Committed
<1>3. /\ db'.replacement = db.replacement /\ db'.unsequenced = db.unsequenced
      /\ db'.unreadable = db.unreadable /\ db'.reported = db.reported
      /\ db'.notices = db.notices /\ db'.audit = db.audit /\ db'.facts = db.facts
  BY DEF TablesOK, Databases, Committed
<1> QED
  BY <1>1, <1>2, <1>3

\* The application appends an event with its stage rows.
LEMMA AppCommitSound ==
    ASSUME MInv, NEW e \in Events, NEW corrects \in Events \union {"none"}, AppCommit(e, corrects)
    PROVE  Sound
<1>1. /\ job = Idle /\ version = 7 /\ TablesOK /\ Placed
      /\ UNCHANGED <<version, job, left, raised>>
      /\ db.events.there /\ db.events.sequenced /\ db.events.lineage
      /\ db.stages.there /\ db.snapshots.there
  BY DEF AppCommit, AppOpen, Newest, MInv
<1>2. /\ db.events \in EventTables /\ db.stages \in StageTables /\ db.snapshots \in UseTables
      /\ db.staged \in SUBSET Events
  BY <1>1 DEF TablesOK, Databases
<1>3. PICK rows \in Seq(Rows) : rows = db.events.rows
  BY <1>1, <1>2, TableRows
<1>4. InOrder(rows) /\ \A i \in DOMAIN rows : rows[i].seq # 0
  BY <1>1, <1>3 DEF MInv, SequenceIsOrder, InOrder, Newest
<1>5. PICK n \in Nat : n = Max0(Sequences(db.events)) + 1 /\ n # 0
                       /\ \A i \in DOMAIN rows : rows[i].seq < n
  <2>1. PICK S : S = {rows[i].seq : i \in DOMAIN rows}
    OBVIOUS
  <2>2. Max0(S) \in Nat /\ \A i \in DOMAIN rows : rows[i].seq <= Max0(S)
    BY <1>4, <2>1, NextIsAbove
  <2>3. Sequences(db.events) = S
    BY <1>3, <2>1 DEF Sequences
  <2>4. \A i \in DOMAIN rows : rows[i].seq \in Nat
    <3>1. \A i \in DOMAIN rows : rows[i] \in Rows
      OBVIOUS
    <3>2. \A r \in Rows : r.seq \in Nat
      BY DEF Rows
    <3> QED
      BY <3>1, <3>2
  <2> QED
    BY <2>2, <2>3, <2>4
<1>6. PICK r \in Rows : /\ r = [event |-> e, corrects |-> corrects, seq |-> n]
                        /\ r.event = e /\ r.seq = n
  <2>1. PICK r : r = [event |-> e, corrects |-> corrects, seq |-> n]
    OBVIOUS
  <2>2. r.event = e /\ r.seq = n
    BY <2>1
  <2>3. r \in Rows
    BY <2>1 DEF Rows
  <2> QED
    BY <2>1, <2>2, <2>3
<1>7. PICK t : t = [db.events EXCEPT !.rows = Append(rows, r)]
  OBVIOUS
<1>8. /\ t \in EventTables /\ t.there /\ t.rows = Append(rows, r)
      /\ t.lineage = db.events.lineage /\ t.sequenced = db.events.sequenced
  <2>1. PICK old \in EventTables : old = db.events
    BY <1>2
  <2>2. PICK new \in Seq(Rows) : new = Append(rows, r)
    <3>1. Append(rows, r) \in Seq(Rows)
      OBVIOUS
    <3> QED
      BY <3>1
  <2>3. old.there /\ t = [old EXCEPT !.rows = new]
    BY <1>1, <1>7, <2>1, <2>2
  <2>4. /\ t \in EventTables /\ t.there /\ t.rows = new /\ t.lineage = old.lineage
        /\ t.sequenced = old.sequenced
    BY ONLY <2>3, FilledTable, old \in EventTables, new \in Seq(Rows)
  <2> QED
    BY <2>1, <2>2, <2>4
<1>9. /\ InOrder(t.rows) /\ \A i \in DOMAIN t.rows : t.rows[i].seq # 0
  <2>1. r.seq # 0 /\ \A i \in DOMAIN rows : rows[i].seq < r.seq
    BY <1>5, <1>6
  <2> QED
    BY <1>4, <1>8, <2>1, AppendInOrder
<1>10. PICK g : g = [db.stages EXCEPT !.rows = @ \union {<<e, p>> : p \in EventPhases}]
  OBVIOUS
<1>11. g \in StageTables /\ g.there /\ db.stages.rows \subseteq g.rows
  <2>1. Absent.there = FALSE
    BY DEF Absent
  <2>2. db.stages # Absent
    BY <1>1, <2>1
  <2>3. db.stages \in [there : {TRUE}, rows : SUBSET (Events \X (EventPhases \cup {"PUBLICATION"}))]
    BY <1>2, <2>2 DEF StageTables
  <2>4. PICK more : more = {<<e, p>> : p \in EventPhases}
    OBVIOUS
  <2>5. more \subseteq Events \X (EventPhases \cup {"PUBLICATION"})
    BY <2>4
  <2>6. g = [db.stages EXCEPT !.rows = db.stages.rows \union more]
    BY <1>10, <2>4
  <2> QED
    BY <2>3, <2>5, <2>6 DEF StageTables
<1>12. PICK v : v = [db.snapshots EXCEPT !.used = @ \/ corrects = "none"]
  OBVIOUS
<1>13. v \in UseTables /\ v.there /\ (db.snapshots.used => v.used)
  <2>1. Absent.there = FALSE
    BY DEF Absent
  <2>2. db.snapshots # Absent
    BY <1>1, <2>1
  <2>3. db.snapshots \in [there : {TRUE}, used : BOOLEAN]
    BY <1>2, <2>2 DEF UseTables
  <2>4. PICK b \in BOOLEAN : b = (db.snapshots.used \/ corrects = "none")
    OBVIOUS
  <2>5. v = [db.snapshots EXCEPT !.used = b]
    BY <1>12, <2>4
  <2> QED
    BY <2>3, <2>4, <2>5 DEF UseTables
<1>14. PICK x \in SUBSET Events : x = db.staged \union {e}
  BY <1>2
<1>15. db' = Committed(t, g, x, v)
  BY <1>3, <1>5, <1>6, <1>7, <1>10, <1>12, <1>14 DEF AppCommit, Committed
<1>16. /\ TablesOK' /\ db'.events = t /\ db'.stages = g /\ db'.staged = x /\ db'.snapshots = v
       /\ db'.replacement = db.replacement /\ db'.unsequenced = db.unsequenced
       /\ db'.unreadable = db.unreadable /\ db'.reported = db.reported
       /\ db'.notices = db.notices /\ db'.audit = db.audit /\ db'.facts = db.facts
  BY <1>1, <1>8, <1>11, <1>13, <1>15, CommittedFields
<1>17. Plain'
  BY <1>1, <1>8, <1>16 DEF MInv, Plain
<1>18. Placed'
  BY <1>1, <1>8, <1>11, <1>16 DEF Placed, At, Idle
<1>19. SequenceIsOrder'
  BY <1>9, <1>16 DEF SequenceIsOrder, InOrder
<1>20. Held = rows /\ Held' = Append(rows, r)
  BY <1>1, <1>3, <1>8, <1>16 DEF Held, AuthoritativeRows
<1>21. HistoryDone'
  <2>1. HistoryDone
    BY <1>1 DEF MInv, Complete
  <2>2. \A s : Staged(s) => Staged(s)'
    BY <1>11, <1>16 DEF Staged
  <2>3. ASSUME NEW i \in DOMAIN Held', Held'[i].event \notin x, NEW p \in EventPhases
        PROVE  db'.stages.there /\ <<Held'[i].event, p>> \in db'.stages.rows
    <3>1. i \in DOMAIN rows /\ Held'[i] = rows[i]
      <4>1. i \in 1..(Len(rows) + 1)
        BY <1>20
      <4>2. i # Len(rows) + 1
        BY <1>6, <1>14, <1>20, <2>3
      <4> QED
        BY <1>20, <4>1, <4>2
    <3>2. rows[i].event \notin db.staged
      BY <1>14, <2>3, <3>1
    <3>3. Staged(<<rows[i].event, p>>)
      BY <1>20, <2>1, <3>1, <3>2 DEF HistoryDone
    <3>4. PICK s : s = <<rows[i].event, p>>
      OBVIOUS
    <3>5. Staged(s)'
      BY <2>2, <3>3, <3>4
    <3> QED
      BY <3>1, <3>4, <3>5 DEF Staged
  <2>4. \A a \in db'.reported \ x : Staged(<<a, "PUBLICATION">>)'
    BY <1>14, <1>16, <2>1, <2>2 DEF HistoryDone
  <2> QED
    BY <1>16, <2>3, <2>4 DEF HistoryDone, Staged
<1>22. Kept
  <2>1. \A m \in UseNames : Recorded(m) => Recorded(m)'
    BY <1>13, <1>16 DEF Recorded, UseNames
  <2> QED
    BY <1>11, <1>16, <1>20, <2>1 DEF Kept, UseNames
<1> QED
  BY <1>1, <1>16, <1>17, <1>18, <1>19, <1>21, <1>22, IdleSound

-----------------------------------------------------------------------------
(* The theorems.                                                           *)

\* A database as its fields.
LEMMA DatabaseFields ==
    ASSUME NEW t \in EventTables, NEW g \in StageTables, NEW x \in SUBSET Events,
           NEW u \in SUBSET Unreadable, NEW d,
           d = [events |-> t, replacement |-> Absent, unsequenced |-> Absent,
                stages |-> g, staged |-> x, unreadable |-> u, reported |-> LegacyEvents,
                notices |-> Absent, snapshots |-> Absent, audit |-> Absent, facts |-> Absent]
    PROVE  /\ d \in Databases /\ d.events = t /\ d.replacement = Absent /\ d.unsequenced = Absent
           /\ d.stages = g /\ d.notices = Absent
<1>1. Absent \in EventTables /\ Absent \in UseTables
  BY DEF EventTables, UseTables
<1>2. d \in Databases
  BY <1>1 DEF Databases
<1> QED
  BY <1>2

\* The databases of the legacy releases.
LEMMA LegacyDatabase ==
    ASSUME Init
    PROVE  MInv
<1>1. PICK staged \in SUBSET LegacyEvents, unreadable \in SUBSET Unreadable,
           v \in {Oldest, Oldest + 1} :
        /\ v = Oldest => staged = {}
        /\ version = v
        /\ job = Idle
        /\ left = {}
        /\ raised = "no"
        /\ db = [events |-> EventTable(FALSE, [i \in DOMAIN Legacy |-> Row(Legacy[i], "none")]),
                 replacement |-> Absent, unsequenced |-> Absent,
                 stages |-> IF v = Oldest THEN Absent
                            ELSE [there |-> TRUE, rows |-> staged \X EventPhases],
                 staged |-> staged, unreadable |-> unreadable, reported |-> LegacyEvents,
                 notices |-> Absent, snapshots |-> Absent, audit |-> Absent,
                 facts |-> Absent]
  BY DEF Init
<1>2. PICK rows : rows = [i \in DOMAIN Legacy |-> Row(Legacy[i], "none")]
  OBVIOUS
<1>3. /\ rows \in Seq(Rows) /\ Len(rows) = Len(Legacy) /\ DOMAIN rows = DOMAIN Legacy
      /\ \A i \in DOMAIN Legacy : rows[i].event = Legacy[i] /\ rows[i].corrects = "none"
                                  /\ rows[i].seq = 0
  <2>1. Legacy \in Seq(Events)
    BY BoundsAssumption
  <2>2. ASSUME NEW i \in DOMAIN Legacy
        PROVE  /\ rows[i] \in Rows /\ rows[i].event = Legacy[i] /\ rows[i].corrects = "none"
               /\ rows[i].seq = 0
    <3>1. PICK a \in Events : a = Legacy[i]
      BY <2>1
    <3>2. rows[i] = [event |-> a, corrects |-> "none", seq |-> 0]
      BY <1>2, <3>1 DEF Row
    <3>3. rows[i] \in Rows
      BY <3>2 DEF Rows
    <3> QED
      BY <3>1, <3>2, <3>3
  <2>3. DOMAIN Legacy = 1..Len(Legacy) /\ Len(Legacy) \in Nat
    BY <2>1
  <2> QED
    BY <1>2, <2>2, <2>3
<1>4. PICK t : t = EventTable(FALSE, rows)
  OBVIOUS
<1>5. t \in EventTables /\ t.there /\ t.lineage = FALSE /\ t.sequenced = FALSE /\ t.rows = rows
  <2>1. t = [there |-> TRUE, lineage |-> FALSE, sequenced |-> FALSE, indexed |-> FALSE, rows |-> rows]
    BY <1>4 DEF EventTable
  <2>2. t \in EventTables
    BY <1>3, <2>1 DEF EventTables
  <2> QED
    BY <2>1, <2>2
<1>6. PICK g : g = IF v = Oldest THEN Absent ELSE [there |-> TRUE, rows |-> staged \X EventPhases]
  OBVIOUS
<1>7. LegacyEvents \subseteq Events
  BY BoundsAssumption DEF LegacyEvents
<1>8. g \in StageTables /\ (v # Oldest => g.there)
  <2>1. CASE v = Oldest
    BY <1>6, <2>1 DEF StageTables
  <2>2. CASE v # Oldest
    <3>1. g = [there |-> TRUE, rows |-> staged \X EventPhases]
      BY <1>6, <2>2
    <3>2. staged \X EventPhases \subseteq Events \X (EventPhases \cup {"PUBLICATION"})
      BY <1>7
    <3>3. g.there = TRUE
      BY <3>1
    <3>4. g \in StageTables
      BY <3>1, <3>2 DEF StageTables
    <3> QED
      BY <3>3, <3>4
  <2> QED
    BY <2>1, <2>2
<1>9. /\ db \in Databases /\ db.events = t /\ db.replacement = Absent /\ db.unsequenced = Absent
      /\ db.stages = g /\ db.notices = Absent
  <2>1. db = [events |-> t, replacement |-> Absent, unsequenced |-> Absent,
              stages |-> g, staged |-> staged, unreadable |-> unreadable, reported |-> LegacyEvents,
              notices |-> Absent, snapshots |-> Absent, audit |-> Absent, facts |-> Absent]
    BY <1>1, <1>2, <1>4, <1>6
  <2>2. staged \in SUBSET Events
    BY <1>7
  <2>3. PICK d : d = db
    OBVIOUS
  <2>4. /\ d \in Databases /\ d.events = t /\ d.replacement = Absent /\ d.unsequenced = Absent
        /\ d.stages = g /\ d.notices = Absent
    BY <1>5, <1>8, <2>1, <2>2, <2>3, DatabaseFields
  <2> QED
    BY <2>3, <2>4
<1>10. version \in {2, 3} /\ job.rev = 0 /\ job.at = "idle" /\ (version = 3 => g.there)
  BY <1>1, <1>8 DEF Oldest, Idle
<1>11. TablesOK /\ JobOK
  BY <1>1, <1>9, <1>10 DEF TablesOK, JobOK, Oldest, Newest
<1>12. Plain
  BY <1>3, <1>5, <1>9, AbsentIsGone DEF Plain, NoneCorrects
<1>13. Placed
  BY <1>5, <1>9, <1>10, AbsentIsGone DEF Placed, At
<1>14. Replacing /\ Dropping /\ Numbering /\ Unnumbering /\ Complete
  BY <1>10 DEF Replacing, Dropping, Numbering, Unnumbering, Complete
<1>15. SequenceIsOrder
  BY <1>3, <1>5, <1>9, <1>10 DEF SequenceIsOrder, Newest
<1>16. Untouched
  <2>1. db.events.there /\ ~db.events.lineage /\ ~db.replacement.there /\ ~db.notices.there
    BY <1>5, <1>9, AbsentIsGone
  <2>2. Len(db.events.rows) = Len(Legacy) /\ \A i \in DOMAIN Legacy : db.events.rows[i].event = Legacy[i]
    BY <1>3, <1>5, <1>9
  <2>3. job = Idle /\ version < 4
    BY <1>1, <1>10
  <2> QED
    BY <2>1, <2>2, <2>3 DEF Untouched
<1> QED
  BY <1>11, <1>12, <1>13, <1>14, <1>15, <1>16 DEF MInv

\* Every step is sound.
LEMMA StepSound ==
    ASSUME MInv, [Next]_vars
    PROVE  Sound
<1>1. CASE UNCHANGED vars
  <2>1. db' = db /\ version' = version /\ job' = job /\ left' = left /\ raised' = raised
    BY <1>1 DEF vars
  <2>2. TablesOK' /\ Plain' /\ Kept /\ (HistoryDone => HistoryDone')
    BY <2>1, UnchangedKeeps
  <2>3. JobOK' /\ Placed' /\ Replacing' /\ Dropping' /\ Numbering' /\ Unnumbering'
    BY <2>1 DEF MInv, JobOK, Placed, At, Replacing, Dropping, Numbering, Unnumbering, Recorded,
                NoneCorrects, SameFacts
  <2>4. SequenceIsOrder' /\ Complete' /\ Untouched'
    BY <2>1, <2>2 DEF MInv, SequenceIsOrder, Complete, Untouched, At
  <2>5. Resumed
    BY <2>1, JobRuns DEF MInv, Resumed
  <2> QED
    BY <2>2, <2>3, <2>4, <2>5 DEF Sound, MInv
<1>2. CASE Migrate
  BY <1>2, StampSound, Stages3Sound, Preflight4Sound, Repair4Sound, Lineage4Sound,
     History4Sound, Notices4Sound, CreateReplacementSound, CopyEventsSound, DropEventsSound,
     RenameReplacementSound, Corrections4Sound, Snapshots5Sound, Upgrade6Sound,
     Downgrade6Sound, Upgrade7Sound, Backfill7Sound, IndexSound, Repair7Sound,
     Unsequence7Sound
     DEF Migrate
<1>3. CASE \E up \in BOOLEAN : Start(up)
  BY <1>3, StartSound
<1>4. CASE Interrupt
  BY <1>4, InterruptSound
<1>5. CASE \E e \in Events, corrects \in Events \union {"none"} : AppCommit(e, corrects)
  BY <1>5, AppCommitSound
<1>6. CASE \E t \in {"notices", "audit", "facts"} : AppRecord(t)
  BY <1>6, AppRecordSound
<1> QED
  BY <1>1, <1>2, <1>3, <1>4, <1>5, <1>6 DEF Next

\* The inductive invariant of the migrations, whatever is interrupted.
THEOREM MigrationsInvariant == Spec => []MInv
<1>1. Init => MInv
  BY LegacyDatabase
<1>2. MInv /\ [Next]_vars => MInv'
  BY StepSound DEF Sound
<1> QED
  BY <1>1, <1>2, PTL DEF Spec

\* What the migrations leave of the ledger is whole: legacy history is complete
\* past 0004, the sequence of events is their order, and a database with an
\* unreadable payload is as the release that wrote it left it.
THEOREM LedgerIsWholeTheorem == Spec => []LedgerIsWhole
<1>1. MInv => LedgerIsWhole
  <2> SUFFICES ASSUME MInv PROVE LedgerIsWhole
    OBVIOUS
  <2>1. HistoryIsComplete
    <3> SUFFICES ASSUME version >= 4, db.events.there, NEW s \in LegacyStages
                 PROVE  db.stages.there /\ s \in db.stages.rows
      BY DEF HistoryIsComplete
    <3>1. HistoryDone /\ Held = db.events.rows
      BY DEF MInv, Complete, Held, AuthoritativeRows
    <3>2. \/ \E i \in DOMAIN db.events.rows, p \in EventPhases :
                s = <<db.events.rows[i].event, p>> /\ db.events.rows[i].event \notin db.staged
          \/ \E e \in db.reported \ db.staged : s = <<e, "PUBLICATION">>
      BY DEF LegacyStages
    <3> QED
      BY <3>1, <3>2 DEF HistoryDone, Staged
  <2>2. SequenceIsOrder
    BY DEF MInv
  <2>3. UnreadableIsUntouched
    BY DEF MInv, Untouched, UnreadableIsUntouched
  <2> QED
    BY <2>1, <2>2, <2>3 DEF LedgerIsWhole
<1> QED
  BY <1>1, MigrationsInvariant, PTL

Pairs == Events \X (Events \cup {"none"})

\* What a history says of its events is a sequence as long as the history.
LEMMA FactsOf ==
    ASSUME NEW q \in Seq(Rows), NEW h, h = [i \in DOMAIN q |-> <<q[i].event, q[i].corrects>>]
    PROVE  /\ h \in Seq(Pairs) /\ Len(h) = Len(q)
           /\ \A i \in 1..Len(q) : h[i] = <<q[i].event, q[i].corrects>>
<1>1. \A x \in Rows : <<x.event, x.corrects>> \in Pairs
  BY DEF Rows, Pairs
<1>2. DOMAIN q = 1..Len(q) /\ Len(q) \in Nat /\ \A i \in 1..Len(q) : q[i] \in Rows
  OBVIOUS
<1>3. PICK n \in Nat : n = Len(q)
  BY <1>2
<1>4. h = [i \in 1..n |-> <<q[i].event, q[i].corrects>>]
  BY <1>2, <1>3
<1>5. \A i \in 1..n : h[i] = <<q[i].event, q[i].corrects>>
  BY ONLY <1>4
<1>6. \A i \in 1..n : h[i] \in Pairs
  BY <1>1, <1>2, <1>3, <1>5
<1>7. DOMAIN h = 1..n /\ h = [i \in DOMAIN h |-> h[i]]
  BY ONLY <1>4
<1>8. h \in [1..n -> Pairs]
  BY ONLY <1>6, <1>7
<1>9. h \in Seq(Pairs) /\ Len(h) = n
  BY ONLY <1>8, n \in Nat
<1> QED
  BY <1>3, <1>5, <1>9

\* A sequence whose elements another one starts with is its prefix.
LEMMA IsPrefix ==
    ASSUME NEW X, NEW f \in Seq(X), NEW g \in Seq(X), Len(f) <= Len(g),
           \A i \in 1..Len(f) : f[i] = g[i]
    PROVE  f = SubSeq(g, 1, Len(f))
<1>1. Len(f) \in Nat /\ Len(g) \in Nat
  OBVIOUS
<1>2. \A i \in 1..Len(f) : g[i] \in X
  BY <1>1
<1>3. PICK n \in Nat : n = Len(f)
  BY <1>1
<1>4. /\ SubSeq(g, 1, n) \in Seq(X)
      /\ Len(SubSeq(g, 1, n)) = IF 1 <= n THEN n - 1 + 1 ELSE 0
      /\ \A i \in 1..(n - 1 + 1) : SubSeq(g, 1, n)[i] = g[1 + i - 1]
  BY <1>2, <1>3, SubSeqProperties
<1>5. PICK h : h = SubSeq(g, 1, n)
  OBVIOUS
<1>6. h \in Seq(X) /\ Len(h) = n /\ \A i \in 1..n : h[i] = f[i]
  BY <1>3, <1>4, <1>5
<1>7. h = f
  BY <1>3, <1>6, SeqEqual
<1> QED
  BY <1>3, <1>5, <1>7

\* A history of the same facts, or of one more, keeps what it had.
LEMMA FactsKept ==
    ASSUME NEW r \in Seq(Rows), NEW s \in Seq(Rows),
           SameFacts(s, r) \/ \E x \in Rows : s = Append(r, x),
           NEW f, f = [i \in DOMAIN r |-> <<r[i].event, r[i].corrects>>],
           NEW g, g = [i \in DOMAIN s |-> <<s[i].event, s[i].corrects>>]
    PROVE  Len(f) <= Len(g) /\ f = SubSeq(g, 1, Len(f))
<1>1. Len(r) <= Len(s) /\ \A i \in 1..Len(r) : s[i].event = r[i].event /\ s[i].corrects = r[i].corrects
  <2>1. CASE SameFacts(s, r)
    BY <2>1 DEF SameFacts
  <2>2. CASE \E x \in Rows : s = Append(r, x)
    BY <2>2
  <2> QED
    BY <2>1, <2>2
<1>2. f \in Seq(Pairs) /\ Len(f) = Len(r) /\ \A i \in 1..Len(r) : f[i] = <<r[i].event, r[i].corrects>>
  BY FactsOf
<1>3. g \in Seq(Pairs) /\ Len(g) = Len(s) /\ \A i \in 1..Len(s) : g[i] = <<s[i].event, s[i].corrects>>
  BY FactsOf
<1>4. Len(r) \in Nat /\ Len(s) \in Nat
  OBVIOUS
<1>5. ASSUME NEW i \in 1..Len(r) PROVE f[i] = g[i]
  <2>1. i \in 1..Len(s)
    BY <1>1, <1>4
  <2>2. f[i] = <<r[i].event, r[i].corrects>> /\ g[i] = <<s[i].event, s[i].corrects>>
    BY <1>2, <1>3, <2>1, Zenon
  <2>3. s[i].event = r[i].event /\ s[i].corrects = r[i].corrects
    BY <1>1, Zenon
  <2> QED
    BY <2>2, <2>3, Zenon
<1>6. Len(f) <= Len(g) /\ \A i \in 1..Len(f) : f[i] = g[i]
  BY ONLY <1>1, <1>2, <1>3, <1>5
<1> QED
  BY <1>2, <1>3, <1>6, IsPrefix

\* Interrupted and repeated in either direction, the migrations lose, alter or
\* reorder no event and drop nothing that was recorded.
THEOREM NothingIsLostTheorem == Spec => NothingIsLost
<1>1. MInv /\ MInv' /\ [Next]_vars =>
        [/\ Len(Facts) <= Len(Facts') /\ Facts = SubSeq(Facts', 1, Len(Facts))
         /\ db.stages.there => db.stages.rows = {}
                               \/ (db'.stages.there /\ db.stages.rows \subseteq db'.stages.rows)
         /\ \A t \in {"notices", "snapshots", "audit", "facts"} :
               Recorded(t) => Recorded(t)']_vars
  <2> SUFFICES ASSUME MInv, MInv', [Next]_vars
               PROVE  /\ Len(Facts) <= Len(Facts') /\ Facts = SubSeq(Facts', 1, Len(Facts))
                      /\ db.stages.there => db.stages.rows = {}
                               \/ (db'.stages.there /\ db.stages.rows \subseteq db'.stages.rows)
                      /\ \A t \in {"notices", "snapshots", "audit", "facts"} :
                            Recorded(t) => Recorded(t)'
    OBVIOUS
  <2>1. Kept
    BY StepSound DEF Sound
  <2>2. Held \in Seq(Rows)
    BY HeldIsRows DEF MInv
  <2>3. Held' \in Seq(Rows)
    <3>1. TablesOK' /\ Placed'
      BY DEF MInv
    <3>2. (TablesOK /\ Placed => Held \in Seq(Rows))'
      BY HeldIsRows, PTL
    <3> QED
      BY <3>1, <3>2
  <2>4. PICK r, s, f, g : /\ r = Held /\ s = Held' /\ f = Facts /\ g = Facts'
    OBVIOUS
  <2>5. /\ f = [i \in DOMAIN r |-> <<r[i].event, r[i].corrects>>]
        /\ g = [i \in DOMAIN s |-> <<s[i].event, s[i].corrects>>]
    BY <2>4 DEF Facts
  <2>6. SameFacts(s, r) \/ \E x \in Rows : s = Append(r, x)
    BY <2>1, <2>4 DEF Kept
  <2>7. Len(f) <= Len(g) /\ f = SubSeq(g, 1, Len(f))
    <3>1. r \in Seq(Rows) /\ s \in Seq(Rows)
      BY <2>2, <2>3, <2>4
    <3> QED
      BY ZenonT(60), <2>5, <2>6, <3>1, FactsKept
  <2> QED
    BY <2>1, <2>4, <2>7 DEF Kept
<1> QED
  BY <1>1, MigrationsInvariant, PTL DEF Spec, NothingIsLost

\* Every migration but 0006 can be run again to its end wherever it was
\* interrupted, unless another was left half-way.
THEOREM RetriesSucceedTheorem == Spec => RetriesSucceed
<1>1. MInv /\ [Next]_vars =>
        [(raised' = "schema" /\ job # Idle)
           => job.rev = 6 \/ left \ {<<job.rev, job.up>>} # {}]_vars
  BY StepSound DEF Sound, Resumed
<1> QED
  BY <1>1, MigrationsInvariant, PTL DEF Spec, RetriesSucceed
=============================================================================
