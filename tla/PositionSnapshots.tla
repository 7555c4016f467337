------------------------- MODULE PositionSnapshots -------------------------
(***************************************************************************)
(* Reconciliation of broker position snapshots against the history the     *)
(* owner's earlier snapshots established                                   *)
(* (modules/position_management/service.py, history.py and contracts.py).  *)
(*                                                                         *)
(* A broker keeps an append-only ledger; the feed that captures it may     *)
(* omit, repeat, alter or anticipate entries, and snapshots are decided    *)
(* in any order of their cutoffs.  The program keeps no table of positions:*)
(* each decision replays every retained outcome of the same owner and      *)
(* visibility, and rebuilds from them the facts established at its cutoff. *)
(* A price is one, so that a holding is worth its quantity and trades move *)
(* no equity.                                                              *)
(***************************************************************************)
EXTENDS Integers, Sequences, FiniteSets, FiniteSetsExt, SequencesExt

CONSTANTS
    Issuer,    \* securities, each with its issuer: a function
    NoSec,     \* the security of an entry that moves cash only
    Opening,   \* cash an account opened with
    Cases      \* bounds, one chosen at the start: instants, ledger facts and
               \* snapshots, the accounts and views in play, how the feed may
               \* be wrong, and whether sell orders are open

VARIABLES
    bound,     \* the member of Cases this behaviour stays within
    now,       \* the host clock
    facts,     \* what the broker booked, in order; an id is an index
    history    \* retained outcomes, in event order

vars == <<bound, now, facts, history>>

ASSUME PositionConstants ==
    /\ IsFiniteSet(DOMAIN Issuer) /\ NoSec \notin DOMAIN Issuer
    /\ Opening \in Nat
    /\ \A b \in Cases : b.facts \in Nat /\ IsFiniteSet(b.accounts)

Secs == DOMAIN Issuer
Feed == bound.feed
Ids == 1..(bound.facts + 1)

(* What a set of entries, or of rows of a ledger, adds up to. *)
Units(S) == SumFunction([e \in S |-> e.qty])
UnitsIn(E, rows) == SumFunction([k \in rows |-> E[k].qty])
CashIn(E, rows) == SumFunction([k \in rows |-> E[k].cash])
Later(t, u) == IF t > u THEN t ELSE u

-----------------------------------------------------------------------------
(* The broker, external to the program.                                    *)

SeenOf(E, a, t) == {i \in DOMAIN E : E[i].account = a /\ E[i].seen <= t}

(* What is seen of a ledger at an instant shows neither cash nor a holding *)
(* below zero.                                                             *)
Solvent(E, t) ==
    \A a \in bound.accounts :
        /\ Opening + CashIn(E, SeenOf(E, a, t)) >= 0
        /\ \A s \in Secs : UnitsIn(E, {i \in SeenOf(E, a, t) : E[i].sec = s}) >= 0

(* An entry occurs, and is observed then or an instant later; the broker   *)
(* accepts none that would overdraw the account.                           *)
Book(a, s, qty, cash, corrects, late) ==
    /\ Len(facts) < bound.facts /\ Len(history) < bound.snapshots
    /\ facts' = Append(facts,
           [id |-> Len(facts) + 1, account |-> a, sec |-> s, qty |-> qty, cash |-> cash,
            at |-> now, seen |-> IF late THEN now + 1 ELSE now,
            corrects |-> corrects, proved |-> TRUE])
    /\ \A t \in 1..(now + 1) : Solvent(facts', t)
    /\ UNCHANGED <<bound, now, history>>

Fill(a, s, q, late) == Book(a, s, q, -q, 0, late)

Fee(a) == "fee" \in Feed /\ Book(a, NoSec, 0, -1, 0, FALSE)

(* An additive correction takes a whole entry back. *)
Correct(i) ==
    /\ i \in DOMAIN facts
    /\ facts[i].seen <= now
    /\ \A j \in DOMAIN facts : facts[j].corrects # i
    /\ Book(facts[i].account, facts[i].sec, -facts[i].qty, -facts[i].cash, i, FALSE)

Tick ==
    /\ now < bound.time /\ Len(history) < bound.snapshots
    /\ now' = now + 1
    /\ UNCHANGED <<bound, facts, history>>

-----------------------------------------------------------------------------
(* Ledger facts and their evidence.                                        *)

(* Own evidence of an entry, and whether it was available by a cutoff. *)
EvidentBy(e, c) == e.proved /\ e.seen <= c

VisibleBy(e, c) == e.at <= c /\ EvidentBy(e, c) /\ e.seen >= e.at

SecurityKnown(e) == e.sec = NoSec => e.qty = 0

(* A ledger is a function from rows to entries.  The rows of an id, and the *)
(* ids that some entries name.                                             *)
Rows(E, i) == {<<k, E[k]>> : k \in {j \in DOMAIN E : E[j].id = i}}

Named(S) == ({e.id : e \in S} \union {e.corrects : e \in S}) \ {0}

(* What a ledger says of each id: none, one or several entries. *)
ById(E) == [i \in Named(Range(E)) |-> Rows(E, i)]

Alone(K, i) == \E r \in K[i] : K[i] = {r}

Entry(K, i) == (CHOOSE r \in K[i] : TRUE)[2]

Targets(K, S) == {Entry(K, j).corrects : j \in {k \in S : Alone(K, k)}} \ {0}

(* The ids a correction leads to, target by target: the least such set. *)
Ancestors(K, i) ==
    {j \in DOMAIN K :
        \A T \in SUBSET DOMAIN K : Targets(K, {i} \union T) \subseteq T => j \in T}

(* Following targets from an entry leads into a cycle. *)
Circular(K, i) == \E j \in {i} \union Ancestors(K, i) : j \in Ancestors(K, j)

(* The correction of an entry was observed after its target occurred. *)
FollowsTarget(K, i) ==
    LET e == Entry(K, i)
    IN  e.corrects = 0 \/ e.seen >= Entry(K, e.corrects).at

(* Every entry of a correction's lineage is single, one of those that      *)
(* stand, and follows its target.                                          *)
SoundLineage(K, i, standing) ==
    /\ ~Circular(K, i)
    /\ \A j \in {i} \union Ancestors(K, i) :
        /\ Alone(K, j)
        /\ Entry(K, j) \in standing
        /\ Entry(K, j).corrects # 0 =>
              Alone(K, Entry(K, j).corrects) /\ FollowsTarget(K, j)

LineageOccurred(K, i, c) == \A j \in {i} \union Ancestors(K, i) : Entry(K, j).at <= c

(* An entry and all it corrects had occurred and were observed by c. *)
LineageVisible(K, i, c) ==
    \A j \in {i} \union Ancestors(K, i) : Later(Entry(K, j).at, Entry(K, j).seen) <= c

(* The entries of one account of a snapshot that count as facts at c. *)
VisibleEntries(E, c) ==
    LET K == ById(E)
        standing == {e \in Range(E) : VisibleBy(e, Later(e.at, e.seen)) /\ SecurityKnown(e)}
    IN  {e \in Range(E) : SoundLineage(K, e.id, standing) /\ LineageVisible(K, e.id, c)}

-----------------------------------------------------------------------------
(* The history established by earlier outcomes.                            *)

(* First observed among the accepted snapshots n \in S of history H. *)
FirstObserved(H, S, a, c) ==
    LET of(n) == VisibleEntries(H[n].books[a].ledger, c)
    IN  UNION {{e \in of(n) : \A m \in S : m < n => \A f \in of(m) : f.id # e.id} : n \in S}

(* A snapshot keeps every established entry, once and as it was. *)
Preserves(E, canon) == \A e \in canon : \E k \in DOMAIN E : Rows(E, e.id) = {<<k, e>>}

Covering(H, v, a) == {n \in DOMAIN H : H[n].view = v /\ a \in DOMAIN H[n].books}

(* The members of D accepted one after the other, each if it may follow    *)
(* those accepted before it.                                               *)
AcceptedAmong(D, may) ==
    CHOOSE S \in SUBSET D : \A n \in D : n \in S <=> {m \in S : m < n} \in may[n]

(* The snapshots accepted: each preserves what was established at its own  *)
(* cutoff by those accepted before it.                                     *)
MayFollow(H, D, a) ==
    [n \in D |-> {S \in SUBSET D :
        Preserves(H[n].books[a].ledger, FirstObserved(H, S, a, H[n].cutoff))}]

Accepted(H, v, a) == AcceptedAmong(Covering(H, v, a), MayFollow(H, Covering(H, v, a), a))

LedgerHistory(H, v, a, c) == FirstObserved(H, Accepted(H, v, a), a, c)

(* Opening baselines: evidence of a snapshot carries its own cutoff. *)
BaselineAt(H, n, a, c) == H[n].books[a].openingProved /\ H[n].cutoff <= c

FirstBaseline(H, S, a, c) ==
    LET valid == {n \in S : BaselineAt(H, n, a, c)}
    IN  {H[n].books[a].opening : n \in {m \in valid : \A l \in valid : m <= l}}

MayOpen(H, D, a) ==
    [n \in D |-> {S \in SUBSET D :
        /\ BaselineAt(H, n, a, H[n].cutoff)
        /\ FirstBaseline(H, S, a, H[n].cutoff) \subseteq {H[n].books[a].opening}}]

CashHistory(H, v, a, c) ==
    LET D == Covering(H, v, a)
    IN  FirstBaseline(H, AcceptedAmong(D, MayOpen(H, D, a)), a, c)

-----------------------------------------------------------------------------
(* Conflicts.  Each blocks exact quantities in its scope; some block every *)
(* account, some the valuation of their scope.                             *)

Conflict(a, s, code, whole, valued) ==
    [account |-> a, sec |-> s, code |-> code, whole |-> whole, valued |-> valued]

(* A conflict over a ledger entry: every account, and the entry's holding. *)
EntryConflict(e, code) == Conflict(e.account, e.sec, code, TRUE, e.sec # NoSec)

(* What is known of an entry's ancestors: this snapshot before history. *)
Lineages(E, canon) ==
    [i \in Named(Range(E) \union canon) |->
        IF Rows(E, i) # {} THEN Rows(E, i) ELSE {<<0, e>> : e \in {f \in canon : f.id = i}}]

CorrectionCode(K, e) ==
    IF e.corrects = e.id THEN "CORRECTION_SELF_REFERENCE"
    ELSE IF K[e.corrects] = {} THEN "CORRECTION_TARGET_MISSING"
    ELSE IF ~Alone(K, e.corrects) THEN "CORRECTION_TARGET_AMBIGUOUS"
    ELSE IF Circular(K, e.id) THEN "CORRECTION_CYCLE"
    ELSE IF e.seen < Entry(K, e.corrects).at THEN "CORRECTION_EVIDENCE_PRECEDES_TARGET"
    ELSE "sound"

HistoryConflictsPresent(E, canon) ==
    LET K == Lineages(E, canon)
        corrections == {e \in Range(E) : e.corrects # 0}
        Scoped(e) == IF /\ e.sec = NoSec
                        /\ CorrectionCode(K, e) = "CORRECTION_EVIDENCE_PRECEDES_TARGET"
                     THEN [e EXCEPT !.sec = Entry(K, e.corrects).sec] ELSE e
    IN  {EntryConflict(e, "ENTRY_MUTATED") :
                   e \in {f \in Range(E) : \E g \in canon : g.id = f.id /\ g # f}}
        \union {EntryConflict(Scoped(e), CorrectionCode(K, e)) :
                   e \in {f \in corrections : CorrectionCode(K, f) # "sound"}}

HistoryConflicts(E, canon) ==
    LET K == Lineages(E, canon)
        corrections == {e \in Range(E) : e.corrects # 0}
        Scoped(e) == IF /\ e.sec = NoSec
                        /\ CorrectionCode(K, e) = "CORRECTION_EVIDENCE_PRECEDES_TARGET"
                     THEN [e EXCEPT !.sec = Entry(K, e.corrects).sec] ELSE e
    IN  {EntryConflict(e, "ENTRY_REMOVED") : e \in {f \in canon : Rows(E, f.id) = {}}}
        \union {EntryConflict(e, "ENTRY_MUTATED") :
                   e \in {f \in Range(E) : \E g \in canon : g.id = f.id /\ g # f}}
        \union {EntryConflict(Scoped(e), CorrectionCode(K, e)) :
                   e \in {f \in corrections : CorrectionCode(K, f) # "sound"}}

(* Securities of corrections that do not rest on visible, single entries. *)
UnresolvedCorrections(E, canon, c) ==
    LET K == Lineages(E, canon)
        standing == {g \in Range(E) \union canon : VisibleBy(g, c)}
    IN  {e.sec : e \in {f \in Range(E) :
            f.corrects # 0 /\ ~SoundLineage(K, f.id, standing)}} \ {NoSec}

Repeated(E) == {e \in Range(E) : ~Alone(ById(E), e.id)}

EntryCodes(E, e, c) ==
    (IF e \in Repeated(E) THEN {"ENTRY_ID_DUPLICATED"} ELSE {})
    \union (IF e.at > c THEN {"ENTRY_AFTER_CUTOFF"}
            ELSE (IF ~EvidentBy(e, c) THEN {"EVIDENCE"} ELSE {})
                 \union (IF e.seen < e.at THEN {"EVIDENCE_PRECEDES_OCCURRENCE"} ELSE {})
                 \union (IF ~SecurityKnown(e) THEN {"SECURITY_ID_MISSING"} ELSE {}))

LedgerConflicts(E, c) ==
    UNION {{EntryConflict(e, code) : code \in EntryCodes(E, e, c)} : e \in Range(E)}

(* Entries that count towards the reconstructed ledger, and their sums. *)
Counted(E, c) == {i \in DOMAIN E : E[i].at <= c}
Quantity(E, c, s) == UnitsIn(E, {i \in Counted(E, c) : E[i].sec = s})
CashMoved(E, c) == CashIn(E, Counted(E, c))

Unresolved(E, canon, c) ==
    UnresolvedCorrections(E, canon, c)
    \union ({k.sec : k \in LedgerConflicts(E, c)} \ {NoSec})

-----------------------------------------------------------------------------
(* One account's facts against its ledger and history.                     *)

SummaryRequired(b, canon, c) ==
    {s \in Secs : Quantity(b.ledger, c, s) # 0 \/ b.orders[s].open # 0 \/ s \in b.restricted}
    \union Unresolved(b.ledger, canon, c)

Listed(b) == {s \in Secs : b.positions[s].listed}

MissingSummaries(b, canon, c) == SummaryRequired(b, canon, c) \ Listed(b)

(* Sell orders block their own security only. *)
OrderConflicts(a, b) ==
    {Conflict(a, s, "OPEN_ORDER", FALSE, FALSE) : s \in {t \in Secs : ~b.orders[t].sound}}

(* A summary that is unproved, incomplete, or denied by ledger or orders. *)
PositionCodes(b, s, c) ==
    LET p == b.positions[s]
    IN  (IF ~p.proved \/ p.total < 0
            THEN {<<"POSITION_UNPROVED", TRUE, TRUE>>} ELSE {})
        \union (IF Quantity(b.ledger, c, s) # p.total
                  THEN {<<"LEDGER_QUANTITY_MISMATCH", TRUE, TRUE>>} ELSE {})
        \union (IF \/ ~p.exact
                   \/ p.sellable < 0
                   \/ p.sellable + p.selling > p.total
                   \/ p.selling # b.orders[s].open
                  THEN {<<"SELLABLE_QUANTITY", FALSE, FALSE>>} ELSE {})

PositionConflicts(a, b, c) ==
    UNION {{Conflict(a, s, k[1], k[2], k[3]) : k \in PositionCodes(b, s, c)} : s \in Listed(b)}

(* Cash held for buy orders lies within frozen cash, that within the ledger's. *)
ReserveCodes(b) ==
    IF b.reserve > b.frozen THEN {"BUY_ORDER_RESERVE_EXCEEDS_FROZEN_CASH"} ELSE {}

LayerCodes(b) ==
    IF b.cash < 0 \/ b.frozen < 0 \/ b.frozen > b.cash THEN {"CASH_LAYERS"} ELSE {}

(* Cash and equity against ledger and holdings; cash is compared only when *)
(* no entry of the ledger is in doubt.                                     *)
CashCodes(b, c) ==
    (IF /\ \A e \in Range(b.ledger) : EntryCodes(b.ledger, e, c) = {}
        /\ b.opening + CashMoved(b.ledger, c) # b.cash
     THEN {"LEDGER_CASH_MISMATCH"} ELSE {})
    \union (IF /\ \A s \in Listed(b) : b.positions[s].total >= 0
               /\ b.cash + SumFunction([s \in Listed(b) |-> b.positions[s].total]) # b.equity
            THEN {"EQUITY_MISMATCH"} ELSE {})

OpeningCodes(b, baseline) ==
    IF \E o \in baseline : o # b.opening THEN {"OPENING_CASH_MUTATED"} ELSE {}

EvidenceCodes(b) ==
    (IF ~b.manifest THEN {"ACCOUNT_EVIDENCE"} ELSE {})
    \union (IF ~b.openingProved THEN {"OPENING_EVIDENCE"} ELSE {})

AccountCodes(b, c, baseline) ==
    EvidenceCodes(b) \union OpeningCodes(b, baseline) \union ReserveCodes(b)
    \union LayerCodes(b) \union CashCodes(b, c)

AccountConflicts(a, b, c, canon, baseline) ==
    {Conflict(a, NoSec, code, TRUE, FALSE) : code \in AccountCodes(b, c, baseline)}
    \union HistoryConflicts(b.ledger, canon)
    \union LedgerConflicts(b.ledger, c)
    \union {Conflict(a, s, "CORRECTION_LINEAGE_UNRESOLVED", TRUE, TRUE) :
               s \in UnresolvedCorrections(b.ledger, canon, c)}
    \union OrderConflicts(a, b)
    \union PositionConflicts(a, b, c)
    \union {Conflict(a, s, "POSITION_SUMMARY_MISSING", TRUE, TRUE) :
               s \in MissingSummaries(b, canon, c)}

-----------------------------------------------------------------------------
(* What an outcome publishes.                                              *)

Concerns(k, a, s) == k.account = a /\ k.sec \in {NoSec, s}

(* The accounts' holdings whose exact quantity is available. *)
ExactUnits(books, conflicts) ==
    {u \in (DOMAIN books) \X Secs :
        /\ u[2] \in Listed(books[u[1]]) \ books[u[1]].restricted
        /\ \A k \in conflicts : ~k.whole /\ ~Concerns(k, u[1], u[2])}

CoverageCodesPresent ==
    {"ENTRY_REMOVED", "SECURITY_ID_MISSING", "CORRECTION_SELF_REFERENCE",
     "CORRECTION_TARGET_MISSING", "CORRECTION_CYCLE", "CORRECTION_EVIDENCE_PRECEDES_TARGET",
     "POSITION_SUMMARY_MISSING", "ACCOUNT_EVIDENCE"}

(* Conflicts that leave unknown which securities are held at all. *)
CoverageCodes ==
    {"ENTRY_REMOVED", "ENTRY_MUTATED", "SECURITY_ID_MISSING", "CORRECTION_SELF_REFERENCE",
     "CORRECTION_TARGET_MISSING", "CORRECTION_CYCLE", "CORRECTION_EVIDENCE_PRECEDES_TARGET",
     "POSITION_SUMMARY_MISSING", "ACCOUNT_EVIDENCE"}

HeldBy(books, i) ==
    {u \in (DOMAIN books) \X Secs : Issuer[u[2]] = i /\ u[2] \in Listed(books[u[1]])}

(* The issuers whose market exposure is published. *)
PricedIssuers(books, conflicts) ==
    {i \in Range(Issuer) :
        /\ HeldBy(books, i) # {}
        /\ \A k \in conflicts :
              /\ k.code \notin CoverageCodes
              /\ k.valued => \A u \in HeldBy(books, i) : ~Concerns(k, u[1], u[2])}

Exposure(books, i) ==
    SumFunction([u \in HeldBy(books, i) |-> books[u[1]].positions[u[2]].total])

Conflicts(H, v, c, books) ==
    UNION {AccountConflicts(a, books[a], c, LedgerHistory(H, v, a, c), CashHistory(H, v, a, c)) :
              a \in DOMAIN books}

Judged(v, c, books, conflicts) ==
    [view |-> v, cutoff |-> c, books |-> books, reconciled |-> conflicts = {},
     exact |-> ExactUnits(books, conflicts), priced |-> PricedIssuers(books, conflicts)]

(* POSITION_SNAPSHOT_RECONCILE: the history is read and the outcome        *)
(* appended in one transaction.                                            *)
Reconcile(v, c, books) ==
    /\ Len(history) < bound.snapshots
    /\ history' = Append(history, Judged(v, c, books, Conflicts(history, v, c, books)))
    /\ UNCHANGED <<bound, now, facts>>

-----------------------------------------------------------------------------
(* The feed, external to the program.                                      *)

(* What the broker reports of an account at a cutoff. *)
Reported(a, c) == [i \in SeenOf(facts, a, c) |-> facts[i]]

(* The broker's summary of a ledger, with sell orders open on some holdings. *)
Summary(E, selling) ==
    LET total(s) == UnitsIn(E, {i \in DOMAIN E : E[i].sec = s})
        open(s) == IF s \in selling /\ total(s) > 0 THEN 1 ELSE 0
        cash == Opening + CashIn(E, DOMAIN E)
    IN  [positions |-> [s \in Secs |-> [listed |-> total(s) # 0, total |-> total(s),
                                        sellable |-> total(s) - open(s), selling |-> open(s),
                                        proved |-> TRUE, exact |-> TRUE]],
         orders |-> [s \in Secs |-> [open |-> open(s), sound |-> TRUE]],
         restricted |-> {}, manifest |-> TRUE, openingProved |-> TRUE,
         opening |-> Opening, cash |-> cash, frozen |-> 0, reserve |-> 0,
         equity |-> cash + SumFunction([s \in Secs |-> total(s)])]

Captured(E, summary) ==
    [ledger |-> E, positions |-> summary.positions, orders |-> summary.orders,
     restricted |-> summary.restricted, manifest |-> summary.manifest,
     openingProved |-> summary.openingProved, opening |-> summary.opening,
     cash |-> summary.cash, frozen |-> summary.frozen, reserve |-> summary.reserve,
     equity |-> summary.equity]

Honest(a, c, selling) == Captured(Reported(a, c), Summary(Reported(a, c), selling))

(* What the feed delivers when it may be wrong in a way. *)
Wrong(fault, S) == {x \in S : fault \in Feed}

(* One entry altered. *)
Alterations(e) ==
    Wrong("quantity", {[e EXCEPT !.qty = @ + 1, !.cash = @ - 1]})
    \union Wrong("security", {[e EXCEPT !.sec = s] : s \in {NoSec} \union Secs})
    \union Wrong("evidence", {[e EXCEPT !.proved = FALSE]})
    \union Wrong("clock", {[e EXCEPT !.at = @ + 1], [e EXCEPT !.seen = @ - 1]})
    \union Wrong("lineage", {[e EXCEPT !.corrects = i] : i \in Ids})

MiscapturedLedgers(a, c) ==
    LET E == Reported(a, c)
        all == {i \in DOMAIN facts : facts[i].account = a}
    IN  Wrong("omit", {[j \in DOMAIN E \ {i} |-> E[j]] : i \in DOMAIN E})
        \union (UNION {{[E EXCEPT ![i] = e] : e \in Alterations(E[i])} : i \in DOMAIN E})
        \union Wrong("repeat", {[j \in {0} \union DOMAIN E |-> IF j = 0 THEN E[i] ELSE E[j]] :
                                   i \in DOMAIN E})
        \union Wrong("early", {[j \in all |-> facts[j]]})

(* A false ledger beside the true summary, or beside one that follows it. *)
FalseLedgers(a, c) ==
    UNION {{Captured(E, Summary(Reported(a, c), {})), Captured(E, Summary(E, {}))} :
              E \in MiscapturedLedgers(a, c)}

FalseSummaries(a, c) ==
    LET b == Honest(a, c, {})
    IN  Wrong("unlisted", {[b EXCEPT !.positions[s].listed = FALSE] : s \in Secs})
        \union Wrong("total", {[b EXCEPT !.positions[s].total = @ + 1, !.equity = @ + 1] : s \in Secs})
        \union Wrong("sellable", {[Honest(a, c, {s}) EXCEPT !.positions[s].sellable = @ + 1] : s \in Secs})
        \union Wrong("inexact", {[b EXCEPT !.positions[s].exact = FALSE] : s \in Secs})
        \union Wrong("position", {[b EXCEPT !.positions[s].proved = FALSE] : s \in Secs})
        \union Wrong("order", {[b EXCEPT !.orders[s] = [open |-> 1, sound |-> FALSE]] : s \in Secs})
        \union Wrong("selling", {[b EXCEPT !.orders[s].open = 1] : s \in Secs})
        \union Wrong("opening", {[b EXCEPT !.opening = @ + 1, !.cash = @ + 1, !.equity = @ + 1]})
        \union Wrong("unopened", {[b EXCEPT !.openingProved = FALSE]})
        \union Wrong("manifest", {[b EXCEPT !.manifest = FALSE]})
        \union Wrong("cash", {[b EXCEPT !.cash = @ - 1], [b EXCEPT !.equity = @ - 1]})
        \union Wrong("reserve", {[b EXCEPT !.reserve = 1], [b EXCEPT !.frozen = b.cash + 1]})

Books(a, c) ==
    {Honest(a, c, selling) : selling \in (IF bound.sells THEN SUBSET Secs ELSE {{}})}
    \union {[Honest(a, c, {}) EXCEPT !.restricted = {s}] :
               s \in (IF bound.sells THEN Listed(Honest(a, c, {})) ELSE {})}
    \union FalseLedgers(a, c)
    \union FalseSummaries(a, c)

-----------------------------------------------------------------------------
Init ==
    /\ bound \in Cases
    /\ now = 1
    /\ facts = <<>>
    /\ history = <<>>

Snapshot ==
    \E v \in bound.views, c \in 1..now, scope \in (SUBSET bound.accounts) \ {{}} :
        \E first \in scope :
            \E b \in Books(first, c) :
                Reconcile(v, c, [a \in scope |-> IF a = first THEN b ELSE Honest(a, c, {})])

Next ==
    \/ Tick
    \/ \E a \in bound.accounts, s \in Secs, q \in {-1, 1}, late \in BOOLEAN : Fill(a, s, q, late)
    \/ \E a \in bound.accounts : Fee(a)
    \/ \E i \in 1..bound.facts : Correct(i)
    \/ Snapshot

Spec == Init /\ [][Next]_vars

-----------------------------------------------------------------------------
(* Properties.                                                             *)

Outcome == history[Len(history)]
Earlier == SubSeq(history, 1, Len(history) - 1)
Established(a) == LedgerHistory(Earlier, Outcome.view, a, Outcome.cutoff)

Held(b, s) == IF s \in Listed(b) THEN b.positions[s].total ELSE 0

(* Two reconciled outcomes of one owner at one cutoff are one book: the     *)
(* later one keeps every entry of the earlier, opened with the same cash,   *)
(* and its holdings and cash differ by exactly the entries it adds.         *)
BooksAgree ==
    history # <<>> /\ Outcome.reconciled =>
        \A n \in DOMAIN Earlier :
            (Earlier[n].reconciled /\ Earlier[n].view = Outcome.view
               /\ Earlier[n].cutoff = Outcome.cutoff) =>
            \A a \in DOMAIN Outcome.books \intersect DOMAIN Earlier[n].books :
                LET old == Earlier[n].books[a]
                    new == Outcome.books[a]
                    added == {i \in DOMAIN new.ledger : new.ledger[i] \notin Range(old.ledger)}
                IN  /\ Range(old.ledger) \subseteq Range(new.ledger)
                    /\ old.opening = new.opening
                    /\ new.cash - old.cash = CashIn(new.ledger, added)
                    /\ \A s \in Secs :
                           Held(new, s) - Held(old, s)
                             = UnitsIn(new.ledger, {i \in added : new.ledger[i].sec = s})

(* Whatever was captured before, and in whatever order of cutoffs, a true   *)
(* snapshot reconciles unless a falsehood no history could contradict was   *)
(* taken for the first observation of a fact.                               *)
TruthReconciles ==
    history # <<>> /\ ~Outcome.reconciled =>
        \/ \E a \in DOMAIN Outcome.books : ~\E selling \in SUBSET Secs :
               Outcome.books[a] = Honest(a, Outcome.cutoff, selling)
        \/ \E a \in DOMAIN Outcome.books :
               \/ ~(Established(a) \subseteq Range(facts))
               \/ CashHistory(Earlier, Outcome.view, a, Outcome.cutoff) \ {Opening} # {}

(* An exact quantity, with the sell orders open on it, never exceeds what   *)
(* the facts established at the cutoff leave of the holding, in the         *)
(* snapshot and in the history together.                                    *)
ExactIsCovered ==
    history # <<>> =>
        \A u \in Outcome.exact :
            LET b == Outcome.books[u[1]]
                known == Range(b.ledger) \union Established(u[1])
            IN  b.positions[u[2]].sellable + b.orders[u[2]].open
                    <= Units({e \in known : e.sec = u[2]})

(* An issuer's exposure is published only whole: it is worth everything     *)
(* established at the cutoff of all its securities in the accounts captured.*)
ExposureIsWhole ==
    history # <<>> =>
        \A i \in Outcome.priced :
            Exposure(Outcome.books, i) =
                SumFunction([a \in DOMAIN Outcome.books |->
                    Units({e \in Range(Outcome.books[a].ledger) \union Established(a) :
                              IF e.sec = NoSec THEN FALSE ELSE Issuer[e.sec] = i})])

(* No number is published that the established facts do not support:       *)
(* neither a quantity to sell nor an issuer's exposure.                     *)
PublishedIsSupported == ExactIsCovered /\ ExposureIsWhole
=============================================================================
