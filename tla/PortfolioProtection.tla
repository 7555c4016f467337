------------------------ MODULE PortfolioProtection ------------------------
(***************************************************************************)
(* Authorization of portfolios and the gross-stress obligations they owe   *)
(* (modules/portfolio/service.py, stress.py and contracts.py).             *)
(*                                                                         *)
(* A user confirms an authorization, and later revises it; commands use it *)
(* for new exposure or for protection; stress assessments of position      *)
(* snapshots raise, carry and settle the obligation to sell.  Every        *)
(* decision reads the retained history and is appended to it in one        *)
(* transaction, but its evidence may be older than what is already         *)
(* retained: each command carries a knowledge cutoff of its own.           *)
(***************************************************************************)
EXTENDS Integers, Sequences, FiniteSets, FiniteSetsExt, Functions

CONSTANTS
    Prices,        \* prices the holding may trade at
    Cash, Shares,  \* the account at the first instant
    Shock,         \* adverse move and disposal friction of the policy, percent
    Friction,
    Duration,      \* instants a budget lasts
    Cases          \* bounds, one chosen at the start: portfolios, scopes and
                   \* budgets in play, whether the account trades and owes
                   \* cash, and how many instants, authorizations, stress
                   \* records and uses there may be

(* Thresholds are numbers. *)
ASSUME BudgetsAssumption == \A c \in Cases : \A b \in c.budgets : b.target \in Int

VARIABLES
    bound,     \* the member of Cases this behaviour stays within
    now,       \* the host clock
    path,      \* for each instant, price, cash and shares of the account
    ledger,    \* fills and corrections, in the order they are reported
    auths,     \* retained authorizations; an id is an index
    stress,    \* retained stress outcomes of the portfolio Portfolio
    usage      \* the last recorded use of an authorization

vars == <<bound, now, path, ledger, auths, stress, usage>>

NoObligation == [status |-> "none"]
NoUsage == [allowed |-> FALSE]

-----------------------------------------------------------------------------
(* The account, external to the program.                                   *)

Report(price, qty, root, occurred) ==
    LET last == path[now]
        cash == -qty * (IF root = 0 THEN price ELSE -(ledger[root].cash \div ledger[root].qty))
    IN  /\ now < bound.time
        /\ now' = now + 1
        /\ last.shares + qty >= 0 /\ last.cash + cash >= 0
        /\ path' = Append(path, [price |-> price, cash |-> last.cash + cash,
                                 shares |-> last.shares + qty])
        /\ ledger' = IF qty = 0 THEN ledger
                     ELSE Append(ledger, [qty |-> qty, cash |-> cash, root |-> root,
                                          occurred |-> occurred, at |-> now + 1])
        /\ UNCHANGED <<bound, auths, stress, usage>>

Move(p) == Report(p, 0, 0, now + 1)

(* A fill may be reported an instant late. *)
Fill(q, late) ==
    /\ bound.trades
    /\ Report(path[now].price, q, 0, IF late THEN now ELSE now + 1)

(* An additive correction takes a whole fill back. *)
Correct(i) ==
    /\ i \in DOMAIN ledger
    /\ ledger[i].root = 0
    /\ \A j \in DOMAIN ledger : ledger[j].root # i
    /\ Report(path[now].price, -ledger[i].qty, i, now + 1)

-----------------------------------------------------------------------------
(* Authorizations.                                                         *)

(* Evidence of an authorization that exists by a cutoff. *)
AvailableBy(i, cutoff) == auths[i].eff <= cutoff /\ auths[i].conf <= cutoff

Lineage(p) == {i \in DOMAIN auths : auths[i].portfolio = p}
Visible(p, cutoff) == {i \in Lineage(p) : AvailableBy(i, cutoff)}
Effective(S, t) == {i \in S : auths[i].eff <= t}

(* The members of a set of authorizations no other member supersedes. *)
Leaves(S) == {i \in S : \A j \in S : auths[j].prev # i}

OneLeaf(S) == Cardinality(Leaves(S)) <= 1
Leaf(S) == IF Cardinality(Leaves(S)) = 1 THEN CHOOSE i \in Leaves(S) : TRUE ELSE 0

(* A successor that permits more risk than the budget it follows. *)
Relaxes(b, c) == b.target > c.target \/ b.hard > c.hard

ScopeOverlaps(p, scope) ==
    \E i \in DOMAIN auths : auths[i].portfolio # p /\ auths[i].scope \intersect scope # {}

(* A changed grid needs a policy version of its own and proof of its       *)
(* requalification; a policy version never binds a second grid.            *)
GridQualified(b, c, proved) == b.grid # c.grid => b.policy # c.policy /\ proved

PolicyRedefined(b) ==
    \E i \in DOMAIN auths :
        auths[i].budget.policy = b.policy /\ auths[i].budget.grid # b.grid

CashOwed(S) == \E i \in S : auths[i].cash

StressOf(p) == {i \in DOMAIN stress : stress[i].portfolio = p}

(* Whether the last of some stress records is clear of trouble. *)
Clear(r) == r.state = "NORMAL" /\ r.obligation.status # "OUTSTANDING"
Restored(records) == records # {} => Clear(stress[Max(records)])

RelaxationAllowedUnseen(p, cutoff, conf, proved) ==
    /\ proved
    /\ ~CashOwed(Lineage(p))
    /\ Restored({i \in StressOf(p) : stress[i].cutoff <= Min({cutoff, conf})})

(* Later history may veto a relaxation, never establish earlier calm. *)
RelaxationAllowed(p, cutoff, conf, proved) ==
    /\ proved
    /\ ~CashOwed(Lineage(p))
    /\ Restored({i \in StressOf(p) : stress[i].cutoff <= Min({cutoff, conf})})
    /\ Restored(StressOf(p))

Forward(eff, current) == eff > auths[current].eff

(* PORTFOLIO_CONFIRM approved.  A refusal retains nothing. *)
Confirm(p, cutoff, conf, eff, b, scope, cash, prev, proved) ==
    LET current == Leaf(Lineage(p))
    IN  /\ Len(auths) < bound.auths
        /\ conf <= eff /\ eff <= cutoff /\ cutoff <= now
        /\ prev # 0 => conf < eff
        /\ ~ScopeOverlaps(p, scope)
        /\ OneLeaf(Lineage(p))
        /\ prev = current
        /\ current # 0 =>
              /\ AvailableBy(current, cutoff)
              /\ GridQualified(b, auths[current].budget, proved)
              /\ Forward(eff, current)
              /\ Relaxes(b, auths[current].budget)
                    => RelaxationAllowed(p, cutoff, conf, proved)
        /\ ~PolicyRedefined(b)
        /\ auths' = Append(auths, [portfolio |-> p, conf |-> conf, eff |-> eff,
                                   budget |-> b, scope |-> scope, cash |-> cash,
                                   prev |-> prev])
        /\ UNCHANGED <<bound, now, path, ledger, stress, usage>>

(* The decision a use of authorization a records at this instant. *)
IsActive(S, a) == OneLeaf(Effective(S, now)) /\ Leaf(Effective(S, now)) = a

(* Protection is retained by any authorization once effective; a stress    *)
(* assessment also asks for the current one.                               *)
ProtectionAllowed(p, cutoff, a) ==
    /\ a \in Visible(p, cutoff)
    /\ auths[a].eff <= now
    /\ IsActive(Lineage(p), a)
    /\ IsActive(Visible(p, cutoff), a)

ExposureOfRetained(p, cutoff, a) ==
    /\ a \in Visible(p, cutoff)
    /\ auths[a].eff <= now
    /\ OneLeaf(Visible(p, cutoff))
    /\ IsActive(Visible(p, cutoff), a)
    /\ now < auths[a].eff + Duration

(* New exposure needs the authorization active both in what the command    *)
(* may see and in all that is retained.                                    *)
ExposureAllowed(p, cutoff, a) ==
    /\ a \in Visible(p, cutoff)
    /\ auths[a].eff <= now
    /\ IsActive(Lineage(p), a)
    /\ OneLeaf(Visible(p, cutoff))
    /\ IsActive(Visible(p, cutoff), a)
    /\ now < auths[a].eff + Duration

(* PORTFOLIO_USE for new exposure. *)
Use(p, cutoff, a) ==
    /\ bound.uses
    /\ cutoff <= now
    /\ usage' = IF ExposureAllowed(p, cutoff, a)
                THEN [allowed |-> TRUE, auth |-> a, at |-> now] ELSE NoUsage
    /\ UNCHANGED <<bound, now, path, ledger, auths, stress>>

-----------------------------------------------------------------------------
(* Stress.                                                                 *)

Exposure(t) == path[t].price * path[t].shares
Loss(t) == (Shock + Friction) * Exposure(t)
NetEquity(t) == 100 * (path[t].cash + Exposure(t)) - Friction * Exposure(t)
Exceeds(t, percent) == 100 * Loss(t) > percent * NetEquity(t)

Reported(t) == {i \in DOMAIN ledger : ledger[i].at <= t}

(* What a fill and the corrections of it reported by t come to. *)
Quantities(i, t) ==
    [j \in {k \in Reported(t) : k = i \/ ledger[k].root = i} |-> ledger[j].qty]
NetQuantity(i, t) == SumFunction(Quantities(i, t))

(* Fills that sold after an instant, net of the corrections reported by t. *)
EffectiveSales(after, t) ==
    {i \in Reported(t) :
        ledger[i].root = 0 /\ NetQuantity(i, t) < 0 /\ ledger[i].occurred > after}

(* Corrections that weaken a restoration. *)
Corrections(t) ==
    {i \in Reported(t) : ledger[i].root # 0 /\ (ledger[i].qty > 0 \/ ledger[i].cash < 0)}

(* Outcomes that reached no assessment stay out of the lineage.            *)
AnyRecord(r) == TRUE
InLineage(r) == ~r.denied

(* A satisfied obligation is reopened unless the sales it rests on are     *)
(* still confirmed by a reconciled position.                               *)
Reviewed(o, t, reconciled) ==
    IF o.status = "SATISFIED"
       /\ ~(/\ reconciled
            /\ o.fills # {}
            /\ Corrections(t) \subseteq o.corrections
            /\ o.fills \subseteq EffectiveSales(o.trigger, t))
    THEN [o EXCEPT !.status = "OUTSTANDING"] ELSE o

Tightened(o, b) ==
    IF o.status = "OUTSTANDING" THEN [o EXCEPT !.target = Min({@, b.target})] ELSE o

(* A hard breach raises an obligation unless one is outstanding. *)
Raised(o, t, b) ==
    IF Exceeds(t, b.hard) /\ o.status # "OUTSTANDING"
    THEN [status |-> "OUTSTANDING", target |-> b.target, trigger |-> t,
          fills |-> {}, corrections |-> {}]
    ELSE o

Settled(o, t, reconciled) ==
    LET sales == EffectiveSales(o.trigger, t)
    IN  IF o.status # "none" /\ ~Exceeds(t, o.target) /\ sales # {} /\ reconciled
        THEN [o EXCEPT !.status = "SATISFIED", !.fills = sales,
                       !.corrections = Corrections(t)]
        ELSE o

StressState(t, b) ==
    IF Exceeds(t, b.hard) THEN "HARD_BREACH"
    ELSE IF Exceeds(t, b.target) THEN "BUFFER" ELSE "NORMAL"

StressLineage(p) == {i \in StressOf(p) : InLineage(stress[i])}

(* The obligation of the last assessment of an earlier snapshot. *)
Prior(p, t) ==
    LET earlier == {i \in StressLineage(p) : stress[i].cutoff < t}
    IN  IF earlier = {} THEN NoObligation ELSE stress[Max(earlier)].obligation

Uncovered(p, scope) == \E i \in StressLineage(p) : ~(stress[i].scope \subseteq scope)

(* An outcome that reaches no assessment. *)
Denied(p, t, a, allowed, scope) ==
    \/ ~allowed
    \/ auths[a].scope # scope
    \/ \E i \in StressLineage(p) : stress[i].cutoff >= t
    \/ Uncovered(p, scope)

(* What becomes of an earlier obligation on the snapshot of instant t. *)
Owed(prior, t, b, denied, assessed, reconciled) ==
    LET reviewed == Reviewed(prior, t, reconciled)
        carried == IF denied THEN reviewed ELSE Tightened(reviewed, b)
    IN  IF assessed THEN Settled(Raised(carried, t, b), t, reconciled) ELSE carried

(* PORTFOLIO_STRESS_ASSESS on the snapshot of instant t. *)
AssessStress(p, t, a, allowed, scope, reconciled, known) ==
    LET denied == Denied(p, t, a, allowed, scope)
        b == auths[a].budget
        assessed == ~denied /\ known /\ NetEquity(t) > 0
        owed == IF Uncovered(p, scope) THEN NoObligation
                ELSE Owed(Prior(p, t), t, b, denied, assessed, reconciled)
    IN  /\ Len(stress) < bound.stress
        /\ a \in DOMAIN auths
        /\ stress' = Append(stress,
              [portfolio |-> p, cutoff |-> t, scope |-> scope, denied |-> denied,
               state |-> IF assessed THEN StressState(t, b) ELSE "UNKNOWN",
               obligation |-> owed,
               blocked |-> \/ ~assessed \/ StressState(t, b) # "NORMAL"
                           \/ owed.status = "OUTSTANDING"
                           \/ now >= auths[a].eff + Duration])
        /\ UNCHANGED <<bound, now, path, ledger, auths, usage>>

-----------------------------------------------------------------------------
Init ==
    \E p \in Prices :
        /\ bound \in Cases
        /\ now = 1
        /\ path = <<[price |-> p, cash |-> Cash, shares |-> Shares]>>
        /\ ledger = <<>>
        /\ auths = <<>>
        /\ stress = <<>>
        /\ usage = NoUsage

Next ==
    \/ \E p \in Prices : Move(p)
    \/ \E q \in {-1, 1}, late \in BOOLEAN : Fill(q, late)
    \/ \E i \in DOMAIN ledger : Correct(i)
    \/ \E p \in bound.portfolios, cutoff, conf, eff \in 1 .. now, b \in bound.budgets,
          scope \in bound.scopes, cash \in bound.cash, proved \in BOOLEAN,
          prev \in 0 .. Len(auths) :
          Confirm(p, cutoff, conf, eff, b, scope, cash, prev, proved)
    \/ \E p \in bound.portfolios, cutoff \in 1 .. now, a \in DOMAIN auths :
          Use(p, cutoff, a)
    \/ \E p \in bound.portfolios, t \in 1 .. now, a \in DOMAIN auths, scope \in bound.scopes,
          reconciled, known \in BOOLEAN :
          \E allowed \in {ProtectionAllowed(p, cutoff, a) : cutoff \in t .. now} :
             AssessStress(p, t, a, allowed, scope, reconciled, known)

Spec == Init /\ [][Next]_vars

-----------------------------------------------------------------------------
(* Properties.                                                             *)

(* New exposure is never allowed under an authorization that a retained,   *)
(* effective one has superseded, not even to a command whose knowledge     *)
(* cutoff hides the successor, and never past the six months of the budget. *)
ExposureIsCurrent ==
    [][(usage' # usage /\ usage'.allowed) =>
         /\ \A i \in Lineage(auths[usage'.auth].portfolio) :
                i > usage'.auth => auths[i].eff > now
         /\ now < auths[usage'.auth].eff + Duration]_vars

(* Retained assessments of a portfolio, and the one that follows another. *)
Assessments(p) == {i \in StressOf(p) : ~stress[i].denied}
Follows(p, i, j) == i < j /\ \A k \in Assessments(p) : k <= i \/ j <= k

(* Sales after an obligation's trigger that stand at an instant, net of    *)
(* corrections, and an obligation that carries an earlier one on.          *)
SoldFor(o, t) ==
    \E f \in Reported(t) :
        ledger[f].root = 0 /\ ledger[f].occurred > o.trigger /\ NetQuantity(f, t) < 0
CarriedBy(n, o) == n.status # "none" /\ n.trigger = o.trigger /\ n.target <= o.target

(* The obligation to sell survives: from one retained assessment to the    *)
(* next an outstanding obligation is still there, with a target no looser, *)
(* until sales after its trigger, net of corrections, are on the ledger.   *)
ObligationsAreKept ==
    \A p \in bound.portfolios : \A i \in Assessments(p) :
        LET o == stress[i].obligation IN
        /\ o.status = "SATISFIED" => SoldFor(o, stress[i].cutoff)
        /\ o.status = "OUTSTANDING" =>
              \A j \in Assessments(p) :
                  Follows(p, i, j) => CarriedBy(stress[j].obligation, o)

(* A budget is relaxed only while nothing the owner owes is unfinished:    *)
(* no retained stress obligation of the portfolio is outstanding.          *)
RelaxedWhenRestored ==
    [][Len(auths') > Len(auths) =>
         LET new == auths'[Len(auths')]
             L == Assessments(new.portfolio)
         IN  (L # {} /\ new.prev # 0 /\ Relaxes(new.budget, auths[new.prev].budget))
                => stress[Max(L)].obligation.status # "OUTSTANDING"]_vars
=============================================================================
