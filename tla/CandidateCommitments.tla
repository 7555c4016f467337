------------------------ MODULE CandidateCommitments ------------------------
(***************************************************************************)
(* The capital a user commits to released candidates: allocation plans,    *)
(* batch confirmations that reserve their legs, and broker executions that *)
(* turn reservations into holdings or release them.                        *)
(* modules/decision_cases/candidate_allocation.py, candidate_confirmation  *)
(* .py and candidate_execution.py over the histories of adapters/          *)
(* persistence/decision_ledger.py.                                         *)
(*                                                                         *)
(* Each adjudicate_* call and its finalize_* call run inside one BEGIN     *)
(* IMMEDIATE transaction, so a decision is one step; the clock is read     *)
(* twice in it and may move in between. What a command carries was frozen  *)
(* earlier, so every identity in it may be stale: commands range over all  *)
(* the identities that exist. A commit whose acknowledgement was lost      *)
(* leaves its command in unsure until the case is run again.               *)
(*                                                                         *)
(* One user, one portfolio, one account; an issuer has one security; price *)
(* caps and fill prices are one number each and purchase costs are zero.   *)
(* PLANNED and DEVIATION are both "attributed", DECLINE and DEFER are both *)
(* "not accepted": no claim depends on the difference.                     *)
(***************************************************************************)
EXTENDS Integers, Sequences, FiniteSets, FiniteSetsExt, Functions

CONSTANTS
    Releases,        \* published candidate releases
    Securities,      \* candidate securities
    ReleaseOf,       \* [Securities -> Releases]
    Target,          \* [Securities -> Nat], the entry target of each issuer
    Solve(_, _, _),  \* release, cash, exposure: the optimiser's quantities
    PriceCap,        \* confirmed price cap of every route
    FillPrice,       \* price every fill is executed at
    Cases            \* bounds, one chosen at the start: releases and trading cash,
                     \* business outcomes of the Runs, order sizes, what users ask
                     \* for and what else happens, and how many of everything

Happenings == {"passing", "closing", "disqualified", "corrected", "unhanded", "expiry"}
Requests == {"REPLAN", "SUBMIT", "REVIEW", "WITHDRAW", "DECLARE", "RECONCILE"}

ASSUME CommitmentConstants ==
    /\ IsFiniteSet(Securities)
    /\ ReleaseOf \in [Securities -> Releases]
    /\ Target \in [Securities -> Nat]
    /\ PriceCap \in Nat \ {0}
    /\ FillPrice \in 1 .. PriceCap
    /\ Cases \subseteq
           [rels : SUBSET Releases, cash : Nat, outcomes : SUBSET BOOLEAN,
            sizes : SUBSET (Nat \ {0}), ops : SUBSET Requests, happens : SUBSET Happenings,
            plans : Nat, confs : Nat, execs : Nat, orders : Nat, snaps : Nat, unsure : Nat]

VARIABLES
    within,     \* the member of Cases this behaviour stays within
    plans,      \* allocation events that are planning inputs, in commit order
    changed,    \* plans some confirmation found PLAN_CHANGED
    corrected,  \* plans with a correction event
    confs,      \* CONFIRMED confirmations, in commit order
    execs,      \* execution events, in commit order
    unsure,     \* frozen commands whose commit status is UNKNOWN
    orders,     \* the broker's buy orders
    snaps,      \* reconciled position events, in order of cutoff
    open,       \* releases whose entry window is open now
    elig,       \* releases whose qualification and authorization hold now
    fresh       \* the newest snapshot's cutoff is the present instant

planVars  == <<plans, changed, corrected>>
brokerVars == <<orders, snaps>>
clockVars == <<open, elig, fresh>>
vars == <<within, planVars, confs, execs, unsure, brokerVars, clockVars>>

-----------------------------------------------------------------------------
(* Broker facts *)

LastOf(S) == IF S = {} THEN 0 ELSE Max(S)

Left(os, o) == IF os[o].live THEN os[o].qty - os[o].filled ELSE 0
Unfinished(os) == {o \in DOMAIN os : os[o].live}
Held(os, s) ==
    SumFunction([o \in {x \in DOMAIN os : os[x].sec = s} |-> os[o].filled])

\* Broker-final trading cash: what unfinished orders reserve is already out.
TradingCash(os) ==
    within.cash - SumFunction(
        [o \in DOMAIN os |-> os[o].filled * FillPrice + Left(os, o) * PriceCap])

Newest == Len(snaps)
\* The snapshot behind the latest complete set of risk handoffs.
Handoff == LastOf({v \in DOMAIN snaps : snaps[v].risk})

-----------------------------------------------------------------------------
(* Ledger histories *)

\* AllocationCommitment: what a confirmed leg still holds.
Commitment(id, s, q, h, os) ==
    [id |-> id, sec |-> s, qty |-> q, hold |-> h, orders |-> os]

LatestConf(p) == LastOf({c \in DOMAIN confs : confs[c].plan = p})
LatestExec(c) == LastOf({e \in DOMAIN execs : execs[e].conf = c})
\* Outcomes with a plan identity; an unmet business prerequisite has none.
NamedExec(c)  == LastOf({e \in DOMAIN execs : execs[e].conf = c /\ execs[e].named})
PlanExec(p)   == LastOf({e \in DOMAIN execs :
                            execs[e].named /\ confs[execs[e].conf].plan = p})

Reservations == UNION {confs[c].res : c \in DOMAIN confs}
UnsureKind(K, who) == {cmd \in who : cmd.kind \in K}

\* The newest event whose inputs count as the release's current inputs.
LatestInput(r) == LastOf({p \in DOMAIN plans : plans[p].rel = r})
InputsChanged(r, source, ver) ==
    LatestInput(r) \notin {0, source} /\ plans[LatestInput(r)].ver # ver

\* What allocation retains for a plan: its latest confirmation's claims, or
\* those of the newest execution of that very confirmation.
PlanClaims(p) ==
    LET c == LatestConf(p) IN
    IF c = 0 THEN {}
    ELSE IF NamedExec(c) = 0 THEN confs[c].res ELSE execs[NamedExec(c)].claims
Retained(except) == UNION {PlanClaims(p) : p \in DOMAIN plans \ {except}}

-----------------------------------------------------------------------------
(* Capacity: candidate_allocation.py *)

FrozenCash(os, c) == SumFunction([o \in c.orders |-> Left(os, o) * PriceCap])
Deduction(os, c) == Max({0, c.qty * PriceCap + c.hold - FrozenCash(os, c)})
Deductions(os, claims) == SumFunction([c \in claims |-> Deduction(os, c)])
Margin(os, claims) == TradingCash(os) - Deductions(os, claims)

\* Orders no claim is bound to reach the command as commitments of their own.
Exposure(os, claims, s) ==
    LET bound == UNION {c.orders : c \in claims} IN
    Held(os, s)
    + SumFunction([c \in {x \in claims : x.sec = s} |-> c.qty])
    + SumFunction([o \in {x \in DOMAIN os \ bound : os[x].sec = s} |-> Left(os, o)])

SecuritiesOf(r) == {s \in Securities : ReleaseOf[s] = r}
Traded == UNION {SecuritiesOf(r) : r \in within.rels}

\* What the capacity checks, the rows and the objectives are computed from.
Basis(r, os, claims) ==
    [cash  |-> Margin(os, claims),
     own   |-> [s \in SecuritiesOf(r) |-> Exposure(os, claims, s)],
     total |-> SumFunction([s \in Securities |-> Exposure(os, claims, s)])]

\* The optimum is used only after exact verification: a quantity for every
\* row, and all of them within the capacities.
Verified(q, b) ==
    /\ q \in [DOMAIN b.own -> Nat]
    /\ SumFunction([s \in DOMAIN q |-> q[s] * PriceCap]) <= b.cash
    /\ \A s \in DOMAIN q : q[s] > 0 => b.own[s] + q[s] <= Target[s]

\* A row whose entry window had expired at the cutoff gets no capacity.
Quantities(r, ver, b) ==
    IF r \in snaps[ver].open
    THEN Solve(r, b.cash, b.own)
    ELSE [s \in SecuritiesOf(r) |-> 0]

\* The latest executions of the latest confirmations are complete and were
\* reconciled on the snapshot the risk handoffs were computed from.
ExecutionsReconciled(ver) ==
    \A p \in DOMAIN plans :
        LET e == NamedExec(LatestConf(p)) IN
        LatestConf(p) # 0 /\ e # 0 =>
            /\ execs[e].disp = "RECONCILED"
            /\ \A o \in DOMAIN execs[e].attr : execs[e].attr[o] # <<0, "UNKNOWN">>
            /\ execs[e].ver = ver

\* The gates before the solver; eligible is evaluated where the caller says.
AllocationGates(ver, claims, others, eligible) ==
    /\ UnsureKind({"declare", "reconcile"}, unsure) = {}
    /\ ExecutionsReconciled(ver)
    /\ UnsureKind({"confirm"}, others) = {}
    /\ eligible
    /\ ver = Handoff
    /\ UNION {c.orders : c \in claims} \subseteq Unfinished(snaps[ver].orders)
    /\ Margin(snaps[ver].orders, claims) >= 0

\* adjudicate_candidate_allocation, for the plan whose own claims are left out.
Planned(r, ver, except, others, eligible) ==
    LET b == Basis(r, snaps[ver].orders, Retained(except)) IN
    /\ AllocationGates(ver, Retained(except), others, eligible)
    /\ Verified(Quantities(r, ver, b), b)

NoQuantities(r) == [s \in SecuritiesOf(r) |-> 0]
PlanRecord(r, ver, rep, ok) ==
    LET b == Basis(r, snaps[ver].orders, Retained(0)) IN
    [rel |-> r, ver |-> ver, rep |-> rep, planned |-> ok,
     basis |-> IF ok THEN b ELSE <<>>,
     alloc |-> IF ok THEN Quantities(r, ver, b) ELSE NoQuantities(r)]

-----------------------------------------------------------------------------
(* The clock *)

\* finalize_* reads the clock again; windows close and evidence ages meanwhile.
ClockMoves(o2, e2, f2) ==
    /\ o2 \subseteq open
    /\ e2 \subseteq elig
    /\ f2 => fresh /\ o2 = open /\ e2 = elig
    /\ f2 = fresh \/ "passing" \in within.happens
    /\ o2 # open => "closing" \in within.happens
    /\ e2 # elig => "disqualified" \in within.happens
    /\ open' = o2
    /\ elig' = e2
    /\ fresh' = f2

\* Whether the command's evidence has expired by the time of the commit.
Expiry == IF "expiry" \in within.happens THEN BOOLEAN ELSE {FALSE}

-----------------------------------------------------------------------------
(* Allocation *)

\* A plan that replaces nothing; its outcome becomes the release's inputs
\* whatever it is. Qualification is judged at the command's own cutoff.
Allocate(r, ver, met) ==
    /\ Len(plans) < within.plans
    /\ plans' = Append(plans, PlanRecord(r, ver, 0,
                    met /\ Planned(r, ver, 0, unsure, r \in snaps[ver].elig)))
    /\ UNCHANGED <<changed, corrected, confs, execs, unsure, brokerVars, clockVars>>

\* Replanning within the original window; only a PLANNED outcome has effect.
Replan(source, ver) ==
    LET r == plans[source].rel IN
    /\ "REPLAN" \in within.ops
    /\ Len(plans) < within.plans
    /\ ~InputsChanged(r, source, ver)
    /\ r \in open
    /\ Planned(r, ver, 0, unsure, r \in elig)
    /\ \E o2 \in SUBSET open, e2 \in SUBSET elig, f2 \in BOOLEAN :
           ClockMoves(o2, e2, f2) /\ r \in o2 /\ r \in e2
    /\ plans' = Append(plans, PlanRecord(r, ver, source, TRUE))
    /\ UNCHANGED <<changed, corrected, confs, execs, unsure, brokerVars>>

CorrectPlan(p) ==
    /\ "corrected" \in within.happens
    /\ p \notin corrected
    /\ corrected' = corrected \cup {p}
    /\ UNCHANGED <<plans, changed, confs, execs, unsure, brokerVars, clockVars>>

-----------------------------------------------------------------------------
(* Confirmation: candidate_confirmation.py *)

Positive(p) == {s \in DOMAIN plans[p].alloc : plans[p].alloc[s] > 0}

\* Complete choice vectors; an incomplete or foreign one is refused at once.
ConfirmCommands(p) ==
    [kind : {"confirm"}, op : within.ops \cap {"SUBMIT", "REVIEW", "WITHDRAW"},
     plan : {p}, seen : 0 .. Len(confs),
     seenExec : {-1} \cup 0 .. Len(execs),     \* -1: no execution named
     ver : DOMAIN snaps, accept : SUBSET Positive(p)]

PriorRes(cmd) ==
    IF LatestConf(cmd.plan) = 0 THEN {} ELSE confs[LatestConf(cmd.plan)].res
ReleasedBy(cmd) == {c \in PriorRes(cmd) : c.sec \notin cmd.accept}

\* A plan that can still be submitted or reviewed.
PlanIsCurrent(cmd) ==
    LET r == plans[cmd.plan].rel IN
    /\ \A p \in DOMAIN plans : ~(plans[p].planned /\ plans[p].rep = cmd.plan)
    /\ cmd.plan \notin changed
    /\ cmd.plan \notin corrected
    /\ ~InputsChanged(r, cmd.plan, cmd.ver)
    /\ r \in open

\* Identity, version and choice checks.
Admissible(cmd, others) ==
    /\ plans[cmd.plan].planned
    /\ cmd.seen = LatestConf(cmd.plan)
    /\ cmd.op # "WITHDRAW" => PlanIsCurrent(cmd)
    /\ UnsureKind({"confirm"}, others) = {}
    /\ cmd.seenExec \in {-1, PlanExec(cmd.plan)}
    /\ Positive(cmd.plan) # {}
    /\ cmd.op = "WITHDRAW" =>
           /\ LatestConf(cmd.plan) # 0
           /\ cmd.accept \subseteq {c.sec : c \in PriorRes(cmd)}

\* Mutant: a snapshot of some time ago is proof enough.
Bug_OldProof(cmd, now) == cmd.ver = Newest

\* The named position event is the newest one and describes this instant.
NoOrderProof(cmd, now) == cmd.ver = Newest /\ now

\* A leg is given back only on proof that nothing was ordered or bought.
MayWithdraw(cmd) ==
    LET e == PlanExec(cmd.plan)
        seen == snaps[cmd.ver].orders
        planned == snaps[plans[cmd.plan].ver].orders
    IN  /\ UnsureKind({"declare", "reconcile"}, unsure) = {}
        /\ e # 0 => execs[e].disp = "RECONCILED" /\ execs[e].unres = {}
        /\ NoOrderProof(cmd, fresh)
        /\ \A c \in ReleasedBy(cmd) :
               /\ \A o \in Unfinished(seen) : seen[o].sec # c.sec
               /\ Held(seen, c.sec) = Held(planned, c.sec)

\* Mutant: the saved plan is believed.
Bug_TrustSavedPlan(cmd, others) == cmd.ver = Newest

\* The allocation replayed now, own claims left out, equals the saved plan.
Replays(cmd, others) ==
    LET r == plans[cmd.plan].rel
        b == Basis(r, snaps[cmd.ver].orders, Retained(cmd.plan))
    IN  /\ Planned(r, cmd.ver, cmd.plan, others, r \in snaps[cmd.ver].elig)
        /\ cmd.ver = Newest
        /\ b = plans[cmd.plan].basis
        /\ Quantities(r, cmd.ver, b) = plans[cmd.plan].alloc

\* Everything before the replay.
Reviewable(cmd, others) ==
    /\ Admissible(cmd, others)
    /\ ReleasedBy(cmd) # {} => MayWithdraw(cmd)
    /\ cmd.op # "WITHDRAW" => plans[cmd.plan].rel \in elig

\* Mutant: the clock is read once.
Bug_OneClockReading(cmd, o2, e2, f2, expired) == ~expired

\* finalize_candidate_confirmation, at the second reading of the clock.
StillValid(cmd, o2, e2, f2, expired) ==
    LET r == plans[cmd.plan].rel IN
    /\ ReleasedBy(cmd) # {} => NoOrderProof(cmd, f2)
    /\ cmd.op # "WITHDRAW" => r \in o2 /\ r \in e2 /\ ~expired

\* Legs that stay accepted keep their identity; new ones are named after
\* this event. from is the first snapshot that does not predate it.
Kept(cmd, id) ==
    {c \in PriorRes(cmd) : c.sec \in cmd.accept}
    \cup {Commitment(<<id, s>>, s, plans[cmd.plan].alloc[s], 0, {}) :
              s \in {a \in cmd.accept : \A c \in PriorRes(cmd) : c.sec # a}}

Confirm(cmd, others) ==
    /\ Len(confs) < within.confs
    /\ cmd.op # "REVIEW"
    /\ Reviewable(cmd, others)
    /\ cmd.op = "SUBMIT" => Replays(cmd, others)
    /\ \E o2 \in SUBSET open, e2 \in SUBSET elig, f2 \in BOOLEAN, expired \in Expiry :
           /\ ClockMoves(o2, e2, f2)
           /\ StillValid(cmd, o2, e2, f2, expired)
           /\ confs' = Append(confs, [plan |-> cmd.plan, op |-> cmd.op,
                                      from |-> IF f2 THEN Newest ELSE Newest + 1,
                                      res |-> Kept(cmd, Len(confs) + 1)])
    /\ unsure' = others
    /\ UNCHANGED <<planVars, execs, brokerVars>>

\* PLAN_CHANGED retires the plan for every later submission and review.
FindChanged(cmd, others) ==
    /\ cmd.op # "WITHDRAW"
    /\ Reviewable(cmd, others)
    /\ ~Replays(cmd, others)
    /\ changed' = changed \cup {cmd.plan}
    /\ unsure' = others
    /\ UNCHANGED <<plans, corrected, confs, execs, brokerVars, clockVars>>

-----------------------------------------------------------------------------
(* Execution: candidate_execution.py *)

NoCause == <<0, "none">>
ExternalOrigin == <<0, "EXTERNAL">>
Unknown == <<0, "UNKNOWN">>

\* The execution events a client of this confirmation may have seen last.
SeenOf(c) == {0} \cup {e \in DOMAIN execs : execs[e].conf = c}

\* met is FALSE when the Run's business outcome is not a success; the operation
\* makes no difference then.
DeclareCommands(c) ==
    [kind : {"declare"}, conf : {c}, seen : SeenOf(c), sec : Traded, met : within.outcomes]

\* cause gives the listed orders the intent the request names for them; funds
\* evidence makes a difference only where a fill may be cheaper than its cap.
ReconcileCommands(c, listed) ==
    [kind : {"reconcile"}, conf : {c}, seen : SeenOf(c),
     ver : DOMAIN snaps, met : {TRUE},
     funds : IF FillPrice = PriceCap THEN {TRUE} ELSE BOOLEAN,
     wd : SUBSET {x.id : x \in confs[c].res},
     cause : [listed -> {x.id : x \in Reservations} \cup {NoCause, ExternalOrigin}]]

\* An outcome that names nothing: the business prerequisite was not met.
Unsourced(c) ==
    [conf |-> c, eid |-> 0, named |-> FALSE, disp |-> "BLOCKED", claims |-> {},
     attr |-> <<>>, unfinished |-> {}, unres |-> {}, wd |-> {}, ver |-> 0]

Base(c) ==
    IF LatestExec(c) # 0 THEN execs[LatestExec(c)]
    ELSE [Unsourced(c) EXCEPT !.named = TRUE, !.claims = confs[c].res]

\* A declaration or a refusal keeps everything the previous event said.
Copy(c, disp, more) ==
    [Base(c) EXCEPT !.eid = Len(execs) + 1, !.disp = disp, !.unres = @ \cup more]

\* Mutant: uncertain executions are not looked for.
Bug_IgnoreUncertain(cmd, others) ==
    cmd.seen = Base(cmd.conf).eid /\ cmd.conf = LatestConf(confs[cmd.conf].plan)

\* The command's own execution lineage and the plan's latest confirmation.
Bound(cmd, others) ==
    /\ cmd.seen = Base(cmd.conf).eid
    /\ UnsureKind({"declare", "reconcile"}, others) = {}
    /\ cmd.conf = LatestConf(confs[cmd.conf].plan)

\* _classify_order: whom an order belongs to, as far as it can be shown.
Classify(cmd, o) ==
    LET os == snaps[cmd.ver].orders
        causes == {c \in Reservations : c.id = cmd.cause[o]}
    IN  IF causes = {}
        THEN IF cmd.cause[o] = NoCause
                /\ \E c \in Reservations : c.sec = os[o].sec
             THEN Unknown ELSE ExternalOrigin
        ELSE IF \E c \in causes : c.sec = os[o].sec /\ c.id[1] <= os[o].after
             THEN cmd.cause[o] ELSE Unknown

Listed(cmd) == DOMAIN cmd.cause
Attribution(cmd) == [o \in Listed(cmd) |-> Classify(cmd, o)]
Withdrawn(cmd) == cmd.wd \cup Base(cmd.conf).wd

\* Orders some confirmation's newest execution left unfinished.
KnownUnfinished ==
    UNION {execs[LatestExec(c)].unfinished \cup execs[LatestExec(c)].unres :
               c \in {x \in DOMAIN confs : LatestExec(x) # 0}}

\* Every working order and every bought unit of the snapshot is accounted
\* for, on a snapshot that does not predate the confirmation.
BrokerFactsMatch(cmd) ==
    LET os == snaps[cmd.ver].orders IN
    /\ cmd.ver >= confs[cmd.conf].from
    /\ Listed(cmd) \subseteq DOMAIN os
    /\ Unfinished(os) \subseteq Listed(cmd)
    /\ {o \in DOMAIN os : os[o].filled > 0} \subseteq Listed(cmd)

\* The early returns of _reconcile.
FactsComplete(cmd) ==
    LET os == snaps[cmd.ver].orders
        mine == confs[cmd.conf].res
    IN  /\ cmd.ver = Newest
        /\ Withdrawn(cmd) \subseteq {c.id : c \in mine}
        /\ BrokerFactsMatch(cmd)
        /\ KnownUnfinished \subseteq Listed(cmd)
        /\ \A o \in Unfinished(os) :
               /\ Classify(cmd, o) \notin Withdrawn(cmd)
               /\ Classify(cmd, o) = Unknown =>
                      ~ \E c \in mine : c.id \in Withdrawn(cmd) /\ c.sec = os[o].sec

\* An attributed order never moves to another intent.
AttributionKept(cmd) ==
    \A e \in DOMAIN execs : \A o \in Listed(cmd) \cap DOMAIN execs[e].attr :
        execs[e].attr[o] \in {Classify(cmd, o), ExternalOrigin, Unknown}

\* What is left of one reservation after the broker's facts.
Remainder(cmd, c) ==
    LET os == snaps[cmd.ver].orders
        related == {o \in Listed(cmd) : Classify(cmd, o) = c.id}
        linked == related \cap Unfinished(os)
        filled == Min({c.qty, SumFunction([o \in related |-> os[o].filled])})
        left == c.qty - filled
        unknown == \E o \in Listed(cmd) :
                       os[o].sec = c.sec /\ Classify(cmd, o) = Unknown
        expired == plans[confs[cmd.conf].plan].rel \notin snaps[cmd.ver].open
        mayRelease ==
            /\ ~unknown
            /\ linked = {}
            /\ \/ left = 0
               \/ c.id \in Withdrawn(cmd)
               \/ expired
               \/ confs[cmd.conf].plan \in corrected
               \/ related # {} /\ filled = 0
        qty == Max({IF mayRelease THEN 0 ELSE left,
                    SumFunction([o \in linked |-> Left(os, o)])})
        hold == IF cmd.funds THEN 0 ELSE filled * (PriceCap - FillPrice)
    IN  Commitment(c.id, c.sec, qty, hold, linked)

RemainingClaims(cmd) ==
    {c \in {Remainder(cmd, r) : r \in confs[cmd.conf].res} : c.qty > 0 \/ c.hold > 0}

Reconciled(cmd) ==
    [conf |-> cmd.conf, eid |-> Len(execs) + 1, named |-> TRUE,
     disp |-> "RECONCILED", claims |-> RemainingClaims(cmd),
     attr |-> Attribution(cmd), unfinished |-> Unfinished(snaps[cmd.ver].orders),
     unres |-> {}, wd |-> Withdrawn(cmd), ver |-> cmd.ver]

Record(outcome, others) ==
    /\ execs' = Append(execs, outcome)
    /\ unsure' = others
    /\ UNCHANGED <<planVars, confs, brokerVars, clockVars>>

FailPrerequisite(cmd, others) ==
    /\ ~cmd.met
    /\ Record(Unsourced(cmd.conf), others)

RefuseUnbound(cmd, others) ==
    Record(Copy(cmd.conf, "BLOCKED", {}), others)

Declare(cmd, others) ==
    /\ cmd.kind = "declare"
    /\ Record(Copy(cmd.conf,
                   IF \E c \in confs[cmd.conf].res : c.sec = cmd.sec
                   THEN "PENDING_RECONCILIATION" ELSE "BLOCKED", {}), others)

\* finalize_candidate_execution refuses when the evidence expired meanwhile.
Reconcile(cmd, others, expired) ==
    /\ cmd.kind = "reconcile"
    /\ FactsComplete(cmd)
    /\ Record(IF AttributionKept(cmd) /\ ~expired
              THEN Reconciled(cmd) ELSE Copy(cmd.conf, "BLOCKED", {}), others)

RefuseFacts(cmd, others) ==
    /\ cmd.kind = "reconcile"
    /\ ~FactsComplete(cmd)
    /\ Record(Copy(cmd.conf, "BLOCKED", Unfinished(snaps[cmd.ver].orders)), others)

-----------------------------------------------------------------------------
(* Deciding a command, its lost commit, and the outside world *)

DecideExecution(cmd, others) ==
    /\ Len(execs) < within.execs
    /\ \/ FailPrerequisite(cmd, others)
       \/ /\ cmd.met
          /\ IF Bound(cmd, others)
             THEN \/ Declare(cmd, others)
                  \/ \E expired \in Expiry : Reconcile(cmd, others, expired)
                  \/ RefuseFacts(cmd, others)
             ELSE RefuseUnbound(cmd, others)

\* BUSINESS_COMMIT is UNKNOWN and the event did not reach the ledger. Commands
\* that are refused for their stale identities are left out: their commit
\* matters to nobody.
LoseCommit(cmd) ==
    /\ Cardinality(unsure) < within.unsure
    /\ cmd.kind = "confirm" => Admissible(cmd, unsure)
    /\ cmd.kind # "confirm" => cmd.met /\ Bound(cmd, unsure)
    /\ unsure' = unsure \cup {cmd}
    /\ UNCHANGED <<planVars, confs, execs, brokerVars, clockVars>>

\* COMMIT_RECONCILIATION finds no event: the attempt is known to have failed.
SettleCommit(cmd) ==
    /\ unsure' = unsure \ {cmd}
    /\ UNCHANGED <<planVars, confs, execs, brokerVars, clockVars>>

Place(s, q) ==
    /\ Len(orders) < within.orders
    /\ confs # <<>>
    /\ q * PriceCap <= TradingCash(orders)
    /\ orders' = Append(orders, [sec |-> s, qty |-> q, filled |-> 0,
                                 live |-> TRUE, after |-> Len(confs)])
    /\ fresh' = FALSE
    /\ UNCHANGED <<planVars, confs, execs, unsure, snaps, open, elig>>

Fill(o) ==
    /\ orders[o].live
    /\ orders' = [orders EXCEPT ![o].filled = @ + 1,
                                ![o].live = orders[o].filled + 1 < orders[o].qty]
    /\ fresh' = FALSE
    /\ UNCHANGED <<planVars, confs, execs, unsure, snaps, open, elig>>

Cancel(o) ==
    /\ orders[o].live
    /\ orders' = [orders EXCEPT ![o].live = FALSE]
    /\ fresh' = FALSE
    /\ UNCHANGED <<planVars, confs, execs, unsure, snaps, open, elig>>

\* A reconciled position event, with or without new risk handoffs behind it.
Snapshot(risk) ==
    /\ Len(snaps) < within.snaps
    /\ ~risk => "unhanded" \in within.happens
    /\ snaps' = Append(snaps, [orders |-> orders, open |-> open,
                               elig |-> elig, risk |-> risk])
    /\ fresh' = TRUE
    /\ UNCHANGED <<planVars, confs, execs, unsure, orders, open, elig>>

TimePasses ==
    /\ \E o2 \in SUBSET open, e2 \in SUBSET elig : ClockMoves(o2, e2, FALSE)
    /\ UNCHANGED <<planVars, confs, execs, unsure, brokerVars>>

Init ==
    /\ within \in Cases
    /\ plans = <<>> /\ changed = {} /\ corrected = {}
    /\ confs = <<>> /\ execs = <<>> /\ unsure = {}
    /\ orders = <<>>
    /\ snaps = <<[orders |-> <<>>, open |-> within.rels, elig |-> within.rels, risk |-> TRUE]>>
    /\ open = within.rels /\ elig = within.rels /\ fresh = TRUE

Next ==
    /\ UNCHANGED within
    /\ \/ \E r \in within.rels, v \in DOMAIN snaps, met \in within.outcomes : Allocate(r, v, met)
       \/ \E p \in DOMAIN plans, v \in DOMAIN snaps : Replan(p, v)
       \/ \E p \in DOMAIN plans : CorrectPlan(p)
       \/ \E p \in DOMAIN plans : \E cmd \in ConfirmCommands(p) :
              Confirm(cmd, unsure) \/ FindChanged(cmd, unsure) \/ LoseCommit(cmd)
       \/ \E c \in DOMAIN confs : "DECLARE" \in within.ops /\ \E cmd \in DeclareCommands(c) :
              DecideExecution(cmd, unsure) \/ LoseCommit(cmd)
       \/ \E c \in DOMAIN confs, listed \in SUBSET DOMAIN orders :
              "RECONCILE" \in within.ops /\ \E cmd \in ReconcileCommands(c, listed) :
                  DecideExecution(cmd, unsure) \/ LoseCommit(cmd)
       \/ \E cmd \in unsure :
              \/ cmd.kind = "confirm" /\ Confirm(cmd, unsure \ {cmd})
              \/ cmd.kind = "confirm" /\ FindChanged(cmd, unsure \ {cmd})
              \/ cmd.kind # "confirm" /\ DecideExecution(cmd, unsure \ {cmd})
              \/ SettleCommit(cmd)
       \/ \E s \in Traded, q \in within.sizes : Place(s, q)
       \/ \E o \in DOMAIN orders : Fill(o) \/ Cancel(o)
       \/ \E risk \in BOOLEAN : Snapshot(risk)
       \/ TimePasses

Spec == Init /\ [][Next]_vars

-----------------------------------------------------------------------------
(* Properties *)

Submitted == confs' # confs /\ confs'[Len(confs')].op = "SUBMIT"

\* adjudicate_candidate_confirmation replays the allocation inside the commit
\* transaction: right after a SUBMIT, the cash the newest snapshot shows pays
\* for every claim of every plan, whatever was confirmed, executed or lost in
\* between and however old the submitted plan is; and no issuer is promised
\* more than its entry target, unreported orders and other plans included.
ConfirmedIsCovered ==
    [][Submitted =>
        LET os == snaps[Newest].orders IN
        /\ Deductions(os, Retained(0)') <= TradingCash(os)
        /\ \A c \in confs'[Len(confs')].res :
               Exposure(os, Retained(0)', c.sec) <= Target[c.sec]]_vars

\* finalize_candidate_confirmation and finalize_candidate_allocation: what is
\* committed was inside its window and qualified at the second clock reading.
CommittedInsideWindow ==
    [][/\ Submitted =>
              plans[confs'[Len(confs')].plan].rel \in open' \cap elig'
       /\ plans' # plans /\ plans'[Len(plans')].rep # 0 =>
              plans'[Len(plans')].rel \in open' \cap elig']_vars

\* pending_candidate_confirmations and pending_candidate_executions: while it
\* is uncertain whether another confirmation was written, none is and no plan
\* is made; while it is uncertain whether an execution was, every other one is
\* refused, no plan is made or submitted and no claim is given up.
UncertainBlocks ==
    [][LET still == unsure \cap unsure'
           noPlan == plans' # plans => ~plans'[Len(plans')].planned
       IN  /\ UnsureKind({"confirm"}, still) # {} => confs' = confs /\ noPlan
           /\ UnsureKind({"declare", "reconcile"}, still) # {} =>
                  /\ execs' # execs => execs'[Len(execs')].disp = "BLOCKED"
                  /\ noPlan
                  /\ ~Submitted
                  /\ \A p \in DOMAIN plans :
                         {c.id : c \in PlanClaims(p)} \subseteq {c.id : c \in PlanClaims(p)'}]_vars

\* Why a reservation may end in an execution report.
EndedBy(x, p, c) ==
    LET os == snaps[x.ver].orders
        mine == {o \in DOMAIN x.attr : x.attr[o] = c.id}
    IN  /\ x.disp = "RECONCILED"
        /\ x.ver = Newest
        /\ mine \cap Unfinished(os) = {}
        /\ \/ \E asked \in confs[x.conf].res :
                /\ asked.id = c.id
                /\ SumFunction([o \in mine |-> os[o].filled]) >= asked.qty
           \/ /\ \A o \in DOMAIN x.attr : os[o].sec = c.sec => x.attr[o] # Unknown
              /\ \/ c.id \in x.wd
                 \/ plans[p].rel \notin snaps[x.ver].open
                 \/ p \in corrected
                 \/ mine # {} /\ \A o \in mine : os[o].filled = 0

\* A claim on capital is given up only on proof: by a confirmation when no
\* order for its security is working at the broker at that very moment and
\* nothing was bought, or by a reconciliation whose facts end it. No refusal,
\* declaration, correction, replan or lost commit gives one up.
ClaimsLeaveByProof ==
    [][\A p \in DOMAIN plans : \A c \in PlanClaims(p) :
        (\A d \in PlanClaims(p)' : d.id # c.id) =>
            \/ /\ confs' # confs
               /\ \A o \in Unfinished(orders) : orders[o].sec # c.sec
               /\ Held(orders, c.sec) = Held(snaps[plans[p].ver].orders, c.sec)
            \/ /\ execs' # execs
               /\ EndedBy(execs'[Len(execs')], p, c)]_vars
=============================================================================
