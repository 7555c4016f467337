-------------------------- MODULE MonitoringCases --------------------------
(***************************************************************************)
(* Execution plans and position actions form quantity targets from risk    *)
(* obligations; monitoring assessments turn the targets into review cases  *)
(* that later assessments must take over, deliver statistical conclusions  *)
(* for one window, and are reported, notified, corrected and confirmed.    *)
(*                                                                         *)
(* One owner and one portfolio: every event is in scope.  Evidence,        *)
(* calendars and the wording of reasons are flags; a case is committed and *)
(* published in one step (DecisionJourney takes that step apart).          *)
(***************************************************************************)
EXTENDS Integers, FiniteSets, Sequences, SequencesExt, FiniteSetsExt

CONSTANTS
    Securities,   \* 1..N, in the order the code sorts them
    Held,         \* units held of each
    ReviewCases   \* bounds, one chosen at the start: instants, events of each kind,
                  \* the risk handoffs, evidence and requests that occur

(* The risk handoffs are about units of the securities, and name           *)
(* obligations of their own.                                               *)
ASSUME MonitoringConstants ==
    /\ IsFiniteSet(Securities) /\ Securities = 1..Cardinality(Securities)
    /\ Held \in Nat
    /\ \A b \in ReviewCases : \A hand \in b.hands :
          \A s \in DOMAIN hand.targets :
              /\ s \in Securities /\ hand.targets[s].qty \in Nat
              /\ \A o \in hand.targets[s].obs : o[1] # "conclusion"
    /\ \A b \in ReviewCases : \A hand \in b.hands : \A o \in hand.ids : o[1] # "conclusion"

VARIABLES
    limits,  \* the member of ReviewCases this behaviour stays within
    clock,   \* the host clock
    log,     \* committed events in order; an id is an index
    lapsed   \* events whose evidence or authority has ended since

reviewVars == <<limits, clock, log, lapsed>>

-----------------------------------------------------------------------------
(* Targets.  [s -> qty, obs]: units that may be kept of s and the          *)
(* obligations that say so.                                                *)

Least(S) == CHOOSE x \in S : \A y \in S : x <= y

Conjoin(S) ==
    [s \in UNION {DOMAIN t : t \in S} |->
        LET on == {t \in S : s \in DOMAIN t}
        IN  [qty |-> Least({t[s].qty : t \in on}), obs |-> UNION {t[s].obs : t \in on}]]

Only(s, qty, obs) == [x \in {s} |-> [qty |-> qty, obs |-> obs]]
Beside(t, u) == [s \in DOMAIN t \cup DOMAIN u |-> IF s \in DOMAIN t THEN t[s] ELSE u[s]]
OwedTargets(t) == [s \in {x \in DOMAIN t : t[x].obs # {}} |-> t[s]]

Corrected(n) == \E k \in DOMAIN log : log[k].fixes = n
Of(kinds) == {n \in DOMAIN log : log[n].kind \in kinds}
AssessmentKinds == {"DAILY", "EVENT"}
Monitoring == AssessmentKinds \cup {"NOTIFY", "REPORT"}

\* execution_plan_history: originals that left targets.
PlanHistory == {n \in Of({"PLAN"}) : log[n].fixes = 0 /\ log[n].targets # <<>>}

NotForward(cut) == \E n \in PlanHistory : log[n].cut > cut

\* The targets of a plan: what history, the handoff and `extra` require, and,
\* when all handoffs fit together, a target for every holding, tightened by
\* the portfolio-wide obligations to `cap`.
PlanTargets(cut, hand, extra, cap) ==
    LET kept == Conjoin({OwedTargets(log[n].targets) : n \in PlanHistory} \cup {hand.targets} \cup extra)
    IN  IF NotForward(cut) THEN <<>>
        ELSE IF ~hand.whole THEN kept
        ELSE [s \in Securities |->
                [qty |-> Least({Held} \cup (IF s \in DOMAIN kept THEN {kept[s].qty} ELSE {})
                                      \cup (IF hand.ids # {} THEN {cap} ELSE {})),
                 obs |-> hand.ids \cup IF s \in DOMAIN kept THEN kept[s].obs ELSE {}]]

Append1(e) == log' = Append(log, e)
Room(kinds, most) == Cardinality(Of(kinds)) < most

Plan ==
    /\ Room({"PLAN"}, limits.plans)
    /\ \E cut \in 0..clock, hand \in limits.hands, cap \in 0..Held :
         /\ hand.ids = {} \/ ~hand.whole => cap = Held
         /\ LET t == PlanTargets(cut, hand, {}, cap)
            IN  Append1([kind |-> "PLAN", fixes |-> 0, cut |-> cut, targets |-> t,
                         p0 |-> hand.p0, capital |-> hand.capital,
                         ready |-> hand.whole /\ t # <<>>])
    /\ UNCHANGED <<limits, clock, lapsed>>

-----------------------------------------------------------------------------
(* Position actions: a conclusion about one security and, beside it, the   *)
(* deterministic plan that holds without statistics.                       *)

ActionHistory(s) == {n \in Of({"ACTION"}) : log[n].fixes = 0 /\ log[n].sec = s}
Inherited(s, cut) == {OwedTargets(log[n].targets) : n \in {k \in ActionHistory(s) : log[k].cut <= cut}}
OwnHistory(s) == {OwedTargets(log[n].own) : n \in ActionHistory(s)}

\* A hard gate is an obligation of its own, named by the security event.
Gate(n) == <<"gate", n>>
Conclusion(n) == <<"conclusion", n>>

\* The first statistical reduction of a security anchors the later ones.
Anchor(s, n) == Least({k \in ActionHistory(s) : log[k].stat} \cup {n})

\* The plan saved as deterministic_execution.
Deterministic(s, cut, hand, hard, cap, n) ==
    LET zero == Only(s, 0, {Gate(n)})
        base == PlanTargets(cut, hand, Inherited(s, cut), cap)
    IN  IF ~hard THEN base
        ELSE IF ~hand.whole THEN Beside(zero, base)
        ELSE PlanTargets(cut, hand, OwnHistory(s) \cup {zero}, cap)

\* The statistical conclusion counts only where nothing blocks it.
ConclusionCounts(s, cut, hand, hard, t) ==
    /\ hand.whole
    /\ ~hard
    /\ ~NotForward(cut)
    /\ \A n \in ActionHistory(s) : log[n].cut <= cut
    /\ ~(s \in DOMAIN t /\ t[s].obs # {} /\ t[s].qty = 0)

Act ==
    /\ Room({"ACTION"}, limits.actions)
    /\ \E cut \in 0..clock, s \in Securities, hand \in limits.hands, cap \in 0..Held,
          hard \in BOOLEAN, reduce \in BOOLEAN :
         /\ hand.ids = {} \/ ~hand.whole => cap = Held
         /\ LET n == Len(log) + 1
                t == Deterministic(s, cut, hand, hard, cap, n)
                stat == reduce /\ ConclusionCounts(s, cut, hand, hard, t)
                own == IF s \in DOMAIN t THEN OwedTargets(Only(s, t[s].qty, t[s].obs)) ELSE <<>>
            IN  /\ reduce => stat
                /\ Append1([kind |-> "ACTION", fixes |-> 0, cut |-> cut, sec |-> s, targets |-> t,
                            own |-> IF stat THEN Conjoin({own, Only(s, 1, {Conclusion(Anchor(s, n))})})
                                    ELSE own,
                            hard |-> hard, capital |-> hand.capital, stat |-> stat,
                            p0 |-> hand.p0, ready |-> hand.whole /\ t # <<>>])
    /\ UNCHANGED <<limits, clock, lapsed>>

\* Any other committed fact of the owner: a reconciliation, a fill, a flow.
Fact ==
    /\ Room({"FACT"}, limits.facts)
    /\ Append1([kind |-> "FACT", fixes |-> 0, cut |-> clock])
    /\ UNCHANGED <<limits, clock, lapsed>>

-----------------------------------------------------------------------------
(* What an assessment finds.                                               *)

Rejected(e) == e.kind \in Monitoring /\ e.reason = "NOT_FORWARD"

\* monitoring_history: a correction counts only when it corrects what was the
\* latest assessment.
\* Mutant: every correction does.
CountsCorrected(e, latest) == e.kind \in AssessmentKinds /\ ~Rejected(e)
Counts(e, latest) == e.kind \in AssessmentKinds /\ ~Rejected(e) /\ e.fixes \in {0, latest}

\* The latest assessment among the first n events.
LatestOf(events) ==
    LET latest[n \in 0..Len(events)] ==
            IF n = 0 THEN 0 ELSE IF Counts(events[n], latest[n - 1]) THEN n ELSE latest[n - 1]
    IN  latest
Latest == LatestOf(log)[Len(log)]

History ==
    {n \in DOMAIN log :
        /\ log[n].kind \in Monitoring /\ ~Rejected(log[n])
        /\ log[n].kind \in AssessmentKinds => LatestOf(log)[n] = n}

\* monitoring_inputs_unchanged
InputsUnchanged(n) ==
    /\ \A k \in DOMAIN log : k > n => log[k].kind \in Monitoring
    /\ ~Corrected(n)

Put(items, item) ==
    IF \E k \in DOMAIN items : items[k].id = item.id
    THEN [k \in DOMAIN items |-> IF items[k].id = item.id THEN item ELSE items[k]]
    ELSE Append(items, item)

\* The items at some places of a list.
Chosen(items, places) ==
    LET chosen[k \in 0..Len(items)] ==
            IF k = 0 THEN <<>>
            ELSE IF k \in places THEN Append(chosen[k - 1], items[k]) ELSE chosen[k - 1]
    IN  chosen[Len(items)]
Risk(items) == Chosen(items, {k \in DOMAIN items : items[k].pri # "P2"})
First(places) == IF places = {} THEN 0 ELSE Least(places)

PutAll(items, more) ==
    LET put[k \in 0..Len(more)] == IF k = 0 THEN items ELSE Put(put[k - 1], more[k])
    IN  put[Len(more)]

\* The cases every earlier assessment left, each in its latest form.
RetainedCases ==
    LET kept[n \in 0..Len(log)] ==
            IF n = 0 THEN <<>>
            ELSE IF n \in History /\ log[n].kind \in AssessmentKinds
                 THEN PutAll(kept[n - 1], Risk(log[n].cases)) ELSE kept[n - 1]
    IN  kept[Len(log)]

Unplanned(items) == [k \in DOMAIN items |-> [items[k] EXCEPT !.plan = 0]]
Sources(c) == IF c.srcs = {} THEN {c.src} ELSE c.srcs
NewCase(id, src, srcs, obs, pri, plan, req) ==
    [id |-> id, src |-> src, srcs |-> srcs, obs |-> obs, pri |-> pri, plan |-> plan,
     req |-> req, win |-> 0]
Restricted(t, S) == [s \in S |-> t[s]]

\* An outcome: disposition, reason, cases, the conclusion it delivers and the
\* end of the window it is bound to.
Outcome(disp, reason, cases, from) ==
    [disp |-> disp, reason |-> reason, cases |-> cases, from |-> from]
Blocked(reason) == Outcome("BLOCKED", reason, Unplanned(RetainedCases), 0)

\* Mutant: any valid plan may replace the retained targets.
WeakensNothing(t) == FALSE
Weakens(t) ==
    \E k \in DOMAIN RetainedCases : \E s \in DOMAIN RetainedCases[k].req :
        s \in DOMAIN t /\ RetainedCases[k].req[s].qty < t[s].qty

-----------------------------------------------------------------------------
(* An assessment of an execution plan.                                     *)

Elevated(plan, obs) == plan.capital \/ plan.p0 \cap obs # {}

\* P0 first, then in the order of establishment.
Ordered(items) == Chosen(items, {k \in DOMAIN items : items[k].pri = "P0"})
                  \o Chosen(items, {k \in DOMAIN items : items[k].pri # "P0"})

Touching(t, obs) == Restricted(t, {s \in DOMAIN t : t[s].obs \cap obs # {}})

CaseReviewed(c, ids, src) ==
    LET plan == log[src]
        all == UNION {plan.targets[s].obs : s \in DOMAIN plan.targets}
        pri == IF Elevated(plan, ids) \/ c.pri = "P0" THEN "P0" ELSE "P1"
    IN  IF ids \cap all = {} THEN [c EXCEPT !.obs = ids]
        ELSE IF ids \subseteq all
        THEN NewCase(c.id, src, {src}, ids, pri, src, Touching(plan.targets, ids))
        ELSE NewCase(c.id, src, c.srcs, ids, pri, 0, c.req)

\* Each obligation goes to the first case that has it.
Assigned(c) ==
    LET earlier == {k \in DOMAIN Ordered(RetainedCases) :
                        \A j \in 1..k : Ordered(RetainedCases)[j].id # c.id}
    IN  c.obs \ UNION {Ordered(RetainedCases)[k].obs : k \in earlier}

\* A case that keeps none of its obligations is dropped.
PlanCases(src) ==
    LET plan == log[src]
        all == UNION {plan.targets[s].obs : s \in DOMAIN plan.targets}
        new == all \ UNION {c.obs : c \in ToSet(RetainedCases)}
        own == Chosen(RetainedCases, {k \in DOMAIN RetainedCases : Assigned(RetainedCases[k]) # {}})
        old == [k \in DOMAIN own |-> CaseReviewed(own[k], Assigned(own[k]), src)]
    IN  IF all = {} THEN RetainedCases
        ELSE IF new = {} THEN old
        ELSE Put(old, NewCase(<<0, new>>, src, {}, new, IF Elevated(plan, new) THEN "P0" ELSE "P1",
                              src, Touching(plan.targets, new)))

AssessPlan(req) ==
    LET plan == log[req.src]
    IN  IF plan.kind # "PLAN" \/ plan.cut # req.cut THEN Blocked("UNAVAILABLE")
        ELSE IF req.evidence # "whole" THEN Blocked("EVIDENCE")
        ELSE IF Weakens(plan.targets) THEN Blocked("WEAKENING")
        ELSE Outcome("ASSESSED", "", PlanCases(req.src), 0)

-----------------------------------------------------------------------------
(* A protective event, or a risk event whose evidence is incomplete: the   *)
(* saved targets of the affected securities stand, without quantities.     *)

PlanSources(req) ==
    IF log[req.src].kind \notin Monitoring THEN {req.src}
    ELSE UNION {Sources(c) : c \in {x \in ToSet(log[req.src].cases) :
                                        DOMAIN x.req \cap req.hit # {}}}

Owning(n, cut) == n \in Of({"PLAN"}) /\ log[n].cut <= cut /\ ~Corrected(n)

\* The owed targets of a plan that reduce or exit.
Sales(n) ==
    LET t == OwedTargets(log[n].targets)
    IN  Restricted(t, {s \in DOMAIN t : log[n].ready => t[s].qty < Held})
OwnedBy(req) == Conjoin({Restricted(Sales(n), DOMAIN Sales(n) \cap req.hit) : n \in PlanSources(req)})
SourcesOf(req, s) == {n \in PlanSources(req) : s \in DOMAIN Sales(n)}

\* A newly owned security joins a case that shares an obligation.
Extended(c, s, req) ==
    LET t == OwnedBy(req)[s]
    IN  [c EXCEPT !.req = Beside(Only(s, t.qty, t.obs), c.req), !.obs = c.obs \cup t.obs,
                  !.src = Least(SourcesOf(req, s)), !.srcs = Sources(c)]

Join(items, s, req) ==
    LET t == OwnedBy(req)[s]
        k == First({j \in DOMAIN items : items[j].obs \cap t.obs # {}})
    IN  IF k = 0
        THEN Put(items, NewCase(<<s, t.obs>>, Least(SourcesOf(req, s)), SourcesOf(req, s), t.obs,
                                IF s \in req.shield THEN "P0" ELSE "P1", 0, Only(s, t.qty, t.obs)))
        ELSE [items EXCEPT ![k] = Extended(items[k], s, req)]

\* The securities that no retained case covers, one after the other.
Joined(req) ==
    LET covered == UNION {DOMAIN c.req : c \in ToSet(RetainedCases)}
        joined[s \in 0..Cardinality(Securities)] ==
            IF s = 0 THEN RetainedCases
            ELSE IF s \in DOMAIN OwnedBy(req) \ covered THEN Join(joined[s - 1], s, req)
            ELSE joined[s - 1]
    IN  joined[Cardinality(Securities)]

\* Every case is marked with what the event says of its targets.
Shielded(c, req) ==
    LET owned == OwnedBy(req)
        here == DOMAIN c.req \cap DOMAIN owned
        srcs == (UNION {SourcesOf(req, s) : s \in here})
                \cup IF DOMAIN c.req \subseteq here THEN {} ELSE Sources(c)
    IN  NewCase(c.id, Least(srcs), srcs, c.obs \cup UNION {owned[s].obs : s \in here},
                IF DOMAIN c.req \cap req.shield # {} THEN "P0" ELSE c.pri, 0,
                [s \in DOMAIN c.req |-> IF s \in here THEN owned[s] ELSE c.req[s]])

AssessProtection(req) ==
    LET srcs == PlanSources(req)
        owned == OwnedBy(req)
        joined == Joined(req)
    IN  IF srcs = {} \/ \E n \in srcs : ~Owning(n, req.cut) THEN Blocked("UNAVAILABLE")
        ELSE IF owned = <<>> \/ ~(req.shield \subseteq DOMAIN owned)
                \/ \E s \in req.shield : owned[s].qty # 0 THEN Blocked("TARGET")
        ELSE IF Weakens(owned) THEN Blocked("WEAKENING")
        ELSE Outcome("ASSESSED", "UNVERIFIED",
                     [k \in DOMAIN joined |-> Shielded(joined[k], req)], 0)

-----------------------------------------------------------------------------
(* A position action delivered by an assessment.                           *)

\* Each deterministic target replaces the first case that shares an
\* obligation with it.
Deliver(items, s, src) ==
    LET act == log[src]
        t == act.targets[s]
        k == First({j \in DOMAIN items : items[j].obs \cap t.obs # {}})
        high == \/ act.capital
                \/ s = act.sec /\ act.hard
                \/ \E o \in t.obs : o[1] = "gate"
                \/ k # 0 /\ items[k].pri = "P0"
        item == NewCase(IF k = 0 THEN <<0, t.obs>> ELSE items[k].id, src, {}, t.obs,
                        IF high THEN "P0" ELSE "P1", src, Only(s, t.qty, t.obs))
    IN  Append(Chosen(items, DOMAIN items \ {k}), item)

Delivered(src) ==
    LET delivered[s \in 0..Cardinality(Securities)] ==
            IF s = 0 THEN Unplanned(RetainedCases)
            ELSE IF s \in DOMAIN OwedTargets(log[src].targets) THEN Deliver(delivered[s - 1], s, src)
            ELSE delivered[s - 1]
    IN  delivered[Cardinality(Securities)]

PreviousDeliveries(src) ==
    {k \in History : log[k].kind \in AssessmentKinds /\ log[k].src = src}

Statistical(src, win) ==
    [NewCase(<<0, {Conclusion(src)}>>, src, {}, {}, "P2", src, log[src].own) EXCEPT !.win = win]

AssessAction(req) ==
    LET act == log[req.src]
        items == Delivered(req.src)
        window == /\ req.cut < req.win
                  /\ PreviousDeliveries(req.src) = {}
    IN  IF act.cut # req.cut \/ ~InputsUnchanged(req.src) THEN Blocked("NOT_CURRENT")
        ELSE IF req.evidence # "whole" THEN Outcome("BLOCKED", "EVIDENCE", items, req.src)
        ELSE IF ~window THEN Outcome("BLOCKED", "WINDOW", items, req.src)
        ELSE Outcome("ASSESSED", "",
                     IF act.stat /\ ~act.hard /\ ~act.capital
                     THEN Append(items, Statistical(req.src, req.win)) ELSE items,
                     req.src)

-----------------------------------------------------------------------------
(* Requests.                                                               *)

Backdated(cut) == \E n \in History : log[n].cut > cut
Refused == Outcome("BLOCKED", "NOT_FORWARD", <<>>, 0)

Assessed(kind, req) ==
    IF Backdated(req.cut) THEN Refused
    ELSE IF log[req.src].cut > req.cut THEN Blocked("SOURCE")
    ELSE IF log[req.src].kind = "ACTION" THEN AssessAction(req)
    ELSE IF kind = "EVENT" /\ req.evidence # "none" /\ (req.shield # {} \/ req.evidence = "partial")
    THEN AssessProtection(req)
    ELSE AssessPlan(req)

\* One daily assessment of a market day and contract; a repetition returns it.
FirstOfDay(req) ==
    \A n \in Of({"DAILY"}) : ~(log[n].cut = req.cut
                               /\ (log[log[n].src].kind = "ACTION") = (log[req.src].kind = "ACTION"))

Record(kind, cut, src, win, out) ==
    Append1([kind |-> kind, fixes |-> 0, cut |-> cut, src |-> src, win |-> win,
             disp |-> out.disp, reason |-> out.reason, cases |-> out.cases, from |-> out.from])

AssessDaily ==
    /\ Room({"DAILY"}, limits.daily)
    /\ \E src \in DOMAIN log, cut \in 0..clock, evidence \in limits.evidence \ {"partial"},
          win \in limits.windows :
         LET req == [src |-> src, cut |-> cut, evidence |-> evidence, win |-> win,
                     hit |-> {}, shield |-> {}]
         IN  /\ log[src].kind # "FACT"
             /\ FirstOfDay(req)
             /\ Record("DAILY", cut, src, win, Assessed("DAILY", req))
    /\ UNCHANGED <<limits, clock, lapsed>>

AssessEvent ==
    /\ Room({"EVENT"}, limits.events)
    /\ \E src \in DOMAIN log, cut \in 0..clock, evidence \in limits.evidence,
          win \in limits.windows, mark \in limits.marks :
         LET req == [src |-> src, cut |-> cut, evidence |-> evidence, win |-> win,
                     hit |-> mark.hit, shield |-> mark.shield]
         IN  /\ log[src].kind # "FACT"
             /\ Record("EVENT", cut, src, win, Assessed("EVENT", req))
    /\ UNCHANGED <<limits, clock, lapsed>>

\* A correction repeats the saved result as a new event.
CorrectReview ==
    /\ Cardinality({n \in DOMAIN log : log[n].fixes # 0}) < limits.corrections
    /\ \E n \in Of({"PLAN", "ACTION"} \cup AssessmentKinds) :
         /\ log[n].fixes = 0
         /\ ~Corrected(n)
         /\ Append1([log[n] EXCEPT !.fixes = n])
    /\ UNCHANGED <<limits, clock, lapsed>>

-----------------------------------------------------------------------------
(* What the host still lets the owner see and confirm.                     *)

ExecutionCurrent(n) ==
    /\ log[n].from # 0
    /\ InputsUnchanged(log[n].from)
    /\ <<log[n].from, "evidence">> \notin lapsed

StatisticsCurrent(n) ==
    /\ ExecutionCurrent(n)
    /\ <<log[n].from, "authority">> \notin lapsed
    /\ <<n, "evidence">> \notin lapsed

HasP2(n) == \E c \in ToSet(log[n].cases) : c.pri = "P2"

\* confirmation_permitted
Confirmable(n) ==
    /\ log[n].kind \in AssessmentKinds
    /\ log[n].disp = "ASSESSED"
    /\ log[n].cases # <<>>
    /\ clock < log[n].win
    /\ \A c \in ToSet(log[n].cases) : c.plan # 0 /\ log[c.plan].ready
    /\ ~Corrected(n)
    /\ <<n, "evidence">> \notin lapsed
    /\ Latest = n
    /\ IF log[n].from # 0
       THEN IF HasP2(n) THEN StatisticsCurrent(n) ELSE ExecutionCurrent(n)
       ELSE /\ PlanHistory # {}
            /\ \A c \in ToSet(log[n].cases) : c.src = Max(PlanHistory)
            /\ InputsUnchanged(Max(PlanHistory))

\* project_workspace: the report shown as current, and the cases in the inbox.
Replaces(events, n, cur) ==
    /\ events[n].kind \in AssessmentKinds
    /\ cur # 0 => /\ events[n].cut >= events[cur].cut
                  /\ ~Rejected(events[n])
                  /\ events[n].fixes \in {0, cur}
ShownOf(events) ==
    LET shown[n \in 0..Len(events)] ==
            IF n = 0 THEN 0 ELSE IF Replaces(events, n, shown[n - 1]) THEN n ELSE shown[n - 1]
    IN  shown
Shown == ShownOf(log)[Len(log)]
Inbox == IF Shown = 0 THEN {}
         ELSE {c \in ToSet(log[Shown].cases) :
                 c.pri = "P2" => clock < c.win /\ StatisticsCurrent(Shown)}

-----------------------------------------------------------------------------
(* Notifications and reports of an assessment.                             *)

Attempts(cases, window, quiet, immediate, persistent) ==
    LET told == {c \in cases :
                   /\ c.pri = "P2" => clock < c.win
                   /\ clock < quiet /\ c.pri # "P0" => c.pri # "P2" /\ window <= quiet}
    IN  {[id |-> c.id, pri |-> c.pri, role |-> "IMMEDIATE", ok |-> immediate] : c \in told}
        \cup {[id |-> c.id, pri |-> c.pri, role |-> "PERSISTENT", ok |-> persistent]
                 : c \in {x \in told : x.pri = "P0" \/ (x.pri = "P1" /\ ~immediate)}}

\* When something is still owed: the end of the quiet period, or at once.
Due(cases, sent, quiet) ==
    LET late == {c \in cases : /\ c.id \notin {a.id : a \in sent}
                               /\ c.pri = "P2" => clock < c.win /\ quiet < c.win}
    IN  (IF quiet # 0 /\ late # {} THEN {quiet} ELSE {})
        \cup (IF \E a \in sent : ~a.ok THEN {clock} ELSE {})

NotificationsOf(src) == {n \in Of({"NOTIFY"}) : log[n].src = src /\ ~Rejected(log[n])}

FollowsNotice(req) ==
    /\ req.prev \in NotificationsOf(req.src)
    /\ log[req.prev].key = req.key
    /\ log[req.prev].attempt + 1 = req.attempt
    /\ log[req.prev].due # {}

Notified(req) ==
    LET told(reason, cases, sent, due) ==
            [reason |-> reason, cases |-> cases, sent |-> sent, due |-> due]
        cases == IF HasP2(req.src) /\ ~StatisticsCurrent(req.src)
                 THEN Risk(log[req.src].cases) ELSE log[req.src].cases
        sent == Attempts(ToSet(cases), log[req.src].win, req.quiet, req.immediate, req.persistent)
        owed == Due(ToSet(cases), sent, req.quiet)
    IN  IF Backdated(req.cut) THEN told("NOT_FORWARD", <<>>, {}, {})
        ELSE IF Corrected(req.src) \/ Latest # req.src
        THEN told("SUPERSEDED", Unplanned(RetainedCases), {}, {})
        ELSE IF /\ req.attempt = 1
                /\ NotificationsOf(req.src) # {}
                /\ \E c \in ToSet(cases) : c.pri = "P2"
        THEN told("REGISTERED", cases, {}, {})
        ELSE IF req.attempt > 1 /\ ~FollowsNotice(req) THEN told("NOT_DUE", Unplanned(RetainedCases), {}, {})
        ELSE IF req.attempt > 1 /\ clock < Least(log[req.prev].due)
        THEN told("DEFERRED", cases, {}, log[req.prev].due)
        ELSE told("", cases, sent, IF owed = {} THEN {} ELSE {Least(owed)})

Notify ==
    /\ Room({"NOTIFY"}, limits.notices)
    /\ \E src \in Of(AssessmentKinds), cut \in 0..clock, key \in limits.keys, attempt \in 1..limits.notices,
          prev \in {0} \cup Of({"NOTIFY"}), quiet \in limits.quiet, immediate, persistent \in BOOLEAN :
         LET req == [src |-> src, cut |-> cut, key |-> key, attempt |-> attempt, prev |-> prev,
                     quiet |-> quiet, immediate |-> immediate, persistent |-> persistent]
             out == Notified(req)
         IN  /\ log[src].cut <= cut
             /\ log[src].cases # <<>>
             /\ attempt = 1 => prev = 0
             /\ \A n \in Of({"NOTIFY"}) :
                    <<log[n].src, log[n].key, log[n].attempt>> # <<src, key, attempt>>
             /\ Append1([kind |-> "NOTIFY", fixes |-> 0, cut |-> cut, src |-> src, key |-> key,
                         attempt |-> attempt, reason |-> out.reason, cases |-> out.cases,
                         sent |-> out.sent, due |-> out.due, at |-> clock])
    /\ UNCHANGED <<limits, clock, lapsed>>

\* Lifecycle and operations reports repeat a saved assessment; they only
\* count as monitoring events of their cutoff.
ReportReview ==
    /\ Room({"REPORT"}, limits.reports)
    /\ \E src \in Of(AssessmentKinds), cut \in 0..clock :
         /\ log[src].cut <= cut
         /\ Append1([kind |-> "REPORT", fixes |-> 0, cut |-> cut, src |-> src,
                     reason |-> IF Backdated(cut) THEN "NOT_FORWARD" ELSE "",
                     cases |-> IF Backdated(cut) THEN <<>> ELSE log[src].cases])
    /\ UNCHANGED <<limits, clock, lapsed>>

-----------------------------------------------------------------------------
Tick ==
    /\ clock < limits.time
    /\ clock' = clock + 1
    /\ UNCHANGED <<limits, log, lapsed>>

Lapse ==
    /\ Cardinality(lapsed) < limits.lapses
    /\ \E n \in Of({"ACTION"} \cup AssessmentKinds), what \in {"evidence", "authority"} :
         lapsed' = lapsed \cup {<<n, what>>}
    /\ UNCHANGED <<limits, clock, log>>

ReviewInit ==
    /\ limits \in ReviewCases
    /\ clock = 0
    /\ log = <<>>
    /\ lapsed = {}

ReviewNext == \/ Plan \/ Act \/ Fact \/ AssessDaily \/ AssessEvent \/ CorrectReview
        \/ Notify \/ ReportReview \/ Tick \/ Lapse

ReviewSpec == ReviewInit /\ [][ReviewNext]_reviewVars

-----------------------------------------------------------------------------
(* Properties.                                                             *)

Asks(c, d, s) == /\ s \in DOMAIN d.req
                 /\ d.req[s].qty <= c.req[s].qty
                 /\ c.pri = "P0" /\ c.obs \cap c.req[s].obs # {} => d.pri = "P0"

Takes(before, after) ==
    \A c \in ToSet(before) : \A s \in DOMAIN c.req : \E d \in ToSet(after) : Asks(c, d, s)

\* The assessment, plan or action that a correction repeats, or itself.
Origin(n) == IF log[n].fixes = 0 THEN n ELSE log[n].fixes

\* A plan that a later plan has overtaken; a correction is no later than what
\* it corrects.
Outdated(src) == /\ log[src].kind = "PLAN"
                 /\ \E k \in Of({"PLAN"}) :
                       log[k].fixes = 0 /\ k > Origin(src) /\ log[k].cut >= log[src].cut

Taken(n) == /\ log'[n].kind \in AssessmentKinds
            /\ log'[n].fixes = 0
            /\ ~Backdated(log'[n].cut)
            /\ ~Outdated(log'[n].src)

Kept == \A n \in DOMAIN log' \ DOMAIN log : Taken(n) => Takes(RetainedCases, log'[n].cases)

\* What earlier assessments required of a security the next one requires too,
\* no weaker, and as P0 for an obligation that a P0 case holds, whatever
\* evidence it has and whichever order plans, protective events and
\* assessments come in (assess_monitoring).  An obligation that a position
\* action states is delivered by project_position_action, which replaces the
\* case it shares one with, so only obligations of execution plans are
\* promised this.
TargetsAreKept ==
    [][(\A k \in Of({"ACTION"}) : OwedTargets(log[k].targets) = <<>>) => Kept]_reviewVars

\* A plan that may be confirmed is the one the workspace shows, with every
\* case of it, although monitoring_history and project_workspace select the
\* current report each in a way of its own.
ConfirmableIsShown ==
    \A n \in DOMAIN log : Confirmable(n) => n = Shown /\ ToSet(log[n].cases) \subseteq Inbox

\* A conclusion has one window and one chain of reminders, inside it, however
\* often it is delivered, corrected and notified (project_position_action,
\* route_synthetic_notifications).
ConclusionsAreNotRenewed ==
    /\ \A m, n \in Of(AssessmentKinds) : \A c \in ToSet(log[m].cases), d \in ToSet(log[n].cases) :
          c.pri = "P2" /\ c.id = d.id => c.win = d.win
    /\ \A m, n \in Of({"NOTIFY"}) : \A a \in log[m].sent, b \in log[n].sent :
          a.pri = "P2" /\ a.id = b.id /\ log[m].src = log[n].src => log[m].key = log[n].key
    /\ \A n \in Of({"NOTIFY"}) : \A a \in log[n].sent : \A c \in ToSet(log[log[n].src].cases) :
          a.pri = "P2" /\ c.id = a.id => log[n].at < c.win

\* The owner is asked to act only on what still holds and is in view.
ReviewsAreSound == ConfirmableIsShown /\ ConclusionsAreNotRenewed
=============================================================================
