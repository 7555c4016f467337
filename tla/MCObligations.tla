--------------------------- MODULE MCObligations ---------------------------
(* Small instances of the two modules about risk obligations: how stress   *)
(* under an authorization raises and settles them (PortfolioProtection),   *)
(* and how plans, actions and monitoring carry the targets they set        *)
(* (MonitoringCases).  A behaviour is about one of them and leaves the     *)
(* other where it is.                                                      *)
EXTENDS PortfolioProtection, MonitoringCases

CONSTANTS p1, p2, a1, a2

VARIABLE half

both == <<half, vars, reviewVars>>

-----------------------------------------------------------------------------
(* Monitoring.  Risk handoffs: none, one that does not fit together, caps  *)
(* on one security, a lifecycle end, and obligations on the portfolio.     *)

Quiet == [targets |-> <<>>, ids |-> {}, p0 |-> {}, capital |-> FALSE, whole |-> TRUE]
Broken == [Quiet EXCEPT !.whole = FALSE]
Cap(s, qty, obs) == [x \in {s} |-> [qty |-> qty, obs |-> obs]]
Issuer == [Quiet EXCEPT !.targets = Cap(1, 1, {<<"issuer", 1>>})]
Ended == [Quiet EXCEPT !.targets = Cap(2, 0, {<<"ended", 2>>}), !.p0 = {<<"ended", 2>>}]
Group == [Quiet EXCEPT !.targets = [s \in Securities |-> [qty |-> 1, obs |-> {<<"group", 0>>}]]]
Stress == [Quiet EXCEPT !.ids = {<<"stress", 0>>}]
Preservation ==
    [Quiet EXCEPT !.capital = TRUE,
                  !.targets = [s \in Securities |-> [qty |-> 0, obs |-> {<<"capital", 0>>}]]]

Some == {[hit |-> {1}, shield |-> {}], [hit |-> {2}, shield |-> {2}],
         [hit |-> {1, 2}, shield |-> {2}]}

Short == [time |-> 0, plans |-> 2, actions |-> 0, facts |-> 0, daily |-> 1, events |-> 1,
          corrections |-> 0, notices |-> 0, reports |-> 0, lapses |-> 0,
          marks |-> {[hit |-> {1}, shield |-> {}]}, hands |-> {Quiet}, evidence |-> {"whole"},
          windows |-> {2}, keys |-> {"k"}, quiet |-> {0}]

MCReviewCases ==
    {
     \* targets of execution plans, handed from assessment to assessment
     [Short EXCEPT !.events = 2, !.hands = {Quiet, Issuer, Ended, Stress},
                   !.evidence = {"whole", "partial"}, !.marks = Some],
     [Short EXCEPT !.time = 1, !.hands = {Broken, Group, Preservation, Ended, Stress},
                   !.evidence = {"whole", "partial", "none"}, !.marks = Some],
     \* confirmation against later facts, corrections, lapses and reports
     [Short EXCEPT !.plans = 1, !.actions = 1, !.events = 0, !.facts = 1, !.corrections = 1,
                   !.reports = 1, !.hands = {Quiet, Issuer}],
     [Short EXCEPT !.plans = 1, !.actions = 1, !.corrections = 1, !.lapses = 1,
                   !.hands = {Quiet, Issuer}],
     [Short EXCEPT !.plans = 0, !.actions = 1, !.time = 1, !.corrections = 1, !.lapses = 1],
     \* windows of a conclusion, and its notifications
     [Short EXCEPT !.plans = 0, !.actions = 1, !.time = 1, !.windows = {1, 2}],
     [Short EXCEPT !.plans = 0, !.actions = 1, !.daily = 0, !.time = 1, !.notices = 2,
                   !.windows = {1}, !.quiet = {0, 1}, !.keys = {"k", "l"}],
     [Short EXCEPT !.plans = 1, !.daily = 0, !.time = 1, !.notices = 2, !.windows = {1},
                   !.quiet = {0, 1}, !.hands = {Issuer}]
    }

-----------------------------------------------------------------------------
(* Protection: successive authorizations and their uses; two portfolios    *)
(* and a new grid; obligations through sales and corrections; scopes that  *)
(* shrink; relaxation against stress.                                      *)

Strict == [target |-> 26, hard |-> 30, grid |-> 1, policy |-> 1]
Loose == [target |-> 36, hard |-> 45, grid |-> 1, policy |-> 1]
Regrid == [target |-> 20, hard |-> 25, grid |-> 2, policy |-> 2]

Small == [portfolios |-> {p1}, scopes |-> {{a1}}, budgets |-> {Strict}, trades |-> FALSE,
          cash |-> {FALSE}, uses |-> FALSE, time |-> 3, auths |-> 2, stress |-> 0]

StressCases ==
    {[Small EXCEPT !.time = 4, !.auths = 3, !.uses = TRUE],
     [Small EXCEPT !.portfolios = {p1, p2}, !.scopes = {{a1}, {a2}},
                   !.budgets = {Strict, Regrid, [Regrid EXCEPT !.policy = 1]}],
     [Small EXCEPT !.trades = TRUE, !.auths = 1, !.stress = 3],
     [Small EXCEPT !.scopes = {{a1}, {a1, a2}}, !.time = 2, !.stress = 3],
     [Small EXCEPT !.budgets = {Strict, Loose}, !.time = 2, !.cash = BOOLEAN, !.stress = 2]}

-----------------------------------------------------------------------------
InitBoth ==
    \/ /\ half = "monitoring"
       /\ ReviewInit
       /\ bound = Small /\ now = 0 /\ path = <<>> /\ ledger = <<>> /\ auths = <<>>
       /\ stress = <<>> /\ usage = NoUsage
    \/ /\ half = "protection"
       /\ Init
       /\ limits = Short /\ clock = 0 /\ log = <<>> /\ lapsed = {}

NextBoth ==
    \/ half = "monitoring" /\ ReviewNext /\ UNCHANGED <<half, vars>>
    \/ half = "protection" /\ Next /\ UNCHANGED <<half, reviewVars>>

SpecBoth == InitBoth /\ [][NextBoth]_both
=============================================================================
