----------------------- MODULE QualificationGovernance -----------------------
(***************************************************************************)
(* The statistical qualification of a capability and the forward-only      *)
(* version handoffs that rest on it: modules/qualification (service.py,    *)
(* versions.py, governance.py, evidence.py, contracts.py).                 *)
(*                                                                         *)
(* A governance command is adjudicated against the saved history inside    *)
(* the BEGIN IMMEDIATE transaction that appends its outcome, so a command  *)
(* is one step. Its contents were frozen earlier: commands range over      *)
(* every version, every evidence that exists and every identity, stale     *)
(* ones included. Where the code raises on two heads the transaction is    *)
(* abandoned, so the action is not enabled there.                          *)
(*                                                                         *)
(* One scope (histories of different scopes never meet). Instants are      *)
(* natural numbers, PerMonth to the month; expires_at never precedes the   *)
(* month deadline. Digests, artifacts and population members are taken to  *)
(* match, as an honest proposer sends them. A knowledge cutoff matters     *)
(* only to FreezeTask, where it is the node's own; any other command that  *)
(* is approved is also approved with the cutoff at the present instant.    *)
(***************************************************************************)
EXTENDS Integers, Sequences, FiniteSets, FiniteSetsExt, Functions

CONSTANTS
    Versions,         \* capability versions, all with a policy of their own
    Substance,        \* [Versions -> ...]: the rules a version stands for
    PolicyName,       \* [Versions -> ...]: its policy_version
    Policy,           \* [Versions -> ...]: the policy that name stands for
    Evidence,         \* records [end, at, act]: evaluated, available, active
    PlannedNodes,     \* instants of the registered formal check sequence
    TaskNodes,        \* records [kind, sched, cut, until]
    PerMonth,         \* instants in a month
    EvalAge,          \* evaluation_max_age_months
    ActivityAge,      \* state_activity_max_age_months
    RequireActivity,  \* require_state_activity
    ClearNodes,       \* diagnostic_clear_node_count
    None,             \* an optional value that is absent
    Horizon,          \* the last instant
    MaxAlerts,        \* alerts of one lineage
    Cases             \* bounds, one chosen at the start: the versions and evidence
                      \* proposers send, the commands they know, the task nodes,
                      \* and how many records, applications and activations

ASSUME GovernanceConstants ==
    /\ Substance \in [Versions -> Versions]
    /\ PolicyName \in [Versions -> Versions]
    /\ Policy \in [Versions -> Versions]
    /\ Evidence \subseteq [end : Nat, at : Nat, act : Nat \cup {None}]
    /\ \A e \in Evidence : e.end <= e.at /\ (e.act # None => e.act <= e.at)
    /\ PlannedNodes \in Seq(Nat)
    /\ Horizon \in Nat
    /\ \A n \in TaskNodes : n.cut <= n.sched /\ n.sched < n.until
    /\ PerMonth \in Nat \ {0} /\ EvalAge \in Nat \ {0} /\ ActivityAge \in Nat \ {0}
    /\ ClearNodes \in Nat \ {0}
    /\ RequireActivity \in BOOLEAN
    /\ Cases \subseteq
           [versions : SUBSET Versions, evidence : SUBSET Evidence,
            nodes : SUBSET TaskNodes, ops : SUBSET STRING,
            records : Nat, apps : Nat, acts : Nat]

VARIABLES
    within,   \* the member of Cases this behaviour stays within
    now,      \* the present instant
    quals,    \* QualificationRecords, in commit order
    apps,     \* registered requalification applications, in commit order
    replays,  \* recorded replays of alerts
    bound,    \* versions with a policy binding
    nodes,    \* registered task nodes
    acts,     \* version activations, in commit order
    tasks,    \* frozen tasks
    uses      \* approved uses of frozen tasks

handoffVars == <<nodes, acts, tasks, uses>>
lineageVars == <<quals, apps, replays>>
vars == <<within, now, lineageVars, bound, handoffVars>>

-----------------------------------------------------------------------------
(* Evidence and its clocks: evidence.py *)

Month(t) == t \div PerMonth
By(e, v) == [end |-> e.end, at |-> e.at, act |-> e.act, ver |-> v]

OverallCurrent(e) == Month(now) <= Month(e.end) + EvalAge
ActivityCurrent(e) ==
    IF e.act = None THEN ~RequireActivity ELSE Month(now) <= Month(e.act) + ActivityAge
EvidenceCurrent(e) == OverallCurrent(e) /\ ActivityCurrent(e)

-----------------------------------------------------------------------------
(* Qualification records: contracts.py *)

\* The basis whose age decides, and the source of the state activity.
Basis(r) == IF r.pass # None THEN r.pass ELSE r.basis
ActivitySource(r) == IF r.activity # None THEN r.activity ELSE Basis(r)

\* Mutant: only the evaluation's age is looked at.
ExpiryCauseOverall(r) ==
    IF r.basis = None \/ ~OverallCurrent(Basis(r)) THEN "EVIDENCE_EXPIRED" ELSE "CURRENT"
ExpiryCause(r) ==
    IF r.basis = None \/ ~OverallCurrent(Basis(r)) THEN "EVIDENCE_EXPIRED"
    ELSE IF ~ActivityCurrent(ActivitySource(r)) THEN "STATE_ACTIVITY_EXPIRED"
    ELSE "CURRENT"

Terminating == {"DISAPPEARED", "PROVEN_ERRONEOUS"}
OutstandingIn(alerts, closures) ==
    alerts \ {c.alert : c \in {d \in closures : d.how \in Terminating}}
Outstanding(r) == OutstandingIn(r.alerts, r.closures)

Standing(open) == IF open # {} THEN "AT_RISK" ELSE "VALID"

\* When everything the record retains had become available.
RetainedAt(r) ==
    LET optional == {r.basis, r.formal, r.pass, r.activity} \ {None}
    IN  {r.at} \cup {e.at : e \in optional} \cup {e.at : e \in r.alerts}
        \cup {c.at : c \in r.closures} \cup {l.ev.at : l \in r.limits}
        \cup r.proofs \cup {d.at : d \in Range(r.done)}
AvailableBy(r, cutoff) == \A t \in RetainedAt(r) : t <= cutoff

Blocked == {"SUSPENDED", "REVOKED"}

\* Mutant: a revoked record is restricted again when it expires.
RestrictExpiredRevoked(r) ==
    IF r.basis = None \/ ExpiryCause(r) \in {l.cause : l \in r.limits} \cup {"CURRENT"}
    THEN r
    ELSE [r EXCEPT !.limits = @ \cup {[cause |-> ExpiryCause(r), ev |-> Basis(r)]}]
RestrictExpired(r) ==
    LET cause == ExpiryCause(r) IN
    IF \/ r.status \notin {"VALID", "AT_RISK", "SUSPENDED"}
       \/ cause = "CURRENT"
       \/ \E l \in r.limits : l.cause = cause
    THEN r
    ELSE [r EXCEPT !.status = "SUSPENDED",
                   !.limits = @ \cup {[cause |-> cause, ev |-> Basis(r)]}]

-----------------------------------------------------------------------------
(* Histories and their heads *)

\* Versions with the same rules; release aliases are.
SameRules(v, w) == Substance[v] = Substance[w]
\* Another policy under the name of the first.
Redefines(w, v) == PolicyName[w] = PolicyName[v] /\ Policy[w] # Policy[v]

HeadsOf(R) == {i \in R : \A j \in R : quals[j].prev # i}
SubstantiveHeads(v) ==
    HeadsOf({i \in DOMAIN quals : SameRules(quals[i].ver, v)})
ExactHeads(v) == HeadsOf({i \in DOMAIN quals : quals[i].ver = v})

Conflicts(v) ==
    \E w \in bound \cup {r.ver : r \in Range(quals)} : Redefines(w, v)
Bind(v) == bound' = IF Conflicts(v) THEN bound ELSE bound \cup {v}

\* The one head, 0 when there is none; none to choose when there are two,
\* where the code raises.
Current(heads) == IF Cardinality(heads) > 1 THEN {} ELSE IF heads = {} THEN {0} ELSE heads

\* What every qualification command is held to before its own rules; p is
\* Current(SubstantiveHeads(v)), or the command meets a revision conflict.
Command(op, v, e) ==
    /\ op \in within.ops
    /\ e.at <= now
    /\ ~Conflicts(v)
    /\ bound' = bound \cup {v}
    /\ UNCHANGED <<now, handoffVars>>

Saved(r) ==
    /\ Len(quals) < within.records
    /\ quals' = Append(quals, r)
    /\ UNCHANGED <<apps, replays>>
Successor(r, p, e) == [r EXCEPT !.prev = p, !.at = e.at]

-----------------------------------------------------------------------------
(* Grants, alerts and restrictions: service.py *)

NewRecord(v, e, p, status) ==
    [prev |-> p, auth |-> Len(quals) + 1, ver |-> v, status |-> status,
     term |-> None, basis |-> By(e, v), at |-> e.at,
     alerts |-> {}, closures |-> {}, limits |-> {}, proofs |-> {},
     formal |-> None, pass |-> None, activity |-> None,
     done |-> <<>>, app |-> 0]

\* Mutant: a capability that was not obtained is given an authorization.
RecordNotObtainedAuthorized(v, e) ==
    /\ Command("RECORD_NOT_OBTAINED", v, e)
    /\ Saved([NewRecord(v, e, 0, "NOT_OBTAINED") EXCEPT !.basis = None])
RecordNotObtained(v, e) ==
    /\ Command("RECORD_NOT_OBTAINED", v, e)
    /\ Saved([NewRecord(v, e, 0, "NOT_OBTAINED") EXCEPT !.auth = 0, !.basis = None])

\* Mutant: a revoked lineage is granted again.
GrantAgain(v, e, p) ==
    /\ Command("GRANT", v, e)
    /\ p # 0 => quals[p].status \in {"NOT_OBTAINED", "REVOKED"}
    /\ EvidenceCurrent(e)
    /\ Saved(NewRecord(v, e, p, "VALID"))

Grant(v, e, p) ==
    /\ Command("GRANT", v, e)
    /\ p # 0 => quals[p].status = "NOT_OBTAINED"
    /\ EvidenceCurrent(e)
    /\ Saved(NewRecord(v, e, p, "VALID"))

Alert(v, e, p) ==
    /\ Command("ALERT", v, e)
    /\ p # 0 /\ quals[p].basis # None
    /\ Cardinality(quals[p].alerts) < MaxAlerts
    /\ LET r == RestrictExpired(quals[p]) IN
       Saved([Successor(r, p, e) EXCEPT
                !.status = IF @ \in Blocked THEN @ ELSE "AT_RISK",
                !.alerts = @ \cup {By(e, v)}])

Impose(op, v, e, p, status, cause) ==
    /\ Command(op, v, e)
    /\ p # 0 /\ quals[p].auth # 0 /\ quals[p].status # "REVOKED"
    /\ Saved([Successor(quals[p], p, e) EXCEPT
                !.status = status,
                !.term = IF op = "REVOKE" THEN now ELSE @,
                !.limits = @ \cup {[cause |-> cause, ev |-> By(e, v)]}])

Suspend(v, e, p) ==
    Impose("SUSPEND", v, e, p, "SUSPENDED", "REQUIRED_PREMISE_UNVERIFIABLE")
Revoke(v, e, p) ==
    Impose("REVOKE", v, e, p, "REVOKED", "ORIGINAL_BASIS_INVALID")

-----------------------------------------------------------------------------
(* Formal checks *)

CheckIndex(r) == IF r.formal # None THEN r.formal.index ELSE 1
\* Position of the earliest planned node with no disposition yet.
NextNode(r) == IF r.done = <<>> THEN 1 ELSE r.done[Len(r.done)].node + 1
NodeReached(e, n) ==
    n <= Len(PlannedNodes) /\ e.end <= PlannedNodes[n] /\ PlannedNodes[n] <= e.at

Disposed(r, n, how, index, e) ==
    Append(r.done, [node |-> n, how |-> how, index |-> index, at |-> e.at])
Checked(e, v, index, ok) ==
    [end |-> e.end, at |-> e.at, act |-> e.act, ver |-> v, index |-> index, ok |-> ok]

\* The sequence is the one the authorization registered; a NOT_OBTAINED
\* record has none.
FormalNode(op, v, e, p) ==
    /\ Command(op, v, e)
    /\ p # 0 /\ quals[p].basis # None
    /\ NodeReached(e, NextNode(quals[p]))

FormalCheckInsufficient(v, e, p) ==
    /\ FormalNode("FORMAL_CHECK", v, e, p)
    /\ LET r == RestrictExpired(quals[p]) IN
       Saved([Successor(r, p, e) EXCEPT
                !.done = Disposed(r, NextNode(r), "INSUFFICIENT", CheckIndex(r), e)])

FormalCheck(v, e, p, ok) ==
    /\ FormalNode("FORMAL_CHECK", v, e, p)
    /\ LET r == RestrictExpired(quals[p])
           f == Checked(e, v, CheckIndex(r) + 1, ok)
           restricted == ~ok /\ r.status # "REVOKED"
       IN  Saved([Successor(r, p, e) EXCEPT
                    !.status = IF restricted THEN "SUSPENDED" ELSE @,
                    !.formal = f,
                    !.pass = IF ok THEN f ELSE @,
                    !.done = Disposed(r, NextNode(r),
                                 IF ok THEN "EXECUTED_PASS" ELSE "EXECUTED_FAIL",
                                 f.index, e),
                    !.limits = IF restricted
                               THEN @ \cup {[cause |-> "FORMAL_PERFORMANCE_FAILURE",
                                             ev |-> f]}
                               ELSE @])

RecordFormalNode(v, e, p) ==
    /\ FormalNode("RECORD_FORMAL_NODE", v, e, p)
    /\ LET r == quals[p] IN
       Saved([Successor(r, p, e) EXCEPT
                !.done = Disposed(r, NextNode(r), "NOT_EXECUTED", CheckIndex(r), e)])

-----------------------------------------------------------------------------
(* Alert replays and closures *)

RecordAlertReplay(v, e, p, a) ==
    /\ Command("RECORD_ALERT_REPLAY", v, e)
    /\ p # 0 /\ quals[p].basis # None
    /\ a \in Outstanding(quals[p])
    /\ e.at = now
    /\ replays' = replays \cup {[alert |-> a, ver |-> v, at |-> e.at]}
    /\ UNCHANGED <<quals, apps>>

\* ClearNodes consecutive diagnostic nodes after the alert stayed clear.
StayedClear(a, e) ==
    /\ e.end >= a.end + ClearNodes
    /\ Month(now) <= Month(e.end - ClearNodes + 1) + EvalAge

Supported(a, e, v, r, how) ==
    CASE how = "DISAPPEARED" -> StayedClear(a, e)
      [] how = "PROVEN_ERRONEOUS" ->
            /\ a.end <= e.end /\ EvidenceCurrent(e)
            /\ \E x \in replays : x.alert = a /\ x.ver = v /\ x.at <= e.at
      [] how = "TRANSFERRED" -> a.end <= e.end /\ EvidenceCurrent(e) /\ r.limits # {}
      [] how = "ARCHIVED" -> a.end <= e.end /\ EvidenceCurrent(e)

Resolutions == Terminating \cup {"TRANSFERRED", "ARCHIVED"}

CloseAlert(v, e, p, a, how) ==
    /\ Command("CLOSE_ALERT", v, e)
    /\ p # 0 /\ quals[p].basis # None
    /\ a \in quals[p].alerts /\ a.ver = v
    /\ ~\E c \in quals[p].closures :
            c.alert = a /\ (c.how \in Terminating \/ c.how = how)
    /\ Supported(a, e, v, quals[p], how)
    /\ LET closures == quals[p].closures \cup {[alert |-> a, how |-> how, at |-> e.at]}
           open == OutstandingIn(quals[p].alerts, closures)
       IN  Saved([Successor(quals[p], p, e) EXCEPT
                    !.closures = closures,
                    !.status = IF @ \in Blocked \/ how = "ARCHIVED" THEN @
                               ELSE Standing(open)])

-----------------------------------------------------------------------------
(* Restoration *)

ProofKinds == {"BASIS", "FORMAL_CHECK", "STATE_ACTIVITY_RESTORED"}

Restores(proof, l, r) ==
    CASE l.cause = "REQUIRED_PREMISE_UNVERIFIABLE" -> proof.kind = "BASIS"
      [] l.cause \in {"FORMAL_PERFORMANCE_FAILURE", "EVIDENCE_EXPIRED"} ->
            /\ proof.kind = "FORMAL_CHECK"
            /\ r.formal # None /\ r.formal.ok
            /\ proof.ev = By(r.formal, r.formal.ver)
            /\ proof.ev.end > l.ev.end
      [] l.cause = "STATE_ACTIVITY_EXPIRED" ->
            /\ proof.kind = "STATE_ACTIVITY_RESTORED"
            /\ OverallCurrent(Basis(r))
            /\ proof.ev.act # None /\ proof.ev.end = proof.ev.act
            /\ ActivityCurrent(proof.ev)
            /\ l.ev.act = None \/ proof.ev.act > l.ev.act
            /\ NextNode(r) <= Len(PlannedNodes) => PlannedNodes[NextNode(r)] > now
      [] OTHER -> FALSE

\* One proof for every evidence a restriction rests on.
Proofs(v, r) ==
    [{l.ev : l \in r.limits} ->
        {[kind |-> k, ev |-> By(e, v)] : k \in ProofKinds,
                                         e \in {x \in within.evidence : x.at <= now}}]

Restore(v, e, p) ==
    /\ Command("RESTORE", v, e)
    /\ p # 0 /\ quals[p].status = "SUSPENDED"
    /\ \E proofs \in Proofs(v, quals[p]) :
        /\ \A l \in quals[p].limits : Restores(proofs[l.ev], l, quals[p])
        /\ LET active == {l \in quals[p].limits : l.cause = "STATE_ACTIVITY_EXPIRED"} IN
           Saved([Successor(quals[p], p, e) EXCEPT
                    !.status = Standing(Outstanding(quals[p])),
                    !.limits = {},
                    !.proofs = {proofs[x].ev.at : x \in DOMAIN proofs},
                    !.activity = IF active # {}
                                 THEN proofs[(CHOOSE l \in active : TRUE).ev].ev
                                 ELSE @])

-----------------------------------------------------------------------------
(* Requalification of a revoked lineage *)

RegisterRequalification(v, e, p) ==
    /\ Command("REGISTER_REQUALIFICATION", v, e)
    /\ Len(apps) < within.apps
    /\ p # 0 /\ quals[p].status = "REVOKED"
    /\ quals[p].term < now
    /\ apps' = Append(apps, [ver |-> v, anchor |-> p, reg |-> now])
    /\ UNCHANGED <<quals, replays>>

\* What a record descends from, itself included: the least set that holds it
\* and, with every record, the one it revises.
Descent(S) == \A k \in S : quals[k].prev # 0 => quals[k].prev \in S
Ancestors(i) ==
    {j \in DOMAIN quals : \A S \in SUBSET DOMAIN quals : i \in S /\ Descent(S) => j \in S}
SameLineage(a, p) ==
    /\ quals[a].status = "REVOKED"
    /\ quals[a].ver = quals[p].ver /\ quals[a].auth = quals[p].auth
    /\ quals[a].basis = quals[p].basis /\ quals[a].term = quals[p].term
    /\ quals[a].app = quals[p].app
    /\ a \in Ancestors(p)

Requalify(v, e, p, k) ==
    /\ Command("REQUALIFY", v, e)
    /\ p # 0 /\ quals[p].status = "REVOKED"
    /\ apps[k].ver = v
    /\ quals[p].term < apps[k].reg /\ apps[k].reg <= e.at
    /\ SameLineage(apps[k].anchor, p)
    /\ \A r \in Range(quals) : r.app # k
    /\ NodeReached(e, NextNode(quals[p]))
    /\ EvidenceCurrent(e)
    /\ LET r == quals[p]
           f == Checked(e, v, CheckIndex(r) + 1, TRUE)
       IN  Saved([NewRecord(v, e, p, "VALID") EXCEPT
                    !.status = Standing(Outstanding(r)),
                    !.basis = f, !.formal = f, !.pass = f,
                    !.alerts = r.alerts, !.closures = r.closures,
                    !.done = Disposed(r, NextNode(r), "EXECUTED_PASS", f.index, e),
                    !.app = k])

-----------------------------------------------------------------------------
(* Version handoffs: versions.py *)

Qualified(q, cutoff) ==
    /\ q # 0
    /\ quals[q].status \in {"VALID", "AT_RISK"}
    /\ quals[q].auth # 0
    /\ ExpiryCause(quals[q]) = "CURRENT"
    /\ AvailableBy(quals[q], cutoff)

\* Handoffs read the exact version's history: q is Current(ExactHeads(v)).
Handoff(op, v) ==
    /\ op \in within.ops
    /\ Bind(v)
    /\ UNCHANGED <<now, apps, replays>>

FrozenNodes == {t.node : t \in tasks}
ActHeads(A) == {a \in A : \A b \in A : acts[b].prev # a}
CurrentActs == ActHeads(DOMAIN acts)
ApplicableActs(n) ==
    ActHeads({a \in DOMAIN acts :
                 acts[a].first.kind = n.kind /\ acts[a].first.sched <= n.sched})

NextLegalNode(n) ==
    /\ n \in nodes \ FrozenNodes /\ n.sched > now
    /\ \A m \in nodes \ FrozenNodes :
            m.kind = n.kind /\ m.sched > now => n.sched <= m.sched

RegisterTaskNode(n) ==
    /\ "REGISTER_TASK_NODE" \in within.ops
    /\ n \notin nodes /\ n.sched > now
    /\ nodes' = nodes \cup {n}
    /\ UNCHANGED <<now, lineageVars, bound, acts, tasks, uses>>

ActivateVersion(v, q, n) ==
    /\ Handoff("ACTIVATE_VERSION", v)
    /\ Len(acts) < within.acts
    /\ Cardinality(CurrentActs) <= 1
    /\ Qualified(q, now)
    /\ \A a \in CurrentActs : acts[a].ver # v
    /\ NextLegalNode(n)
    /\ acts' = Append(acts, [ver |-> v, first |-> n,
                             prev |-> IF CurrentActs = {} THEN 0 ELSE Max(CurrentActs)])
    /\ UNCHANGED <<quals, nodes, tasks, uses>>

\* A freeze that is refused still disposes of its node; what it named is
\* never looked at again.
FreezeTask(v, q, n, a) ==
    /\ Handoff("FREEZE_TASK", v)
    /\ n \in nodes \ FrozenNodes
    /\ n.sched <= now /\ now <= n.until
    /\ Cardinality(ApplicableActs(n)) <= 1
    /\ LET ok == a \in ApplicableActs(n) /\ acts[a].ver = v /\ Qualified(q, n.cut) IN
       tasks' = tasks \cup {[node |-> n, ok |-> ok,
                             ver |-> IF ok THEN v ELSE None, act |-> IF ok THEN a ELSE 0]}
    /\ UNCHANGED <<quals, nodes, acts, uses>>

UseTask(v, q, t) ==
    /\ Handoff("USE_TASK", v)
    /\ t.ver = v /\ t.ok
    /\ t.node.cut <= now /\ now <= t.node.until
    /\ LET r == RestrictExpired(quals[q]) IN
       IF q # 0 /\ r # quals[q]
       THEN /\ Len(quals) < within.records
            /\ quals' = Append(quals, [r EXCEPT !.prev = q])
            /\ UNCHANGED uses
       ELSE /\ Qualified(q, now)
            /\ uses' = uses \cup {[task |-> t, by |-> q]}
            /\ UNCHANGED quals
    /\ UNCHANGED <<nodes, acts, tasks>>

\* A command that is denied leaves nothing but its policy binding.
Denied(v) ==
    /\ "DENIED" \in within.ops
    /\ Bind(v)
    /\ bound' # bound
    /\ UNCHANGED <<now, lineageVars, handoffVars>>

Pass ==
    /\ now < Horizon
    /\ now' = now + 1
    /\ UNCHANGED <<lineageVars, bound, handoffVars>>

-----------------------------------------------------------------------------
Init ==
    /\ within \in Cases
    /\ now = 0
    /\ quals = <<>> /\ apps = <<>> /\ replays = {}
    /\ bound = {}
    /\ nodes = {} /\ acts = <<>> /\ tasks = {} /\ uses = {}

Qualification ==
    \E v \in within.versions :
      \E p \in Current(SubstantiveHeads(v)), e \in within.evidence :
        \/ p = 0 /\ RecordNotObtained(v, e)
        \/ Grant(v, e, p)
        \/ Alert(v, e, p)
        \/ Suspend(v, e, p)
        \/ Revoke(v, e, p)
        \/ FormalCheckInsufficient(v, e, p)
        \/ \E ok \in BOOLEAN : FormalCheck(v, e, p, ok)
        \/ RecordFormalNode(v, e, p)
        \/ p # 0 /\ \E a \in quals[p].alerts : RecordAlertReplay(v, e, p, a)
        \/ p # 0 /\ \E a \in quals[p].alerts, how \in Resolutions :
                        CloseAlert(v, e, p, a, how)
        \/ Restore(v, e, p)
        \/ RegisterRequalification(v, e, p)
        \/ \E k \in DOMAIN apps : Requalify(v, e, p, k)

Handoffs ==
    \/ \E n \in within.nodes : RegisterTaskNode(n)
    \/ \E v \in within.versions : \E q \in Current(ExactHeads(v)) :
        \/ \E n \in nodes : ActivateVersion(v, q, n)
        \/ \E n \in nodes, a \in {0} \cup DOMAIN acts : FreezeTask(v, q, n, a)
        \/ \E t \in tasks : UseTask(v, q, t)

Next ==
    /\ UNCHANGED within
    /\ Qualification \/ Handoffs \/ (\E v \in within.versions : Denied(v)) \/ Pass
Spec == Init /\ [][Next]_vars

-----------------------------------------------------------------------------
(* Properties *)

\* What the contracts let a record of each kind hold.
Evidences == [end : Nat, at : Nat, act : Nat \cup {None}, ver : Versions]
Checks == [end : Nat, at : Nat, act : Nat \cup {None}, ver : Versions,
           index : Nat \ {0}, ok : BOOLEAN]
ASSUME NoneAssumption == None \notin Nat \cup Versions \cup Evidences \cup Checks

Dispositions ==
    [node : DOMAIN PlannedNodes, index : Nat \ {0}, at : Nat,
     how : {"EXECUTED_PASS", "EXECUTED_FAIL", "INSUFFICIENT", "NOT_EXECUTED"}]
Restrictions ==
    [cause : {"REQUIRED_PREMISE_UNVERIFIABLE", "ORIGINAL_BASIS_INVALID", "EVIDENCE_EXPIRED",
              "STATE_ACTIVITY_EXPIRED", "FORMAL_PERFORMANCE_FAILURE"},
     ev : Evidences \cup Checks]
Closures == [alert : Evidences, how : Resolutions, at : Nat]
QualificationRecords ==
    [prev : Nat, auth : Nat, ver : Versions, app : Nat, at : Nat,
     status : {"NOT_OBTAINED", "VALID", "AT_RISK"} \cup Blocked,
     term : Nat \cup {None},
     basis : Evidences \cup Checks \cup {None},
     formal : Checks \cup {None}, pass : Checks \cup {None},
     activity : Evidences \cup {None},
     alerts : SUBSET Evidences, closures : SUBSET Closures,
     limits : SUBSET Restrictions, proofs : SUBSET Nat, done : Seq(Dispositions)]
Applications == [ver : Versions, anchor : Nat, reg : Nat]
Replays == [alert : Evidences, ver : Versions, at : Nat]
Activations == [ver : Versions, first : TaskNodes, prev : Nat]
FrozenTasks == [node : TaskNodes, ok : BOOLEAN, ver : Versions \cup {None}, act : Nat]
TaskUsages == [task : FrozenTasks, by : Nat]

\* Records, applications, handoffs and uses are well formed and refer only
\* to what was committed before them.
TypeOK ==
    /\ now \in 0 .. Horizon
    /\ quals \in Seq(QualificationRecords)
    /\ \A i \in DOMAIN quals :
        /\ quals[i].prev < i /\ quals[i].auth <= i /\ quals[i].app <= Len(apps)
        /\ quals[i].basis = None <=> quals[i].auth = 0
    /\ apps \in Seq(Applications)
    /\ \A k \in DOMAIN apps : apps[k].anchor \in DOMAIN quals
    /\ replays \subseteq Replays
    /\ bound \subseteq Versions
    /\ nodes \subseteq TaskNodes
    /\ acts \in Seq(Activations)
    /\ \A a \in DOMAIN acts : acts[a].prev < a /\ acts[a].first \in nodes
    /\ tasks \subseteq FrozenTasks /\ FrozenNodes \subseteq nodes
    /\ uses \subseteq TaskUsages
    /\ \A u \in uses : u.task \in tasks /\ u.by \in DOMAIN quals

\* A substantive lineage never forks, although UseTask extends the history
\* of one exact version and every other command that of all its aliases: the
\* lookup of the current qualification never meets conflicting revisions.
OneLineage == \A v \in Versions : Cardinality(SubstantiveHeads(v)) <= 1

\* After a revocation nothing but a requalification brings authority back:
\* every later record that is not revoked has an authorization of its own,
\* from an application registered after the revocation, used for no other.
RevocationIsFinal ==
    \A i \in DOMAIN quals : \A j \in Ancestors(i) :
        quals[j].status = "REVOKED" /\ quals[i].status # "REVOKED" =>
            LET g == quals[i].auth IN
            /\ g > j /\ quals[i].app # 0
            /\ apps[quals[i].app].reg > quals[j].term
            /\ \A m \in DOMAIN quals : quals[m].app = quals[i].app => quals[m].auth = g

\* The status of a record is what its open alerts and restrictions earn,
\* whatever the order in which alerts, checks, closures and restorations came.
StatusIsEarned ==
    \A r \in Range(quals) :
        /\ r.status = "VALID" => Outstanding(r) = {}
        /\ r.status = "AT_RISK" => r.alerts # {}
        /\ (r.limits # {}) <=> (r.status \in Blocked)

\* Authority is earned, whatever order alerts, checks, closures, expiries and
\* requalifications come in: by a record's open alerts and restrictions, and,
\* after a revocation, by an authorization of its own.
AuthorityIsEarned == StatusIsEarned /\ RevocationIsFinal

\* A frozen task may be used only while the newest record of its whole
\* substantive lineage is its own version's, authorizes it, is unrestricted
\* and has not expired on either clock.
UseIsQualified ==
    [][\A u \in uses' \ uses :
        /\ SubstantiveHeads(u.task.ver) = {u.by}
        /\ quals[u.by].ver = u.task.ver /\ quals[u.by].limits = {}
        /\ quals[u.by].status \in {"VALID", "AT_RISK"}
        /\ EvidenceCurrent([Basis(quals[u.by]) EXCEPT !.act = ActivitySource(quals[u.by]).act])
      ]_vars
=============================================================================
