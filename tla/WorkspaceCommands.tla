------------------------- MODULE WorkspaceCommands -------------------------
(***************************************************************************)
(* Commands of the candidate workspace (modules/delivery/candidate_        *)
(* commands.py and allocation_workspace.py, bootstrap/candidate_workspace  *)
(* .py) over the releases and reminders of CandidateReminders.             *)
(*                                                                         *)
(* A command names what its sender saw: a plan, an input report, the last  *)
(* confirmation and execution.  The host resolves it into a frozen case    *)
(* over several transactions, registers the case, runs it, and decides it  *)
(* in one more; releases, inputs and other commands change in between, the *)
(* process may die, and the sender repeats the request under its key.      *)
(* The decisions themselves are CandidateCommitments; here they are their  *)
(* gates on what a command has seen, and an outcome.                       *)
(***************************************************************************)
EXTENDS CandidateReminders

VARIABLES
    events,     \* committed plans, confirmations, reviews and executions
    objects,    \* registered frozen cases: the business objects
    tasks       \* per sender: where its request is

commandVars == <<events, objects, tasks>>
workspaceVars == <<vars, commandVars>>

Senders == 1..bound.senders
Idle == [pc |-> "idle"]

Of(kind) == {n \in DOMAIN events : events[n].kind = kind}
LastIn(S) == IF S = {} THEN 0 ELSE Max(S)

Plans == Of("PLAN")
Confirmed(p) == {n \in Of("CONFIRM") : events[n].plan = p /\ events[n].ok}
Executions(p) == {n \in Of("EXECUTION") : events[n].plan = p}

-----------------------------------------------------------------------------
(* The allocation view of a plan.                                          *)

(* A rejected replacement is not an input; every other allocation is. *)
Inputs(rel) == {n \in Plans : events[n].rel = rel /\ (events[n].rep = 0 \/ events[n].ok)}

Replaced(p) == \E n \in Plans : events[n].ok /\ events[n].rep = p
FoundChanged(p) ==
    \E n \in Of("CONFIRM") \union Of("REVIEW") : events[n].plan = p /\ events[n].changed

(* Whether an old input may still be named: the plan is stopped anyway. *)
Stopped(p) == FoundChanged(p) \/ Replaced(p)

-----------------------------------------------------------------------------
(* Resolving a request: resolve_candidate_command.                         *)

Contract(op) ==
    IF op = "DECLARE" THEN "execution" ELSE IF op = "REPLAN" THEN "allocation" ELSE "confirmation"

Operations == {"CONFIRM", "REVIEW", "REVIEW_STEP", "WITHDRAW", "DECLARE", "REPLAN"}

(* A sender mints a fresh key for an operation and keeps it for its        *)
(* repetitions: one key is never used under two contracts.                 *)
ASSUME CommandsAssumption ==
    \A c \in Cases :
        /\ c.inputs \in Nat /\ c.senders \in Nat
        /\ \A a \in c.commands : a.op \in Operations /\ a.key \in Nat \ {0}
        /\ \A a, b \in c.commands : a.key = b.key => Contract(a.op) = Contract(b.op)

ObjectIdAtTime(case) == <<case.req.key, Contract(case.req.op), case.at>>

(* The business object of a case: its key, under its contract. *)
ObjectId(case) == <<case.req.key, Contract(case.req.op)>>

(* The event of a case, once it is decided. *)
Decided(case) == {n \in DOMAIN events : events[n].object = ObjectId(case)}

SavedOutcomes(key) == {o \in objects : o.req.key = key /\ Decided(o) # {}}

(* get_frozen_case_by_identity: found from its registration on. *)
Saved(key) == {o \in objects : o.req.key = key}

(* The case a request becomes now; it carries the instant it was built. *)
Prepared(r) == [req |-> r, ver |-> events[r.input].ver, at |-> now]

Preparable(r) ==
    LET p == events[r.plan]
        conf == LastIn(Confirmed(r.plan))
    IN  /\ events[r.input].rel = p.rel
        /\ r.input # LastIn(Inputs(p.rel)) => r.op # "REPLAN" /\ Stopped(r.plan)
        /\ r.op = "REPLAN" => r.seen = conf /\ r.seenExec = LastIn(Executions(r.plan))
        /\ r.op = "DECLARE" => conf # 0 /\ r.seen = conf
        /\ r.op = "REVIEW_STEP" => conf # 0

(* A request arrives.  It resumes the saved case of its key, if there is    *)
(* one; a key saved with another request is refused.                       *)
Ask(s, r) ==
    LET found == Saved(r.key)
    IN  /\ tasks[s].pc = "idle"
        /\ tasks' = [tasks EXCEPT ![s] =
               IF found = {} THEN [pc |-> "new", req |-> r]
               ELSE IF \E o \in found : found = {o} /\ o.req = r
                    THEN [pc |-> "ready", case |-> CHOOSE o \in found : TRUE]
               ELSE Idle]
        /\ UNCHANGED <<vars, events, objects>>

(* A new case is prepared from the view of this instant, or refused. *)
Prepare(s) ==
    /\ tasks[s].pc = "new"
    /\ tasks' = [tasks EXCEPT ![s] = IF Preparable(@.req) THEN [pc |-> "ready", case |-> Prepared(@.req)]
                                     ELSE Idle]
    /\ UNCHANGED <<vars, events, objects>>

-----------------------------------------------------------------------------
(* Running the case.                                                       *)

(* ensure_business_object: first come, and then only the very same case. *)
Fits(case) == \A o \in objects : ObjectId(o) = ObjectId(case) => o = case

Register(s) ==
    /\ tasks[s].pc = "ready"
    /\ IF Fits(tasks[s].case)
       THEN /\ objects' = objects \union {tasks[s].case}
            /\ tasks' = [tasks EXCEPT ![s].pc = "running"]
       ELSE /\ tasks' = [tasks EXCEPT ![s] = Idle]
            /\ UNCHANGED objects
    /\ UNCHANGED <<vars, events>>

InstantAsked(case) == case.at

(* The instant a decision is made at: the commit's, not the case's. *)
Instant(case) == now

Window(t) == Open <= t /\ t <= Close
Undisturbed(rel) == Successors(rel) = {} /\ reports[rel].fixed = Never
InputsChanged(case) ==
    LET p == case.req.plan
        latest == LastIn(Inputs(events[p].rel))
    IN  latest # p /\ events[latest].ver # case.ver

(* What a submission or review must have seen, and find unchanged. *)
Current(case) ==
    LET p == case.req.plan
    IN  /\ ~Replaced(p) /\ ~FoundChanged(p)
        /\ events[p].ok
        /\ ~InputsChanged(case)
        /\ Window(Instant(case))
        /\ Disqualifying(events[p].rel, Instant(case)) = {}

SawLatest(r) ==
    /\ r.seen = LastIn(Confirmed(r.plan))
    /\ r.seenExec = LastIn({n \in Executions(r.plan) : events[n].ok})

(* Whether the case succeeds; same stands for the policy's replay or solve *)
(* and for the proofs a withdrawal or a declaration needs.                 *)
Succeeds(case, same) ==
    LET r == case.req
        rel == events[r.plan].rel
    IN  CASE r.op = "REPLAN" ->
               /\ ~InputsChanged(case) /\ Window(Instant(case)) /\ Undisturbed(rel)
               /\ Disqualifying(rel, Instant(case)) = {} /\ same
          [] r.op = "DECLARE" -> SawLatest(r) /\ same
          [] r.op = "WITHDRAW" -> SawLatest(r) /\ r.seen # 0 /\ same
          [] OTHER -> Current(case) /\ SawLatest(r) /\ Undisturbed(rel) /\ same

(* PLAN_CHANGED: the gates hold, the replayed policy does not agree. *)
FindsChanged(case, same) ==
    /\ case.req.op \in {"CONFIRM", "REVIEW", "REVIEW_STEP"}
    /\ Current(case) /\ SawLatest(case.req)
    /\ ~(Undisturbed(events[case.req.plan].rel) /\ same)

Kind(op) ==
    CASE op = "REPLAN" -> "PLAN" [] op = "DECLARE" -> "EXECUTION"
      [] op = "REVIEW" -> "REVIEW" [] OTHER -> "CONFIRM"

Outcome(case, same) ==
    LET r == case.req
    IN  [kind |-> Kind(r.op), key |-> r.key, op |-> r.op, object |-> ObjectId(case),
         plan |-> IF r.op = "REPLAN" THEN 0 ELSE r.plan, rep |-> IF r.op = "REPLAN" THEN r.plan ELSE 0,
         rel |-> events[r.plan].rel, ver |-> case.ver,
         ok |-> Succeeds(case, same), changed |-> FindsChanged(case, same)]

(* Decided and committed in one transaction; a decided case only answers. *)
Commit(s, same) ==
    LET case == tasks[s].case
        done == Decided(case)
    IN  /\ tasks[s].pc = "running"
        /\ done = {} => Len(events) < bound.events
        /\ events' = IF done # {} THEN events ELSE Append(events, Outcome(case, same))
        /\ tasks' = [tasks EXCEPT ![s] = [pc |-> "answered", req |-> case.req,
                                         event |-> IF done # {} THEN Max(done) ELSE Len(events) + 1]]
        /\ UNCHANGED <<vars, objects>>

(* The process dies, or the answer arrives or is lost. *)
Lose(s) ==
    /\ tasks[s].pc # "idle"
    /\ tasks' = [tasks EXCEPT ![s] = Idle]
    /\ UNCHANGED <<vars, events, objects>>

(* The host allocates a release on its own, from new inputs. *)
Allocate(rel, ver) ==
    /\ Len(events) < bound.events /\ ver <= bound.inputs
    /\ rel \in DOMAIN reports /\ Status(rel) = "CURRENT"
    /\ events' = Append(events, [kind |-> "PLAN", key |-> 0, op |-> "HOST", plan |-> 0, rep |-> 0,
                                 rel |-> rel, ver |-> ver, ok |-> TRUE, changed |-> FALSE, object |-> <<>>])
    /\ UNCHANGED <<vars, objects, tasks>>

-----------------------------------------------------------------------------
WorkspaceInit ==
    /\ Init
    /\ events = <<>> /\ objects = {}
    /\ tasks = [s \in 1..bound.senders |-> Idle]

(* Requests of the commands in play, naming anything their sender may have *)
(* seen.                                                                   *)
Asked ==
    {[op |-> c.op, key |-> c.key, plan |-> p, input |-> i, seen |-> n, seenExec |-> e] :
        c \in bound.commands, p \in Plans, i \in Plans,
        n \in Of("CONFIRM") \union {0}, e \in Of("EXECUTION") \union {0}}

WorkspaceNext ==
    \/ Next /\ UNCHANGED commandVars
    \/ \E rel \in DOMAIN reports, ver \in 1..bound.inputs : Allocate(rel, ver)
    \/ \E s \in Senders :
          \/ \E r \in Asked : Ask(s, r)
          \/ Prepare(s) \/ Register(s)
          \/ \E same \in BOOLEAN : Commit(s, same)
          \/ Lose(s)

WorkspaceSpec == WorkspaceInit /\ [][WorkspaceNext]_workspaceVars

-----------------------------------------------------------------------------
(* Properties.                                                             *)

(* A command happens once: however its request is repeated, raced against  *)
(* itself or lost on the way, its key has one event, and every answer names *)
(* the event decided for the very request it answers.                      *)
CommandsHappenOnce ==
    /\ \A m, n \in DOMAIN events : events[m].key = events[n].key /\ events[m].key # 0 => m = n
    /\ \A s \in Senders : tasks[s].pc = "answered" =>
          \E o \in objects : o.req = tasks[s].req /\ Decided(o) = {tasks[s].event}

(* A registered case can be finished: repeating its request, however much  *)
(* later, is resolved to a case its business object accepts.               *)
RetriesResume ==
    \A o \in objects :
        LET again == IF Saved(o.req.key) # {} THEN Saved(o.req.key) ELSE {Prepared(o.req)}
        IN  Cardinality(again) = 1 /\ \A case \in again : Fits(case)

(* No new commitment rests on what has ceased to hold: a confirmation or a *)
(* replacement plan that succeeds does so while its release is current,    *)
(* while nothing replaced or invalidated the plan, and on inputs no later  *)
(* allocation has changed.                                                 *)
EntryIsCurrent ==
    [][\A n \in DOMAIN events' \ DOMAIN events :
          events'[n].ok /\ events'[n].op \in {"CONFIRM", "REVIEW_STEP", "REPLAN"} =>
             LET new == events'[n]
                 plan == IF new.op = "REPLAN" THEN new.rep ELSE new.plan
                 later == {k \in Inputs(new.rel) : k > plan /\ events[k].ver # new.ver}
             IN  /\ Status(new.rel) = "CURRENT"
                 /\ new.op # "REPLAN" => ~Stopped(plan)
                 /\ LastIn(Inputs(new.rel)) \notin later]_workspaceVars
=============================================================================
