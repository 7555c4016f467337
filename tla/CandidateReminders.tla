------------------------- MODULE CandidateReminders -------------------------
(***************************************************************************)
(* Saved candidate releases as the workspace shows them, and the reminders *)
(* sent of them (modules/delivery/candidate_workspace.py and               *)
(* candidate_notifications.py, candidate_selection/current_eligibility.py, *)
(* adapters/persistence/result_delivery.py).                               *)
(*                                                                         *)
(* A release lives in a window of market instants.  Its report may be      *)
(* corrected, the research under it may be corrected, and its              *)
(* qualification may be suspended, revoked, restored or lapse: all while   *)
(* the owner is being reminded, over channels whose answers may be lost.   *)
(* What a release is worth now is never stored; every read and every       *)
(* reminder derives it again from the retained facts and the clock.        *)
(***************************************************************************)
EXTENDS Integers, Sequences, FiniteSets, FiniteSetsExt, SequencesExt

CONSTANTS
    Open, Final, Close,   \* first open, last open and last close of the window
    Cases                 \* bounds, one chosen at the start: instants, scopes in
                          \* play, reports, revisions of the qualification,
                          \* attempts, and the requests the host may make

ASSUME WindowOrder == Open \in Nat /\ Final \in Nat /\ Close \in Nat
                      /\ Open <= Final /\ Final <= Close

(* A reminder as the host may ask for it; a retry is named when it is made. *)
ReminderRequests ==
    [kind : {"INITIAL", "FINAL", "CORRECTION"}, quiet : Nat, enabled : BOOLEAN, retry : {0},
     primary : {"ACCEPTED", "REJECTED", "UNKNOWN"}, fallback : {"ACCEPTED", "REJECTED", "UNKNOWN"}]

ASSUME CasesAssumption ==
    \A c \in Cases : c.time \in Nat \ {0} /\ c.until \subseteq Nat /\ c.requests \subseteq ReminderRequests

VARIABLES
    bound,      \* the member of Cases this behaviour stays within
    now,        \* the host clock
    reports,    \* published candidate reports of one month, in event order
    revisions,  \* the qualification lineage, each revising the one before
    attempts    \* retained reminder records, in the order recorded

vars == <<bound, now, reports, revisions, attempts>>

Never == 0
Gone == {"SUPERSEDED", "INVALIDATED", "EXPIRED"}
Eligible == {"CURRENT", "WAITING_MARKET"}
Usable == {"VALID", "AT_RISK"}

-----------------------------------------------------------------------------
(* Facts committed by other journeys.                                      *)

(* An original release of a scope, or the correction of the latest one.  It *)
(* names candidates only under a qualification that stands.                *)
Publish(scope, holds) ==
    LET own == {i \in DOMAIN reports : reports[i].scope = scope}
        basis == revisions[Len(revisions)]
    IN  /\ Len(reports) < bound.reports
        /\ holds => basis.status \in Usable /\ now <= basis.until
        /\ reports' = Append(reports,
               [scope |-> scope, holds |-> holds, at |-> now, fixed |-> Never,
                qual |-> Len(revisions), corrects |-> IF own = {} THEN 0 ELSE Max(own)])
        /\ UNCHANGED <<bound, now, revisions, attempts>>

(* The research a release rests on is corrected. *)
CorrectResearch(i) ==
    /\ bound.research
    /\ i \in DOMAIN reports /\ reports[i].fixed = Never
    /\ reports' = [reports EXCEPT ![i].fixed = now]
    /\ UNCHANGED <<bound, now, revisions, attempts>>

(* Governance revises the qualification.  A revocation is final, and one   *)
(* that has lapsed is suspended before anything extends it.                *)
Govern(status, until) ==
    LET latest == revisions[Len(revisions)]
    IN
    /\ Len(revisions) < bound.revisions
    /\ latest.status # "REVOKED"
    /\ latest.status \in Usable /\ latest.until < now /\ status \in Usable => until = latest.until
    /\ revisions' = Append(revisions, [status |-> status, at |-> now, until |-> until])
    /\ UNCHANGED <<bound, now, reports, attempts>>

Tick ==
    /\ now < bound.time
    /\ now' = now + 1
    /\ UNCHANGED <<bound, reports, revisions, attempts>>

-----------------------------------------------------------------------------
(* What a release is worth at an instant.                                  *)

(* Past the last close of the window saved with the release. *)
Ended == now > Close

Successors(i) == {j \in DOMAIN reports : reports[j].corrects = i}

BreaksNow(i, t) ==
    LET seen == {k \in reports[i].qual..Len(revisions) : revisions[k].at <= t}
    IN  {k \in {Max(seen)} : revisions[k].status \notin Usable}

(* The first revision since the release's own that broke its authority. *)
Breaks(i, t) ==
    {k \in reports[i].qual..Len(revisions) :
        revisions[k].at <= t /\ revisions[k].status \notin Usable}

(* The revision that disqualifies a release at t, if any does; 0 when its   *)
(* own was not yet recorded.                                                *)
Disqualifying(i, t) ==
    LET own == reports[i].qual
        latest == Max({k \in own..Len(revisions) : revisions[k].at <= t})
    IN  IF revisions[own].at > t THEN {0}
        ELSE IF Breaks(i, t) # {} THEN {Min(Breaks(i, t))}
        ELSE IF revisions[own].until < t THEN {own}
        ELSE IF revisions[latest].until < t THEN {latest}
        ELSE {}

Status(i) ==
    IF Successors(i) # {} THEN "SUPERSEDED"
    ELSE IF ~reports[i].holds THEN "RESULT"
    ELSE IF Ended THEN "EXPIRED"
    ELSE IF now > revisions[reports[i].qual].until THEN "INVALIDATED"
    ELSE IF reports[i].fixed # Never THEN "INVALIDATED"
    ELSE IF Disqualifying(i, now) # {} THEN "INVALIDATED"
    ELSE IF now < Open THEN "WAITING_MARKET"
    ELSE "CURRENT"

(* The fact that withdrew a release, as of the end of its window: what     *)
(* happens afterwards withdraws nothing.                                   *)
WithdrawalAt == Min({now, Close})

Withdrawal(i) ==
    IF \E j \in Successors(i) : reports[j].at <= WithdrawalAt
        THEN {<<"report", CHOOSE j \in Successors(i) : TRUE>>}
    ELSE IF ~reports[i].holds THEN {}
    ELSE IF reports[i].fixed # Never /\ reports[i].fixed <= WithdrawalAt THEN {<<"research", i>>}
    ELSE IF Disqualifying(i, WithdrawalAt) # {}
        THEN {IF k = 0 THEN <<"report", i>> ELSE <<"revision", k>> :
                 k \in Disqualifying(i, WithdrawalAt)}
    ELSE IF Status(i) \in Gone THEN {<<"report", i>>}
    ELSE {}

-----------------------------------------------------------------------------
(* Reminders.                                                              *)

Requests == bound.requests

(* A routing attempt that may have reached the owner. *)
Reached(a) == a.status = "ATTEMPTED" /\ \E c \in a.channels : c # "REJECTED"
Delivered(a) == "ACCEPTED" \in a.channels

(* Alerts of a report that named candidates. *)
PriorAlerts(i) ==
    {n \in DOMAIN attempts : /\ attempts[n].report = i /\ attempts[n].kind # "CORRECTION"
                             /\ Reached(attempts[n]) /\ reports[i].holds}

(* What a correction is about: the withdrawing fact, else what makes the   *)
(* report no longer the one to read, its replacement, else the report.     *)
MaterialFacts(i) ==
    IF Withdrawal(i) # {} THEN Withdrawal(i)
    ELSE IF Successors(i) # {} THEN {<<"report", j>> : j \in Successors(i)}
    ELSE {<<"report", i>>}

IntentOfReport(i, kind) ==
    IF kind = "CORRECTION" THEN <<kind, i, MaterialFacts(i)>> ELSE <<kind, i, {}>>

(* One initial and one final intent a month, whatever the report; a        *)
(* correction is bound to its report and to the withdrawing fact.          *)
Intent(i, kind) ==
    IF kind = "CORRECTION" THEN <<kind, i, MaterialFacts(i)>> ELSE <<kind, 0, {}>>

MayRemind(i, kind) ==
    /\ kind # "CORRECTION" => /\ Successors(i) = {}
                              /\ reports[i].holds => Status(i) \in Eligible
    /\ kind = "FINAL" => /\ Status(i) \in Eligible /\ reports[i].holds
                         /\ now < Final
    /\ kind = "CORRECTION" => Status(i) \in Gone /\ PriorAlerts(i) # {}

(* A retry names an attempt of the same intent that came due or failed,    *)
(* and that was not retried before.                                        *)
MayRetry(i, r) ==
    /\ r.retry \in DOMAIN attempts
    /\ attempts[r.retry].intent = Intent(i, r.kind)
    /\ attempts[r.retry].report = i
    /\ \A n \in DOMAIN attempts : attempts[n].retry # r.retry
    /\ \/ /\ attempts[r.retry].status = "DEFERRED"
          /\ now >= attempts[r.retry].quiet
          /\ r.quiet = attempts[r.retry].quiet
       \/ /\ attempts[r.retry].status = "ATTEMPTED"
          /\ ~Delivered(attempts[r.retry])

MayStart(i, r) == \A n \in DOMAIN attempts : attempts[n].intent # Intent(i, r.kind)

(* A new record, not the repetition of one already retained; a PLAN_READY  *)
(* request never makes one.                                                *)
Accepts(i, r) ==
    /\ MayRemind(i, r.kind)
    /\ IF r.retry = 0 THEN MayStart(i, r) ELSE MayRetry(i, r)

(* Quiet hours give way while the owner may still rely on the release. *)
HarmfulDelay(i, r) ==
    r.kind = "CORRECTION" /\ now < r.quiet /\ now < Close /\ PriorAlerts(i) # {}

Routed(i, r) ==
    IF ~r.enabled /\ r.kind # "CORRECTION" THEN "DISABLED"
    ELSE IF now < r.quiet /\ ~HarmfulDelay(i, r) THEN "DEFERRED"
    ELSE "ATTEMPTED"

Channels(i, r) ==
    IF Routed(i, r) # "ATTEMPTED" THEN {}
    ELSE {r.primary} \union
         (IF r.primary # "ACCEPTED" \/ HarmfulDelay(i, r) THEN {r.fallback} ELSE {})

(* candidate_reminder: decided and recorded in one serialized transaction. *)
Remind(i, r) ==
    /\ Len(attempts) < bound.attempts
    /\ i \in DOMAIN reports
    /\ Accepts(i, r)
    /\ attempts' = Append(attempts,
           [report |-> i, kind |-> r.kind, intent |-> Intent(i, r.kind), retry |-> r.retry,
            status |-> Routed(i, r), channels |-> Channels(i, r), quiet |-> r.quiet])
    /\ UNCHANGED <<bound, now, reports, revisions>>

-----------------------------------------------------------------------------
Init ==
    /\ bound \in Cases
    /\ now = 1
    /\ reports = <<>>
    /\ revisions \in {<<[status |-> "VALID", at |-> 0, until |-> until]>> : until \in bound.until}
    /\ attempts = <<>>

Next ==
    \/ \E scope \in bound.scopes, holds \in BOOLEAN : Publish(scope, holds)
    \/ \E i \in 1..bound.reports : CorrectResearch(i)
    \/ \E status \in {"VALID", "AT_RISK", "SUSPENDED", "REVOKED"},
          until \in bound.until : Govern(status, until)
    \/ \E i \in 1..bound.reports, r \in Requests, n \in 0..Len(attempts) :
          Remind(i, [r EXCEPT !.retry = n])
    \/ Tick

Spec == Init /\ [][Next]_vars

-----------------------------------------------------------------------------
(* Properties.                                                             *)

(* A month has one initial and one final intent, however often releases of *)
(* the month are corrected or requests repeated: of one intent, each        *)
(* attempt but the first retries one that failed or came due, none is       *)
(* retried twice, and only the last can have been accepted.                 *)
OneIntent ==
    \A m, n \in DOMAIN attempts :
        m < n /\ attempts[m].kind = attempts[n].kind
          /\ (attempts[m].kind = "CORRECTION" => attempts[m].intent = attempts[n].intent) =>
            /\ ~Delivered(attempts[m])
            /\ attempts[n].retry >= m
            /\ attempts[m].report = attempts[n].report

(* The deadline of the qualification a release was published under passes   *)
(* while a later revision of it has already lapsed.                         *)
OwnLapsesLast(i) ==
    LET own == reports[i].qual
    IN  /\ Withdrawal(i) = {<<"revision", Len(revisions)>>} /\ revisions[Len(revisions)].until < now
        /\ revisions[own].until = now

(* A withdrawn release stays withdrawn, and the fact that withdrew it       *)
(* changes neither with the clock nor, once the window has closed, with     *)
(* anything committed later: expiry, a restored qualification or a late     *)
(* correction does not turn one withdrawal into another, which would let a  *)
(* second correction notice through.  One case escapes, and no other: the   *)
(* eligibility check asks for the release's own deadline before the latest  *)
(* one (current_eligibility.py:115), so a release withdrawn by the lapse of *)
(* a later revision is withdrawn anew when its own revision lapses too.     *)
WithdrawalIsLasting ==
    [][\A i \in DOMAIN reports :
          /\ Status(i) \in Gone => Status(i)' \in Gone
          /\ Withdrawal(i) # {} /\ (now' # now \/ Ended) =>
                \/ Withdrawal(i)' = Withdrawal(i)
                \/ OwnLapsesLast(i) /\ Withdrawal(i)' = {<<"revision", reports[i].qual>>}]_vars

(* An owner who may have been told of candidates that no longer stand can   *)
(* be told so: a correction was accepted, or is deferred until quiet hours  *)
(* end, or the host would accept one now.                                   *)
WithdrawalCanBeTold ==
    \A i \in DOMAIN reports :
        Status(i) \in Gone
          /\ (\E n \in DOMAIN attempts :
                /\ attempts[n].report = i /\ attempts[n].kind # "CORRECTION"
                /\ reports[i].holds /\ attempts[n].channels \ {"REJECTED"} # {}) =>
            \/ \E n \in DOMAIN attempts :
                  /\ attempts[n].intent = Intent(i, "CORRECTION")
                  /\ Delivered(attempts[n])
                     \/ (attempts[n].status = "DEFERRED" /\ now < attempts[n].quiet)
            \/ \E n \in 0..Len(attempts), q \in 0..bound.time :
                  Accepts(i, [kind |-> "CORRECTION", quiet |-> q, enabled |-> TRUE, retry |-> n,
                              primary |-> "ACCEPTED", fallback |-> "ACCEPTED"])

(* Reminders are neither repeated nor left standing: one intent of each     *)
(* kind, and a withdrawal that can be announced.                            *)
RemindersAreSound == OneIntent /\ WithdrawalCanBeTold
=============================================================================
