------------------------ MODULE MCWorkspaceCommands ------------------------
(* Instances of WorkspaceCommands for TLC: what withdraws a release, one   *)
(* release's routing, a month's two scopes, and commands on plans.         *)
EXTENDS WorkspaceCommands

Request(kinds, quiets, enabled, primary, fallback) ==
    {[kind |-> k, quiet |-> q, enabled |-> e, retry |-> 0, primary |-> p, fallback |-> f] :
        k \in kinds, q \in quiets, e \in enabled, p \in primary, f \in fallback}

Kinds == {"INITIAL", "FINAL", "CORRECTION"}

NoCommands == [senders |-> 0, commands |-> {}, events |-> 0, inputs |-> 0]
NoReminders == [attempts |-> 0, requests |-> {}, scopes |-> {"s"}]

Command(op, key) == [op |-> op, key |-> key]

MCCases ==
    { NoCommands @@ [time |-> 4, until |-> {4}, scopes |-> {"s"}, reports |-> 2, revisions |-> 3,
       research |-> FALSE, attempts |-> 2,
       requests |-> Request({"INITIAL", "CORRECTION"}, {0}, {TRUE}, {"UNKNOWN"}, {"REJECTED"})],
      NoCommands @@ [time |-> 4, until |-> {4}, scopes |-> {"s"}, reports |-> 2, revisions |-> 2,
       research |-> TRUE, attempts |-> 2,
       requests |-> Request({"INITIAL", "CORRECTION"}, {0}, {TRUE}, {"UNKNOWN"}, {"REJECTED"})],
      NoCommands @@ [time |-> 4, until |-> {2}, scopes |-> {"s"}, reports |-> 1, revisions |-> 1,
       research |-> FALSE, attempts |-> 3,
       requests |-> Request(Kinds, {0, 3}, BOOLEAN, {"ACCEPTED", "REJECTED", "UNKNOWN"},
                            {"ACCEPTED", "REJECTED"})],
      NoCommands @@ [time |-> 2, until |-> {4}, scopes |-> {"s", "t"}, reports |-> 3, revisions |-> 1,
       research |-> FALSE, attempts |-> 3,
       requests |-> Request(Kinds, {0}, {TRUE}, {"ACCEPTED", "REJECTED"}, {"REJECTED"})],
      NoCommands @@ [time |-> 4, until |-> {1, 2, 4}, scopes |-> {"s"}, reports |-> 1, revisions |-> 3,
       research |-> FALSE, attempts |-> 0, requests |-> {}],
      NoReminders @@ [time |-> 2, until |-> {2}, reports |-> 1, revisions |-> 2, research |-> TRUE,
       senders |-> 2, events |-> 2, inputs |-> 2, commands |-> {Command("CONFIRM", 1)}],
      NoReminders @@ [time |-> 2, until |-> {2}, reports |-> 1, revisions |-> 1, research |-> FALSE,
       senders |-> 2, events |-> 3, inputs |-> 1, commands |-> {Command("CONFIRM", 1)}],
      NoReminders @@ [time |-> 4, until |-> {4}, reports |-> 2, revisions |-> 1, research |-> FALSE,
       senders |-> 1, events |-> 2, inputs |-> 1,
       commands |-> {Command("REPLAN", 1), Command("CONFIRM", 2)}],
      NoReminders @@ [time |-> 1, until |-> {1}, reports |-> 1, revisions |-> 1, research |-> FALSE,
       senders |-> 2, events |-> 3, inputs |-> 2,
       commands |-> {Command("REPLAN", 1), Command("CONFIRM", 2)}],
      NoReminders @@ [time |-> 1, until |-> {1}, reports |-> 1, revisions |-> 1, research |-> FALSE,
       senders |-> 1, events |-> 4, inputs |-> 1,
       commands |-> {Command("CONFIRM", 1), Command("DECLARE", 2), Command("REVIEW_STEP", 3)}],
      NoReminders @@ [time |-> 1, until |-> {1}, reports |-> 1, revisions |-> 1, research |-> FALSE,
       senders |-> 1, events |-> 4, inputs |-> 1,
       commands |-> {Command("CONFIRM", 1), Command("WITHDRAW", 2), Command("REVIEW", 3)}] }
=============================================================================
