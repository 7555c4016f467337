---------------------------- MODULE FormalRecord ----------------------------
(***************************************************************************)
(* What the decision ledger promises a reader, whatever processes, crashes *)
(* and lost acknowledgements lie behind it: each identity has at most one  *)
(* original and one correction, each is committed before it is shown, is   *)
(* never taken back, and a hidden (SHADOW) identity is never shown.        *)
(***************************************************************************)
CONSTANTS Objects, Hidden

VARIABLE state

Versions == Objects \X {"original", "correction"}

Init == state = [e \in Versions |-> "absent"]

CommitOriginal(o) ==
    /\ state[<<o, "original">>] = "absent"
    /\ state' = [state EXCEPT ![<<o, "original">>] = "committed"]

CommitCorrection(o) ==
    /\ state[<<o, "original">>] = "shown"
    /\ state[<<o, "correction">>] = "absent"
    /\ state' = [state EXCEPT ![<<o, "correction">>] = "committed"]

Show(e) ==
    /\ state[e] = "committed"
    /\ e[1] \notin Hidden
    /\ state' = [state EXCEPT ![e] = "shown"]

Next == \/ \E o \in Objects : CommitOriginal(o) \/ CommitCorrection(o)
        \/ \E e \in Versions : Show(e)

Spec == Init /\ [][Next]_state
=============================================================================
