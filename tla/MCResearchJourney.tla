------------------------- MODULE MCResearchJourney -------------------------
EXTENDS ResearchJourney

Plain == [mode |-> "current", failure_mode |-> "NONE", incomplete |-> {}, rejected |-> {},
          trained |-> TRUE]

\* A current case with a member the risk Definition rejects, a historical one
\* that lacks required facts, and two legacy aggregates: one that the risk
\* Definition accepts and one whose raw scores are refused.
MCCommands == {[Plain EXCEPT !.rejected = {2}],
               [Plain EXCEPT !.mode = "historical", !.incomplete = {2}],
               [Plain EXCEPT !.mode = "legacy"],
               [Plain EXCEPT !.mode = "legacy", !.trained = FALSE]}
=============================================================================
