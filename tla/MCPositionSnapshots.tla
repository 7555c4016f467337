------------------------ MODULE MCPositionSnapshots ------------------------
(* Instances of PositionSnapshots for TLC. *)
EXTENDS PositionSnapshots

CONSTANTS s1, s2, x1, x2

MCIssuer == s1 :> x1 @@ s2 :> x2

Case(time, most, snapshots, accounts, views, feed, sells) ==
    [time |-> time, facts |-> most, snapshots |-> snapshots, accounts |-> accounts,
     views |-> views, feed |-> feed, sells |-> sells]

Other == {"unlisted", "total", "sellable", "inexact", "position", "order", "selling",
          "opening", "unopened", "manifest", "cash", "reserve"}

MCCases ==
    { Case(2, 2, 2, {"a"}, {"production"}, {"omit", "quantity", "repeat", "early"}, FALSE),
      Case(1, 2, 2, {"a"}, {"production"}, {"security", "evidence", "clock", "lineage", "fee"}, FALSE),
      Case(2, 1, 2, {"a"}, {"production"}, Other, TRUE),
      Case(2, 1, 3, {"a"}, {"production"}, {"omit", "quantity", "early", "opening"}, FALSE),
      Case(1, 1, 2, {"a", "b"}, {"production", "shadow"}, {"omit", "opening", "manifest"}, FALSE),
      Case(2, 3, 2, {"a"}, {"production"}, {"omit"}, FALSE) }
=============================================================================
