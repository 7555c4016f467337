-------------------------- MODULE MCDrawdownEpochs --------------------------
EXTENDS DrawdownEpochs

MCCosts == [n \in 0 .. 1 |-> IF n = 0 THEN {0} ELSE {1}]

Cash(c1, c2) == [cash |-> <<c1, c2>>, shares |-> <<0, 0>>]
InKind(q1, q2) == [cash |-> <<0, 0>>, shares |-> <<q1, q2>>]

(* Two transfers between observations, from outside or between accounts; a *)
(* market that falls and recovers; trades around the closing and cooling.  *)
MCHorizons ==
    {[days |-> 2, transfers |-> 2, trades |-> 0, shares |-> 1, prices |-> {1, 4},
      moves |-> {Cash(2, 0), Cash(-2, 0), InKind(1, 0), InKind(-1, 0)}],
     [days |-> 1, transfers |-> 2, trades |-> 0, shares |-> 1, prices |-> {1, 4},
      moves |-> {Cash(1, 1), Cash(-2, 2), InKind(-1, 1)}],
     [days |-> 4, transfers |-> 0, trades |-> 0, shares |-> 1, prices |-> {1, 4},
      moves |-> {}],
     [days |-> 4, transfers |-> 0, trades |-> 2, shares |-> 0, prices |-> {1},
      moves |-> {}]}

MCBudgets ==
    <<[caution |-> <<1, 3>>, defensive |-> <<1, 2>>, preservation |-> <<3, 4>>, expires |-> 4],
      [caution |-> <<2, 5>>, defensive |-> <<3, 5>>, preservation |-> <<3, 4>>, expires |-> 9]>>

MCPolicy ==
    [cautionRatio |-> <<1, 5>>, defensiveRatio |-> <<2, 5>>, cautionSessions |-> 2,
     defensiveSessions |-> 1, cooling |-> 2, exposure |-> <<1, 2>>]
=============================================================================
