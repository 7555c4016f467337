SPECIFICATION EpochSpec
CONSTANTS
  Horizons <- MCHorizons
  OpeningCash = 2
  Costs <- MCCosts
  MaxShares = 1
  Budgets <- MCBudgets
  DrawdownPolicy <- MCPolicy
INVARIANT UnitsAreFair
PROPERTY RecoveryIsEarned
PROPERTY CoolingIsIdle
CHECK_DEADLOCK FALSE
