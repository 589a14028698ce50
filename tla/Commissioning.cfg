SPECIFICATION Spec
CONSTANTS
  Lamp = Lamp
  Plug = Plug
  Devices <- Nodes
  Elements <- TheirElements
  Bearers <- TheirBearers
  Budgets <- MCBudgets
INVARIANT SwitchesAgree AvailableAfterTwoRounds AtRestIsBound AutoMissesNone
CHECK_DEADLOCK FALSE
