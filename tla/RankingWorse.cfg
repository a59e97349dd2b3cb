\* What the query finds.
SPECIFICATION Spec
CONSTANTS
  Considered <- MCConsidered
  Resistances <- MCResistances
  Items <- MCItems
  Swaps = {"Offhand2"}
  Fits <- MCFits
  GoalChoices <- MCGoalChoices
  Weight <- MCWeight
  Bundled <- MCBundled
  OwnIDs <- MCOwnIDs
  BudgetMax = 1
  NoItem = NoItem
INVARIANTS FindsAtLeastAsGood
