\* Every request over small models, with every order of gains.
SPECIFICATION Spec
CONSTANTS
  Models <- SmallModels
  Budgets <- SomeBudgets
  Minimums <- SomeMinimums
  Benefits = {0, 1}
  Alignments = {1, 2}
  Averages = {400, 480, 620, 710, 790, 880, 1050, 1270, 1600}
INVARIANTS
  NeverFails
  ExactCounts
  MinimumsMet
  BudgetSpent
  BlocksAligned
  StrongestUpgraded
  PercentagesHonest
PROPERTY
  Ends
CHECK_DEADLOCK FALSE
