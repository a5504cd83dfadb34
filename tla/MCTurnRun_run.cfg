\* Every caller, every failure of the connection, the turn and the resume.
\* A run ends, so the model may stop.
SPECIFICATION Spec
CONSTANTS
  Budgets <- SomeBudgets
INVARIANTS SubagentSpawnsNothing NoTurnTwice ResultTruthful OnlyUninitializedLeft
CHECK_DEADLOCK FALSE
