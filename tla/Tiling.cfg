CONSTANT Settings <- MCSettings
SPECIFICATION Spec
INVARIANTS BlocksIndependent EvaluatedInTurn SlabsFinalBeforeSend WholeRankDone
PROPERTIES RespectsOrder
