SPECIFICATION Spec
INVARIANTS OperandsHold ContextSaved TargetsRight
CHECK_DEADLOCK FALSE
