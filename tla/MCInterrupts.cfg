SPECIFICATION Spec
CONSTANT Lines <- MCLines
INVARIANT TypeOK
INVARIANT NothingLeftInService
INVARIANT VectorNamesLine
INVARIANT DriverMatchesLine
INVARIANT ReadyBeforeEnabled
PROPERTY DeliversSafely
PROPERTY DeliversInterrupts
PROPERTY ServedUnlessOutranked
