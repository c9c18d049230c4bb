SPECIFICATION Spec
INVARIANTS
    TypeOK
    RequestsAreUnderstood
PROPERTIES
    ActsAtMostOnce
    KeepsAnswering
CHECK_DEADLOCK FALSE
