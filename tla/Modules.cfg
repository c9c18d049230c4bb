SPECIFICATION Spec
INVARIANTS
    TypeOK
    ModulesAreKnown
PROPERTIES
    StepsKeepPromises
    ModulesComeUp
