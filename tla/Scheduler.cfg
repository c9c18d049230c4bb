SPECIFICATION FairSpec
CONSTANTS
    Wrap = 9
    Behind = {"none"}
    Periods = {2}
    Actives = {TRUE}
    MaxLag = 2
    MaxSwallowed = 1
    MaxTasks = 3
    MaxCalls = 1
INVARIANTS
    TypeOK
    CountsDoNotWrap
PROPERTIES
    ServedInPass
    EveryTaskRuns
