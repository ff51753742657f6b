CONSTANTS
    MaxDay = 4
    Retention = 1
    MaxManual = 1
    Faults = {"render", "exit", "push"}
    CalmFrom = 4
SPECIFICATION Spec
INVARIANTS SiteNavigable ShownIsSaved
PROPERTIES FrontPageForward Recovers
