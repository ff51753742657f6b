CONSTANTS
    Scheduler = "systemd"
    SlotsPerDay = 8
    SlotOf <- TimerSlots
    DaysPerWeek = 2
    DaysPerMonth = 3
    LockWait = 5
    JobSlots = 1
    MaxOutages = 2
    MaxFailures = 1
    MaxDay = 4
SPECIFICATION Spec
INVARIANTS ReportsComplete ReportedInTime
PROPERTY CaughtUp
