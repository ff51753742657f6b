CONSTANTS
    Scheduler = "cron"
    SlotsPerDay = 8
    SlotOf <- DispatcherSlots
    DaysPerWeek = 2
    DaysPerMonth = 3
    LockWait = 5
    JobSlots = 1
    MaxOutages = 0
    MaxFailures = 0
    MaxDay = 4
SPECIFICATION Spec
INVARIANT WeekCovered
