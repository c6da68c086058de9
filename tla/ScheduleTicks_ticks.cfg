\* One schedule, two ticks at a time, one update in all, one
\* fault, three instants; both backends.
CONSTANTS
    s1 = s1
    k1 = k1
    k2 = k2
    e1 = e1
    hourly = hourly
    daily = daily
    Schedule = {s1}
    Tick = {k1, k2}
    Editor = {e1}
    Cron = {hourly, daily}
    NextSlot <- Slots
    Rules <- SomeRules
    Updates <- AllUpdates
    ConcurrencyLimit = 1
    MaxTime = 2
    MaxEdits = 1
    MaxFaults = 1
SPECIFICATION FairSpec
INVARIANTS TypeOK RepeatNeedsRaceOrFault NeverOversleeps
PROPERTIES DeletedStaysDeleted DueIsServed
