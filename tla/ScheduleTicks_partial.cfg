\* One schedule, one update that names only the title; no fault.
CONSTANTS
    s1 = s1
    k1 = k1
    k2 = k2
    e1 = e1
    hourly = hourly
    daily = daily
    Schedule = {s1}
    Tick = {k1}
    Editor = {e1}
    Cron = {hourly, daily}
    NextSlot <- Slots
    Rules <- SomeRules
    Updates <- AllUpdates
    ConcurrencyLimit = 1
    MaxTime = 1
    MaxEdits = 1
    MaxFaults = 0
SPECIFICATION Spec
INVARIANT UpdateKeepsEvent
