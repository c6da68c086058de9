\* One reflex, an event it may match, two tool calls, a poll and one handler
\* at a time, two writes and one fault; both backends.  The table, the tools
\* and the events come to rest when the bounds are used up.
CONSTANTS
    r1 = r1
    e1 = e1
    t1 = t1
    t2 = t2
    q1 = q1
    h1 = h1
    Reflex = {r1}
    Event = {e1}
    Plain = {}
    Tool = {t1, t2}
    Poll = {q1}
    Handler = {h1}
    MaxWrites = 2
    MaxFaults = 1
SPECIFICATION FairSpec
INVARIANTS TypeOK AnsweredIsInEffect ReflexSkipsAnalysis
PROPERTIES CacheCatchesUp EveryEventSettles
CHECK_DEADLOCK FALSE
