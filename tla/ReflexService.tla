---------------------------- MODULE ReflexService ----------------------------
(***************************************************************************)
(* The reflex service: the reflexes table, the tools that change it, the   *)
(* in-memory ReflexCache, and the handler that answers an event with the   *)
(* reflex it finds in the cache.                                           *)
(*                                                                         *)
(* On Firestore a listener feeds the cache.  On a document store the       *)
(* repository polls (setInterval does not wait for the last poll), every   *)
(* tool call reads the table again after its write, and whichever read is  *)
(* answered last is what the cache holds.                                  *)
(***************************************************************************)
EXTENDS Naturals, FiniteSets

CONSTANTS
    Reflex,    \* ids; create draws a new one
    Event,
    Plain,     \* events no reflex matches
    Tool,      \* bound: tool calls that run at one time
    Poll,      \* bound: polls that run at one time
    Handler,   \* bound: events handled at one time
    MaxWrites, \* bound: writes of the table
    MaxFaults  \* bound: calls that fail, redeliveries, crashes of the handler

ASSUME ReflexAssumption ==
    /\ Plain \subseteq Event
    /\ IsFiniteSet(Tool)
    /\ Tool \intersect Poll = {}
    /\ "initial" \notin Tool \union Poll
    /\ MaxWrites \in Nat
    /\ MaxFaults \in Nat

VARIABLES
    backend,  \* "firestore" or "document"
    row,      \* [Reflex -> "absent", "on", "off"]: active is on
    writes,   \* writes of the table so far
    phase,    \* "loading" until initialize has subscribed, then "ready"
    cache,    \* ReflexCache.cache: what was read, and when
    held,     \* cachedReflexes of the document repository
    read,     \* [Reader -> reads that are not answered yet]
    tool,     \* [Tool -> state of the call]
    bus,      \* [Event -> "ready", "taken", "acked"]
    handler,  \* [Handler -> state of the call]
    faults,
    (* history variables, read by the properties only *)
    newest,   \* the latest table the cache has ever held
    wrote,    \* [Reflex -> number of its last write]
    settled,  \* reflexes whose last write was followed by an answer
    executed, \* events a reflex was executed for
    passed,   \* events given to the next step
    completed,\* events whose routing was completed
    lost,     \* events whose publication failed
    disturbed \* events delivered more than once

table == <<backend, row, writes, wrote>>
caches == <<phase, cache, held, read, newest>>
handling == <<bus, handler, executed, passed, completed, lost, disturbed>>
vars == <<backend, row, writes, phase, cache, held, read, tool, bus, handler,
          faults, newest, wrote, settled, executed, passed, completed, lost,
          disturbed>>

Reader == {"initial"} \union Poll \union Tool
Table == [at : 0..MaxWrites, on : SUBSET Reflex]
NoTable == [at |-> 0, on |-> {}]
NotReading == [reading |-> FALSE, table |-> NoTable]
Reading(t) == [reading |-> TRUE, table |-> t]

\* What a tool call asks for; draft: a create with active: false.
Change == {"create", "draft", "touch", "revive", "delete"}

\* writing: the existing reflex is read; refreshing: the row is written, and
\* the table is to be read for the cache.
NoCall == [stage |-> "idle"]
ToolCall == [stage : {"writing", "refreshing"}, id : Reflex,
             base : {"absent", "on", "off"}, change : Change]

NoEvent == [stage |-> "idle"]
HandlerCall == [stage : {"executing", "completing", "passing", "acking"}, event : Event]

TypeOK ==
    /\ backend \in {"firestore", "document"}
    /\ row \in [Reflex -> {"absent", "on", "off"}]
    /\ writes \in 0..MaxWrites
    /\ phase \in {"loading", "ready"}
    /\ cache \in Table
    /\ held \in Table
    /\ read \in [Reader -> [reading : BOOLEAN, table : Table]]
    /\ tool \in [Tool -> ToolCall \union {NoCall}]
    /\ bus \in [Event -> {"ready", "taken", "acked"}]
    /\ handler \in [Handler -> HandlerCall \union {NoEvent}]
    /\ faults \in 0..MaxFaults
    /\ newest \in 0..MaxWrites
    /\ wrote \in [Reflex -> 0..MaxWrites]
    /\ settled \subseteq Reflex
    /\ executed \subseteq Event
    /\ passed \subseteq Event
    /\ completed \subseteq Event
    /\ lost \subseteq Event
    /\ disturbed \subseteq Event

Current == [at |-> writes, on |-> {r \in Reflex : row[r] = "on"}]

\* The repository exists, and ReflexCache.initialize has asked for the table.
Init ==
    /\ backend \in {"firestore", "document"}
    /\ row \in [Reflex -> {"absent", "on"}]
    /\ writes = 0
    /\ phase = "loading"
    /\ cache = NoTable
    /\ held = NoTable
    /\ read = [q \in Reader |-> IF q = "initial" THEN Reading(Current) ELSE NotReading]
    /\ tool = [t \in Tool |-> NoCall]
    /\ bus = [e \in Event |-> "ready"]
    /\ handler = [h \in Handler |-> NoEvent]
    /\ faults = 0
    /\ newest = 0
    /\ wrote = [r \in Reflex |-> 0]
    /\ settled = {}
    /\ executed = {}
    /\ passed = {}
    /\ completed = {}
    /\ lost = {}
    /\ disturbed = {}

-----------------------------------------------------------------------------
(* Helpers.                                                                 *)

Fault == faults < MaxFaults /\ faults' = faults + 1

Later(m, n) == IF m > n THEN m ELSE n

\* ReflexCache.refresh.
Refresh(t) ==
    /\ cache' = t
    /\ newest' = Later(newest, t.at)

\* The document store is asked for the table.
Ask(q) ==
    /\ ~ read[q].reading
    /\ read' = [read EXCEPT ![q] = Reading(Current)]

Answered(q) == read' = [read EXCEPT ![q] = NotReading]

\* Mutant of Notify: the repository's copy is replaced, nobody is told.
NotifyNobody(q) ==
    /\ held' = read[q].table
    /\ UNCHANGED <<cache, newest>>

\* refreshCache once the table is there: the repository's copy is replaced and
\* the subscribers are called.
Notify(q) ==
    /\ held' = read[q].table
    /\ IF phase = "ready" THEN Refresh(read[q].table) ELSE UNCHANGED <<cache, newest>>

-----------------------------------------------------------------------------
(* The cache.                                                               *)

\* ReflexCache.initialize has its table: refresh, subscribe.  A document
\* repository with a copy calls back with it at once; without one it asks for
\* the table once more, in the background.
Initialize ==
    LET again == backend = "document" /\ held.on = {} IN
    /\ phase = "loading"
    /\ read["initial"].reading
    /\ phase' = "ready"
    /\ Refresh(IF backend = "document" /\ ~ again THEN held ELSE read["initial"].table)
    /\ read' = [read EXCEPT !["initial"] = IF again THEN Reading(Current) ELSE NotReading]
    /\ UNCHANGED <<table, held, tool, faults, settled, handling>>

\* The table asked for by subscribe arrives.
InitialAnswer ==
    /\ phase = "ready"
    /\ read["initial"].reading
    /\ Notify("initial")
    /\ Answered("initial")
    /\ UNCHANGED <<table, phase, tool, faults, settled, handling>>

\* The repository's interval.
BeginPoll(q) ==
    /\ backend = "document"
    /\ Ask(q)
    /\ UNCHANGED <<table, phase, cache, held, newest, tool, faults, settled, handling>>

PollAnswer(q) ==
    /\ read[q].reading
    /\ Notify(q)
    /\ Answered(q)
    /\ UNCHANGED <<table, phase, tool, faults, settled, handling>>

\* A query throws; the cache stays as it is.
ReadFails(q) ==
    /\ phase = "ready" \/ q \in Poll
    /\ read[q].reading
    /\ Fault
    /\ Answered(q)
    /\ UNCHANGED <<table, phase, cache, held, newest, tool, settled, handling>>

\* Firestore's listener, in the order of the writes.
Listen ==
    /\ backend = "firestore"
    /\ phase = "ready"
    /\ cache.at # writes
    /\ Refresh(Current)
    /\ UNCHANGED <<table, phase, held, read, tool, faults, settled, handling>>

-----------------------------------------------------------------------------
(* The tools.                                                               *)

Called(t, stage, r, change) ==
    tool' = [tool EXCEPT ![t] =
        [stage |-> stage, id |-> r, base |-> row[r], change |-> change]]

\* Writes that are still to come.
Pending == Cardinality({t \in Tool : tool[t].stage = "writing"})

\* create, or update and delete after they have read the reflex.
BeginTool(t, r, change) ==
    /\ writes + Pending < MaxWrites
    /\ tool[t].stage = "idle"
    /\ IF change \in {"create", "draft"}
       THEN row[r] = "absent" /\ \A u \in Tool : tool[u].stage = "writing" => tool[u].id # r
       ELSE row[r] # "absent"
    /\ Called(t, "writing", r, change)
    /\ UNCHANGED <<table, caches, faults, settled, handling>>

\* Mutant of Merged: a deletion is a status of its own, not active = false.
MergedStatus(t) ==
    CASE tool[t].change \in {"create", "revive"} -> "on"
      [] tool[t].change = "delete" -> "deleted"
      [] tool[t].change = "draft" -> "off"
      [] tool[t].change = "touch" -> row[tool[t].id]

\* The whole reflex is written on a document store, the named fields on
\* Firestore.
Merged(t) ==
    LET d == tool[t]
        base == IF backend = "document" THEN d.base ELSE row[d.id]
    IN  CASE d.change \in {"create", "revive"} -> "on"
          [] d.change \in {"draft", "delete"} -> "off"
          [] d.change = "touch" -> base

Write(t) ==
    /\ row' = [row EXCEPT ![tool[t].id] = Merged(t)]
    /\ writes' = writes + 1
    /\ wrote' = [wrote EXCEPT ![tool[t].id] = writes + 1]
    /\ settled' = settled \ {tool[t].id}

\* Mutant of ToolWrites: the tool answers when the row is written.
ToolWritesAndAnswers(t) ==
    /\ tool[t].stage = "writing"
    /\ row' = [row EXCEPT ![tool[t].id] = Merged(t)]
    /\ writes' = writes + 1
    /\ wrote' = [wrote EXCEPT ![tool[t].id] = writes + 1]
    /\ settled' = settled \union {tool[t].id}
    /\ tool' = [tool EXCEPT ![t] = NoCall]
    /\ UNCHANGED <<backend, caches, faults, handling>>

\* The row is written.  Firestore's tool answers, a document store's goes on to
\* read the table for the cache.
ToolWrites(t) ==
    /\ tool[t].stage = "writing"
    /\ Write(t)
    /\ tool' = IF backend = "document" THEN [tool EXCEPT ![t].stage = "refreshing"]
               ELSE [tool EXCEPT ![t] = NoCall]
    /\ UNCHANGED <<backend, caches, faults, handling>>

\* A call of the store throws; the row may have been written.
WriteFails(t) ==
    /\ tool[t].stage = "writing"
    /\ Fault
    /\ Write(t) \/ UNCHANGED <<row, writes, wrote, settled>>
    /\ tool' = [tool EXCEPT ![t] = NoCall]
    /\ UNCHANGED <<backend, caches, handling>>

\* refreshCache of the tool: the table is read.
ToolReads(t) ==
    /\ tool[t].stage = "refreshing"
    /\ Ask(t)
    /\ UNCHANGED <<table, phase, cache, held, newest, tool, faults, settled, handling>>

\* The cache is refreshed and the tool answers.
ToolAnswers(t) ==
    LET r == tool[t].id IN
    /\ tool[t].stage = "refreshing"
    /\ read[t].reading
    /\ Notify(t)
    /\ Answered(t)
    /\ tool' = [tool EXCEPT ![t] = NoCall]
    /\ settled' = IF phase = "ready" /\ wrote[r] <= read[t].table.at
                  THEN settled \union {r} ELSE settled
    /\ UNCHANGED <<table, phase, faults, handling>>

\* refreshCache throws: the tool reports a failure of what was stored.
RefreshFails(t) ==
    /\ tool[t].stage = "refreshing"
    /\ read[t].reading
    /\ Fault
    /\ Answered(t)
    /\ tool' = [tool EXCEPT ![t] = NoCall]
    /\ UNCHANGED <<table, phase, cache, held, newest, settled, handling>>

-----------------------------------------------------------------------------
(* The handler of internal.reflex.v1.                                       *)

ToStage(h, stage) == handler' = [handler EXCEPT ![h].stage = stage]

\* selectReflexes on the cache: a match is executed, else the event goes on; an
\* error on the way completes the event.
Select(h, e) ==
    LET found == e \notin Plain /\ cache.on # {}
        Take(stage) == handler' = [handler EXCEPT ![h] = [stage |-> stage, event |-> e]]
    IN
    /\ phase = "ready"
    /\ handler[h].stage = "idle"
    /\ bus[e] = "ready"
    /\ bus' = [bus EXCEPT ![e] = "taken"]
    /\ \/ Take(IF found THEN "executing" ELSE "passing") /\ UNCHANGED faults
       \/ Take("completing") /\ Fault
    /\ UNCHANGED <<table, caches, tool, settled, executed, passed, completed,
                   lost, disturbed>>

\* Mutant of Execute: a tool that fails gives the event to the next step.
ExecuteOrPass(h) ==
    /\ handler[h].stage = "executing"
    /\ executed' = executed \union {handler[h].event}
    /\ \E stage \in {"completing", "passing"} : ToStage(h, stage)
    /\ UNCHANGED <<table, caches, tool, faults, settled, bus, passed, completed,
                   lost, disturbed>>

\* executeReflex, whatever becomes of it, and the report of it.
Execute(h) ==
    /\ handler[h].stage = "executing"
    /\ executed' = executed \union {handler[h].event}
    /\ ToStage(h, "completing")
    /\ UNCHANGED <<table, caches, tool, faults, settled, bus, passed, completed,
                   lost, disturbed>>

\* Mutant of Route: an error of complete or next leaves the handler, and the
\* message is not acked.
RouteOrThrow(h) ==
    LET e == handler[h].event IN
    /\ handler[h].stage \in {"completing", "passing"}
    /\ \/ /\ handler[h].stage = "completing"
          /\ completed' = completed \union {e}
          /\ ToStage(h, "acking")
          /\ UNCHANGED <<passed, lost, faults>>
       \/ /\ handler[h].stage = "passing"
          /\ passed' = passed \union {e}
          /\ ToStage(h, "acking")
          /\ UNCHANGED <<completed, lost, faults>>
       \/ /\ Fault
          /\ lost' = lost \union {e}
          /\ handler' = [handler EXCEPT ![h] = NoEvent]
          /\ UNCHANGED <<passed, completed>>
    /\ UNCHANGED <<table, caches, tool, settled, bus, executed, disturbed>>

\* complete or next; an error is logged and the message acked all the same.
Route(h) ==
    LET e == handler[h].event IN
    /\ handler[h].stage \in {"completing", "passing"}
    /\ \/ /\ handler[h].stage = "completing"
          /\ completed' = completed \union {e}
          /\ UNCHANGED <<passed, lost, faults>>
       \/ /\ handler[h].stage = "passing"
          /\ passed' = passed \union {e}
          /\ UNCHANGED <<completed, lost, faults>>
       \/ /\ Fault
          /\ lost' = lost \union {e}
          /\ UNCHANGED <<passed, completed>>
    /\ ToStage(h, "acking")
    /\ UNCHANGED <<table, caches, tool, settled, bus, executed, disturbed>>

\* ctx.ack(), which may be lost.
Acknowledge(h) ==
    LET e == handler[h].event IN
    /\ handler[h].stage = "acking"
    /\ handler' = [handler EXCEPT ![h] = NoEvent]
    /\ \/ bus' = [bus EXCEPT ![e] = "acked"] /\ UNCHANGED <<faults, disturbed>>
       \/ /\ Fault
          /\ bus' = [bus EXCEPT ![e] = "ready"]
          /\ disturbed' = disturbed \union {e}
    /\ UNCHANGED <<table, caches, tool, settled, executed, passed, completed, lost>>

\* The lease lapses under the handler.
Redeliver(e) ==
    /\ bus[e] = "taken"
    /\ Fault
    /\ bus' = [bus EXCEPT ![e] = "ready"]
    /\ disturbed' = disturbed \union {e}
    /\ UNCHANGED <<table, caches, tool, handler, settled, executed, passed, completed, lost>>

-----------------------------------------------------------------------------
HandlerStep(h) == Execute(h) \/ Route(h) \/ Acknowledge(h)
ToolStep(t) == ToolWrites(t) \/ ToolReads(t) \/ ToolAnswers(t)
PollStep(q) == BeginPoll(q) \/ PollAnswer(q)

Next ==
    \/ Initialize
    \/ InitialAnswer
    \/ Listen
    \/ \E q \in Poll : PollStep(q)
    \/ \E q \in Poll \union {"initial"} : ReadFails(q)
    \/ \E t \in Tool, r \in Reflex, change \in Change :
          BeginTool(t, r, change)
    \/ \E t \in Tool : ToolStep(t) \/ WriteFails(t) \/ RefreshFails(t)
    \/ \E h \in Handler : HandlerStep(h) \/ \E e \in Event : Select(h, e)
    \/ \E e \in Event : Redeliver(e)

Spec == Init /\ [][Next]_vars

\* The service starts, calls are answered, the listener and the interval go
\* on, and the broker delivers.
Fairness ==
    /\ WF_vars(Initialize)
    /\ WF_vars(InitialAnswer)
    /\ WF_vars(Listen)
    /\ \A q \in Poll : WF_vars(PollStep(q))
    /\ \A t \in Tool : WF_vars(ToolStep(t))
    /\ \A h \in Handler : WF_vars(HandlerStep(h))
    /\ \A e \in Event : WF_vars(\E h \in Handler : Select(h, e))

FairSpec == Spec /\ Fairness

-----------------------------------------------------------------------------
(* Properties.                                                              *)

\* On a document store, what a tool answered is in effect (create and update
\* await refreshCache): the cache agrees with the row of every reflex whose last
\* write was answered, unless a read that was overtaken put an older table back.
AnsweredIsInEffect ==
    (backend = "document" /\ cache.at = newest) =>
        \A r \in settled : r \in cache.on <=> row[r] = "on"

\* An acked event took exactly one way, and an event a reflex was executed for
\* skips the rest of the analysis, unless the event was delivered twice.
ReflexSkipsAnalysis ==
    \A e \in Event \ disturbed :
        /\ e \in executed => e \notin passed
        /\ e \notin passed \intersect completed
        /\ bus[e] = "acked" => e \in passed \union completed \union lost

\* The cache catches up with the table and stays with it, however the reads
\* were overtaken and whatever failed on the way.
CacheCatchesUp == <>[](cache.at = writes)

\* Every event is acked for good: the handler never blocks an event.
EveryEventSettles == \A e \in Event : <>[](bus[e] = "acked")

=============================================================================
