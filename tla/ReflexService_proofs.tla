------------------------ MODULE ReflexService_proofs ------------------------
(***************************************************************************)
(* Proofs about ReflexService, for all sets of reflexes, events, tools,    *)
(* polls and handlers and any number of writes and faults: its types, that *)
(* an answered change is in effect, what the cache is behind by, and the   *)
(* one way of every event.                                                 *)
(***************************************************************************)
EXTENDS ReflexService, FiniteSetTheorems, TLAPS

Writing == {t \in Tool : tool[t].stage = "writing"}

\* There is a write left for every call that is going to write.
Budget == writes + Pending <= MaxWrites

-----------------------------------------------------------------------------
(* Types.                                                                   *)

\* The bounds are numbers and the tools can be counted.
LEMMA Bounds == MaxWrites \in Nat /\ MaxFaults \in Nat /\ IsFiniteSet(Tool)
  BY ReflexAssumption

\* Calls that are going to write, counted.
LEMMA WritingCount == IsFiniteSet(Writing) /\ Pending = Cardinality(Writing) /\ Pending \in Nat
<1>1. Writing \subseteq Tool
  BY DEF Writing
<1>2. IsFiniteSet(Writing) /\ Cardinality(Writing) \in Nat
  BY <1>1, Bounds, FS_Subset, FS_CardinalityType
<1> QED
  BY <1>2 DEF Writing, Pending

\* A fault is counted.
LEMMA FaultType ==
  ASSUME TypeOK, Fault
  PROVE  faults' \in 0..MaxFaults
<1>1. faults \in 0..MaxFaults /\ faults < MaxFaults /\ faults' = faults + 1
  BY DEF TypeOK, Fault
<1> QED
  BY <1>1, Bounds

\* The table as it is.
LEMMA CurrentType ==
  ASSUME TypeOK
  PROVE  /\ Current \in Table
         /\ Current.at = writes
         /\ \A r \in Reflex : r \in Current.on <=> row[r] = "on"
<1>1. writes \in 0..MaxWrites
  BY DEF TypeOK
<1> QED
  BY <1>1 DEF Current, Table

\* A table that is put away or asked for is a table.
LEMMA TableTypes ==
  ASSUME TypeOK
  PROVE  /\ cache \in Table /\ held \in Table /\ NoTable \in Table
         /\ \A q \in Reader : read[q].table \in Table /\ read[q].reading \in BOOLEAN
         /\ \A q \in Reader : Ask(q) => read' \in [Reader -> [reading : BOOLEAN, table : Table]]
         /\ \A q \in Reader : Answered(q) => read' \in [Reader -> [reading : BOOLEAN, table : Table]]
<1>1. Current \in Table /\ cache \in Table /\ held \in Table
  BY CurrentType DEF TypeOK
<1>2. NoTable \in Table
  BY Bounds DEF NoTable, Table
<1>3. \A q \in Reader : read[q].table \in Table /\ read[q].reading \in BOOLEAN
  BY DEF TypeOK
<1>4. Reading(Current) \in [reading : BOOLEAN, table : Table]
  BY <1>1 DEF Reading
<1>5. NotReading \in [reading : BOOLEAN, table : Table]
  BY <1>2 DEF NotReading
<1> QED
  BY <1>1, <1>2, <1>3, <1>4, <1>5 DEF TypeOK, Ask, Answered

\* A refresh of the cache keeps its type.
LEMMA RefreshType ==
  ASSUME TypeOK, NEW t \in Table, Refresh(t)
  PROVE  cache' \in Table /\ newest' \in 0..MaxWrites
<1>1. t.at \in 0..MaxWrites /\ newest \in 0..MaxWrites
  BY DEF Table, TypeOK
<1> QED
  BY <1>1 DEF Refresh, Later

\* So does a notification.
LEMMA NotifyType ==
  ASSUME TypeOK, NEW q \in Reader, Notify(q)
  PROVE  cache' \in Table /\ held' \in Table /\ newest' \in 0..MaxWrites
<1>1. read[q].table \in Table
  BY TableTypes
<1>2. held' \in Table
  BY <1>1 DEF Notify
<1>3. CASE phase = "ready"
  BY <1>1, <1>2, <1>3, RefreshType DEF Notify
<1>4. CASE phase # "ready"
  BY <1>2, <1>4 DEF Notify, TypeOK
<1> QED
  BY <1>3, <1>4

\* A write stays within its bound.
LEMMA WriteType ==
  ASSUME TypeOK, Budget, NEW t \in Tool, tool[t].stage = "writing", Write(t)
  PROVE  /\ row' \in [Reflex -> {"absent", "on", "off"}]
         /\ writes' \in 0..MaxWrites
         /\ wrote' \in [Reflex -> 0..MaxWrites]
         /\ settled' \subseteq Reflex
<1>1. tool[t] \in ToolCall
  BY DEF TypeOK, NoCall
<1>2. tool[t].id \in Reflex /\ tool[t].base \in {"absent", "on", "off"}
      /\ tool[t].change \in Change
  BY <1>1 DEF ToolCall
<1>3. row[tool[t].id] \in {"absent", "on", "off"}
  BY <1>2 DEF TypeOK
<1>4. Merged(t) \in {"absent", "on", "off"}
  BY <1>2, <1>3 DEF Merged, Change
<1>5. writes + 1 \in 0..MaxWrites
  <2>1. t \in Writing
    BY DEF Writing
  <2>2. Pending # 0
    BY <2>1, WritingCount, FS_EmptySet
  <2>3. writes \in 0..MaxWrites /\ Pending \in Nat /\ writes + Pending <= MaxWrites
    BY WritingCount DEF TypeOK, Budget
  <2> QED
    BY <2>2, <2>3, Bounds
<1>6. row' \in [Reflex -> {"absent", "on", "off"}]
  BY <1>4 DEF TypeOK, Write
<1>7. wrote' \in [Reflex -> 0..MaxWrites]
  BY <1>5 DEF TypeOK, Write
<1> QED
  BY <1>5, <1>6, <1>7 DEF TypeOK, Write

\* The actions of the cache keep the types.
LEMMA TypeCache ==
  ASSUME TypeOK,
         \/ Initialize \/ InitialAnswer \/ Listen
         \/ \E q \in Poll : PollStep(q)
         \/ \E q \in Poll \union {"initial"} : ReadFails(q)
  PROVE  TypeOK'
<1> USE DEF table, handling
<1>1. CASE Initialize
  <2>1. cache' \in Table /\ newest' \in 0..MaxWrites
    BY <1>1, TableTypes, RefreshType DEF Initialize, Reader
  <2>2. read' \in [Reader -> [reading : BOOLEAN, table : Table]]
    BY <1>1, TableTypes, CurrentType DEF Initialize, Reading, NotReading, TypeOK
  <2> QED
    BY <1>1, <2>1, <2>2 DEF Initialize, TypeOK
<1>2. CASE InitialAnswer
  <2>1. "initial" \in Reader
    BY DEF Reader
  <2>2. /\ cache' \in Table /\ held' \in Table /\ newest' \in 0..MaxWrites
        /\ read' \in [Reader -> [reading : BOOLEAN, table : Table]]
    BY <1>2, <2>1, NotifyType, TableTypes DEF InitialAnswer
  <2> QED
    BY <1>2, <2>2 DEF InitialAnswer, TypeOK
<1>3. CASE Listen
  <2>1. cache' \in Table /\ newest' \in 0..MaxWrites
    BY <1>3, CurrentType, RefreshType DEF Listen
  <2> QED
    BY <1>3, <2>1 DEF Listen, TypeOK
<1>4. CASE \E q \in Poll : BeginPoll(q)
  <2>1. read' \in [Reader -> [reading : BOOLEAN, table : Table]]
    BY <1>4, TableTypes DEF BeginPoll, Reader
  <2> QED
    BY <1>4, <2>1 DEF BeginPoll, TypeOK
<1>5. CASE \E q \in Poll : PollAnswer(q)
  <2>1. /\ cache' \in Table /\ held' \in Table /\ newest' \in 0..MaxWrites
        /\ read' \in [Reader -> [reading : BOOLEAN, table : Table]]
    BY <1>5, NotifyType, TableTypes DEF PollAnswer, Reader
  <2> QED
    BY <1>5, <2>1 DEF PollAnswer, TypeOK
<1>6. CASE \E q \in Poll \union {"initial"} : ReadFails(q)
  <2>1. read' \in [Reader -> [reading : BOOLEAN, table : Table]] /\ faults' \in 0..MaxFaults
    BY <1>6, TableTypes, FaultType DEF ReadFails, Reader
  <2> QED
    BY <1>6, <2>1 DEF ReadFails, TypeOK
<1> QED
  BY <1>1, <1>2, <1>3, <1>4, <1>5, <1>6 DEF PollStep

\* The tools keep the types.
LEMMA TypeTool ==
  ASSUME TypeOK, Budget, NEW t \in Tool,
         \/ \E r \in Reflex, change \in Change : BeginTool(t, r, change)
         \/ ToolStep(t) \/ WriteFails(t) \/ RefreshFails(t)
  PROVE  TypeOK'
<1> USE DEF table, caches, handling
<1>0. t \in Reader
  BY DEF Reader
<1>a. ASSUME tool' = [tool EXCEPT ![t] = NoCall] PROVE tool' \in [Tool -> ToolCall \union {NoCall}]
  BY <1>a DEF TypeOK
<1>1. ASSUME NEW r \in Reflex, NEW change \in Change,
             BeginTool(t, r, change)
      PROVE  TypeOK'
  <2>1. [stage |-> "writing", id |-> r, base |-> row[r], change |-> change] \in ToolCall
    BY DEF ToolCall, TypeOK
  <2>2. tool' \in [Tool -> ToolCall \union {NoCall}]
    BY <1>1, <2>1 DEF BeginTool, Called, TypeOK
  <2> QED
    BY <1>1, <2>2 DEF BeginTool, TypeOK
<1>2. CASE ToolWrites(t)
  <2>1. /\ row' \in [Reflex -> {"absent", "on", "off"}] /\ writes' \in 0..MaxWrites
        /\ wrote' \in [Reflex -> 0..MaxWrites] /\ settled' \subseteq Reflex
    BY <1>2, WriteType DEF ToolWrites
  <2>2. tool[t] \in ToolCall
    BY <1>2 DEF ToolWrites, TypeOK, NoCall
  <2>3. [tool[t] EXCEPT !.stage = "refreshing"] \in ToolCall
    BY <2>2 DEF ToolCall
  <2>4. tool' \in [Tool -> ToolCall \union {NoCall}]
    BY <1>2, <2>3 DEF ToolWrites, TypeOK
  <2> QED
    BY <1>2, <2>1, <2>4 DEF ToolWrites, TypeOK
<1>3. CASE ToolReads(t)
  <2>1. read' \in [Reader -> [reading : BOOLEAN, table : Table]]
    BY <1>0, <1>3, TableTypes DEF ToolReads
  <2> QED
    BY <1>3, <2>1 DEF ToolReads, TypeOK
<1>4. CASE ToolAnswers(t)
  <2>1. /\ cache' \in Table /\ held' \in Table /\ newest' \in 0..MaxWrites
        /\ read' \in [Reader -> [reading : BOOLEAN, table : Table]]
    BY <1>0, <1>4, NotifyType, TableTypes DEF ToolAnswers
  <2>2. tool[t].id \in Reflex
    BY <1>4 DEF ToolAnswers, TypeOK, NoCall, ToolCall
  <2>3. settled' \subseteq Reflex
    BY <1>4, <2>2 DEF ToolAnswers, TypeOK
  <2> QED
    BY <1>4, <1>a, <2>1, <2>3 DEF ToolAnswers, TypeOK
<1>5. CASE WriteFails(t)
  <2>1. /\ row' \in [Reflex -> {"absent", "on", "off"}] /\ writes' \in 0..MaxWrites
        /\ wrote' \in [Reflex -> 0..MaxWrites] /\ settled' \subseteq Reflex
    <3>1. CASE Write(t)
      BY <1>5, <3>1, WriteType DEF WriteFails
    <3>2. CASE UNCHANGED <<row, writes, wrote, settled>>
      BY <3>2 DEF TypeOK
    <3> QED
      BY <1>5, <3>1, <3>2 DEF WriteFails
  <2> QED
    BY <1>5, <1>a, <2>1, FaultType DEF WriteFails, TypeOK
<1>6. CASE RefreshFails(t)
  <2>1. read' \in [Reader -> [reading : BOOLEAN, table : Table]] /\ faults' \in 0..MaxFaults
    BY <1>0, <1>6, TableTypes, FaultType DEF RefreshFails
  <2> QED
    BY <1>6, <1>a, <2>1 DEF RefreshFails, TypeOK
<1> QED
  BY <1>1, <1>2, <1>3, <1>4, <1>5, <1>6 DEF ToolStep

\* A call of the handler that goes on is a call.
LEMMA StageType ==
  ASSUME TypeOK, NEW h \in Handler, handler[h].stage # "idle",
         NEW s \in {"executing", "completing", "passing", "acking"}
  PROVE  /\ handler[h] \in HandlerCall
         /\ handler[h].event \in Event
         /\ ToStage(h, s) => handler' \in [Handler -> HandlerCall \union {NoEvent}]
<1>1. handler[h] \in HandlerCall
  BY DEF TypeOK, NoEvent
<1>2. [handler[h] EXCEPT !.stage = s] \in HandlerCall
  BY <1>1 DEF HandlerCall
<1> QED
  BY <1>1, <1>2 DEF HandlerCall, TypeOK, ToStage

\* The handler keeps the types.
LEMMA TypeHandler ==
  ASSUME TypeOK, NEW h \in Handler, HandlerStep(h) \/ \E e \in Event : Select(h, e)
  PROVE  TypeOK'
<1> USE DEF table, caches
<1>1. ASSUME NEW e \in Event, Select(h, e) PROVE TypeOK'
  <2>1. \A s \in {"executing", "completing", "passing", "acking"} :
          [stage |-> s, event |-> e] \in HandlerCall
    BY DEF HandlerCall
  <2>2. \A s \in {"executing", "completing", "passing", "acking"} :
          handler' = [handler EXCEPT ![h] = [stage |-> s, event |-> e]]
            => handler' \in [Handler -> HandlerCall \union {NoEvent}]
    BY <2>1 DEF TypeOK
  <2>3. handler' \in [Handler -> HandlerCall \union {NoEvent}]
    BY <1>1, <2>2 DEF Select
  <2>4. faults' \in 0..MaxFaults
    BY <1>1, FaultType DEF Select, TypeOK
  <2> QED
    BY <1>1, <2>3, <2>4 DEF Select, TypeOK
<1>2. CASE Execute(h)
  <2>1. handler[h].event \in Event /\ handler' \in [Handler -> HandlerCall \union {NoEvent}]
    BY <1>2, StageType DEF Execute
  <2> QED
    BY <1>2, <2>1 DEF Execute, TypeOK
<1>3. CASE Route(h)
  <2>1. handler[h].event \in Event /\ handler' \in [Handler -> HandlerCall \union {NoEvent}]
    BY <1>3, StageType DEF Route
  <2>2. faults' \in 0..MaxFaults
    BY <1>3, FaultType DEF Route, TypeOK
  <2> QED
    BY <1>3, <2>1, <2>2 DEF Route, TypeOK
<1>4. CASE Acknowledge(h)
  <2>1. handler[h].event \in Event
    BY <1>4, StageType DEF Acknowledge
  <2>2. faults' \in 0..MaxFaults
    BY <1>4, FaultType DEF Acknowledge, TypeOK
  <2> QED
    BY <1>4, <2>1, <2>2 DEF Acknowledge, TypeOK
<1> QED
  BY <1>1, <1>2, <1>3, <1>4 DEF HandlerStep

\* Every step keeps the types.
LEMMA TypeStep == TypeOK /\ Budget /\ [Next]_vars => TypeOK'
<1> SUFFICES ASSUME TypeOK, Budget, [Next]_vars PROVE TypeOK'
  OBVIOUS
<1>1. CASE \E e \in Event : Redeliver(e)
  BY <1>1, FaultType DEF Redeliver, TypeOK, table, caches
<1>2. CASE UNCHANGED vars
  BY <1>2 DEF vars, TypeOK
<1> QED
  BY <1>1, <1>2, TypeCache, TypeTool, TypeHandler DEF Next

\* A step that neither writes nor begins to keeps the budget.
LEMMA BudgetKept ==
  ASSUME Budget, TypeOK, writes' = writes,
         \A t \in Tool : (tool[t].stage = "writing")' => tool[t].stage = "writing"
  PROVE  Budget'
<1>1. Writing' \subseteq Writing
  BY DEF Writing
<1>2. Cardinality(Writing') <= Cardinality(Writing) /\ Cardinality(Writing') \in Nat
  BY <1>1, WritingCount, FS_Subset, FS_CardinalityType
<1>3. Pending' = Cardinality(Writing')
  BY DEF Pending, Writing
<1>4. writes \in Nat
  BY Bounds DEF TypeOK
<1> QED
  BY <1>2, <1>3, <1>4, Bounds, WritingCount DEF Budget

\* A write uses up what its call had reserved.
LEMMA BudgetWrite ==
  ASSUME Budget, TypeOK, NEW t \in Tool, tool[t].stage = "writing",
         writes' \in {writes, writes + 1}, tool'[t].stage # "writing",
         \A u \in Tool : u # t => tool'[u] = tool[u]
  PROVE  Budget'
<1>1. Writing' = Writing \ {t} /\ t \in Writing
  BY DEF Writing
<1>2. Cardinality(Writing') = Cardinality(Writing) - 1
  BY <1>1, WritingCount, FS_RemoveElement
<1>3. Pending' = Cardinality(Writing')
  BY DEF Pending, Writing
<1>4. writes \in Nat
  BY Bounds DEF TypeOK
<1> QED
  BY <1>2, <1>3, <1>4, Bounds, WritingCount DEF Budget

\* A call reserves the write it is going to make.
LEMMA BudgetBegin ==
  ASSUME Budget, TypeOK, NEW t \in Tool, NEW r \in Reflex, NEW change, BeginTool(t, r, change)
  PROVE  Budget'
<1>1. Writing' = Writing \union {t} /\ t \notin Writing
  BY DEF BeginTool, Called, TypeOK, Writing
<1>2. Cardinality(Writing') = Cardinality(Writing) + 1
  BY <1>1, WritingCount, FS_AddElement
<1>3. Pending' = Cardinality(Writing')
  BY DEF Pending, Writing
<1>4. writes \in Nat /\ writes' = writes /\ writes + Pending < MaxWrites
  BY Bounds DEF TypeOK, BeginTool, table
<1> QED
  BY <1>2, <1>3, <1>4, Bounds, WritingCount DEF Budget

\* The budget is kept.
LEMMA BudgetStep == TypeOK /\ Budget /\ [Next]_vars => Budget'
<1> SUFFICES ASSUME TypeOK, Budget, [Next]_vars PROVE Budget'
  OBVIOUS
<1>1. CASE UNCHANGED <<writes, tool>>
  BY <1>1, BudgetKept
<1>2. ASSUME NEW t \in Tool, ToolStep(t) \/ WriteFails(t) \/ RefreshFails(t) PROVE Budget'
  <2>1. CASE ToolWrites(t) \/ WriteFails(t)
    <3>1. tool[t].stage = "writing" /\ writes' \in {writes, writes + 1}
      BY <2>1 DEF ToolWrites, WriteFails, Write
    <3>2. tool'[t].stage # "writing"
      <4>1. CASE tool' = [tool EXCEPT ![t] = NoCall]
        BY <4>1 DEF TypeOK, NoCall
      <4>2. CASE tool' = [tool EXCEPT ![t].stage = "refreshing"]
        <5>1. tool[t] \in ToolCall
          BY <3>1 DEF TypeOK, NoCall
        <5> QED
          BY <4>2, <5>1 DEF TypeOK, ToolCall
      <4> QED
        BY <2>1, <4>1, <4>2 DEF ToolWrites, WriteFails
    <3>3. \A u \in Tool : u # t => tool'[u] = tool[u]
      BY <2>1 DEF ToolWrites, WriteFails, TypeOK
    <3> QED
      BY <3>1, <3>2, <3>3, BudgetWrite
  <2>2. CASE ToolReads(t)
    BY <1>1, <2>2 DEF ToolReads, table
  <2>3. CASE ToolAnswers(t) \/ RefreshFails(t)
    BY <2>3, BudgetKept DEF ToolAnswers, RefreshFails, NoCall, TypeOK, table
  <2> QED
    BY <1>2, <2>1, <2>2, <2>3 DEF ToolStep
<1>3. ASSUME NEW h \in Handler, HandlerStep(h) \/ \E e \in Event : Select(h, e) PROVE Budget'
  BY <1>1, <1>3 DEF HandlerStep, Select, Execute, Route, Acknowledge, table
<1>4. CASE Initialize \/ InitialAnswer \/ Listen \/ (\E q \in Poll : PollStep(q))
           \/ (\E q \in Poll \union {"initial"} : ReadFails(q)) \/ (\E e \in Event : Redeliver(e))
           \/ UNCHANGED vars
  BY <1>1, <1>4 DEF Initialize, InitialAnswer, Listen, PollStep, BeginPoll, PollAnswer, ReadFails,
                    Redeliver, table, vars
<1> QED
  BY <1>2, <1>3, <1>4, BudgetBegin DEF Next

-----------------------------------------------------------------------------
(* What a table says of the reflexes that were not written since.           *)

\* A table tells the state of every reflex whose last write it has seen.
Faithful(t) ==
  /\ t.at <= writes
  /\ \A r \in Reflex : wrote[r] <= t.at => (r \in t.on <=> row[r] = "on")

\* So do the tables on their way, the repository's copy once it holds a reflex,
\* and the cache once it is initialized; what was answered is in one of them.
Seen ==
  /\ \A q \in Reader : read[q].reading => Faithful(read[q].table)
  /\ held.on # {} => Faithful(held)
  /\ phase = "loading" => settled = {}
  /\ phase = "ready" => Faithful(cache)
  /\ cache.at <= newest
  /\ \A r \in settled : wrote[r] <= newest

\* The current table is faithful.
LEMMA CurrentFaithful == ASSUME TypeOK PROVE Faithful(Current)
<1>1. writes \in Nat
  BY Bounds DEF TypeOK
<1> QED
  BY <1>1, CurrentType DEF Faithful

\* A table stays faithful.
LEMMA FaithfulKept ==
  ASSUME TypeOK, NEW t \in Table, Faithful(t),
         \/ UNCHANGED <<row, writes, wrote>>
         \/ \E u \in Tool : tool[u].id \in Reflex /\ Write(u)
  PROVE  Faithful(t)'
<1>1. CASE UNCHANGED <<row, writes, wrote>>
  BY <1>1 DEF Faithful
<1>2. ASSUME NEW u \in Tool, tool[u].id \in Reflex, Write(u) PROVE Faithful(t)'
  <2>1. t.at \in Nat /\ writes \in Nat
    BY Bounds DEF Table, TypeOK
  <2>2. \A r \in Reflex : wrote'[r] <= t.at =>
          r # tool[u].id /\ wrote'[r] = wrote[r] /\ row'[r] = row[r]
    BY <1>2, <2>1 DEF Write, Faithful, TypeOK
  <2>3. t.at <= writes'
    BY <1>2, <2>1 DEF Write, Faithful
  <2> QED
    BY <2>2, <2>3 DEF Faithful
<1> QED
  BY <1>1, <1>2

\* A refresh with a faithful table keeps the cache faithful, and what was
\* answered stays answered.
LEMMA RefreshSeen ==
  ASSUME TypeOK, Seen, NEW t \in Table, Faithful(t), Refresh(t),
         UNCHANGED <<row, writes, wrote>>
  PROVE  /\ Faithful(cache)'
         /\ cache'.at <= newest'
         /\ t.at <= newest'
         /\ newest <= newest'
<1>1. Faithful(t)'
  BY FaithfulKept
<1>2. t.at \in Nat /\ newest \in Nat
  BY Bounds DEF Table, TypeOK
<1>3. cache' = t /\ newest' = Later(newest, t.at)
  BY DEF Refresh
<1> QED
  BY <1>1, <1>2, <1>3 DEF Later, Faithful

\* The reads under way stay faithful while the rows are not written.
LEMMA ReadsSeen ==
  ASSUME TypeOK, Seen, UNCHANGED <<row, writes, wrote>>, NEW q \in Reader,
         UNCHANGED read \/ Ask(q) \/ Answered(q)
  PROVE  \A p \in Reader : read'[p].reading => Faithful(read[p].table)'
<1> SUFFICES ASSUME NEW p \in Reader, read'[p].reading PROVE Faithful(read[p].table)'
  OBVIOUS
<1>1. read'[p] = read[p] \/ read'[p] = Reading(Current) \/ read'[p] = NotReading
  BY DEF Ask, Answered, TypeOK
<1>2. CASE read'[p] = read[p]
  <2> PICK t \in Table : t = read[p].table
    BY TableTypes
  <2>1. Faithful(t)'
    BY <1>2, FaithfulKept DEF Seen
  <2> QED
    BY <1>2, <2>1 DEF Faithful
<1>3. CASE read'[p] = Reading(Current)
  <2> PICK t \in Table : t = Current
    BY CurrentType
  <2>1. Faithful(t)'
    BY CurrentFaithful, FaithfulKept
  <2> QED
    BY <1>3, <2>1 DEF Faithful, Reading
<1>4. read'[p] # NotReading
  BY DEF NotReading
<1> QED
  BY <1>1, <1>2, <1>3, <1>4

\* A notification: the cache, if it is there, and the copy are faithful.
LEMMA NotifySeen ==
  ASSUME TypeOK, Seen, NEW q \in Reader, read[q].reading, Notify(q), Answered(q),
         UNCHANGED <<row, writes, wrote, phase>>, settled' \subseteq Reflex,
         \A r \in settled' \ settled : phase = "ready" /\ wrote[r] <= read[q].table.at
  PROVE  Seen'
<1> PICK t \in Table : t = read[q].table
  BY TableTypes
<1>1. Faithful(t) /\ Faithful(t)'
  BY FaithfulKept DEF Seen
<1>2. held' = t
  BY DEF Notify
<1>3. \A p \in Reader : read'[p].reading => Faithful(read[p].table)'
  BY ReadsSeen
<1>4. CASE phase = "ready"
  <2>1. Refresh(t)
    BY <1>4 DEF Notify
  <2>2. Faithful(cache)' /\ cache'.at <= newest' /\ t.at <= newest' /\ newest <= newest'
    BY <1>1, <2>1, RefreshSeen
  <2>3. newest \in Nat /\ t.at \in Nat /\ newest' \in Nat
    BY <2>1, Bounds, RefreshType DEF TypeOK, Table
  <2>4. \A r \in settled' : wrote[r] \in Nat
    BY Bounds DEF TypeOK
  <2>5. \A r \in settled' : wrote'[r] <= newest'
    BY <2>2, <2>3, <2>4 DEF Seen
  <2> QED
    BY <1>1, <1>2, <1>3, <1>4, <2>2, <2>5 DEF Seen, Faithful
<1>5. CASE phase = "loading"
  <2>1. UNCHANGED <<cache, newest>>
    BY <1>5 DEF Notify
  <2>2. settled' = {}
    BY <1>5 DEF Seen
  <2> QED
    BY <1>1, <1>2, <1>3, <1>5, <2>1, <2>2 DEF Seen, Faithful
<1> QED
  BY <1>4, <1>5 DEF TypeOK

\* A read that begins or fails, and nothing else.
LEMMA ReadingSeen ==
  ASSUME TypeOK, Seen, NEW q \in Reader, UNCHANGED read \/ Ask(q) \/ Answered(q),
         UNCHANGED <<row, writes, wrote, phase, cache, held, newest, settled>>
  PROVE  Seen'
<1>1. \A p \in Reader : read'[p].reading => Faithful(read[p].table)'
  BY ReadsSeen
<1> QED
  BY <1>1 DEF Seen, Faithful

\* A write leaves faithful what was faithful, and forgets the answer.
LEMMA WriteSeen ==
  ASSUME TypeOK, Seen, NEW t \in Tool, tool[t].stage = "writing", Write(t), UNCHANGED caches
  PROVE  Seen'
<1> USE DEF caches
<1>1. tool[t].id \in Reflex
  BY DEF TypeOK, NoCall, ToolCall
<1>2. \A x \in Table : Faithful(x) => Faithful(x)'
  BY <1>1, FaithfulKept
<1>3. \A q \in Reader : read[q].table \in Table
  BY TableTypes
<1>4. \A q \in Reader : read'[q].reading => Faithful(read[q].table)'
  <2> SUFFICES ASSUME NEW q \in Reader, read[q].reading PROVE Faithful(read[q].table)'
    OBVIOUS
  <2> PICK x \in Table : x = read[q].table
    BY <1>3
  <2>1. Faithful(x)'
    BY <1>2 DEF Seen
  <2> QED
    BY <2>1 DEF Faithful
<1>5. held.on # {} => Faithful(held)'
  <2> PICK x \in Table : x = held
    BY DEF TypeOK
  <2> QED
    BY <1>2 DEF Seen, Faithful
<1>6. phase = "ready" => Faithful(cache)'
  <2> PICK x \in Table : x = cache
    BY DEF TypeOK
  <2> QED
    BY <1>2 DEF Seen, Faithful
<1>7. settled' \subseteq settled /\ \A r \in settled' : wrote'[r] = wrote[r]
  BY DEF Write, TypeOK
<1> QED
  BY <1>4, <1>5, <1>6, <1>7 DEF Seen

\* The tables stay faithful.
LEMMA SeenStep == TypeOK /\ Seen /\ [Next]_vars => Seen'
<1> SUFFICES ASSUME TypeOK, Seen, [Next]_vars PROVE Seen'
  OBVIOUS
<1> USE DEF table, caches, handling
<1>1. "initial" \in Reader /\ Poll \subseteq Reader /\ Tool \subseteq Reader
  BY DEF Reader
<1>2. CASE Initialize
  <2> DEFINE t == IF backend = "document" /\ held.on # {} THEN held ELSE read["initial"].table
  <2>1. t \in Table /\ Faithful(t)
    BY <1>1, <1>2, TableTypes DEF Initialize, Seen
  <2>2. Refresh(t) /\ UNCHANGED <<row, writes, wrote, held>> /\ settled' = {}
    BY <1>2 DEF Initialize, Seen
  <2> HIDE DEF t
  <2>3. Faithful(cache)' /\ cache'.at <= newest'
    BY <2>1, <2>2, RefreshSeen
  <2>4. \A p \in Reader : read'[p].reading => Faithful(read[p].table)'
    <3> SUFFICES ASSUME NEW p \in Reader, read'[p].reading PROVE Faithful(read[p].table)'
      OBVIOUS
    <3>1. read'[p] = read[p] \/ read'[p] = Reading(Current) \/ read'[p] = NotReading
      BY <1>2 DEF Initialize, TypeOK
    <3>2. read'[p] # NotReading
      BY DEF NotReading
    <3>3. Faithful(read[p].table) \/ read'[p].table = Current
      BY <3>1, <3>2 DEF Seen, Reading
    <3>4. read'[p].table \in {read[p].table, Current} /\ read[p].table \in Table /\ Current \in Table
      BY <3>1, <3>2, TableTypes, CurrentType DEF Reading
    <3> PICK x \in Table : x = read'[p].table
      BY <3>4
    <3>5. Faithful(x)
      BY <3>1, <3>2, CurrentFaithful DEF Seen, Reading
    <3>6. Faithful(x)'
      BY <2>2, <3>5, FaithfulKept
    <3> QED
      BY <3>6 DEF Faithful
  <2>5. held'.on # {} => Faithful(held)'
    <3> PICK x \in Table : x = held
      BY DEF TypeOK
    <3> QED
      BY <2>2, FaithfulKept DEF Seen, Faithful
  <2> QED
    BY <1>2, <2>2, <2>3, <2>4, <2>5 DEF Initialize, Seen
<1>3. CASE InitialAnswer
  BY <1>1, <1>3, NotifySeen DEF InitialAnswer, TypeOK
<1>4. ASSUME NEW q \in Poll, PollStep(q) PROVE Seen'
  <2>1. CASE BeginPoll(q)
    BY <1>1, <2>1, ReadingSeen DEF BeginPoll
  <2>2. CASE PollAnswer(q)
    BY <1>1, <2>2, NotifySeen DEF PollAnswer, TypeOK
  <2> QED
    BY <1>4, <2>1, <2>2 DEF PollStep
<1>5. ASSUME NEW q \in Poll \union {"initial"}, ReadFails(q) PROVE Seen'
  BY <1>1, <1>5, ReadingSeen DEF ReadFails
<1>6. CASE Listen
  <2>1. Faithful(cache)' /\ cache'.at <= newest' /\ newest <= newest'
    BY <1>6, CurrentType, CurrentFaithful, RefreshSeen DEF Listen
  <2>2. newest' \in Nat /\ newest \in Nat
    BY <1>6, Bounds, CurrentType, RefreshType DEF Listen, TypeOK
  <2>3. \A r \in settled' : wrote'[r] <= newest'
    BY <1>6, <2>1, <2>2, Bounds DEF Listen, Seen, TypeOK
  <2>4. \A p \in Reader : read'[p].reading => Faithful(read[p].table)'
    BY <1>1, <1>6, ReadsSeen DEF Listen
  <2> QED
    BY <1>6, <2>1, <2>3, <2>4 DEF Listen, Seen, Faithful
<1>7. ASSUME NEW t \in Tool, NEW r \in Reflex, NEW change, BeginTool(t, r, change) PROVE Seen'
  BY <1>1, <1>7, ReadingSeen DEF BeginTool
<1>8. ASSUME NEW t \in Tool, ToolStep(t) \/ WriteFails(t) \/ RefreshFails(t) PROVE Seen'
  <2>1. CASE ToolWrites(t)
    BY <2>1, WriteSeen DEF ToolWrites
  <2>2. CASE WriteFails(t)
    <3>1. CASE Write(t)
      BY <2>2, <3>1, WriteSeen DEF WriteFails
    <3>2. CASE UNCHANGED <<row, writes, wrote, settled>>
      BY <1>1, <2>2, <3>2, ReadingSeen DEF WriteFails
    <3> QED
      BY <2>2, <3>1, <3>2 DEF WriteFails
  <2>3. CASE ToolReads(t)
    BY <1>1, <2>3, ReadingSeen DEF ToolReads
  <2>4. CASE ToolAnswers(t)
    <3>1. tool[t].id \in Reflex
      BY <2>4 DEF ToolAnswers, TypeOK, NoCall, ToolCall
    <3>2. settled' \subseteq Reflex
      BY <2>4, <3>1 DEF ToolAnswers, TypeOK
    <3>3. \A r \in settled' \ settled : phase = "ready" /\ wrote[r] <= read[t].table.at
      BY <2>4 DEF ToolAnswers
    <3> QED
      BY <1>1, <2>4, <3>2, <3>3, NotifySeen DEF ToolAnswers
  <2>5. CASE RefreshFails(t)
    BY <1>1, <2>5, ReadingSeen DEF RefreshFails
  <2> QED
    BY <1>8, <2>1, <2>2, <2>3, <2>4, <2>5 DEF ToolStep
<1>9. CASE \/ \E h \in Handler : HandlerStep(h) \/ \E e \in Event : Select(h, e)
           \/ \E e \in Event : Redeliver(e)
           \/ UNCHANGED vars
  BY <1>1, <1>9, ReadingSeen DEF HandlerStep, Select, Execute, Route, Acknowledge, Redeliver, vars
<1> QED
  BY <1>2, <1>3, <1>4, <1>5, <1>6, <1>7, <1>8, <1>9 DEF Next

-----------------------------------------------------------------------------
(* The way of an event.                                                     *)

Handles(h, e) == handler[h].stage # "idle" /\ handler[h].event = e

\* An event that was delivered once is handled by one call at most, and has
\* gone no way that the stage of that call does not tell.
Way(e) ==
  /\ e \in executed => e \notin passed
  /\ e \notin passed \intersect completed
  /\ bus[e] = "ready" =>
        e \notin executed \union passed \union completed /\ \A h \in Handler : ~ Handles(h, e)
  /\ bus[e] = "acked" =>
        e \in passed \union completed \union lost /\ \A h \in Handler : ~ Handles(h, e)
  /\ \A g, h \in Handler : Handles(g, e) /\ Handles(h, e) => g = h
  /\ \A h \in Handler : Handles(h, e) =>
        /\ handler[h].stage \in {"executing", "passing"}
              => e \notin executed \union passed \union completed
        /\ handler[h].stage = "completing" => e \notin passed \union completed
        /\ handler[h].stage = "acking" => e \in passed \union completed \union lost

Ways == \A e \in Event \ disturbed : Way(e)

\* What concerns other events leaves an event on its way.
LEMMA WayKept ==
  ASSUME NEW e \in Event, Way(e), bus'[e] = bus[e],
         e \in executed' <=> e \in executed, e \in passed' <=> e \in passed,
         e \in completed' <=> e \in completed, e \in lost' <=> e \in lost,
         \A h \in Handler : Handles(h, e)' => Handles(h, e) /\ handler'[h] = handler[h]
  PROVE  Way(e)'
  BY DEF Way, Handles

\* A call that goes on keeps its event.
LEMMA GoesOn ==
  ASSUME TypeOK, NEW h \in Handler, handler[h].stage # "idle",
         NEW s \in {"executing", "completing", "passing", "acking"}, ToStage(h, s)
  PROVE  /\ handler'[h].stage = s /\ handler'[h].event = handler[h].event
         /\ \A g \in Handler : g # h => handler'[g] = handler[g]
<1>1. handler[h] \in HandlerCall
  BY StageType
<1> QED
  BY <1>1 DEF HandlerCall, ToStage, TypeOK

\* A step of a call takes its event one step along its way.
LEMMA WayStep ==
  ASSUME TypeOK, NEW h \in Handler, HandlerStep(h), NEW e \in Event,
         e \notin disturbed', Way(e)
  PROVE  Way(e)'
<1>0. handler[h].stage # "idle"
  BY DEF HandlerStep, Execute, Route, Acknowledge
<1> PICK d \in Event : d = handler[h].event
  BY <1>0, StageType
<1>1. CASE Execute(h)
  <2>1. /\ handler'[h].stage = "completing" /\ handler'[h].event = d
        /\ \A g \in Handler : g # h => handler'[g] = handler[g]
    BY <1>0, <1>1, GoesOn DEF Execute
  <2>2. executed' = executed \union {d} /\ UNCHANGED <<bus, passed, completed, lost>>
    BY <1>1 DEF Execute
  <2>3. CASE e = d
    BY <1>0, <1>1, <2>1, <2>2, <2>3 DEF Way, Handles, Execute
  <2>4. CASE e # d
    BY <2>1, <2>2, <2>4, WayKept DEF Handles
  <2> QED
    BY <2>3, <2>4
<1>2. CASE Route(h)
  <2>1. /\ handler'[h].stage = "acking" /\ handler'[h].event = d
        /\ \A g \in Handler : g # h => handler'[g] = handler[g]
    BY <1>0, <1>2, GoesOn DEF Route
  <2>2. UNCHANGED <<bus, executed>>
    BY <1>2 DEF Route
  <2>3. \/ /\ handler[h].stage = "completing" /\ completed' = completed \union {d}
            /\ passed' = passed /\ lost' = lost
        \/ /\ handler[h].stage = "passing" /\ passed' = passed \union {d}
            /\ completed' = completed /\ lost' = lost
        \/ /\ lost' = lost \union {d} /\ passed' = passed /\ completed' = completed
    BY <1>2 DEF Route
  <2>4. CASE e = d
    BY <1>0, <2>1, <2>2, <2>3, <2>4 DEF Way, Handles
  <2>5. CASE e # d
    BY <2>1, <2>2, <2>3, <2>5, WayKept DEF Handles
  <2> QED
    BY <2>4, <2>5
<1>3. CASE Acknowledge(h)
  <2>1. /\ \A g \in Handler : g # h => handler'[g] = handler[g]
        /\ handler'[h].stage = "idle"
    BY <1>3 DEF Acknowledge, TypeOK, NoEvent
  <2>2. UNCHANGED <<executed, passed, completed, lost>>
    BY <1>3 DEF Acknowledge
  <2>3. CASE e = d
    <3>1. bus'[e] = "acked"
      BY <1>3, <2>3 DEF Acknowledge, TypeOK
    <3> QED
      BY <1>0, <1>3, <2>1, <2>2, <2>3, <3>1 DEF Way, Handles, Acknowledge
  <2>4. CASE e # d
    <3>1. bus'[e] = bus[e]
      BY <1>3, <2>4 DEF Acknowledge, TypeOK
    <3> QED
      BY <2>1, <2>2, <2>4, <3>1, WayKept DEF Handles
  <2> QED
    BY <2>3, <2>4
<1> QED
  BY <1>1, <1>2, <1>3 DEF HandlerStep

\* A selection starts an event on its way.
LEMMA WaySelect ==
  ASSUME TypeOK, NEW h \in Handler, NEW d \in Event, Select(h, d), NEW e \in Event, Way(e)
  PROVE  Way(e)'
<1>1. /\ handler'[h].stage \in {"executing", "passing", "completing"} /\ handler'[h].event = d
      /\ \A g \in Handler : g # h => handler'[g] = handler[g]
  BY DEF Select, TypeOK
<1>2. UNCHANGED <<executed, passed, completed, lost>> /\ bus[d] = "ready"
  BY DEF Select
<1>3. CASE e = d
  <2>1. bus'[e] = "taken"
    BY <1>3 DEF Select, TypeOK
  <2> QED
    BY <1>1, <1>2, <1>3, <2>1 DEF Way, Handles
<1>4. CASE e # d
  <2>1. bus'[e] = bus[e]
    BY <1>4 DEF Select, TypeOK
  <2> QED
    BY <1>1, <1>2, <1>4, <2>1, WayKept DEF Handles
<1> QED
  BY <1>3, <1>4

\* Every event stays on its way.
LEMMA WaysStep == TypeOK /\ Ways /\ [Next]_vars => Ways'
<1> SUFFICES ASSUME TypeOK, Ways, [Next]_vars, NEW e \in Event, e \notin disturbed'
             PROVE  Way(e)'
  BY DEF Ways
<1>1. CASE UNCHANGED handling
  BY <1>1, WayKept DEF handling, Ways, Handles
<1>2. ASSUME NEW h \in Handler, HandlerStep(h) PROVE Way(e)'
  <2>1. disturbed \subseteq disturbed'
    BY <1>2 DEF HandlerStep, Execute, Route, Acknowledge
  <2> QED
    BY <1>2, <2>1, WayStep DEF Ways
<1>3. ASSUME NEW h \in Handler, NEW d \in Event, Select(h, d) PROVE Way(e)'
  BY <1>3, WaySelect DEF Ways, Select
<1>4. ASSUME NEW d \in Event, Redeliver(d) PROVE Way(e)'
  <2>1. /\ e # d /\ e \notin disturbed /\ bus'[e] = bus[e]
        /\ UNCHANGED <<handler, executed, passed, completed, lost>>
    BY <1>4 DEF Redeliver, TypeOK
  <2> QED
    BY <2>1, WayKept DEF Ways, Handles
<1>5. ASSUME NEW t \in Tool, ToolStep(t) \/ WriteFails(t) \/ RefreshFails(t)
             \/ \E r \in Reflex, change \in Change : BeginTool(t, r, change)
      PROVE  Way(e)'
  BY <1>1, <1>5 DEF ToolStep, ToolWrites, ToolReads, ToolAnswers, WriteFails, RefreshFails, BeginTool
<1>6. CASE Initialize \/ InitialAnswer \/ Listen \/ (\E q \in Poll : PollStep(q))
           \/ (\E q \in Poll \union {"initial"} : ReadFails(q)) \/ UNCHANGED vars
  BY <1>1, <1>6 DEF Initialize, InitialAnswer, Listen, PollStep, BeginPoll, PollAnswer, ReadFails,
                    vars, handling
<1> QED
  BY <1>2, <1>3, <1>4, <1>5, <1>6 DEF Next

-----------------------------------------------------------------------------
(* The invariant and what follows from it.                                  *)

Inv == TypeOK /\ Budget /\ Seen /\ Ways

\* It holds at first.
LEMMA InvInit == Init => Inv
<1> SUFFICES ASSUME Init PROVE Inv
  OBVIOUS
<1>1. NoTable \in Table /\ Current \in Table
  BY Bounds DEF NoTable, Table, Current, Init
<1>2. read \in [Reader -> [reading : BOOLEAN, table : Table]]
  BY <1>1 DEF Init, Reading, NotReading
<1>3. TypeOK
  BY <1>1, <1>2, Bounds DEF Init, TypeOK
<1>4. Budget
  <2>1. Writing = {}
    BY DEF Init, Writing, NoCall
  <2>2. Pending = 0
    BY <2>1, WritingCount, FS_EmptySet
  <2> QED
    BY <2>2, Bounds DEF Init, Budget
<1>5. Seen
  <2>1. Faithful(Current)
    BY <1>3, CurrentFaithful
  <2>2. \A q \in Reader : read[q].reading => read[q].table = Current
    BY DEF Init, Reading, NotReading
  <2>3. held.on = {} /\ phase = "loading" /\ settled = {} /\ cache.at = 0 /\ newest = 0
    BY DEF Init, NoTable
  <2> QED
    BY <2>1, <2>2, <2>3 DEF Seen
<1>6. Ways
  BY DEF Init, Ways, Way, Handles, NoEvent
<1> QED
  BY <1>3, <1>4, <1>5, <1>6 DEF Inv

\* It holds of every state.
THEOREM Invariance == Spec => []Inv
<1>1. Inv /\ [Next]_vars => Inv'
  BY TypeStep, BudgetStep, SeenStep, WaysStep DEF Inv
<1> QED
  BY InvInit, <1>1, PTL DEF Spec

\* The state of the service keeps its types.
THEOREM TypeCorrect == Spec => []TypeOK
  BY Invariance, PTL DEF Inv

\* What a tool answered is in effect, until an overtaken read puts an older
\* table back.
THEOREM AnsweredAlways == Spec => []AnsweredIsInEffect
<1>1. Inv => AnsweredIsInEffect
  <2> SUFFICES ASSUME Inv, cache.at = newest, NEW r \in settled
               PROVE  r \in cache.on <=> row[r] = "on"
    BY DEF AnsweredIsInEffect
  <2>1. r \in Reflex /\ phase = "ready" /\ wrote[r] <= cache.at
    BY DEF Inv, TypeOK, Seen
  <2> QED
    BY <2>1 DEF Inv, Seen, Faithful
<1> QED
  BY Invariance, <1>1, PTL

\* An event that was delivered once takes one way.
THEOREM OneWayAlways == Spec => []ReflexSkipsAnalysis
<1>1. Inv => ReflexSkipsAnalysis
  BY DEF Inv, Ways, Way, ReflexSkipsAnalysis
<1> QED
  BY Invariance, <1>1, PTL

-----------------------------------------------------------------------------
(* What the cache is behind by.                                             *)

\* Writes are numbered up.
Numbered == \A r \in Reflex : wrote[r] <= writes

\* A write takes the next number, and nothing else takes one.
LEMMA NumberedAlways == Spec => []Numbered
<1>1. Init => Numbered
  BY DEF Init, Numbered
<1>2. TypeOK /\ Numbered /\ [Next]_vars => Numbered'
  <2> SUFFICES ASSUME TypeOK, Numbered, [Next]_vars PROVE Numbered'
    OBVIOUS
  <2>1. ASSUME NEW t \in Tool, Write(t) PROVE Numbered'
    <3>1. writes \in Nat /\ \A r \in Reflex : wrote[r] \in Nat
      BY Bounds DEF TypeOK
    <3>2. \A r \in Reflex : wrote'[r] = wrote[r] \/ wrote'[r] = writes'
      BY <2>1 DEF Write, TypeOK
    <3>3. writes' = writes + 1
      BY <2>1 DEF Write
    <3> QED
      BY <3>1, <3>2, <3>3 DEF Numbered
  <2>2. CASE UNCHANGED <<writes, wrote>>
    BY <2>2 DEF Numbered
  <2>3. ASSUME NEW t \in Tool, ToolStep(t) \/ WriteFails(t) \/ RefreshFails(t) PROVE Numbered'
    BY <2>1, <2>2, <2>3 DEF ToolStep, ToolWrites, ToolReads, ToolAnswers, WriteFails, RefreshFails, table
  <2>4. ASSUME NEW h \in Handler, HandlerStep(h) \/ \E e \in Event : Select(h, e)
        PROVE  Numbered'
    BY <2>2, <2>4 DEF HandlerStep, Execute, Route, Acknowledge, Select, table
  <2> QED
    BY <2>2, <2>3, <2>4 DEF Next, Initialize, InitialAnswer, Listen, PollStep, BeginPoll, PollAnswer,
       ReadFails, BeginTool, Redeliver, table, vars
<1> QED
  BY <1>1, <1>2, TypeCorrect, PTL DEF Spec

\* The cache of the running service is a table the store has had: it differs
\* from the rows only in reflexes that were written since it was read.  One that
\* has caught up, as CacheCatchesUp says it does, is the table.
THEOREM StaleOnlyWhereWritten ==
  Spec => [](phase = "ready" => \A r \in Reflex :
                (r \in cache.on) # (row[r] = "on") => cache.at < wrote[r] /\ wrote[r] <= writes)
<1>1. Inv /\ Numbered =>
        (phase = "ready" => \A r \in Reflex :
            (r \in cache.on) # (row[r] = "on") => cache.at < wrote[r] /\ wrote[r] <= writes)
  <2> SUFFICES ASSUME Inv, Numbered, phase = "ready", NEW r \in Reflex,
                      ~ (r \in cache.on <=> row[r] = "on")
               PROVE  cache.at < wrote[r] /\ wrote[r] <= writes
    OBVIOUS
  <2>1. wrote[r] \in Nat /\ cache.at \in Nat
    BY Bounds, TableTypes DEF Inv, TypeOK, Table
  <2>2. ~ (wrote[r] <= cache.at)
    BY DEF Inv, Seen, Faithful
  <2> QED
    BY <2>1, <2>2 DEF Numbered
<1> QED
  BY Invariance, NumberedAlways, <1>1, PTL

-----------------------------------------------------------------------------
(* The listener of Firestore.                                               *)

\* On Firestore the table is read once, when the service starts: no poll, and
\* no tool that refreshes the cache.  The cache holds the newest table it was
\* ever given.
Listening ==
  backend = "firestore" =>
    /\ \A q \in Reader : read[q].reading => q = "initial" /\ phase = "loading"
    /\ \A t \in Tool : tool[t].stage # "refreshing"
    /\ cache.at = newest
    /\ phase = "loading" => newest = 0

\* A read that was not under way is not answered.
LEMMA ListeningReads ==
  ASSUME TypeOK, Listening, backend = "firestore", NEW q \in Reader, Answered(q)
  PROVE  \A p \in Reader : read'[p].reading => p = "initial" /\ phase = "loading" /\ p # q
  BY DEF Answered, NotReading, Listening, TypeOK

\* No step of Firestore's service leaves the listener's order, and the backend
\* was chosen once.
LEMMA ListeningStep ==
  ASSUME TypeOK, Seen, Listening, [Next]_vars
  PROVE  Listening' /\ (backend = "firestore" => cache'.at >= cache.at)
<1> USE DEF table, caches, handling
<1>0. /\ "initial" \in Reader /\ Poll \subseteq Reader /\ Tool \subseteq Reader
      /\ \A t \in Tool : t # "initial"
      /\ cache.at \in Nat /\ newest \in Nat /\ writes \in Nat
  BY Bounds, ReflexAssumption DEF Reader, TypeOK, Table
<1>1. backend' = backend
  <2>1. ASSUME NEW h \in Handler, HandlerStep(h) \/ \E e \in Event : Select(h, e)
        PROVE  backend' = backend
    BY <2>1 DEF HandlerStep, Execute, Route, Acknowledge, Select
  <2>2. ASSUME NEW t \in Tool, ToolStep(t) \/ WriteFails(t) \/ RefreshFails(t)
        PROVE  backend' = backend
    BY <2>2 DEF ToolStep, ToolWrites, ToolReads, ToolAnswers, WriteFails, RefreshFails
  <2> QED
    BY <2>1, <2>2 DEF Next, Initialize, InitialAnswer, Listen, PollStep, BeginPoll, PollAnswer,
       ReadFails, BeginTool, Redeliver, vars
<1> SUFFICES ASSUME backend = "firestore" PROVE Listening' /\ cache'.at >= cache.at
  BY <1>1 DEF Listening
<1>2. ASSUME UNCHANGED caches,
             \A t \in Tool : tool'[t].stage = "refreshing" => tool[t].stage = "refreshing"
      PROVE  Listening' /\ cache'.at >= cache.at
  BY <1>0, <1>2 DEF Listening
<1>3. CASE Initialize
  <2>1. /\ Refresh(read["initial"].table) /\ Answered("initial")
        /\ phase = "loading" /\ phase' = "ready" /\ tool' = tool
    BY <1>3 DEF Initialize, Answered
  <2>2. read["initial"].table.at \in Nat
    BY <1>0, Bounds, TableTypes DEF Table
  <2>3. cache'.at = newest' /\ newest = 0 /\ cache.at = 0
    BY <2>1, <2>2 DEF Refresh, Later, Listening
  <2>4. \A p \in Reader : ~ read'[p].reading
    BY <1>0, <2>1, ListeningReads, TableTypes DEF Answered, NotReading, Listening, TypeOK
  <2>5. cache'.at >= cache.at
    BY <2>1, <2>2, <2>3 DEF Refresh
  <2> QED
    BY <2>1, <2>3, <2>4, <2>5 DEF Listening
<1>4. CASE Listen
  <2>1. Current.at = writes /\ newest <= writes
    <3>1. phase = "ready" /\ cache.at = newest /\ cache.at <= writes
      BY <1>4 DEF Listen, Listening, Seen, Faithful
    <3> QED
      BY <3>1, CurrentType
  <2>2. cache'.at = writes /\ newest' = writes
    BY <1>0, <1>4, <2>1 DEF Listen, Refresh, Later
  <2>3. cache.at = newest /\ phase' = "ready" /\ UNCHANGED <<read, tool>>
    BY <1>4 DEF Listen, Listening
  <2> QED
    BY <1>0, <1>4, <2>1, <2>2, <2>3 DEF Listen, Listening
<1>5. ASSUME NEW q \in Poll \union {"initial"}, ReadFails(q)
      PROVE  Listening' /\ cache'.at >= cache.at
  <2>1. q \in Reader /\ q = "initial" /\ phase = "loading"
    BY <1>0, <1>5 DEF ReadFails, Listening
  <2>2. q \in Poll
    BY <1>5, <2>1 DEF ReadFails
  <2> QED
    BY <2>1, <2>2, ReflexAssumption
<1>6. ~ InitialAnswer /\ (\A q \in Poll : ~ PollStep(q))
  BY <1>0, ReflexAssumption DEF InitialAnswer, PollStep, BeginPoll, PollAnswer, Listening
<1>7. ASSUME NEW t \in Tool, NEW r \in Reflex, NEW change, BeginTool(t, r, change)
      PROVE  Listening' /\ cache'.at >= cache.at
  BY <1>2, <1>7 DEF BeginTool, Called, TypeOK
<1>8. ASSUME NEW t \in Tool, ToolStep(t) \/ WriteFails(t) \/ RefreshFails(t)
      PROVE  Listening' /\ cache'.at >= cache.at
  <2>1. ToolWrites(t) \/ WriteFails(t)
    BY <1>8 DEF ToolStep, ToolReads, ToolAnswers, RefreshFails, Listening
  <2>2. tool' = [tool EXCEPT ![t] = NoCall] /\ UNCHANGED caches
    BY <2>1 DEF ToolWrites, WriteFails
  <2> QED
    BY <1>2, <2>2 DEF NoCall, TypeOK
<1>9. CASE \/ \E h \in Handler : HandlerStep(h) \/ \E e \in Event : Select(h, e)
           \/ \E e \in Event : Redeliver(e)
           \/ UNCHANGED vars
  BY <1>2, <1>9 DEF HandlerStep, Select, Execute, Route, Acknowledge, Redeliver, vars
<1> QED
  BY <1>3, <1>4, <1>5, <1>6, <1>7, <1>8, <1>9 DEF Next

\* The first state.
LEMMA ListeningInit == Init => Listening
<1> SUFFICES ASSUME Init PROVE Listening
  OBVIOUS
<1>1. \A q \in Reader : read[q].reading => q = "initial"
  BY DEF Init, NotReading
<1> QED
  BY <1>1 DEF Init, Listening, NoTable, NoCall

\* Firestore's listener never takes a change back: what the cache holds is
\* replaced only by a later table.  A document store's polls and tools do, which
\* is why AnsweredIsInEffect speaks of the newest table.
THEOREM ListenerNeverBack ==
  Spec => [][backend = "firestore" => cache'.at >= cache.at]_vars
<1>1. Inv /\ Listening /\ [Next]_vars => Listening'
  BY ListeningStep DEF Inv
<1>2. Inv /\ Listening /\ [Next]_vars => [backend = "firestore" => cache'.at >= cache.at]_vars
  BY ListeningStep DEF Inv
<1> QED
  BY Invariance, ListeningInit, <1>1, <1>2, PTL DEF Spec

=============================================================================
