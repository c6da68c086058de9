------------------------ MODULE ScheduleTicks_proofs ------------------------
(***************************************************************************)
(* Proofs about ScheduleTicks, for all sets of schedules, ticks, editors,  *)
(* cron expressions, rules and updates and all bounds: its types, that an  *)
(* occurrence is published once, never early and never skipped, that no    *)
(* slot is slept past, that a deleted row stays deleted, and that          *)
(* Firestore keeps the event of every row.                                 *)
(***************************************************************************)
EXTENDS ScheduleTicks, TLAPS

\* A tick that is not running has no jobs, and its time is not in the future.
Pcs ==
    \A k \in Tick :
        /\ tick[k].now <= clock
        /\ tick[k].pc # "running" => \A s \in Schedule : job[k][s].stage = "none"

\* Every copy of a row that does not exist is out of date.
Gone(s) == ~ Live(s) => outdated[s] = Tick \union Editor

\* A job before its publication has an occurrence that has come; on a document
\* store, update has seen the row.
JobsOf(s) ==
    \A k \in Tick :
        /\ job[k][s].stage \in {"waiting", "publishing"} => job[k][s].row.nextRun \in 0..clock
        /\ backend = "document" /\ job[k][s].stage = "writing" => job[k][s].base.state = "live"

Edits(e, s) == edit[e].stage # "idle" /\ edit[e].id = s

\* A copy that is not out of date is the row.
Current(s) ==
    /\ \A k \in Tick \ outdated[s] :
            HoldsJob(k, s) => job[k][s].row = row[s] /\ job[k][s].base = row[s]
    /\ \A e \in Editor \ outdated[s] : Edits(e, s) => edit[e].base = row[s]

\* Only what has come is published.
Past(s) == \A o \in Occurrence : published[s][o] # 0 => o <= clock

OneTick(s) == \A k, l \in Tick : HoldsJob(k, s) /\ HoldsJob(l, s) => k = l

\* A job publishes, and settles on, an occurrence that was not published.
NotYet(s) ==
    \A k \in Tick :
        /\ job[k][s].stage \in {"waiting", "publishing"} => published[s][job[k][s].row.nextRun] = 0
        /\ job[k][s].stage = "writing" /\ job[k][s].next \in Occurrence
              => published[s][job[k][s].next] = 0

\* An occurrence that was published and is still, or is about to be, the
\* nextRun of the row, has a tick that will move it on.
MovesOn(s) ==
    \A o \in Occurrence :
        /\ published[s][o] # 0
        /\ \/ Live(s) /\ row[s].nextRun = o
           \/ \E e \in Editor \ outdated[s] : Edits(e, s) /\ edit[e].sets /\ edit[e].next = o
        => \E k \in Tick : job[k][s].stage \in Published

Single(s) ==
    s \notin raced \union failed =>
        /\ OneTick(s)
        /\ NotYet(s)
        /\ MovesOn(s)
        /\ \A o \in Occurrence : published[s][o] \in 0..1

Timely(rule, next) ==
    rule.type = "cron" => next # NoRun /\ next <= NextSlot[rule.cron][clock]

\* The slot that is stored, or about to be, is not past the next one.
Awake(s) ==
    /\ s \notin raced /\ Live(s) => Timely(row[s].rule, row[s].nextRun)
    /\ \A k \in Tick :
            job[k][s].stage = "writing" => Timely(job[k][s].row.rule, job[k][s].next)
    /\ \A e \in Editor : Edits(e, s) =>
            /\ edit[e].update.rule.type # "keep" =>
                  edit[e].sets /\ Timely(edit[e].update.rule, edit[e].next)
            /\ edit[e].update.rule.type = "keep" /\ edit[e].sets /\ e \notin outdated[s] =>
                  Timely(row[s].rule, edit[e].next)

Book(s) == Gone(s) /\ JobsOf(s) /\ Current(s) /\ Awake(s)

Inv ==
    /\ TypeOK
    /\ Pcs
    /\ \A s \in Schedule : Book(s) /\ Past(s) /\ Single(s)

-----------------------------------------------------------------------------
(* Types.                                                                   *)

\* The bounds are numbers, and no place is a tick and an editor.
LEMMA Bounds ==
    /\ MaxTime \in Nat /\ MaxEdits \in Nat /\ MaxFaults \in Nat
    /\ Tick \intersect Editor = {}
    /\ Rules \subseteq Rule /\ Updates \subseteq Update
  BY ScheduleAssumption

\* A rule is one of three.
LEMMA RuleCases ==
  ASSUME NEW rule \in Rule
  PROVE  \/ rule.type = "once" /\ rule.at \in Time
         \/ rule.type = "cron" /\ rule.cron \in Cron
         \/ rule.type = "broken"
  BY DEF Rule, Once, CronRule, Broken, Time

\* What calculateNextRun answers: nothing, or a time to come, which for a cron
\* rule is the next slot.
LEMMA NextRunFacts ==
  ASSUME NEW rule \in Rule, NEW now \in Time
  PROVE  /\ NextRun(rule, now) \in Run
         /\ NextRun(rule, now) # NoRun => NextRun(rule, now) > now
         /\ rule.type = "cron" =>
              /\ rule.cron \in Cron
              /\ NextRun(rule, now) = NextSlot[rule.cron][now]
              /\ NextRun(rule, now) # NoRun
<1>1. now \in 0..MaxTime /\ now \in Nat /\ MaxTime \in Nat
  BY Bounds DEF Time
<1>2. CASE rule.type = "once" /\ rule.at \in Time
  BY <1>1, <1>2 DEF NextRun, Run, NoRun, Time
<1>3. CASE rule.type = "cron" /\ rule.cron \in Cron
  <2>1. NextSlot[rule.cron][now] \in Nat /\ NextSlot[rule.cron][now] > now
    BY <1>1, <1>3, ScheduleAssumption
  <2>2. NextRun(rule, now) = NextSlot[rule.cron][now]
    BY <1>3 DEF NextRun
  <2> QED
    BY <1>3, <2>1, <2>2 DEF Run, NoRun
<1>4. CASE rule.type = "broken"
  BY <1>4 DEF NextRun, Run, NoRun
<1> QED
  BY <1>2, <1>3, <1>4, RuleCases

\* The parts of the state that is typed.
LEMMA Parts ==
  ASSUME TypeOK
  PROVE  /\ clock \in Time
         /\ \A s \in Schedule :
              /\ row[s] \in Row
              /\ row[s].rule \in Rule /\ row[s].nextRun \in Run /\ row[s].enabled \in BOOLEAN
         /\ \A k \in Tick : tick[k].now \in Time
         /\ \A k \in Tick, s \in Schedule :
              /\ job[k][s] \in Job
              /\ job[k][s].stage \in JobStage
              /\ job[k][s].row \in Row /\ job[k][s].base \in Row
              /\ job[k][s].row.rule \in Rule /\ job[k][s].next \in Run
         /\ \A e \in Editor : edit[e].stage # "idle" =>
              /\ edit[e] \in EditCall
              /\ edit[e].id \in Schedule /\ edit[e].update \in Update
              /\ edit[e].sets \in BOOLEAN /\ edit[e].next \in Run /\ edit[e].base \in Row
         /\ NoJob \in Job /\ NoRow("deleted") \in Row
<1>1. \A s \in Schedule : row[s] \in Row
  BY DEF TypeOK
<1>2. \A k \in Tick, s \in Schedule : job[k][s] \in Job
  BY DEF TypeOK
<1>3. \A e \in Editor : edit[e].stage # "idle" => edit[e] \in EditCall
  BY DEF TypeOK, EditState, NoEdit
<1>4. NoJob \in Job /\ NoRow("deleted") \in Row
  BY DEF NoJob, Job, JobStage, NoRow, Row, Rule, Run, NoRun
<1>5. clock \in Time /\ \A k \in Tick : tick[k].now \in Time
  BY DEF TypeOK, TickState
<1>6. \A r \in Row : r.rule \in Rule /\ r.nextRun \in Run /\ r.enabled \in BOOLEAN
  BY DEF Row
<1>7. \A j \in Job : j.stage \in JobStage /\ j.row \in Row /\ j.base \in Row /\ j.next \in Run
  BY DEF Job
<1>8. \A d \in EditCall : /\ d.id \in Schedule /\ d.update \in Update
                          /\ d.sets \in BOOLEAN /\ d.next \in Run /\ d.base \in Row
  BY DEF EditCall
<1> QED
  BY <1>1, <1>2, <1>3, <1>4, <1>5, <1>6, <1>7, <1>8

\* A fault is counted.
LEMMA FaultType ==
  ASSUME TypeOK, Fault
  PROVE  faults' \in 0..MaxFaults
<1>1. faults \in 0..MaxFaults /\ faults < MaxFaults /\ faults' = faults + 1
  BY DEF TypeOK, Fault
<1> QED
  BY <1>1, Bounds

\* A job that is replaced, and the others.
LEMMA JobReplaced ==
  ASSUME TypeOK, NEW k \in Tick, NEW s \in Schedule, NEW j \in Job,
         job' = [job EXCEPT ![k][s] = j]
  PROVE  /\ job' \in [Tick -> [Schedule -> Job]]
         /\ job'[k][s] = j
         /\ \A l \in Tick, t \in Schedule : l # k \/ t # s => job'[l][t] = job[l][t]
  BY DEF TypeOK

\* A job that changes its stage or ends, and the others.
LEMMA JobChange ==
  ASSUME TypeOK, NEW k \in Tick, NEW s \in Schedule
  PROVE  /\ \A stage \in JobStage : ToStage(k, s, stage) =>
              /\ job' \in [Tick -> [Schedule -> Job]]
              /\ job'[k][s] = [job[k][s] EXCEPT !.stage = stage]
              /\ \A l \in Tick, t \in Schedule : l # k \/ t # s => job'[l][t] = job[l][t]
         /\ EndJob(k, s) =>
              /\ job' \in [Tick -> [Schedule -> Job]]
              /\ job'[k][s] = NoJob
              /\ \A l \in Tick, t \in Schedule : l # k \/ t # s => job'[l][t] = job[l][t]
<1>1. ASSUME NEW stage \in JobStage, ToStage(k, s, stage)
      PROVE  /\ job' \in [Tick -> [Schedule -> Job]]
             /\ job'[k][s] = [job[k][s] EXCEPT !.stage = stage]
             /\ \A l \in Tick, t \in Schedule : l # k \/ t # s => job'[l][t] = job[l][t]
  <2> PICK j \in Job : j = [job[k][s] EXCEPT !.stage = stage]
    BY Parts DEF Job
  <2>1. job' = [job EXCEPT ![k][s] = j]
    BY <1>1 DEF ToStage, TypeOK
  <2> QED
    BY <2>1, JobReplaced
<1>2. ASSUME EndJob(k, s)
      PROVE  /\ job' \in [Tick -> [Schedule -> Job]]
             /\ job'[k][s] = NoJob
             /\ \A l \in Tick, t \in Schedule : l # k \/ t # s => job'[l][t] = job[l][t]
  <2>1. job' = [job EXCEPT ![k][s] = NoJob] /\ NoJob \in Job
    BY <1>2, Parts DEF EndJob
  <2> QED
    BY <2>1, JobReplaced
<1> QED
  BY <1>1, <1>2

\* An event is counted for its occurrence.
LEMMA CountChange ==
  ASSUME TypeOK, NEW s \in Schedule, NEW o, CountEvent(s, o)
  PROVE  /\ published' \in [Schedule -> [Occurrence -> 0..2]]
         /\ \A t \in Schedule \ {s} : published'[t] = published[t]
         /\ \A p \in Occurrence \ {o} : published'[s][p] = published[s][p]
         /\ o \in Occurrence => published'[s][o] # 0
         /\ o \in Occurrence /\ published[s][o] = 0 => published'[s][o] = 1
<1>1. published \in [Schedule -> [Occurrence -> 0..2]]
  BY DEF TypeOK
<1>2. o \in Occurrence => published[s][o] \in 0..2
  BY <1>1
<1> DEFINE n == IF published[s][o] < 2 THEN published[s][o] + 1 ELSE 2
<1>3. published' = [published EXCEPT ![s] = [published[s] EXCEPT ![o] = n]]
  BY <1>1 DEF CountEvent
<1>4. o \in Occurrence => n \in 0..2 /\ n # 0 /\ (published[s][o] = 0 => n = 1)
  BY <1>2
<1> HIDE DEF n
<1>5. [published[s] EXCEPT ![o] = n] \in [Occurrence -> 0..2]
  BY <1>1, <1>4
<1> QED
  BY <1>1, <1>3, <1>4, <1>5

\* The row that processSingleSchedule writes.
LEMMA SettledType ==
  ASSUME NEW base \in Row, NEW j \in Job
  PROVE  /\ Settled(base, j) \in Row
         /\ Settled(base, j).state = base.state
         /\ Settled(base, j).rule = base.rule
         /\ Settled(base, j).nextRun = j.next
<1>1. j.row \in Row /\ j.next \in Run
  BY DEF Job
<1>2. (IF j.row.rule.type = "once" THEN FALSE ELSE j.row.enabled) \in BOOLEAN
  BY <1>1 DEF Row
<1> QED
  BY <1>1, <1>2 DEF Settled, Row

\* The row that update_schedule writes.
LEMMA EditedType ==
  ASSUME NEW base \in Row, NEW d \in EditCall
  PROVE  /\ Edited(base, d) \in Row
         /\ Edited(base, d).state = base.state
         /\ Edited(base, d).rule =
              IF d.update.rule.type = "keep" THEN base.rule ELSE d.update.rule
         /\ Edited(base, d).nextRun =
              IF d.sets /\ (d.next # NoRun \/ backend = "document") THEN d.next ELSE base.nextRun
<1>1. d.update \in Update /\ d.sets \in BOOLEAN /\ d.next \in Run
  BY DEF EditCall
<1>2. d.update.rule \in Rule \union {Keep} /\ d.update.enabled \in {"keep", "on", "off"}
  BY <1>1 DEF Update
<1>3. d.update.rule.type # "keep" => d.update.rule \in Rule
  BY <1>2 DEF Keep
<1>4. /\ base.state \in {"unborn", "live", "deleted"} /\ base.rule \in Rule
      /\ base.event \in {"authored", "missing"} /\ base.enabled \in BOOLEAN
      /\ base.nextRun \in Run
  BY DEF Row
<1>5. (IF d.update.rule.type = "keep" THEN base.rule ELSE d.update.rule) \in Rule
  BY <1>3, <1>4
<1>6. (IF d.update.enabled = "keep" THEN base.enabled ELSE d.update.enabled = "on") \in BOOLEAN
  BY <1>4
<1>7. (IF d.sets /\ (d.next # NoRun \/ backend = "document") THEN d.next ELSE base.nextRun) \in Run
  BY <1>1, <1>4
<1>8. (IF d.update.event THEN "authored"
       ELSE IF backend = "document" THEN "missing" ELSE base.event) \in {"authored", "missing"}
  BY <1>4
<1> QED
  BY <1>4, <1>5, <1>6, <1>7, <1>8 DEF Edited, Row

\* The row an update starts from is a row.
LEMMA BaseType ==
  ASSUME TypeOK, NEW k \in Tick, NEW s \in Schedule
  PROVE  (IF backend = "document" THEN job[k][s].base ELSE row[s]) \in Row
  BY Parts

\* A write marks every copy, and counts the race it won.
LEMMA WroteType ==
  ASSUME TypeOK, NEW h, NEW s \in Schedule, Wrote(h, s)
  PROVE  /\ outdated' \in [Schedule -> SUBSET (Tick \union Editor)]
         /\ raced' \in SUBSET Schedule
         /\ outdated'[s] = Tick \union Editor
         /\ \A t \in Schedule \ {s} : outdated'[t] = outdated[t]
         /\ raced \subseteq raced' /\ raced' \subseteq raced \union {s}
         /\ h \in outdated[s] => s \in raced'
<1>1. outdated \in [Schedule -> SUBSET (Tick \union Editor)] /\ raced \in SUBSET Schedule
  BY DEF TypeOK
<1> QED
  BY <1>1 DEF Wrote

\* The steps of ticks and jobs keep the types.
LEMMA TickType ==
  ASSUME TypeOK, NEW k \in Tick, TickStep(k) \/ (\E s \in Schedule : JobStep(k, s))
  PROVE  TypeOK'
<1> USE DEF store, history
<1>1. CASE StartTick(k)
  <2>1. [pc |-> "asked", now |-> clock] \in TickState
    BY Parts DEF TickState
  <2>2. tick' \in [Tick -> TickState]
    BY <1>1, <2>1 DEF StartTick, TypeOK
  <2> QED
    BY <1>1, <2>2 DEF StartTick, TypeOK
<1>2. CASE ReadDue(k)
  <2> PICK due \in SUBSET Schedule : due = {s \in Schedule : DueAt(s, tick[k].now)}
    OBVIOUS
  <2>1. \A s \in Schedule : [stage |-> "waiting", row |-> row[s], next |-> NoRun, base |-> row[s]] \in Job
    BY Parts DEF Job, JobStage, Run
  <2>2. job' \in [Tick -> [Schedule -> Job]]
    <3>1. [s \in Schedule |->
              IF s \in due
              THEN [stage |-> "waiting", row |-> row[s], next |-> NoRun, base |-> row[s]]
              ELSE NoJob] \in [Schedule -> Job]
      BY <2>1, Parts
    <3> QED
      BY <1>2, <3>1 DEF ReadDue, TypeOK
  <2>3. tick' \in [Tick -> TickState]
    <3>1. [tick[k] EXCEPT !.pc = "running"] \in TickState
      BY DEF TypeOK, TickState
    <3> QED
      BY <1>2, <3>1 DEF ReadDue, TypeOK
  <2>4. outdated' \in [Schedule -> SUBSET (Tick \union Editor)] /\ raced' \in SUBSET Schedule
    <3>1. \A s \in Schedule : outdated[s] \in SUBSET (Tick \union Editor)
      BY DEF TypeOK
    <3> QED
      BY <1>2, <3>1 DEF ReadDue, TypeOK
  <2> QED
    BY <1>2, <2>2, <2>3, <2>4 DEF ReadDue, TypeOK
<1>3. ASSUME NEW batch \in SUBSET Schedule, StartBatch(k, batch)
      PROVE  TypeOK'
  <2>1. \A s \in Schedule : [job[k][s] EXCEPT !.stage = "publishing"] \in Job
    BY Parts DEF Job, JobStage
  <2>2. [s \in Schedule |->
            IF s \in batch THEN [job[k][s] EXCEPT !.stage = "publishing"] ELSE job[k][s]]
          \in [Schedule -> Job]
    BY <2>1, Parts
  <2>3. job' \in [Tick -> [Schedule -> Job]]
    BY <1>3, <2>2 DEF StartBatch, TypeOK
  <2> QED
    BY <1>3, <2>3 DEF StartBatch, TypeOK
<1>4. CASE EndTick(k)
  <2>1. NoTick \in TickState
    BY Bounds DEF NoTick, TickState, Time
  <2> QED
    BY <1>4, <2>1 DEF EndTick, TypeOK
<1>5. ASSUME NEW s \in Schedule, Publish(k, s)
      PROVE  TypeOK'
  <2>1. job' \in [Tick -> [Schedule -> Job]]
    BY <1>5, JobChange DEF Publish, JobStage
  <2>2. published' \in [Schedule -> [Occurrence -> 0..2]]
    BY <1>5, CountChange DEF Publish
  <2> QED
    BY <1>5, <2>1, <2>2 DEF Publish, TypeOK
<1>6. ASSUME NEW s \in Schedule, ExecuteThrows(k, s)
      PROVE  TypeOK'
  <2>1. job' \in [Tick -> [Schedule -> Job]]
    BY <1>6, JobChange DEF ExecuteThrows
  <2> QED
    BY <1>6, <2>1 DEF ExecuteThrows, TypeOK
<1>7. ASSUME NEW s \in Schedule, Calculate(k, s)
      PROVE  TypeOK'
  <2> PICK j \in Job : j = [stage |-> "writing", row |-> job[k][s].row,
                            base |-> IF backend = "document" THEN row[s] ELSE job[k][s].base,
                            next |-> NextRun(job[k][s].row.rule, clock)]
    BY Parts, NextRunFacts DEF Job, JobStage
  <2>1. CASE job' = [job EXCEPT ![k][s] = j]
    <3>1. job' \in [Tick -> [Schedule -> Job]]
      BY <2>1, JobReplaced
    <3> QED
      BY <1>7, <3>1 DEF Calculate, TypeOK
  <2>2. CASE EndJob(k, s)
    <3>1. job' \in [Tick -> [Schedule -> Job]]
      BY <2>2, JobChange
    <3> QED
      BY <1>7, <3>1 DEF Calculate, TypeOK
  <2> QED
    BY <1>7, <2>1, <2>2 DEF Calculate
<1>8. ASSUME NEW s \in Schedule, Settle(k, s)
      PROVE  TypeOK'
  <2> PICK base \in Row : base = IF backend = "document" THEN job[k][s].base ELSE row[s]
    BY BaseType
  <2>1. job' \in [Tick -> [Schedule -> Job]]
    BY <1>8, JobChange DEF Settle
  <2>2. Settled(base, job[k][s]) \in Row
    BY SettledType, Parts
  <2>3. CASE row' = [row EXCEPT ![s] = Settled(base, job[k][s])] /\ Wrote(k, s)
    BY <1>8, <2>1, <2>2, <2>3, WroteType DEF Settle, TypeOK
  <2>4. CASE UNCHANGED <<row, outdated, raced>>
    BY <1>8, <2>1, <2>4 DEF Settle, TypeOK
  <2> QED
    BY <1>8, <2>3, <2>4 DEF Settle
<1> QED
  BY <1>1, <1>2, <1>3, <1>4, <1>5, <1>6, <1>7, <1>8 DEF TickStep, JobStep

\* The calls of the tools keep the types.
LEMMA ToolType ==
  ASSUME TypeOK, ToolCall \/ (\E e \in Editor : EditStep(e))
  PROVE  TypeOK'
<1> USE DEF store, history
<1>1. ASSUME NEW s \in Schedule, NEW rule \in Rules, NEW on \in BOOLEAN, Create(s, rule, on)
      PROVE  TypeOK'
  <2>1. [state |-> "live", rule |-> rule, event |-> "authored",
         enabled |-> on, nextRun |-> NextRun(rule, clock)] \in Row
    BY Bounds, Parts, NextRunFacts DEF Row
  <2>2. row' \in [Schedule -> Row]
    BY <1>1, <2>1 DEF Create, TypeOK
  <2> QED
    BY <1>1, <2>2 DEF Create, TypeOK
<1>2. ASSUME NEW s \in Schedule, Delete(s)
      PROVE  TypeOK'
  BY <1>2, Parts DEF Delete, TypeOK
<1>3. ASSUME NEW e \in Editor, NEW s \in Schedule, NEW u \in Updates, BeginEdit(e, s, u)
      PROVE  TypeOK'
  <2>1. u \in Update /\ (u.rule.type # "keep" => u.rule \in Rule)
    BY Bounds DEF Update, Keep
  <2> PICK next \in Run : next = IF u.rule.type # "keep" THEN NextRun(u.rule, clock)
                          ELSE IF u.enabled = "on" /\ row[s].nextRun = NoRun
                               THEN NextRun(row[s].rule, clock) ELSE NoRun
    <3>1. NoRun \in Run
      BY DEF Run
    <3> QED
      BY <2>1, <3>1, Parts, NextRunFacts
  <2> PICK sets \in BOOLEAN : sets = (u.rule.type # "keep" \/ (u.enabled = "on" /\ row[s].nextRun = NoRun))
    OBVIOUS
  <2>2. [stage |-> "updating", id |-> s, update |-> u, sets |-> sets, next |-> next,
         base |-> row[s]] \in EditState
    BY <2>1, Parts DEF EditState, EditCall
  <2>3. edit' = [edit EXCEPT ![e] = [stage |-> "updating", id |-> s, update |-> u,
                                     sets |-> sets, next |-> next, base |-> row[s]]]
    BY <1>3 DEF BeginEdit
  <2>4. edit' \in [Editor -> EditState]
    BY <2>2, <2>3 DEF TypeOK
  <2>5. edits' \in 0..MaxEdits
    <3>1. edits \in 0..MaxEdits /\ edits < MaxEdits /\ edits' = edits + 1
      BY <1>3 DEF BeginEdit, TypeOK
    <3> QED
      BY <3>1, Bounds
  <2>6. outdated' \in [Schedule -> SUBSET (Tick \union Editor)]
    BY <1>3 DEF BeginEdit, TypeOK
  <2> QED
    BY <1>3, <2>4, <2>5, <2>6 DEF BeginEdit, TypeOK
<1>4. \A e \in Editor : EndEdit(e) => edit' \in [Editor -> EditState]
  BY DEF EndEdit, EditState, TypeOK
<1>5. ASSUME NEW e \in Editor, MergeEdit(e)
      PROVE  TypeOK'
  <2>1. edit[e] \in EditCall /\ edit[e].id \in Schedule
    BY <1>5, Parts DEF MergeEdit
  <2>2. [stage |-> "writing", id |-> edit[e].id, update |-> edit[e].update,
         sets |-> edit[e].sets, next |-> edit[e].next, base |-> row[edit[e].id]] \in EditState
    BY <2>1, Parts DEF EditState, EditCall
  <2>3. edit' \in [Editor -> EditState]
    BY <1>4, <1>5, <2>2 DEF MergeEdit, TypeOK
  <2> QED
    BY <1>5, <2>3 DEF MergeEdit, TypeOK
<1>6. ASSUME NEW e \in Editor, WriteEdit(e)
      PROVE  TypeOK'
  <2>1. edit[e].stage # "idle"
    BY <1>6 DEF WriteEdit
  <2> PICK s \in Schedule : s = edit[e].id
    BY <2>1, Parts
  <2> PICK base \in Row : base = IF backend = "document" THEN edit[e].base ELSE row[s]
    BY <2>1, Parts
  <2>2. Edited(base, edit[e]) \in Row
    BY <2>1, EditedType, Parts
  <2>3. CASE row' = [row EXCEPT ![s] = Edited(base, edit[e])] /\ Wrote(e, s)
    BY <1>4, <1>6, <2>2, <2>3, WroteType DEF WriteEdit, TypeOK
  <2>4. CASE UNCHANGED <<row, outdated, raced>>
    BY <1>4, <1>6, <2>4 DEF WriteEdit, TypeOK
  <2> QED
    BY <1>6, <2>3, <2>4 DEF WriteEdit
<1> QED
  BY <1>1, <1>2, <1>3, <1>5, <1>6 DEF ToolCall, EditStep

\* Every step keeps the types.
LEMMA TypeStep ==
  ASSUME TypeOK, [Next]_vars
  PROVE  TypeOK'
<1> USE DEF store, history
<1>0. NoTick \in TickState
  BY Bounds DEF NoTick, TickState, Time
<1>1. CASE Pass
  <2>1. clock' \in Time
    <3>1. clock \in 0..MaxTime /\ clock < MaxTime /\ clock' = clock + 1
      BY <1>1 DEF Pass, TypeOK, Time
    <3> QED
      BY <3>1, Bounds DEF Time
  <2> QED
    BY <1>1, <2>1 DEF Pass, TypeOK
<1>2. ASSUME NEW k \in Tick, ReadFails(k)
      PROVE  TypeOK'
  BY <1>0, <1>2, FaultType DEF ReadFails, TypeOK
<1>3. ASSUME NEW k \in Tick, Die(k)
      PROVE  TypeOK'
  <2>1. [s \in Schedule |-> NoJob] \in [Schedule -> Job]
    BY Parts
  <2>2. job' \in [Tick -> [Schedule -> Job]]
    BY <1>3, <2>1 DEF Die, TypeOK
  <2>3. failed' \in SUBSET Schedule
    BY <1>3 DEF Die, TypeOK
  <2> QED
    BY <1>0, <1>3, <2>2, <2>3, FaultType DEF Die, TypeOK
<1>4. ASSUME NEW k \in Tick, NEW s \in Schedule, PublishFails(k, s)
      PROVE  TypeOK'
  <2>1. job' \in [Tick -> [Schedule -> Job]]
    BY <1>4, JobChange DEF PublishFails
  <2>2. published' \in [Schedule -> [Occurrence -> 0..2]]
    BY <1>4, CountChange DEF PublishFails, TypeOK
  <2> QED
    BY <1>4, <2>1, <2>2, FaultType DEF PublishFails, TypeOK
<1>5. ASSUME NEW k \in Tick, NEW s \in Schedule, SettleFails(k, s)
      PROVE  TypeOK'
  <2>1. job' \in [Tick -> [Schedule -> Job]]
    BY <1>5, JobChange DEF SettleFails
  <2> QED
    BY <1>5, <2>1, FaultType DEF SettleFails, TypeOK
<1>6. ASSUME NEW e \in Editor, EditFails(e)
      PROVE  TypeOK'
  BY <1>6, FaultType DEF EditFails, EndEdit, EditState, TypeOK
<1>7. CASE UNCHANGED vars
  BY <1>7 DEF vars, TypeOK
<1> QED
  BY <1>1, <1>2, <1>3, <1>4, <1>5, <1>6, <1>7, TickType, ToolType DEF Next, FaultStep

-----------------------------------------------------------------------------
(* Steps that tell a schedule nothing new.                                  *)

\* What such a step may do to the jobs, the edits and the rest of s: a job
\* ends, or goes on with the copy it has; an edit ends, or is of another row.
Eases(s) ==
    /\ clock' = clock /\ backend' = backend
    /\ row'[s] = row[s]
    /\ outdated'[s] = outdated[s]
    /\ s \in raced => s \in raced'
    /\ s \in failed => s \in failed'
    /\ \A k \in Tick :
        \/ job'[k][s] = job[k][s]
        \/ job'[k][s] = NoJob
        \/ /\ job[k][s].stage = "waiting"
           /\ job'[k][s] = [job[k][s] EXCEPT !.stage = "publishing"]
        \/ /\ job[k][s].stage = "publishing"
           /\ job'[k][s] = [job[k][s] EXCEPT !.stage = "calculating"]
    /\ \A e \in Editor : edit'[e] = edit[e] \/ edit'[e].stage = "idle" \/ edit'[e].id # s

\* Nothing was published, and a job that had published was not lost, unless
\* the loss is known or the row is gone.
Keeps(s) ==
    /\ published'[s] = published[s]
    /\ \A k \in Tick :
        /\ job[k][s].stage \in Published =>
              job'[k][s].stage \in Published \/ s \in failed' \/ ~ Live(s)
        /\ job[k][s].stage = "publishing" => job'[k][s].stage # "calculating"

\* A job with another stage, field by field.
LEMMA JobFields ==
  ASSUME TypeOK, NEW k \in Tick, NEW s \in Schedule
  PROVE  /\ \A j, stage : j = [job[k][s] EXCEPT !.stage = stage] =>
              /\ j.stage = stage /\ j.row = job[k][s].row
              /\ j.next = job[k][s].next /\ j.base = job[k][s].base
         /\ NoJob.stage = "none"
  BY Parts DEF Job, NoJob

\* The books of a schedule that hears nothing new.
LEMMA EasesBook ==
  ASSUME TypeOK, NEW s \in Schedule, Book(s), Eases(s)
  PROVE  Book(s)'
<1>1. \A k \in Tick :
        \/ job'[k][s] = job[k][s]
        \/ job'[k][s].stage = "none"
        \/ /\ HoldsJob(k, s)
           /\ job'[k][s].stage = "publishing" => job[k][s].stage = "waiting"
           /\ job'[k][s].stage \in {"publishing", "calculating"}
           /\ job'[k][s].row = job[k][s].row
           /\ job'[k][s].base = job[k][s].base
  <2> TAKE k \in Tick
  <2>1. CASE job'[k][s] = NoJob
    BY <2>1, JobFields
  <2>2. CASE /\ job[k][s].stage = "waiting"
             /\ job'[k][s] = [job[k][s] EXCEPT !.stage = "publishing"]
    BY <2>2, JobFields DEF HoldsJob
  <2>3. CASE /\ job[k][s].stage = "publishing"
             /\ job'[k][s] = [job[k][s] EXCEPT !.stage = "calculating"]
    BY <2>3, JobFields DEF HoldsJob
  <2> QED
    BY <2>1, <2>2, <2>3 DEF Eases
<1>2. /\ clock' = clock /\ backend' = backend /\ row'[s] = row[s] /\ outdated'[s] = outdated[s]
      /\ s \in raced => s \in raced'
      /\ \A e \in Editor : edit'[e] = edit[e] \/ edit'[e].stage = "idle" \/ edit'[e].id # s
  BY DEF Eases
<1>3. Gone(s)'
  BY <1>2 DEF Book, Gone, Live
<1>4. JobsOf(s)'
  BY <1>1, <1>2 DEF Book, JobsOf
<1>5. Current(s)'
  BY <1>1, <1>2 DEF Book, Current, HoldsJob, Edits
<1>6. Awake(s)'
  <2>1. s \notin raced' /\ Live(s)' => Timely(row[s].rule, row[s].nextRun)'
    BY <1>2 DEF Book, Awake, Live, Timely
  <2>2. ASSUME NEW k \in Tick, job'[k][s].stage = "writing"
        PROVE  Timely(job[k][s].row.rule, job[k][s].next)'
    BY <1>1, <1>2, <2>2 DEF Book, Awake, Timely
  <2>3. ASSUME NEW e \in Editor, Edits(e, s)'
        PROVE  /\ edit'[e].update.rule.type # "keep" =>
                      edit'[e].sets /\ Timely(edit[e].update.rule, edit[e].next)'
               /\ edit'[e].update.rule.type = "keep" /\ edit'[e].sets /\ e \notin outdated'[s] =>
                      Timely(row[s].rule, edit[e].next)'
    <3>1. edit'[e] = edit[e] /\ Edits(e, s)
      BY <1>2, <2>3 DEF Edits
    <3> QED
      BY <1>2, <3>1 DEF Book, Awake, Timely
  <2> QED
    BY <2>1, <2>2, <2>3 DEF Awake
<1> QED
  BY <1>3, <1>4, <1>5, <1>6 DEF Book

\* The occurrences of a schedule that hears nothing new.
LEMMA EasesSingle ==
  ASSUME TypeOK, NEW s \in Schedule, Book(s), Past(s), Single(s), Eases(s), Keeps(s)
  PROVE  Past(s)' /\ Single(s)'
<1>0. Past(s)'
  BY DEF Past, Keeps, Eases
<1>1. SUFFICES ASSUME s \notin raced' \union failed'
      PROVE  Single(s)'
  BY <1>0 DEF Single
<1>2. /\ OneTick(s) /\ NotYet(s) /\ MovesOn(s)
      /\ \A o \in Occurrence : published[s][o] \in 0..1
  BY <1>1 DEF Eases, Single
<1>3. \A k \in Tick :
        \/ job'[k][s] = job[k][s]
        \/ job'[k][s].stage = "none"
        \/ /\ HoldsJob(k, s)
           /\ job[k][s].stage = "waiting"
           /\ job'[k][s].stage = "publishing"
           /\ job'[k][s].row = job[k][s].row
  <2> TAKE k \in Tick
  <2>1. CASE job'[k][s] = NoJob
    BY <2>1, JobFields
  <2>2. CASE /\ job[k][s].stage = "waiting"
             /\ job'[k][s] = [job[k][s] EXCEPT !.stage = "publishing"]
    BY <2>2, JobFields DEF HoldsJob
  <2>3. CASE /\ job[k][s].stage = "publishing"
             /\ job'[k][s] = [job[k][s] EXCEPT !.stage = "calculating"]
    <3>1. job'[k][s].stage = "calculating"
      BY <2>3, JobFields
    <3> QED
      BY <2>3, <3>1 DEF Keeps
  <2> QED
    BY <2>1, <2>2, <2>3 DEF Eases
<1>4. OneTick(s)'
  BY <1>2, <1>3 DEF OneTick, HoldsJob
<1>5. NotYet(s)'
  BY <1>2, <1>3 DEF NotYet, Keeps
<1>6. MovesOn(s)'
  <2> SUFFICES ASSUME NEW o \in Occurrence, published'[s][o] # 0,
                      \/ Live(s)' /\ row'[s].nextRun = o
                      \/ \E e \in Editor \ outdated'[s] :
                            Edits(e, s)' /\ edit'[e].sets /\ edit'[e].next = o
      PROVE  \E k \in Tick : job'[k][s].stage \in Published
    BY DEF MovesOn
  <2>1. published[s][o] # 0
    BY DEF Keeps
  <2>2. \/ Live(s) /\ row[s].nextRun = o
        \/ \E e \in Editor \ outdated[s] : Edits(e, s) /\ edit[e].sets /\ edit[e].next = o
    BY DEF Eases, Live, Edits
  <2>3. Live(s)
    BY <2>2 DEF Book, Gone
  <2>4. PICK k \in Tick : job[k][s].stage \in Published
    BY <1>2, <2>1, <2>2 DEF MovesOn
  <2> QED
    BY <1>1, <2>3, <2>4 DEF Keeps
<1> QED
  BY <1>2, <1>4, <1>5, <1>6 DEF Single, Keeps

\* A step that leaves everything of s alone, in those terms.
LEMMA Untouched ==
  ASSUME TypeOK, NEW s \in Schedule, Book(s), Past(s), Single(s),
         clock' = clock, backend' = backend, row'[s] = row[s], outdated'[s] = outdated[s],
         s \in raced => s \in raced', s \in failed => s \in failed',
         published'[s] = published[s],
         \A k \in Tick : job'[k][s] = job[k][s],
         \A e \in Editor : edit'[e] = edit[e] \/ edit'[e].stage = "idle" \/ edit'[e].id # s
  PROVE  Book(s)' /\ Past(s)' /\ Single(s)'
<1>1. Eases(s) /\ Keeps(s)
  BY DEF Eases, Keeps
<1> QED
  BY <1>1, EasesBook, EasesSingle

Books == \A s \in Schedule : Book(s) /\ Past(s) /\ Single(s)

-----------------------------------------------------------------------------
(* The steps of a job.                                                      *)

\* The event is published: the job moves its occurrence on.
LEMMA PublishBooks ==
  ASSUME TypeOK, Books, NEW k \in Tick, NEW s \in Schedule, Publish(k, s)
  PROVE  Books'
<1>0. /\ UNCHANGED <<clock, backend, row, outdated, raced, failed, edit>>
      /\ job[k][s].stage = "publishing" /\ "calculating" \in JobStage
      /\ ToStage(k, s, "calculating") /\ CountEvent(s, job[k][s].row.nextRun)
  BY DEF Publish, store, JobStage
<1>1. /\ job'[k][s] = [job[k][s] EXCEPT !.stage = "calculating"]
      /\ \A l \in Tick, t \in Schedule : l # k \/ t # s => job'[l][t] = job[l][t]
  BY <1>0, JobChange
<1>2. PICK o \in Nat : o = job[k][s].row.nextRun /\ o \in 0..clock
  BY <1>0 DEF Books, Book, JobsOf
<1>3. o \in Occurrence /\ o <= clock
  BY <1>2, Bounds DEF TypeOK, Occurrence, Time
<1>4. CountEvent(s, o)
  BY <1>0, <1>2
<1>5. /\ \A t \in Schedule \ {s} : published'[t] = published[t]
      /\ \A p \in Occurrence \ {o} : published'[s][p] = published[s][p]
      /\ published[s][o] = 0 => published'[s][o] = 1
  BY <1>3, <1>4, CountChange
<1>6. ASSUME NEW t \in Schedule \ {s}
      PROVE  Book(t)' /\ Past(t)' /\ Single(t)'
  BY <1>0, <1>1, <1>5, Untouched DEF Books
<1>7. Book(s)'
  <2>1. Eases(s)
    BY <1>0, <1>1 DEF Eases
  <2> QED
    BY <2>1, EasesBook DEF Books
<1>8. Past(s)'
  BY <1>0, <1>3, <1>5 DEF Books, Past
<1>9. Single(s)'
  <2> SUFFICES ASSUME s \notin raced \union failed
      PROVE  OneTick(s)' /\ NotYet(s)' /\ MovesOn(s)' /\ \A p \in Occurrence : published'[s][p] \in 0..1
    BY <1>0 DEF Single
  <2>1. /\ OneTick(s) /\ NotYet(s)
        /\ \A p \in Occurrence : published[s][p] \in 0..1
    BY DEF Books, Single
  <2>2. published[s][o] = 0
    BY <1>0, <1>2, <2>1 DEF NotYet
  <2>3. \A l \in Tick \ {k} : job'[l][s] = job[l][s] /\ job[l][s].stage = "none"
    BY <1>0, <1>1, <2>1 DEF OneTick, HoldsJob
  <2>4. job'[k][s].stage = "calculating"
    BY <1>1, JobFields
  <2>5. OneTick(s)'
    BY <2>3 DEF OneTick, HoldsJob
  <2>6. NotYet(s)'
    BY <2>3, <2>4 DEF NotYet
  <2>7. MovesOn(s)'
    BY <2>4 DEF MovesOn, Published
  <2> QED
    BY <1>5, <2>1, <2>2, <2>5, <2>6, <2>7
<1> QED
  BY <1>6, <1>7, <1>8, <1>9 DEF Books

\* A job that ends without a write, its schedule marked if it had published.
LEMMA EndBooks ==
  ASSUME TypeOK, Books, NEW k \in Tick, NEW s \in Schedule, EndJob(k, s),
         UNCHANGED <<clock, backend, row, outdated, raced, edit, published>>,
         failed \subseteq failed',
         job[k][s].stage \in Published => s \in failed' \/ ~ Live(s)
  PROVE  Books'
<1>1. /\ job'[k][s] = NoJob
      /\ \A l \in Tick, t \in Schedule : l # k \/ t # s => job'[l][t] = job[l][t]
  BY JobChange
<1>2. ASSUME NEW t \in Schedule
      PROVE  Eases(t) /\ Keeps(t)
  <2>1. NoJob.stage # "calculating"
    BY JobFields
  <2> QED
    BY <1>1, <2>1 DEF Eases, Keeps
<1> QED
  BY <1>2, EasesBook, EasesSingle DEF Books

\* A publication that fails is marked.
LEMMA PublishFailsBooks ==
  ASSUME TypeOK, Books, NEW k \in Tick, NEW s \in Schedule, PublishFails(k, s)
  PROVE  Books'
<1>0. /\ UNCHANGED <<clock, backend, row, outdated, raced, edit>>
      /\ job[k][s].stage = "publishing" /\ EndJob(k, s) /\ failed' = failed \union {s}
  BY DEF PublishFails, store
<1>1. CASE UNCHANGED published
  <2>1. job[k][s].stage \notin Published
    BY <1>0 DEF Published
  <2> QED
    BY <1>0, <1>1, <2>1, EndBooks
<1>2. CASE CountEvent(s, job[k][s].row.nextRun)
  <2>1. /\ job'[k][s] = NoJob
        /\ \A l \in Tick, t \in Schedule : l # k \/ t # s => job'[l][t] = job[l][t]
    BY <1>0, JobChange
  <2>2. PICK o \in Nat : o = job[k][s].row.nextRun /\ o \in 0..clock
    BY <1>0 DEF Books, Book, JobsOf
  <2>3. o \in Occurrence /\ o <= clock
    BY <2>2, Bounds DEF TypeOK, Occurrence, Time
  <2>4. /\ \A t \in Schedule \ {s} : published'[t] = published[t]
        /\ \A p \in Occurrence \ {o} : published'[s][p] = published[s][p]
    BY <1>2, <2>2, CountChange
  <2>5. ASSUME NEW t \in Schedule \ {s}
        PROVE  Book(t)' /\ Past(t)' /\ Single(t)'
    BY <1>0, <2>1, <2>4, Untouched DEF Books
  <2>6. Eases(s)
    BY <1>0, <2>1 DEF Eases
  <2>7. Past(s)'
    BY <1>0, <2>3, <2>4 DEF Books, Past
  <2>8. Single(s)'
    BY <1>0 DEF Single
  <2> QED
    BY <2>5, <2>6, <2>7, <2>8, EasesBook DEF Books
<1> QED
  BY <1>1, <1>2 DEF PublishFails

\* The job that goes on to its update.
LEMMA CalculateShape ==
  ASSUME TypeOK, NEW k \in Tick, NEW s \in Schedule, Calculate(k, s),
         ~ (backend = "document" /\ ~ Live(s))
  PROVE  \E j \in Job :
            /\ j.stage = "writing" /\ j.row = job[k][s].row
            /\ j.next = NextRun(job[k][s].row.rule, clock)
            /\ j.base = IF backend = "document" THEN row[s] ELSE job[k][s].base
            /\ job'[k][s] = j
            /\ \A l \in Tick, t \in Schedule : l # k \/ t # s => job'[l][t] = job[l][t]
<1> DEFINE j == [stage |-> "writing", row |-> job[k][s].row,
                 base |-> IF backend = "document" THEN row[s] ELSE job[k][s].base,
                 next |-> NextRun(job[k][s].row.rule, clock)]
<1>1. job' = [job EXCEPT ![k][s] = j]
  BY DEF Calculate
<1>2. j \in Job
  BY Parts, NextRunFacts DEF Job, JobStage
<1>3. /\ j.stage = "writing" /\ j.row = job[k][s].row
      /\ j.next = NextRun(job[k][s].row.rule, clock)
      /\ j.base = IF backend = "document" THEN row[s] ELSE job[k][s].base
  OBVIOUS
<1> HIDE DEF j
<1>4. /\ job'[k][s] = j
      /\ \A l \in Tick, t \in Schedule : l # k \/ t # s => job'[l][t] = job[l][t]
  BY <1>1, <1>2, JobReplaced
<1> QED
  BY <1>2, <1>3, <1>4

\* The next run is computed: it is to come.
LEMMA CalculateBooks ==
  ASSUME TypeOK, Books, NEW k \in Tick, NEW s \in Schedule, Calculate(k, s)
  PROVE  Books'
<1>0. /\ UNCHANGED <<clock, backend, row, outdated, raced, failed, edit, published>>
      /\ job[k][s].stage = "calculating"
  BY DEF Calculate, store, history
<1>1. CASE backend = "document" /\ ~ Live(s)
  BY <1>0, <1>1, EndBooks DEF Calculate
<1>2. CASE ~ (backend = "document" /\ ~ Live(s))
  <2> PICK rule \in Rule : rule = job[k][s].row.rule
    BY Parts
  <2>1. clock \in Time /\ clock \in Nat
    BY Bounds DEF TypeOK, Time
  <2> PICK next \in Run : next = NextRun(rule, clock)
    BY <2>1, NextRunFacts
  <2>2. next # NoRun => next > clock
    BY <2>1, NextRunFacts
  <2>3. Timely(rule, next)
    BY <2>1, NextRunFacts, ScheduleAssumption DEF Timely, Time
  <2> PICK j \in Job :
          /\ j.stage = "writing" /\ j.row = job[k][s].row
          /\ j.next = NextRun(job[k][s].row.rule, clock)
          /\ j.base = IF backend = "document" THEN row[s] ELSE job[k][s].base
          /\ job'[k][s] = j
          /\ \A l \in Tick, t \in Schedule : l # k \/ t # s => job'[l][t] = job[l][t]
    BY <1>2, CalculateShape
  <2>4. /\ j.stage = "writing" /\ j.row = job[k][s].row /\ j.next = next
        /\ j.base = IF backend = "document" THEN row[s] ELSE job[k][s].base
    OBVIOUS
  <2>6. /\ job'[k][s] = j
        /\ \A l \in Tick, t \in Schedule : l # k \/ t # s => job'[l][t] = job[l][t]
    OBVIOUS
  <2>7. ASSUME NEW t \in Schedule \ {s}
        PROVE  Book(t)' /\ Past(t)' /\ Single(t)'
    BY <1>0, <2>6, Untouched DEF Books
  <2>8. Gone(s)' /\ Past(s)'
    BY <1>0 DEF Books, Book, Gone, Live, Past
  <2>9. JobsOf(s)'
    BY <1>0, <1>2, <2>4, <2>6 DEF Books, Book, JobsOf, Live
  <2>10. Current(s)'
    BY <1>0, <2>4, <2>6 DEF Books, Book, Current, HoldsJob, Edits
  <2>11. Awake(s)'
    <3>1. \A l \in Tick : job'[l][s].stage = "writing" => Timely(job[l][s].row.rule, job[l][s].next)'
      BY <1>0, <2>3, <2>4, <2>6 DEF Books, Book, Awake, Timely
    <3>2. s \notin raced' /\ Live(s)' => Timely(row[s].rule, row[s].nextRun)'
      BY <1>0 DEF Books, Book, Awake, Live, Timely
    <3>3. \A e \in Editor : Edits(e, s)' =>
            /\ edit'[e].update.rule.type # "keep" =>
                  edit'[e].sets /\ Timely(edit[e].update.rule, edit[e].next)'
            /\ edit'[e].update.rule.type = "keep" /\ edit'[e].sets /\ e \notin outdated'[s] =>
                  Timely(row[s].rule, edit[e].next)'
      BY <1>0 DEF Books, Book, Awake, Edits, Timely
    <3> QED
      BY <3>1, <3>2, <3>3 DEF Awake
  <2>12. Single(s)'
    <3> SUFFICES ASSUME s \notin raced \union failed
        PROVE  OneTick(s)' /\ NotYet(s)' /\ MovesOn(s)' /\ \A p \in Occurrence : published'[s][p] \in 0..1
      BY <1>0 DEF Single
    <3>1. /\ OneTick(s) /\ NotYet(s)
          /\ \A p \in Occurrence : published[s][p] \in 0..1
      BY DEF Books, Single
    <3>2. next \in Occurrence => published[s][next] = 0
      BY <2>1, <2>2 DEF Books, Past, Occurrence, Time, NoRun
    <3>3. OneTick(s)'
      BY <1>0, <2>6, <3>1 DEF OneTick, HoldsJob
    <3>4. NotYet(s)'
      BY <1>0, <2>4, <2>6, <3>1, <3>2 DEF NotYet
    <3>5. MovesOn(s)'
      BY <2>4, <2>6 DEF MovesOn, Published
    <3> QED
      BY <1>0, <3>1, <3>3, <3>4, <3>5
  <2> QED
    BY <2>7, <2>8, <2>9, <2>10, <2>11, <2>12 DEF Books, Book
<1> QED
  BY <1>1, <1>2

\* The next run is stored.
LEMMA SettleBooks ==
  ASSUME TypeOK, Books, NEW k \in Tick, NEW s \in Schedule, Settle(k, s)
  PROVE  Books'
<1>0. /\ UNCHANGED <<clock, backend, failed, edit, published>>
      /\ job[k][s].stage = "writing" /\ EndJob(k, s)
  BY DEF Settle
<1> PICK base \in Row : base = IF backend = "document" THEN job[k][s].base ELSE row[s]
  BY BaseType
<1>1. CASE base.state # "live"
  <2>1. UNCHANGED <<row, outdated, raced>>
    BY <1>1 DEF Settle
  <2>2. ~ Live(s)
    BY <1>0, <1>1 DEF Books, Book, JobsOf, Live
  <2> QED
    BY <1>0, <2>1, <2>2, EndBooks
<1>2. CASE base.state = "live"
  <2>1. row' = [row EXCEPT ![s] = Settled(base, job[k][s])] /\ Wrote(k, s)
    BY <1>2 DEF Settle
  <2> PICK new \in Row : new = Settled(base, job[k][s])
    BY SettledType, Parts
  <2>2. new.state = "live" /\ new.rule = base.rule /\ new.nextRun = job[k][s].next
    BY <1>2, SettledType, Parts
  <2>3. row'[s] = new /\ \A t \in Schedule \ {s} : row'[t] = row[t]
    BY <2>1 DEF TypeOK
  <2>4. /\ outdated'[s] = Tick \union Editor
        /\ \A t \in Schedule \ {s} : outdated'[t] = outdated[t]
        /\ raced \subseteq raced'
        /\ k \in outdated[s] => s \in raced'
    BY <2>1, WroteType
  <2>5. /\ job'[k][s] = NoJob /\ NoJob.stage = "none"
        /\ \A l \in Tick, t \in Schedule : l # k \/ t # s => job'[l][t] = job[l][t]
    BY <1>0, JobChange, JobFields
  <2>6. ASSUME NEW t \in Schedule \ {s}
        PROVE  Book(t)' /\ Past(t)' /\ Single(t)'
    BY <1>0, <2>3, <2>4, <2>5, Untouched DEF Books
  <2>7. Gone(s)' /\ Past(s)'
    BY <1>0, <2>4 DEF Books, Gone, Past
  <2>8. JobsOf(s)'
    BY <1>0, <2>5 DEF Books, Book, JobsOf
  <2>9. Current(s)'
    BY <2>4 DEF Current
  <2>10. Awake(s)'
    <3>1. s \notin raced' => Timely(row[s].rule, row[s].nextRun)'
      <4> SUFFICES ASSUME s \notin raced'
          PROVE  Timely(row[s].rule, row[s].nextRun)'
        OBVIOUS
      <4>1. job[k][s].row = row[s] /\ job[k][s].base = row[s]
        BY <1>0, <2>4 DEF Books, Book, Current, HoldsJob
      <4>2. new.rule = job[k][s].row.rule
        BY <2>2, <4>1
      <4>3. Timely(new.rule, new.nextRun)
        BY <1>0, <2>2, <4>2 DEF Books, Book, Awake
      <4> QED
        BY <1>0, <2>3, <4>3 DEF Timely
    <3>2. \A l \in Tick : job'[l][s].stage = "writing" => Timely(job[l][s].row.rule, job[l][s].next)'
      BY <1>0, <2>5 DEF Books, Book, Awake, Timely
    <3>3. \A e \in Editor : Edits(e, s)' =>
            (edit'[e].update.rule.type # "keep" =>
               edit'[e].sets /\ Timely(edit[e].update.rule, edit[e].next)')
      BY <1>0 DEF Books, Book, Awake, Edits, Timely
    <3> QED
      BY <2>4, <3>1, <3>2, <3>3 DEF Awake
  <2>11. Single(s)'
    <3> SUFFICES ASSUME s \notin raced' \union failed'
        PROVE  OneTick(s)' /\ NotYet(s)' /\ MovesOn(s)' /\ \A p \in Occurrence : published'[s][p] \in 0..1
      BY DEF Single
    <3>1. /\ OneTick(s) /\ NotYet(s)
          /\ \A p \in Occurrence : published[s][p] \in 0..1
      BY <1>0, <2>4 DEF Books, Single
    <3>2. \A l \in Tick : job'[l][s].stage = "none"
      BY <1>0, <2>5, <3>1 DEF OneTick, HoldsJob
    <3>3. OneTick(s)' /\ NotYet(s)'
      BY <3>2 DEF OneTick, NotYet, HoldsJob
    <3>4. MovesOn(s)'
      <4>1. \A o \in Occurrence : row'[s].nextRun = o => published'[s][o] = 0
        BY <1>0, <2>2, <2>3, <3>1 DEF NotYet
      <4> QED
        BY <2>4, <4>1 DEF MovesOn
    <3> QED
      BY <1>0, <3>1, <3>3, <3>4
  <2> QED
    BY <2>6, <2>7, <2>8, <2>9, <2>10, <2>11 DEF Books, Book
<1> QED
  BY <1>1, <1>2

-----------------------------------------------------------------------------
(* The steps of a tick.                                                     *)

\* The due rows are read: each copy is the row, and its occurrence is new
\* unless another tick has it.
LEMMA ReadDueBooks ==
  ASSUME TypeOK, Pcs, Books, NEW k \in Tick, ReadDue(k)
  PROVE  Books'
<1>0. /\ UNCHANGED <<clock, backend, row, edit, published, failed>>
      /\ tick[k].now <= clock /\ tick[k].now \in Nat
      /\ clock \in Nat /\ clock <= MaxTime
      /\ \A s \in Schedule : job[k][s].stage = "none"
  BY Bounds, Parts DEF ReadDue, store, Pcs, Time
<1> PICK due \in SUBSET Schedule : due = {s \in Schedule : DueAt(s, tick[k].now)}
  OBVIOUS
<1>1. /\ \A l \in Tick \ {k} : job'[l] = job[l]
      /\ \A s \in Schedule :
          job'[k][s] = IF s \in due
                       THEN [stage |-> "waiting", row |-> row[s], next |-> NoRun, base |-> row[s]]
                       ELSE NoJob
      /\ \A s \in Schedule :
          outdated'[s] = IF s \in due THEN outdated[s] \ {k} ELSE outdated[s]
      /\ raced' = raced \union {s \in due : \E other \in Tick \ {k} : HoldsJob(other, s)}
  BY DEF ReadDue, TypeOK
<1>2. ASSUME NEW s \in Schedule \ due
      PROVE  Book(s)' /\ Past(s)' /\ Single(s)'
  <2>1. job'[k][s] = NoJob /\ outdated'[s] = outdated[s] /\ (s \in raced => s \in raced')
    BY <1>1
  <2>2. Eases(s) /\ Keeps(s)
    BY <1>0, <1>1, <2>1 DEF Eases, Keeps, Published
  <2> QED
    BY <2>2, EasesBook, EasesSingle DEF Books
<1>3. ASSUME NEW s \in due
      PROVE  Book(s)' /\ Past(s)' /\ Single(s)'
  <2>1. Live(s) /\ row[s].nextRun \in 0..clock /\ row[s].nextRun \in Occurrence
    <3>1. Live(s) /\ row[s].nextRun # NoRun /\ row[s].nextRun <= tick[k].now
      BY DEF DueAt
    <3>2. row[s].nextRun \in Nat
      BY <3>1, Parts DEF Run
    <3> QED
      BY <1>0, <3>1, <3>2, Bounds DEF Occurrence, Time
  <2>2. /\ job'[k][s].stage = "waiting" /\ job'[k][s].row = row[s] /\ job'[k][s].base = row[s]
        /\ \A l \in Tick \ {k} : job'[l][s] = job[l][s]
        /\ outdated'[s] = outdated[s] \ {k}
        /\ s \in raced => s \in raced'
    <3>1. job'[k][s] = [stage |-> "waiting", row |-> row[s], next |-> NoRun, base |-> row[s]]
      BY <1>1
    <3>2. job'[k][s].stage = "waiting" /\ job'[k][s].row = row[s] /\ job'[k][s].base = row[s]
      BY <3>1
    <3> QED
      BY <1>1, <3>2
  <2>3. Gone(s)' /\ Past(s)'
    BY <1>0, <2>1 DEF Books, Gone, Past, Live
  <2>4. JobsOf(s)'
    <3>1. job'[k][s].row.nextRun \in 0..clock'
      <4>1. job'[k][s].row.nextRun = row[s].nextRun /\ clock' = clock
        BY <1>0, <2>2
      <4> QED
        BY <2>1, <4>1
    <3> QED
      BY <1>0, <2>2, <3>1 DEF Books, Book, JobsOf
  <2>5. Current(s)'
    <3>1. \A e \in Editor : e # k
      BY Bounds
    <3>2. \A e \in Editor \ outdated'[s] : Edits(e, s)' => edit'[e].base = row'[s]
      BY <1>0, <2>2, <3>1 DEF Books, Book, Current, Edits
    <3>3. \A l \in Tick \ outdated'[s] :
            HoldsJob(l, s)' => job'[l][s].row = row'[s] /\ job'[l][s].base = row'[s]
      BY <1>0, <2>2 DEF Books, Book, Current, HoldsJob
    <3> QED
      BY <3>2, <3>3 DEF Current
  <2>6. Awake(s)'
    <3>1. s \notin raced' /\ Live(s)' => Timely(row[s].rule, row[s].nextRun)'
      BY <1>0, <2>2 DEF Books, Book, Awake, Live, Timely
    <3>2. \A l \in Tick : job'[l][s].stage = "writing" => Timely(job[l][s].row.rule, job[l][s].next)'
      BY <1>0, <2>2 DEF Books, Book, Awake, Timely
    <3>3. \A e \in Editor : Edits(e, s)' =>
            /\ edit'[e].update.rule.type # "keep" =>
                  edit'[e].sets /\ Timely(edit[e].update.rule, edit[e].next)'
            /\ edit'[e].update.rule.type = "keep" /\ edit'[e].sets /\ e \notin outdated'[s] =>
                  Timely(row[s].rule, edit[e].next)'
      <4>1. \A e \in Editor : e # k
        BY Bounds
      <4> QED
        BY <1>0, <2>2, <4>1 DEF Books, Book, Awake, Edits, Timely
    <3> QED
      BY <3>1, <3>2, <3>3 DEF Awake
  <2>7. Single(s)'
    <3> SUFFICES ASSUME s \notin raced' \union failed'
        PROVE  OneTick(s)' /\ NotYet(s)' /\ MovesOn(s)' /\ \A p \in Occurrence : published'[s][p] \in 0..1
      BY DEF Single
    <3>1. /\ MovesOn(s)
          /\ \A p \in Occurrence : published[s][p] \in 0..1
      BY <1>0, <2>2 DEF Books, Single
    <3>2. \A l \in Tick \ {k} : ~ HoldsJob(l, s)
      BY <1>1
    <3>3. \A l \in Tick : job[l][s].stage = "none"
      BY <1>0, <3>2 DEF HoldsJob
    <3>4. \A l \in Tick \ {k} : job'[l][s].stage = "none"
      BY <2>2, <3>3
    <3>5. OneTick(s)'
      BY <3>4 DEF OneTick, HoldsJob
    <3>6. published[s][row[s].nextRun] = 0
      BY <2>1, <3>1, <3>3 DEF MovesOn, Published
    <3>7. NotYet(s)'
      BY <1>0, <2>2, <3>4, <3>6 DEF NotYet
    <3>8. MovesOn(s)'
      <4>1. \A o \in Occurrence : published[s][o] # 0 =>
              /\ ~ (Live(s) /\ row[s].nextRun = o)
              /\ ~ \E e \in Editor \ outdated[s] : Edits(e, s) /\ edit[e].sets /\ edit[e].next = o
        BY <3>1, <3>3 DEF MovesOn, Published
      <4>2. \A e \in Editor : e # k
        BY Bounds
      <4> QED
        BY <1>0, <2>2, <4>1, <4>2 DEF MovesOn, Live, Edits
    <3> QED
      BY <1>0, <3>1, <3>5, <3>7, <3>8
  <2> QED
    BY <2>3, <2>4, <2>5, <2>6, <2>7 DEF Book
<1> QED
  BY <1>2, <1>3 DEF Books

\* The steps of a tick that neither read nor write a row.
LEMMA TickBooks ==
  ASSUME TypeOK, Pcs, Books, NEW k \in Tick,
         TickStep(k) \/ ReadFails(k) \/ Die(k)
  PROVE  Books'
<1>1. ASSUME UNCHANGED <<clock, backend, row, job, edit, published, outdated, raced, failed>>
      PROVE  Books'
  BY <1>1, Untouched DEF Books
<1>2. CASE StartTick(k) \/ EndTick(k) \/ ReadFails(k)
  BY <1>1, <1>2 DEF StartTick, EndTick, ReadFails, store, history
<1>3. ASSUME NEW batch \in SUBSET Schedule, StartBatch(k, batch)
      PROVE  Books'
  <2>1. /\ UNCHANGED <<clock, backend, row, edit, published, outdated, raced, failed>>
        /\ batch \subseteq Waiting(k)
    BY <1>3 DEF StartBatch, store, history
  <2>2. /\ \A l \in Tick \ {k} : job'[l] = job[l]
        /\ \A s \in Schedule : job'[k][s] =
              IF s \in batch THEN [job[k][s] EXCEPT !.stage = "publishing"] ELSE job[k][s]
    BY <1>3 DEF StartBatch, TypeOK
  <2>3. ASSUME NEW s \in Schedule
        PROVE  Eases(s) /\ Keeps(s)
    <3>1. s \in batch => job[k][s].stage = "waiting"
      BY <2>1 DEF Waiting
    <3>2. ASSUME s \in batch
          PROVE  job'[k][s].stage = "publishing"
      <4>1. job'[k][s] = [job[k][s] EXCEPT !.stage = "publishing"]
        BY <2>2, <3>2
      <4> QED
        BY <4>1, JobFields
    <3> QED
      BY <2>1, <2>2, <3>1, <3>2 DEF Eases, Keeps, Published
  <2> QED
    BY <2>3, EasesBook, EasesSingle DEF Books
<1>4. CASE Die(k)
  <2>1. /\ UNCHANGED <<clock, backend, row, edit, published, outdated, raced>>
        /\ failed' = failed \union {s \in Schedule : job[k][s].stage \in Published}
        /\ \A l \in Tick \ {k} : job'[l] = job[l]
        /\ \A s \in Schedule : job'[k][s] = NoJob
    BY <1>4 DEF Die, store, TypeOK
  <2>2. ASSUME NEW s \in Schedule
        PROVE  Eases(s) /\ Keeps(s)
    <3>1. NoJob.stage # "calculating"
      BY JobFields
    <3> QED
      BY <2>1, <3>1 DEF Eases, Keeps
  <2> QED
    BY <2>2, EasesBook, EasesSingle DEF Books
<1> QED
  BY <1>2, <1>3, <1>4, ReadDueBooks DEF TickStep

\* The steps of a job, whole and broken.
LEMMA JobBooks ==
  ASSUME TypeOK, Books, NEW k \in Tick, NEW s \in Schedule,
         JobStep(k, s) \/ PublishFails(k, s) \/ SettleFails(k, s)
  PROVE  Books'
<1>1. CASE ExecuteThrows(k, s)
  <2>1. job[k][s].stage \notin Published
    BY <1>1 DEF ExecuteThrows, Published
  <2> QED
    BY <1>1, <2>1, EndBooks DEF ExecuteThrows, store, history
<1>2. CASE SettleFails(k, s)
  BY <1>2, EndBooks DEF SettleFails, store
<1> QED
  BY <1>1, <1>2, PublishBooks, PublishFailsBooks, CalculateBooks, SettleBooks DEF JobStep

-----------------------------------------------------------------------------
(* The tools, and the clock.                                                *)

\* A row is created with a slot to come.
LEMMA CreateBooks ==
  ASSUME TypeOK, Books, NEW s \in Schedule, NEW rule \in Rule, NEW on, Create(s, rule, on)
  PROVE  Books'
<1>0. /\ UNCHANGED <<clock, backend, job, edit, published, outdated, raced, failed>>
      /\ clock \in Time /\ clock \in Nat /\ row[s].state = "unborn"
  BY Bounds, Parts DEF Create, history, Time
<1> PICK next \in Run : next = NextRun(rule, clock)
  BY <1>0, NextRunFacts
<1>1. /\ next # NoRun => next > clock
      /\ Timely(rule, next)
  BY <1>0, NextRunFacts, ScheduleAssumption DEF Timely, Time
<1>2. /\ row'[s].state = "live" /\ row'[s].rule = rule /\ row'[s].nextRun = next
      /\ \A t \in Schedule \ {s} : row'[t] = row[t]
  BY DEF Create, TypeOK
<1>3. ASSUME NEW t \in Schedule \ {s}
      PROVE  Book(t)' /\ Past(t)' /\ Single(t)'
  BY <1>0, <1>2, Untouched DEF Books
<1>4. outdated[s] = Tick \union Editor
  BY <1>0 DEF Books, Book, Gone, Live
<1>5. Gone(s)' /\ JobsOf(s)' /\ Current(s)' /\ Past(s)'
  BY <1>0, <1>4 DEF Books, Book, Gone, JobsOf, Current, Past
<1>6. Awake(s)'
  <2>1. Timely(row[s].rule, row[s].nextRun)'
    BY <1>0, <1>1, <1>2 DEF Timely
  <2> QED
    BY <1>0, <1>4, <2>1 DEF Books, Book, Awake, Timely, Edits
<1>7. Single(s)'
  <2>1. \A o \in Occurrence : row'[s].nextRun = o => published[s][o] = 0
    BY <1>0, <1>1, <1>2 DEF Books, Past, Occurrence, Time, NoRun
  <2>2. MovesOn(s)'
    BY <1>0, <1>4, <2>1 DEF MovesOn
  <2> QED
    BY <1>0, <2>2 DEF Books, Single, OneTick, NotYet, HoldsJob
<1> QED
  BY <1>3, <1>5, <1>6, <1>7 DEF Books, Book

\* A row is deleted: all copies are out of date.
LEMMA DeleteBooks ==
  ASSUME TypeOK, Books, NEW s \in Schedule, Delete(s)
  PROVE  Books'
<1>0. UNCHANGED <<clock, backend, job, edit, published, raced, failed>>
  BY DEF Delete
<1>1. /\ row'[s].state = "deleted"
      /\ \A t \in Schedule \ {s} : row'[t] = row[t] /\ outdated'[t] = outdated[t]
      /\ outdated'[s] = Tick \union Editor
  BY DEF Delete, TypeOK, NoRow
<1>2. ASSUME NEW t \in Schedule \ {s}
      PROVE  Book(t)' /\ Past(t)' /\ Single(t)'
  BY <1>0, <1>1, Untouched DEF Books
<1>3. Gone(s)' /\ JobsOf(s)' /\ Current(s)' /\ Past(s)'
  BY <1>0, <1>1 DEF Books, Book, Gone, JobsOf, Current, Past
<1>4. Awake(s)'
  BY <1>0, <1>1 DEF Books, Book, Awake, Timely, Edits, Live
<1>5. MovesOn(s)'
  BY <1>1 DEF MovesOn, Live
<1>6. Single(s)'
  BY <1>0, <1>5 DEF Books, Single, OneTick, NotYet, HoldsJob
<1> QED
  BY <1>2, <1>3, <1>4, <1>6 DEF Books, Book

\* What update_schedule has read and computed.
LEMMA BeginEditShape ==
  ASSUME TypeOK, NEW e \in Editor, NEW s \in Schedule, NEW u \in Update, BeginEdit(e, s, u)
  PROVE  /\ UNCHANGED <<clock, backend, row, job, published, raced, failed>>
         /\ Live(s)
         /\ edit'[e].stage = "updating" /\ edit'[e].id = s /\ edit'[e].update = u
         /\ edit'[e].base = row[s]
         /\ u.rule.type # "keep" => edit'[e].sets
         /\ edit'[e].next = NoRun \/ edit'[e].next > clock
         /\ u.rule.type # "keep" => Timely(u.rule, edit'[e].next)
         /\ u.rule.type = "keep" /\ edit'[e].sets => Timely(row[s].rule, edit'[e].next)
         /\ \A d \in Editor \ {e} : edit'[d] = edit[d]
         /\ outdated'[s] = outdated[s] \ {e}
         /\ \A t \in Schedule \ {s} : outdated'[t] = outdated[t]
<1>1. clock \in Time /\ row[s].rule \in Rule /\ (u.rule.type # "keep" => u.rule \in Rule)
  BY Parts DEF Update, Keep
<1>2. \A rule \in Rule :
        /\ NextRun(rule, clock) = NoRun \/ NextRun(rule, clock) > clock
        /\ Timely(rule, NextRun(rule, clock))
  BY <1>1, NextRunFacts, ScheduleAssumption DEF Timely, Time
<1>3. /\ UNCHANGED <<clock, backend, row, job, published, raced, failed>>
      /\ Live(s)
      /\ edit'[e].stage = "updating" /\ edit'[e].id = s /\ edit'[e].update = u
      /\ edit'[e].base = row[s]
      /\ edit'[e].sets = (u.rule.type # "keep" \/ (u.enabled = "on" /\ row[s].nextRun = NoRun))
      /\ edit'[e].next = IF u.rule.type # "keep" THEN NextRun(u.rule, clock)
                         ELSE IF u.enabled = "on" /\ row[s].nextRun = NoRun
                              THEN NextRun(row[s].rule, clock) ELSE NoRun
      /\ \A d \in Editor \ {e} : edit'[d] = edit[d]
      /\ outdated'[s] = outdated[s] \ {e}
      /\ \A t \in Schedule \ {s} : outdated'[t] = outdated[t]
  BY DEF BeginEdit, store, TypeOK
<1>4. /\ u.rule.type # "keep" => edit'[e].sets /\ edit'[e].next = NextRun(u.rule, clock)
      /\ u.rule.type = "keep" /\ edit'[e].sets => edit'[e].next = NextRun(row[s].rule, clock)
      /\ u.rule.type = "keep" /\ ~ edit'[e].sets => edit'[e].next = NoRun
  BY <1>3
<1> QED
  BY <1>1, <1>2, <1>3, <1>4

\* An update begins: its copy is the row, its slot is to come.
LEMMA BeginEditBooks ==
  ASSUME TypeOK, Books, NEW e \in Editor, NEW s \in Schedule, NEW u \in Update, BeginEdit(e, s, u)
  PROVE  Books'
<1>0. /\ UNCHANGED <<clock, backend, row, job, published, raced, failed>>
      /\ Live(s) /\ clock \in Nat
      /\ edit'[e].stage = "updating" /\ edit'[e].id = s /\ edit'[e].update = u
      /\ edit'[e].base = row[s]
      /\ \A d \in Editor \ {e} : edit'[d] = edit[d]
      /\ outdated'[s] = outdated[s] \ {e}
      /\ \A t \in Schedule \ {s} : outdated'[t] = outdated[t]
      /\ \A k \in Tick : k # e
  BY BeginEditShape, Bounds, Parts DEF Time
<1>1. /\ u.rule.type # "keep" => edit'[e].sets /\ Timely(u.rule, edit'[e].next)
      /\ u.rule.type = "keep" /\ edit'[e].sets => Timely(row[s].rule, edit'[e].next)
      /\ edit'[e].next = NoRun \/ edit'[e].next > clock
  BY BeginEditShape
<1>2. ASSUME NEW t \in Schedule \ {s}
      PROVE  Book(t)' /\ Past(t)' /\ Single(t)'
  BY <1>0, Untouched DEF Books
<1>3. Gone(s)' /\ JobsOf(s)' /\ Past(s)'
  BY <1>0 DEF Books, Book, Gone, JobsOf, Past, Live
<1>4. Current(s)'
  BY <1>0 DEF Books, Book, Current, HoldsJob, Edits
<1>5. Awake(s)'
  <2>1. s \notin raced' /\ Live(s)' => Timely(row[s].rule, row[s].nextRun)'
    BY <1>0 DEF Books, Book, Awake, Live, Timely
  <2>2. \A k \in Tick : job'[k][s].stage = "writing" => Timely(job[k][s].row.rule, job[k][s].next)'
    BY <1>0 DEF Books, Book, Awake, Timely
  <2>3. ASSUME NEW d \in Editor, Edits(d, s)'
        PROVE  /\ edit'[d].update.rule.type # "keep" =>
                      edit'[d].sets /\ Timely(edit[d].update.rule, edit[d].next)'
               /\ edit'[d].update.rule.type = "keep" /\ edit'[d].sets /\ d \notin outdated'[s] =>
                      Timely(row[s].rule, edit[d].next)'
    <3>1. CASE d = e
      BY <1>0, <1>1, <3>1 DEF Timely
    <3>2. CASE d # e
      BY <1>0, <2>3, <3>2 DEF Books, Book, Awake, Edits, Timely
    <3> QED
      BY <3>1, <3>2
  <2> QED
    BY <2>1, <2>2, <2>3 DEF Awake
<1>6. Single(s)'
  <2> SUFFICES ASSUME s \notin raced \union failed
      PROVE  Single(s)'
    BY <1>0 DEF Single
  <2>1. /\ OneTick(s) /\ NotYet(s) /\ MovesOn(s)
        /\ \A p \in Occurrence : published[s][p] \in 0..1
    BY DEF Books, Single
  <2>2. \A o \in Occurrence : edit'[e].next = o => published[s][o] = 0
    BY <1>0, <1>1 DEF Books, Past, Occurrence, Time, NoRun
  <2>3. MovesOn(s)'
    BY <1>0, <2>1, <2>2 DEF MovesOn, Live, Edits
  <2> QED
    BY <1>0, <2>1, <2>3 DEF Single, OneTick, NotYet, HoldsJob
<1> QED
  BY <1>2, <1>3, <1>4, <1>5, <1>6 DEF Books, Book

\* An edit that ends, or that reads the row again.
LEMMA MergeEditBooks ==
  ASSUME TypeOK, Books, NEW e \in Editor, MergeEdit(e) \/ EditFails(e)
  PROVE  Books'
<1>0. UNCHANGED <<clock, backend, row, job, published, outdated, raced, failed>>
  BY DEF MergeEdit, EditFails, store, history
<1>1. CASE EndEdit(e)
  <2>1. \A d \in Editor : edit'[d] = edit[d] \/ edit'[d].stage = "idle"
    BY <1>1 DEF EndEdit, TypeOK, NoEdit
  <2> QED
    BY <1>0, <2>1, Untouched DEF Books
<1>2. CASE MergeEdit(e) /\ ~ EndEdit(e)
  <2>1. edit[e].stage = "updating"
    BY <1>2 DEF MergeEdit
  <2> PICK s \in Schedule : s = edit[e].id
    BY <2>1, Parts
  <2>2. /\ edit'[e].stage = "writing" /\ edit'[e].id = s /\ edit'[e].update = edit[e].update
        /\ edit'[e].sets = edit[e].sets /\ edit'[e].next = edit[e].next /\ edit'[e].base = row[s]
        /\ \A d \in Editor \ {e} : edit'[d] = edit[d]
    BY <1>2 DEF MergeEdit, TypeOK
  <2>3. ASSUME NEW t \in Schedule \ {s}
        PROVE  Book(t)' /\ Past(t)' /\ Single(t)'
    BY <1>0, <2>2, <2>3, Untouched DEF Books
  <2>4. \A d \in Editor : Edits(d, s)' =>
          /\ Edits(d, s)
          /\ edit'[d].update = edit[d].update /\ edit'[d].sets = edit[d].sets
          /\ edit'[d].next = edit[d].next
          /\ edit'[d].base = edit[d].base \/ edit'[d].base = row[s]
    BY <2>1, <2>2 DEF Edits
  <2>5. Gone(s)' /\ JobsOf(s)' /\ Past(s)'
    BY <1>0 DEF Books, Book, Gone, JobsOf, Past, Live
  <2>6. Current(s)'
    BY <1>0, <2>4 DEF Books, Book, Current, HoldsJob
  <2>7. Awake(s)'
    BY <1>0, <2>4 DEF Books, Book, Awake, Timely, Live
  <2>8. Single(s)'
    <3>1. MovesOn(s) => MovesOn(s)'
      BY <1>0, <2>4 DEF MovesOn, Live
    <3> QED
      BY <1>0, <3>1 DEF Books, Single, OneTick, NotYet, HoldsJob
  <2> QED
    BY <2>3, <2>5, <2>6, <2>7, <2>8 DEF Books, Book
<1> QED
  BY <1>1, <1>2 DEF EditFails

\* An update writes the row.
LEMMA WriteEditBooks ==
  ASSUME TypeOK, Books, NEW e \in Editor, WriteEdit(e)
  PROVE  Books'
<1>0. /\ UNCHANGED <<clock, backend, job, published, failed>>
      /\ edit[e].stage # "idle" /\ EndEdit(e)
  BY DEF WriteEdit
<1> PICK s \in Schedule : s = edit[e].id
  BY <1>0, Parts
<1> PICK base \in Row : base = IF backend = "document" THEN edit[e].base ELSE row[s]
  BY <1>0, Parts
<1>1. /\ edit'[e].stage = "idle"
      /\ \A d \in Editor \ {e} : edit'[d] = edit[d]
  BY <1>0 DEF EndEdit, TypeOK, NoEdit
<1>2. CASE base.state # "live"
  <2>1. UNCHANGED <<row, outdated, raced>>
    BY <1>2 DEF WriteEdit
  <2> QED
    BY <1>0, <1>1, <2>1, Untouched DEF Books
<1>3. CASE base.state = "live"
  <2>1. row' = [row EXCEPT ![s] = Edited(base, edit[e])] /\ Wrote(e, s)
    BY <1>3 DEF WriteEdit
  <2> PICK d \in EditCall : d = edit[e]
    BY <1>0, Parts
  <2> PICK new \in Row : new = Edited(base, d)
    BY EditedType
  <2>2. /\ new.state = "live"
        /\ new.rule = IF d.update.rule.type = "keep" THEN base.rule ELSE d.update.rule
        /\ new.nextRun = IF d.sets /\ (d.next # NoRun \/ backend = "document")
                         THEN d.next ELSE base.nextRun
    BY <1>3, EditedType
  <2>3. row'[s] = new /\ \A t \in Schedule \ {s} : row'[t] = row[t]
    BY <2>1 DEF TypeOK
  <2>4. /\ outdated'[s] = Tick \union Editor
        /\ \A t \in Schedule \ {s} : outdated'[t] = outdated[t]
        /\ raced \subseteq raced'
        /\ e \in outdated[s] => s \in raced'
    BY <2>1, WroteType
  <2>5. s \notin raced' => e \notin outdated[s] /\ base = row[s] /\ Live(s)
    BY <1>0, <1>3, <2>4 DEF Books, Book, Current, Edits, Live
  <2>6. ASSUME NEW t \in Schedule \ {s}
        PROVE  Book(t)' /\ Past(t)' /\ Single(t)'
    BY <1>0, <1>1, <2>3, <2>4, Untouched DEF Books
  <2>7. Gone(s)' /\ JobsOf(s)' /\ Current(s)' /\ Past(s)'
    BY <1>0, <2>4 DEF Books, Book, Gone, JobsOf, Current, Past
  <2>8. Awake(s)'
    <3>1. s \notin raced' => Timely(row[s].rule, row[s].nextRun)'
      <4> SUFFICES ASSUME s \notin raced'
          PROVE  Timely(new.rule, new.nextRun)
        BY <1>0, <2>3 DEF Timely
      <4>1. /\ e \notin outdated[s] /\ base = row[s] /\ Live(s) /\ s \notin raced
            /\ Edits(e, s)
        BY <1>0, <2>4, <2>5 DEF Edits
      <4>2. Timely(row[s].rule, row[s].nextRun)
        BY <4>1 DEF Books, Book, Awake
      <4>3. /\ d.update.rule.type # "keep" => d.sets /\ Timely(d.update.rule, d.next)
            /\ d.update.rule.type = "keep" /\ d.sets => Timely(row[s].rule, d.next)
        BY <4>1 DEF Books, Book, Awake
      <4> QED
        BY <2>2, <4>1, <4>2, <4>3 DEF Timely
    <3>2. \A k \in Tick : job'[k][s].stage = "writing" => Timely(job[k][s].row.rule, job[k][s].next)'
      BY <1>0 DEF Books, Book, Awake, Timely
    <3>3. \A c \in Editor : Edits(c, s)' =>
            (edit'[c].update.rule.type # "keep" =>
               edit'[c].sets /\ Timely(edit[c].update.rule, edit[c].next)')
      BY <1>0, <1>1 DEF Books, Book, Awake, Edits, Timely
    <3> QED
      BY <2>4, <3>1, <3>2, <3>3 DEF Awake
  <2>9. Single(s)'
    <3> SUFFICES ASSUME s \notin raced' \union failed'
        PROVE  Single(s)'
      BY DEF Single
    <3>1. /\ OneTick(s) /\ NotYet(s) /\ MovesOn(s)
          /\ \A p \in Occurrence : published[s][p] \in 0..1
      BY <1>0, <2>4 DEF Books, Single
    <3>2. e \notin outdated[s] /\ base = row[s] /\ Live(s) /\ Edits(e, s)
      BY <1>0, <2>5 DEF Edits
    <3>3. ASSUME NEW o \in Occurrence, published[s][o] # 0, new.nextRun = o
          PROVE  \E k \in Tick : job[k][s].stage \in Published
      <4>1. (d.sets /\ d.next = o) \/ row[s].nextRun = o
        BY <2>2, <3>2, <3>3
      <4> QED
        BY <3>1, <3>2, <3>3, <4>1 DEF MovesOn
    <3>4. MovesOn(s)'
      BY <1>0, <2>3, <2>4, <3>3 DEF MovesOn
    <3> QED
      BY <1>0, <3>1, <3>4 DEF Single, OneTick, NotYet, HoldsJob
  <2> QED
    BY <2>6, <2>7, <2>8, <2>9 DEF Books, Book
<1> QED
  BY <1>2, <1>3

\* Time passes: no slot comes closer than the next one.
LEMMA PassBooks ==
  ASSUME TypeOK, Books, Pass
  PROVE  Books'
<1>0. /\ UNCHANGED <<backend, row, job, edit, published, outdated, raced, failed>>
      /\ clock \in 0..MaxTime /\ clock' \in 0..MaxTime /\ clock <= clock' /\ MaxTime \in Nat
  <2>1. clock \in 0..MaxTime /\ clock < MaxTime /\ clock' = clock + 1
    BY DEF Pass, TypeOK, Time
  <2> QED
    BY <2>1, Bounds DEF Pass, history
<1>1. \A rule \in Rule, next \in Run : Timely(rule, next) => Timely(rule, next)'
  <2> SUFFICES ASSUME NEW rule \in Rule, NEW next \in Run, rule.type = "cron",
                      next # NoRun, next <= NextSlot[rule.cron][clock]
      PROVE  next <= NextSlot[rule.cron][clock']
    BY DEF Timely
  <2>1. rule.cron \in Cron
    BY RuleCases
  <2>2. /\ NextSlot[rule.cron][clock] \in Nat /\ NextSlot[rule.cron][clock'] \in Nat
        /\ NextSlot[rule.cron][clock] <= NextSlot[rule.cron][clock']
    BY <1>0, <2>1, ScheduleAssumption
  <2> QED
    BY <2>2 DEF Run
<1> SUFFICES ASSUME NEW s \in Schedule
    PROVE  Book(s)' /\ Past(s)' /\ Single(s)'
  BY DEF Books
<1>2. Gone(s)' /\ Current(s)'
  BY <1>0 DEF Books, Book, Gone, Current, Live, HoldsJob, Edits
<1>3. JobsOf(s)'
  <2>1. \A k \in Tick : job[k][s].row.nextRun \in 0..clock => job[k][s].row.nextRun \in 0..clock'
    BY <1>0
  <2> QED
    BY <1>0, <2>1 DEF Books, Book, JobsOf
<1>4. Past(s)'
  BY <1>0 DEF Books, Past, Occurrence, Time
<1>5. Awake(s)'
  <2>1. s \notin raced /\ Live(s) => Timely(row[s].rule, row[s].nextRun)'
    <3>1. Timely(row[s].rule, row[s].nextRun) => Timely(row[s].rule, row[s].nextRun)'
      BY <1>0, <1>1, Parts DEF Timely
    <3> QED
      BY <3>1 DEF Books, Book, Awake
  <2>2. ASSUME NEW k \in Tick, job[k][s].stage = "writing"
        PROVE  Timely(job[k][s].row.rule, job[k][s].next)'
    <3>1. Timely(job[k][s].row.rule, job[k][s].next) => Timely(job[k][s].row.rule, job[k][s].next)'
      BY <1>0, <1>1, Parts DEF Timely
    <3> QED
      BY <2>2, <3>1 DEF Books, Book, Awake
  <2>3. ASSUME NEW e \in Editor, Edits(e, s)
        PROVE  /\ edit[e].update.rule.type # "keep" =>
                      edit[e].sets /\ Timely(edit[e].update.rule, edit[e].next)'
               /\ edit[e].update.rule.type = "keep" /\ edit[e].sets /\ e \notin outdated[s] =>
                      Timely(row[s].rule, edit[e].next)'
    <3>1. /\ edit[e].next \in Run /\ row[s].rule \in Rule
          /\ edit[e].update.rule.type # "keep" => edit[e].update.rule \in Rule
      BY <2>3, Parts DEF Edits, Update, Keep
    <3>2. /\ edit[e].update.rule.type # "keep" /\ Timely(edit[e].update.rule, edit[e].next)
                => Timely(edit[e].update.rule, edit[e].next)'
          /\ Timely(row[s].rule, edit[e].next) => Timely(row[s].rule, edit[e].next)'
      BY <1>0, <1>1, <3>1 DEF Timely
    <3> QED
      BY <2>3, <3>2 DEF Books, Book, Awake
  <2> QED
    BY <1>0, <2>1, <2>2, <2>3 DEF Awake, Live, Edits
<1>6. Single(s)'
  BY <1>0 DEF Books, Single, OneTick, NotYet, MovesOn, HoldsJob, Edits, Live
<1> QED
  BY <1>2, <1>3, <1>4, <1>5, <1>6 DEF Book

-----------------------------------------------------------------------------
(* The invariant.                                                           *)

\* Every step keeps the clocks of the ticks.
LEMMA PcsStep ==
  ASSUME TypeOK, Pcs, [Next]_vars
  PROVE  Pcs'
<1>0. clock \in Nat /\ \A k \in Tick : tick[k].now \in Nat
  BY Bounds, Parts DEF Time
<1>1. ASSUME UNCHANGED tick, clock' = clock \/ clock' = clock + 1,
             \A l \in Tick, t \in Schedule : job[l][t].stage = "none" => job'[l][t].stage = "none"
      PROVE  Pcs'
  BY <1>0, <1>1 DEF Pcs
<1>2. ASSUME NEW k \in Tick, TickStep(k) \/ ReadFails(k) \/ Die(k)
      PROVE  Pcs'
  <2>0. clock' = clock /\ \A l \in Tick \ {k} : tick'[l] = tick[l] /\ job'[l] = job[l]
    BY <1>2 DEF TickStep, StartTick, ReadDue, StartBatch, EndTick, ReadFails, Die, store, TypeOK
  <2>1. SUFFICES /\ tick'[k].now <= clock
                 /\ tick'[k].pc # "running" => \A s \in Schedule : job'[k][s].stage = "none"
    BY <2>0 DEF Pcs
  <2>2. CASE StartTick(k)
    BY <1>0, <2>2 DEF StartTick, Pcs, TypeOK
  <2>3. CASE ReadDue(k)
    <3>1. tick'[k].now = tick[k].now /\ tick'[k].pc = "running"
      BY <2>3 DEF ReadDue, TypeOK, TickState
    <3> QED
      BY <3>1 DEF Pcs
  <2>4. ASSUME NEW batch \in SUBSET Schedule, StartBatch(k, batch)
        PROVE  /\ tick'[k].now <= clock
               /\ tick'[k].pc # "running" => \A s \in Schedule : job'[k][s].stage = "none"
    BY <2>4 DEF StartBatch, Pcs
  <2>5. CASE EndTick(k)
    <3>1. \A s \in Schedule : job[k][s].stage = "none"
      BY <2>5, Parts DEF EndTick, Busy, Waiting, Active, JobStage
    <3> QED
      BY <1>0, <2>5, <3>1 DEF EndTick, NoTick, TypeOK
  <2>6. CASE ReadFails(k)
    BY <1>0, <2>6 DEF ReadFails, NoTick, Pcs, TypeOK
  <2>7. CASE Die(k)
    <3>1. \A s \in Schedule : job'[k][s] = NoJob
      BY <2>7 DEF Die, TypeOK
    <3> QED
      BY <1>0, <2>7, <3>1 DEF Die, NoTick, NoJob, TypeOK
  <2> QED
    BY <1>2, <2>2, <2>3, <2>4, <2>5, <2>6, <2>7 DEF TickStep
<1>3. ASSUME NEW k \in Tick, NEW s \in Schedule,
             JobStep(k, s) \/ PublishFails(k, s) \/ SettleFails(k, s)
      PROVE  Pcs'
  <2>1. UNCHANGED <<clock, tick>> /\ job[k][s].stage # "none"
    BY <1>3 DEF JobStep, Publish, ExecuteThrows, Calculate, Settle, PublishFails, SettleFails,
                store, Published
  <2>2. \A l \in Tick, t \in Schedule : l # k \/ t # s => job'[l][t] = job[l][t]
    <3>1. CASE Calculate(k, s) /\ ~ EndJob(k, s)
      BY <3>1, CalculateShape DEF Calculate
    <3>2. CASE ~ Calculate(k, s) \/ EndJob(k, s)
      <4>1. EndJob(k, s) \/ ToStage(k, s, "calculating")
        BY <1>3, <3>2 DEF JobStep, Publish, ExecuteThrows, Settle, PublishFails, SettleFails
      <4> QED
        BY <4>1, JobChange DEF JobStage
    <3> QED
      BY <3>1, <3>2
  <2> QED
    BY <1>1, <2>1, <2>2
<1>4. Pass \/ ToolCall \/ (\E e \in Editor : EditStep(e) \/ EditFails(e)) \/ UNCHANGED vars
        => UNCHANGED <<tick, job>> /\ (clock' = clock \/ clock' = clock + 1)
  BY DEF Pass, ToolCall, Create, Delete, BeginEdit, EditStep, MergeEdit, WriteEdit, EditFails,
         store, vars
<1> QED
  BY <1>1, <1>2, <1>3, <1>4 DEF Next, FaultStep

\* Every step keeps the books.
LEMMA BooksStep ==
  ASSUME TypeOK, Pcs, Books, [Next]_vars
  PROVE  Books'
<1>1. ASSUME ToolCall
      PROVE  Books'
  BY <1>1, Bounds, CreateBooks, DeleteBooks, BeginEditBooks DEF ToolCall
<1>2. ASSUME NEW e \in Editor, EditStep(e) \/ EditFails(e)
      PROVE  Books'
  BY <1>2, MergeEditBooks, WriteEditBooks DEF EditStep
<1>3. CASE UNCHANGED vars
  BY <1>3, Untouched DEF vars, Books
<1> QED
  BY <1>1, <1>2, <1>3, PassBooks, TickBooks, JobBooks DEF Next, FaultStep

\* The first state satisfies the invariant.
LEMMA InvInit == Init => Inv
<1> SUFFICES ASSUME Init
    PROVE  Inv
  OBVIOUS
<1>1. /\ NoJob \in Job /\ NoJob.stage = "none"
      /\ NoTick \in TickState /\ NoTick.now = 0
      /\ NoRow("unborn") \in Row /\ NoRow("unborn").state = "unborn"
      /\ NoEdit \in EditState /\ NoEdit.stage = "idle"
      /\ 0 \in Time /\ 0 \in 0..MaxEdits /\ 0 \in 0..MaxFaults
  BY Bounds DEF NoJob, Job, JobStage, NoRow, Row, Rule, Run, NoRun, NoTick, TickState, NoEdit,
                EditState, Time
<1>2. TypeOK
  BY <1>1 DEF Init, TypeOK
<1>3. Pcs
  BY <1>1 DEF Init, Pcs
<1>4. ASSUME NEW s \in Schedule
      PROVE  Book(s) /\ Past(s) /\ Single(s)
  <2>1. /\ row[s] = NoRow("unborn") /\ outdated[s] = Tick \union Editor
        /\ \A k \in Tick : job[k][s] = NoJob
        /\ \A e \in Editor : edit[e] = NoEdit
        /\ \A o \in Occurrence : published[s][o] = 0
    BY DEF Init
  <2>2. Book(s)
    BY <1>1, <2>1 DEF Book, Gone, JobsOf, Current, Awake, Live, Edits
  <2>3. Past(s) /\ Single(s)
    BY <1>1, <2>1 DEF Past, Single, OneTick, NotYet, MovesOn, HoldsJob
  <2> QED
    BY <2>2, <2>3
<1> QED
  BY <1>2, <1>3, <1>4 DEF Inv

\* The invariant is inductive.
THEOREM Invariance == Spec => []Inv
<1>1. Inv /\ [Next]_vars => Inv'
  <2> SUFFICES ASSUME Inv, [Next]_vars
      PROVE  Inv'
    OBVIOUS
  <2>1. TypeOK /\ Pcs /\ Books
    BY DEF Inv, Books
  <2>2. TypeOK' /\ Pcs' /\ Books'
    BY <2>1, TypeStep, PcsStep, BooksStep
  <2> QED
    BY <2>2 DEF Inv, Books
<1> QED
  BY <1>1, InvInit, PTL DEF Spec

-----------------------------------------------------------------------------
(* The theorems.                                                            *)

\* Rows, ticks, jobs and edits keep their types.
THEOREM TypeCorrect == Spec => []TypeOK
<1>1. Inv => TypeOK
  BY DEF Inv
<1> QED
  BY <1>1, Invariance, PTL

\* An occurrence is published once unless its schedule was raced for or a
\* fault fell between executeSchedule and update.
THEOREM PublishedOnce == Spec => []RepeatNeedsRaceOrFault
<1>1. Inv => RepeatNeedsRaceOrFault
  BY DEF Inv, Single, RepeatNeedsRaceOrFault
<1> QED
  BY <1>1, Invariance, PTL

\* The stored nextRun of a cron schedule that was not raced for is never past
\* the next slot of its rule.
THEOREM AwakeAlways == Spec => []NeverOversleeps
<1>1. Inv => NeverOversleeps
  BY DEF Inv, Book, Awake, Timely, NeverOversleeps
<1> QED
  BY <1>1, Invariance, PTL

\* A deleted row stays deleted, but for a write on a document store from a read
\* before the deletion.
THEOREM DeletionIsFinal == Spec => DeletedStaysDeleted
<1>1. ASSUME Inv, Next, NEW s \in Schedule, row[s].state = "deleted", row'[s].state # "deleted"
      PROVE  backend = "document" /\ s \in raced'
  <2>0. TypeOK /\ outdated[s] = Tick \union Editor
    BY <1>1 DEF Inv, Book, Gone, Live
  <2>1. ASSUME NEW k \in Tick, NEW t \in Schedule, Settle(k, t)
        PROVE  backend = "document" /\ s \in raced'
    <3> PICK base \in Row : base = IF backend = "document" THEN job[k][t].base ELSE row[t]
      BY <2>0, BaseType
    <3>1. /\ base.state = "live" /\ Wrote(k, t)
          /\ row' = [row EXCEPT ![t] = Settled(base, job[k][t])]
      BY <1>1, <2>1 DEF Settle
    <3>2. t = s
      BY <1>1, <2>0, <3>1 DEF TypeOK
    <3> QED
      BY <1>1, <2>0, <3>1, <3>2, WroteType
  <2>2. ASSUME NEW e \in Editor, WriteEdit(e)
        PROVE  backend = "document" /\ s \in raced'
    <3>0. edit[e].stage # "idle"
      BY <2>2 DEF WriteEdit
    <3> PICK t \in Schedule : t = edit[e].id
      BY <2>0, <3>0, Parts
    <3> PICK base \in Row : base = IF backend = "document" THEN edit[e].base ELSE row[t]
      BY <2>0, <3>0, Parts
    <3>1. /\ base.state = "live" /\ Wrote(e, t)
          /\ row' = [row EXCEPT ![t] = Edited(base, edit[e])]
      BY <1>1, <2>2 DEF WriteEdit
    <3>2. t = s
      BY <1>1, <2>0, <3>1 DEF TypeOK
    <3> QED
      BY <1>1, <2>0, <3>1, <3>2, WroteType
  <2>3. ASSUME NEW t \in Schedule, NEW rule \in Rules, NEW on \in BOOLEAN, Create(t, rule, on)
        PROVE  row'[s].state = "deleted"
    BY <1>1, <2>0, <2>3 DEF Create, TypeOK
  <2>4. ASSUME NEW t \in Schedule, Delete(t)
        PROVE  row'[s].state = "deleted"
    BY <1>1, <2>0, <2>4 DEF Delete, TypeOK, NoRow
  <2>5. ASSUME UNCHANGED row
        PROVE  row'[s].state = "deleted"
    BY <1>1, <2>5
  <2>6. ASSUME NEW k \in Tick, TickStep(k) \/ ReadFails(k) \/ Die(k)
        PROVE  UNCHANGED row
    BY <2>6 DEF TickStep, StartTick, ReadDue, StartBatch, EndTick, ReadFails, Die, store
  <2>7. ASSUME NEW k \in Tick, NEW t \in Schedule,
               Publish(k, t) \/ ExecuteThrows(k, t) \/ Calculate(k, t)
                 \/ PublishFails(k, t) \/ SettleFails(k, t)
        PROVE  UNCHANGED row
    BY <2>7 DEF Publish, ExecuteThrows, Calculate, PublishFails, SettleFails, store
  <2>8. Pass \/ (\E e \in Editor : MergeEdit(e) \/ EditFails(e))
           \/ (\E e \in Editor, t \in Schedule, u \in Updates : BeginEdit(e, t, u))
          => UNCHANGED row
    BY DEF Pass, MergeEdit, EditFails, BeginEdit, store
  <2> QED
    BY <1>1, <2>1, <2>2, <2>3, <2>4, <2>5, <2>6, <2>7, <2>8
       DEF Next, JobStep, EditStep, ToolCall, FaultStep
<1>2. Inv /\ [Next]_vars =>
        [\A s \in Schedule : row[s].state = "deleted" /\ row'[s].state # "deleted"
            => backend = "document" /\ s \in raced']_vars
  BY <1>1
<1> QED
  BY <1>2, Invariance, PTL DEF Spec, DeletedStaysDeleted

\* No event is published before its time, whatever is edited, retried or
\* raced for.
THEOREM NothingIsEarly ==
  Spec => [](\A s \in Schedule, o \in Occurrence : published[s][o] # 0 => o <= clock)
<1>1. Inv => \A s \in Schedule, o \in Occurrence : published[s][o] # 0 => o <= clock
  BY DEF Inv, Past
<1> QED
  BY <1>1, Invariance, PTL

-----------------------------------------------------------------------------
(* Firestore ignores undefined values: no event is ever erased.             *)

\* On Firestore every row, and every copy a tick works on, has its event.
Authored ==
    backend = "firestore" =>
        \A s \in Schedule :
            /\ Live(s) => row[s].event = "authored"
            /\ \A k \in Tick : HoldsJob(k, s) => job[k][s].row.event = "authored"

\* A tick works on the copy it has, or has just read the row.
LEMMA CopyOfRow ==
  ASSUME TypeOK, [Next]_vars, NEW k \in Tick, NEW s \in Schedule, job'[k][s].stage # "none"
  PROVE  \/ HoldsJob(k, s) /\ job'[k][s].row = job[k][s].row
         \/ Live(s) /\ job'[k][s].row = row[s]
<1>1. ASSUME job'[k][s] = job[k][s]
      PROVE  HoldsJob(k, s) /\ job'[k][s].row = job[k][s].row
  BY <1>1 DEF HoldsJob
<1>2. ASSUME NEW l \in Tick, ReadDue(l)
      PROVE  \/ job'[k][s] = job[k][s]
             \/ Live(s) /\ job'[k][s].row = row[s]
  <2>1. CASE l = k
    <3>1. job'[k] = [t \in Schedule |->
                IF t \in {u \in Schedule : DueAt(u, tick[k].now)}
                THEN [stage |-> "waiting", row |-> row[t], next |-> NoRun, base |-> row[t]]
                ELSE NoJob]
      BY <1>2, <2>1 DEF ReadDue, TypeOK
    <3>2. DueAt(s, tick[k].now) /\ job'[k][s].row = row[s]
      BY <3>1, JobFields
    <3> QED
      BY <3>2 DEF DueAt
  <2>2. CASE l # k
    BY <1>2, <2>2 DEF ReadDue, TypeOK
  <2> QED
    BY <2>1, <2>2
<1>3. ASSUME NEW l \in Tick, NEW batch \in SUBSET Schedule, StartBatch(l, batch)
      PROVE  HoldsJob(k, s) /\ job'[k][s].row = job[k][s].row
  <2>1. CASE l = k /\ s \in batch
    <3>1. job'[k][s] = [job[k][s] EXCEPT !.stage = "publishing"]
      BY <1>3, <2>1 DEF StartBatch, TypeOK
    <3>2. HoldsJob(k, s)
      BY <1>3, <2>1 DEF StartBatch, Waiting, HoldsJob
    <3> QED
      BY <3>1, <3>2, JobFields
  <2>2. CASE ~ (l = k /\ s \in batch)
    <3>1. job'[k][s] = job[k][s]
      BY <1>3, <2>2 DEF StartBatch, TypeOK
    <3> QED
      BY <1>1, <3>1
  <2> QED
    BY <2>1, <2>2
<1>4. ASSUME NEW l \in Tick, NEW t \in Schedule,
             JobStep(l, t) \/ PublishFails(l, t) \/ SettleFails(l, t)
      PROVE  HoldsJob(k, s) /\ job'[k][s].row = job[k][s].row
  <2>1. CASE Calculate(l, t) /\ ~ (backend = "document" /\ ~ Live(t))
    <3>1. HoldsJob(l, t)
      BY <2>1 DEF Calculate, HoldsJob
    <3> QED
      BY <1>1, <2>1, <3>1, CalculateShape
  <2>2. CASE EndJob(l, t)
    BY <1>1, <2>2, JobChange, JobFields
  <2>3. CASE ToStage(l, t, "calculating") /\ HoldsJob(l, t)
    <3>1. /\ job'[l][t] = [job[l][t] EXCEPT !.stage = "calculating"]
          /\ \A x \in Tick, y \in Schedule : x # l \/ y # t => job'[x][y] = job[x][y]
      BY <2>3, JobChange DEF JobStage
    <3>2. job'[l][t].row = job[l][t].row
      BY <3>1, JobFields
    <3> QED
      BY <1>1, <2>3, <3>1, <3>2
  <2> QED
    BY <1>4, <2>1, <2>2, <2>3 DEF JobStep, Publish, ExecuteThrows, Calculate, Settle,
                                  PublishFails, SettleFails, HoldsJob
<1>5. ASSUME NEW l \in Tick, Die(l)
      PROVE  job'[k][s] = job[k][s]
  BY <1>5, JobFields DEF Die, TypeOK
<1>6. ASSUME NEW l \in Tick, StartTick(l) \/ EndTick(l) \/ ReadFails(l)
      PROVE  UNCHANGED job
  BY <1>6 DEF StartTick, EndTick, ReadFails
<1>7. Pass \/ ToolCall \/ (\E e \in Editor : EditStep(e) \/ EditFails(e)) \/ UNCHANGED vars
        => UNCHANGED job
  BY DEF Pass, ToolCall, Create, Delete, BeginEdit, EditStep, MergeEdit, WriteEdit, EditFails, vars
<1> QED
  BY <1>1, <1>2, <1>3, <1>4, <1>5, <1>6, <1>7 DEF Next, TickStep, FaultStep

\* The factory chose once.
LEMMA BackendStays == [Next]_vars => backend' = backend
<1> SUFFICES ASSUME [Next]_vars PROVE backend' = backend
  OBVIOUS
<1>1. ASSUME NEW k \in Tick, TickStep(k) \/ ReadFails(k) \/ Die(k)
      PROVE  backend' = backend
  BY <1>1 DEF TickStep, StartTick, ReadDue, StartBatch, EndTick, ReadFails, Die, store
<1>2. ASSUME NEW k \in Tick, NEW s \in Schedule,
             JobStep(k, s) \/ PublishFails(k, s) \/ SettleFails(k, s)
      PROVE  backend' = backend
  BY <1>2 DEF JobStep, Publish, ExecuteThrows, Calculate, Settle, PublishFails, SettleFails, store
<1>3. Pass \/ ToolCall \/ (\E e \in Editor : EditStep(e) \/ EditFails(e)) \/ UNCHANGED vars
        => backend' = backend
  BY DEF Pass, ToolCall, Create, Delete, BeginEdit, EditStep, MergeEdit, WriteEdit, EditFails,
         store, vars
<1> QED
  BY <1>1, <1>2, <1>3 DEF Next, FaultStep

\* What Firestore stores has its event: a new row has one, and an update keeps
\* it or brings another.
LEMMA RowAuthored ==
  ASSUME TypeOK, Authored, backend = "firestore", [Next]_vars,
         NEW s \in Schedule, row'[s].state = "live"
  PROVE  row'[s].event = "authored"
<1>0. row[s].state = "live" => row[s].event = "authored"
  BY DEF Authored, Live
<1>1. ASSUME row'[s] = row[s]
      PROVE  row'[s].event = "authored"
  BY <1>0, <1>1
<1>2. ASSUME NEW k \in Tick, NEW t \in Schedule, Settle(k, t)
      PROVE  row'[s].event = "authored"
  <2>1. row' = row \/ row' = [row EXCEPT ![t] = Settled(row[t], job[k][t])]
    BY <1>2 DEF Settle
  <2>2. Settled(row[s], job[k][s]).event = row[s].event
        /\ Settled(row[s], job[k][s]).state = row[s].state
    BY DEF Settled
  <2> QED
    BY <1>0, <1>1, <2>1, <2>2 DEF TypeOK
<1>3. ASSUME NEW e \in Editor, WriteEdit(e)
      PROVE  row'[s].event = "authored"
  <2>1. row' = row \/ row' = [row EXCEPT ![edit[e].id] = Edited(row[edit[e].id], edit[e])]
    BY <1>3 DEF WriteEdit
  <2>2. /\ Edited(row[s], edit[e]).event \in {row[s].event, "authored"}
        /\ Edited(row[s], edit[e]).state = row[s].state
    BY DEF Edited
  <2> QED
    BY <1>0, <1>1, <2>1, <2>2 DEF TypeOK
<1>4. ASSUME NEW t \in Schedule, NEW rule \in Rules, NEW on \in BOOLEAN, Create(t, rule, on)
      PROVE  row'[s].event = "authored"
  BY <1>1, <1>4 DEF Create, TypeOK
<1>5. ASSUME NEW t \in Schedule, Delete(t)
      PROVE  row'[s] = row[s]
  BY <1>5 DEF Delete, TypeOK, NoRow
<1>6. ASSUME NEW k \in Tick, TickStep(k) \/ ReadFails(k) \/ Die(k)
      PROVE  UNCHANGED row
  BY <1>6 DEF TickStep, StartTick, ReadDue, StartBatch, EndTick, ReadFails, Die, store
<1>7. ASSUME NEW k \in Tick, NEW t \in Schedule,
             Publish(k, t) \/ ExecuteThrows(k, t) \/ Calculate(k, t)
               \/ PublishFails(k, t) \/ SettleFails(k, t)
      PROVE  UNCHANGED row
  BY <1>7 DEF Publish, ExecuteThrows, Calculate, PublishFails, SettleFails, store
<1>8. Pass \/ (\E e \in Editor : MergeEdit(e) \/ EditFails(e))
         \/ (\E e \in Editor, t \in Schedule, u \in Updates : BeginEdit(e, t, u))
         \/ UNCHANGED vars
        => UNCHANGED row
  BY DEF Pass, MergeEdit, EditFails, BeginEdit, store, vars
<1> QED
  BY <1>1, <1>2, <1>3, <1>4, <1>5, <1>6, <1>7, <1>8
     DEF Next, JobStep, EditStep, ToolCall, FaultStep

\* On Firestore every row has its event at all times.
LEMMA AuthoredAlways == Spec => []Authored
<1>1. Init => Authored
  BY DEF Init, Authored, Live, NoRow, HoldsJob, NoJob
<1>2. TypeOK /\ Authored /\ [Next]_vars => Authored'
  <2> SUFFICES ASSUME TypeOK, Authored, [Next]_vars, backend' = "firestore",
                      NEW s \in Schedule
               PROVE  /\ Live(s)' => row'[s].event = "authored"
                      /\ \A k \in Tick : HoldsJob(k, s)' => job'[k][s].row.event = "authored"
    BY DEF Authored
  <2>1. backend = "firestore"
    BY BackendStays
  <2>2. Live(s)' => row'[s].event = "authored"
    BY <2>1, RowAuthored DEF Live
  <2>3. ASSUME NEW k \in Tick, HoldsJob(k, s)'
        PROVE  job'[k][s].row.event = "authored"
    BY <2>1, <2>3, CopyOfRow DEF HoldsJob, Authored
  <2> QED
    BY <2>2, <2>3
<1> QED
  BY <1>1, <1>2, TypeCorrect, PTL DEF Spec

\* The scheduler guide's promise holds on Firestore: an update that does not
\* name the event leaves the schedule its event.
THEOREM FirestoreKeepsEvent == Spec => [](backend = "firestore" => UpdateKeepsEvent)
<1>1. Authored => (backend = "firestore" => UpdateKeepsEvent)
  BY DEF Authored, UpdateKeepsEvent
<1> QED
  BY <1>1, AuthoredAlways, PTL

\* So executeSchedule never throws there for want of an event, whatever the
\* tools did between the snapshot and the publication.
THEOREM FirestoreNeverThrows ==
  Spec => [][backend = "firestore" => \A k \in Tick, s \in Schedule : ~ ExecuteThrows(k, s)]_vars
<1>1. Authored => (backend = "firestore" => \A k \in Tick, s \in Schedule : ~ ExecuteThrows(k, s))
  BY DEF Authored, ExecuteThrows, HoldsJob
<1> QED
  BY <1>1, AuthoredAlways, PTL

-----------------------------------------------------------------------------
(* No occurrence is skipped: a tick moves a row on only from one that was   *)
(* published.                                                               *)

\* What a job settles on was published, and an update that keeps the rule
\* brings a new nextRun only to a row that has none.
Announced(s) ==
    \A k \in Tick : job[k][s].stage \in Published =>
        /\ job[k][s].row.nextRun \in Occurrence
        /\ published[s][job[k][s].row.nextRun] # 0

Revives(s) ==
    \A e \in Editor \ outdated[s] :
        Edits(e, s) /\ edit[e].sets /\ edit[e].update.rule.type = "keep"
            => row[s].nextRun = NoRun

\* What is published stays published.
LEMMA PublishedGrows ==
  ASSUME TypeOK, [Next]_vars, NEW s \in Schedule, NEW o \in Occurrence, published[s][o] # 0
  PROVE  published'[s][o] # 0
<1>1. ASSUME NEW k \in Tick, NEW t \in Schedule, CountEvent(t, job[k][t].row.nextRun)
      PROVE  published'[s][o] # 0
  <2>1. CASE t = s /\ job[k][t].row.nextRun = o
    BY <1>1, <2>1, CountChange
  <2>2. CASE ~ (t = s /\ job[k][t].row.nextRun = o)
    BY <1>1, <2>2, CountChange
  <2> QED
    BY <2>1, <2>2
<1>2. ASSUME NEW k \in Tick, TickStep(k) \/ ReadFails(k) \/ Die(k)
      PROVE  UNCHANGED published
  BY <1>2 DEF TickStep, StartTick, ReadDue, StartBatch, EndTick, ReadFails, Die, history
<1>3. ASSUME NEW k \in Tick, NEW t \in Schedule,
             JobStep(k, t) \/ PublishFails(k, t) \/ SettleFails(k, t)
      PROVE  UNCHANGED published \/ CountEvent(t, job[k][t].row.nextRun)
  BY <1>3 DEF JobStep, Publish, ExecuteThrows, Calculate, Settle, PublishFails, SettleFails, history
<1>4. Pass \/ ToolCall \/ (\E e \in Editor : EditStep(e) \/ EditFails(e)) \/ UNCHANGED vars
        => UNCHANGED published
  BY DEF Pass, ToolCall, Create, Delete, BeginEdit, EditStep, MergeEdit, WriteEdit, EditFails,
         history, vars
<1> QED
  BY <1>1, <1>2, <1>3, <1>4 DEF Next, FaultStep

\* A job comes past its publication by publishing.
LEMMA PastPublication ==
  ASSUME TypeOK, [Next]_vars, NEW k \in Tick, NEW s \in Schedule, job'[k][s].stage \in Published
  PROVE  /\ job'[k][s].row = job[k][s].row
         /\ job[k][s].stage \in Published \/ Publish(k, s)
<1> DEFINE Kept == job'[k][s].row = job[k][s].row /\ job[k][s].stage \in Published
<1>1. job'[k][s] = job[k][s] => Kept
  OBVIOUS
<1>2. ASSUME NEW l \in Tick, ReadDue(l)
      PROVE  job'[k][s] = job[k][s]
  <2>1. l # k
    <3> SUFFICES ASSUME l = k PROVE FALSE
      OBVIOUS
    <3>1. job'[k] = [t \in Schedule |->
                IF t \in {u \in Schedule : DueAt(u, tick[k].now)}
                THEN [stage |-> "waiting", row |-> row[t], next |-> NoRun, base |-> row[t]]
                ELSE NoJob]
      BY <1>2 DEF ReadDue, TypeOK
    <3> QED
      BY <3>1 DEF NoJob, Published
  <2> QED
    BY <1>2, <2>1 DEF ReadDue, TypeOK
<1>3. ASSUME NEW l \in Tick, NEW batch \in SUBSET Schedule, StartBatch(l, batch)
      PROVE  job'[k][s] = job[k][s]
  <2>1. ~ (l = k /\ s \in batch)
    <3> SUFFICES ASSUME l = k, s \in batch PROVE FALSE
      OBVIOUS
    <3>1. job'[k][s] = [job[k][s] EXCEPT !.stage = "publishing"]
      BY <1>3 DEF StartBatch, TypeOK
    <3>2. job'[k][s].stage = "publishing"
      BY <3>1, Parts DEF Job
    <3> QED
      BY <3>2 DEF Published
  <2> QED
    BY <1>3, <2>1 DEF StartBatch, TypeOK
<1>4. ASSUME NEW l \in Tick, NEW t \in Schedule,
             JobStep(l, t) \/ PublishFails(l, t) \/ SettleFails(l, t)
      PROVE  Kept \/ (Publish(k, s) /\ job'[k][s].row = job[k][s].row)
  <2>1. CASE Calculate(l, t) /\ ~ (backend = "document" /\ ~ Live(t))
    <3>1. job[l][t].stage \in Published
      BY <2>1 DEF Calculate, Published
    <3> QED
      BY <1>1, <2>1, <3>1, CalculateShape
  <2>2. CASE EndJob(l, t)
    BY <1>1, <2>2, JobChange DEF NoJob, Published
  <2>3. CASE Publish(l, t)
    <3>1. /\ job'[l][t] = [job[l][t] EXCEPT !.stage = "calculating"]
          /\ \A x \in Tick, y \in Schedule : x # l \/ y # t => job'[x][y] = job[x][y]
      BY <2>3, JobChange DEF Publish, JobStage
    <3>2. job'[l][t].row = job[l][t].row
      BY <3>1, Parts DEF Job
    <3> QED
      BY <1>1, <2>3, <3>1, <3>2
  <2> QED
    BY <1>4, <2>1, <2>2, <2>3 DEF JobStep, ExecuteThrows, Calculate, Settle,
                                  PublishFails, SettleFails
<1>5. ASSUME NEW l \in Tick, Die(l)
      PROVE  job'[k][s] = job[k][s]
  BY <1>5 DEF Die, TypeOK, NoJob, Published
<1>6. ASSUME NEW l \in Tick, StartTick(l) \/ EndTick(l) \/ ReadFails(l)
      PROVE  UNCHANGED job
  BY <1>6 DEF StartTick, EndTick, ReadFails
<1>7. Pass \/ ToolCall \/ (\E e \in Editor : EditStep(e) \/ EditFails(e)) \/ UNCHANGED vars
        => UNCHANGED job
  BY DEF Pass, ToolCall, Create, Delete, BeginEdit, EditStep, MergeEdit, WriteEdit, EditFails, vars
<1> QED
  BY <1>1, <1>2, <1>3, <1>4, <1>5, <1>6, <1>7 DEF Next, TickStep, FaultStep

\* A publication announces the occurrence of its job.
LEMMA AnnouncedStep ==
  ASSUME Inv, [Next]_vars, NEW s \in Schedule, Announced(s)
  PROVE  Announced(s)'
<1> SUFFICES ASSUME NEW k \in Tick, job'[k][s].stage \in Published
             PROVE  /\ job'[k][s].row.nextRun \in Occurrence
                    /\ published'[s][job'[k][s].row.nextRun] # 0
  BY DEF Announced
<1>0. TypeOK /\ JobsOf(s)
  BY DEF Inv, Book
<1>1. job'[k][s].row = job[k][s].row
  BY <1>0, PastPublication
<1>2. CASE job[k][s].stage \in Published
  BY <1>0, <1>1, <1>2, PublishedGrows DEF Announced
<1>3. CASE Publish(k, s)
  <2>1. job[k][s].row.nextRun \in 0..clock /\ clock \in 0..MaxTime /\ MaxTime \in Nat
    BY <1>0, <1>3, Bounds DEF Publish, JobsOf, TypeOK, Time
  <2>2. job[k][s].row.nextRun \in Occurrence
    BY <2>1 DEF Occurrence, Time
  <2> QED
    BY <1>0, <1>1, <1>3, <2>2, CountChange DEF Publish
<1> QED
  BY <1>0, <1>2, <1>3, PastPublication

\* An update that is still up to date carries what it was begun with.
LEMMA RevivesStep ==
  ASSUME Inv, [Next]_vars, NEW s \in Schedule, Revives(s)
  PROVE  Revives(s)'
<1> SUFFICES ASSUME NEW e \in Editor, e \notin outdated'[s], Edits(e, s)',
                    edit'[e].sets, edit'[e].update.rule.type = "keep"
             PROVE  row'[s].nextRun = NoRun
  BY DEF Revives
<1>0. TypeOK /\ Gone(s) /\ e \notin Tick
  BY Bounds DEF Inv, Book
<1> DEFINE Carried == /\ Edits(e, s)
                      /\ edit'[e].sets = edit[e].sets /\ edit'[e].update = edit[e].update
<1>1. ASSUME row'[s] = row[s], e \notin outdated[s], Carried
      PROVE  row'[s].nextRun = NoRun
  BY <1>1 DEF Revives
<1>2. ASSUME UNCHANGED <<row, outdated, edit>>
      PROVE  row'[s].nextRun = NoRun
  BY <1>1, <1>2 DEF Edits
<1>3. ASSUME NEW h, NEW t \in Schedule, Wrote(h, t), \A r \in Schedule \ {t} : row'[r] = row[r],
             edit'[e] = edit[e]
      PROVE  row'[s].nextRun = NoRun
  <2>1. t # s
    BY <1>0, <1>3, WroteType
  <2>2. outdated'[s] = outdated[s] /\ row'[s] = row[s]
    BY <1>0, <1>3, <2>1, WroteType
  <2> QED
    BY <1>1, <1>3, <2>2 DEF Edits
<1>4. ASSUME NEW k \in Tick, ReadDue(k)
      PROVE  row'[s].nextRun = NoRun
  <2>1. UNCHANGED <<row, edit>> /\ outdated'[s] \in {outdated[s], outdated[s] \ {k}}
    BY <1>4 DEF ReadDue, store
  <2> QED
    BY <1>0, <1>1, <2>1 DEF Edits
<1>5. ASSUME NEW k \in Tick, NEW t \in Schedule, Settle(k, t)
      PROVE  row'[s].nextRun = NoRun
  <2>1. edit' = edit
    BY <1>5 DEF Settle
  <2>2. \/ UNCHANGED <<row, outdated>>
        \/ Wrote(k, t) /\ \A r \in Schedule \ {t} : row'[r] = row[r]
    BY <1>0, <1>5 DEF Settle, TypeOK
  <2> QED
    BY <1>2, <1>3, <2>1, <2>2
<1>6. ASSUME NEW d \in Editor, WriteEdit(d)
      PROVE  row'[s].nextRun = NoRun
  <2>1. d # e /\ edit'[e] = edit[e]
    BY <1>0, <1>6 DEF WriteEdit, EndEdit, NoEdit, Edits, TypeOK
  <2> PICK t \in Schedule : t = edit[d].id
    BY <1>0, <1>6, Parts DEF WriteEdit
  <2>2. \/ UNCHANGED <<row, outdated>>
        \/ Wrote(d, t) /\ \A r \in Schedule \ {t} : row'[r] = row[r]
    BY <1>0, <1>6 DEF WriteEdit, TypeOK
  <2> QED
    BY <1>1, <1>3, <2>1, <2>2 DEF Edits
<1>7. ASSUME NEW d \in Editor, MergeEdit(d) \/ EditFails(d)
      PROVE  row'[s].nextRun = NoRun
  <2>1. UNCHANGED <<row, outdated>>
    BY <1>7 DEF MergeEdit, EditFails, store, history
  <2>2. CASE EndEdit(d)
    <3>1. d # e /\ edit'[e] = edit[e]
      BY <1>0, <2>2 DEF EndEdit, NoEdit, Edits, TypeOK
    <3> QED
      BY <1>1, <2>1, <3>1 DEF Edits
  <2>3. CASE MergeEdit(d) /\ ~ EndEdit(d)
    <3>1. /\ edit[d].stage = "updating"
          /\ edit' = [edit EXCEPT ![d] =
                [stage |-> "writing", id |-> edit[d].id, update |-> edit[d].update,
                 sets |-> edit[d].sets, next |-> edit[d].next, base |-> row[edit[d].id]]]
      BY <2>3 DEF MergeEdit
    <3>2. /\ edit'[d].id = edit[d].id /\ edit'[d].update = edit[d].update
          /\ edit'[d].sets = edit[d].sets
          /\ d # e => edit'[e] = edit[e]
      BY <1>0, <3>1 DEF TypeOK
    <3>3. Carried
      BY <3>1, <3>2 DEF Edits
    <3> QED
      BY <1>1, <2>1, <3>3
  <2> QED
    BY <1>7, <2>2, <2>3 DEF EditFails
<1>8. ASSUME NEW d \in Editor, NEW t \in Schedule, NEW u \in Updates, BeginEdit(d, t, u)
      PROVE  row'[s].nextRun = NoRun
  <2>1. UNCHANGED row
    BY <1>8 DEF BeginEdit, store
  <2>2. CASE d = e
    <3>1. /\ edit'[e].id = t /\ edit'[e].update = u
          /\ edit'[e].sets = (u.rule.type # "keep" \/ (u.enabled = "on" /\ row[t].nextRun = NoRun))
      BY <1>0, <1>8, <2>2 DEF BeginEdit, TypeOK
    <3> QED
      BY <2>1, <3>1 DEF Edits
  <2>3. CASE d # e
    <3>1. edit'[e] = edit[e] /\ e \notin outdated[s]
      BY <1>0, <1>8, <2>3 DEF BeginEdit, TypeOK
    <3> QED
      BY <1>1, <2>1, <3>1 DEF Edits
  <2> QED
    BY <2>2, <2>3
<1>9. ASSUME NEW t \in Schedule, NEW rule \in Rules, NEW on \in BOOLEAN, Create(t, rule, on)
      PROVE  row'[s].nextRun = NoRun
  <2>1. UNCHANGED <<outdated, edit>>
    BY <1>9 DEF Create, history
  <2>2. t # s
    BY <1>0, <1>9, <2>1 DEF Create, Gone, Live
  <2>3. row'[s] = row[s]
    BY <1>0, <1>9, <2>2 DEF Create, TypeOK
  <2> QED
    BY <1>1, <2>1, <2>3 DEF Edits
<1>10. ASSUME NEW t \in Schedule, Delete(t)
       PROVE  row'[s].nextRun = NoRun
  <2>1. t # s
    BY <1>0, <1>10 DEF Delete, TypeOK
  <2>2. row'[s] = row[s] /\ outdated'[s] = outdated[s] /\ edit' = edit
    BY <1>0, <1>10, <2>1 DEF Delete, TypeOK
  <2> QED
    BY <1>1, <2>2 DEF Edits
<1>11. ASSUME NEW k \in Tick,
              StartTick(k) \/ (\E batch \in SUBSET Schedule : StartBatch(k, batch))
                \/ EndTick(k) \/ ReadFails(k) \/ Die(k)
       PROVE  UNCHANGED <<row, outdated, edit>>
  BY <1>11 DEF StartTick, StartBatch, EndTick, ReadFails, Die, store, history
<1>12. ASSUME NEW k \in Tick, NEW t \in Schedule,
              Publish(k, t) \/ ExecuteThrows(k, t) \/ Calculate(k, t)
                \/ PublishFails(k, t) \/ SettleFails(k, t)
       PROVE  UNCHANGED <<row, outdated, edit>>
  BY <1>12 DEF Publish, ExecuteThrows, Calculate, PublishFails, SettleFails, store, history
<1>13. Pass \/ UNCHANGED vars => UNCHANGED <<row, outdated, edit>>
  BY DEF Pass, history, vars
<1> QED
  BY <1>2, <1>4, <1>5, <1>6, <1>7, <1>8, <1>9, <1>10, <1>11, <1>12, <1>13
     DEF Next, TickStep, JobStep, EditStep, ToolCall, FaultStep

LEMMA MovesAlways == Spec => [](\A s \in Schedule : Announced(s) /\ Revives(s))
<1>1. Init => \A s \in Schedule : Announced(s) /\ Revives(s)
  BY DEF Init, Announced, Revives, NoJob, Published, Edits, NoEdit
<1>2. /\ \A s \in Schedule : Announced(s) /\ Revives(s)
      /\ Inv /\ [Next]_vars
      => (\A s \in Schedule : Announced(s) /\ Revives(s))'
  BY AnnouncedStep, RevivesStep
<1> QED
  BY <1>1, <1>2, Invariance, PTL DEF Spec

\* The row of s leaves its nextRun, in a step that is no race.
Leaves(s) ==
    /\ Live(s) /\ row[s].nextRun # NoRun
    /\ row'[s].nextRun # row[s].nextRun
    /\ s \notin raced'

\* Why it may: the occurrence was published, or s is deleted or given a rule.
Served(s) ==
    \/ row[s].nextRun \in Occurrence /\ published[s][row[s].nextRun] # 0
    \/ Delete(s)
    \/ \E e \in Editor : /\ WriteEdit(e) /\ edit[e].id = s
                         /\ edit[e].update.rule.type # "keep"

\* No occurrence is skipped: a schedule that was not raced for leaves its
\* nextRun when it was published, is deleted, or is given another rule.  With
\* RepeatNeedsRaceOrFault and NothingIsEarly: an occurrence whose schedule is
\* neither raced for, changed nor hit by a fault is published once, in time.
THEOREM NothingIsSkipped ==
  Spec => [][\A s \in Schedule : Leaves(s) => Served(s)]_vars
<1>1. ASSUME Inv, [Next]_vars, NEW s \in Schedule, Announced(s), Revives(s), Leaves(s)
      PROVE  Served(s)
  <2>0. TypeOK /\ Current(s) /\ Live(s) /\ row'[s].nextRun # row[s].nextRun /\ s \notin raced'
    BY <1>1 DEF Inv, Book, Leaves
  <2>1. ASSUME NEW k \in Tick, NEW t \in Schedule, Settle(k, t)
        PROVE  row[s].nextRun \in Occurrence /\ published[s][row[s].nextRun] # 0
    <3>1. t = s /\ Wrote(k, s) /\ job[k][s].stage = "writing"
      BY <1>1, <2>0, <2>1 DEF Settle, TypeOK
    <3>2. k \notin outdated[s]
      BY <1>1, <2>0, <3>1, WroteType
    <3>3. job[k][s].row = row[s]
      BY <2>0, <3>1, <3>2 DEF Current, HoldsJob
    <3> QED
      BY <1>1, <3>1, <3>3 DEF Announced, Published
  <2>2. ASSUME NEW e \in Editor, WriteEdit(e)
        PROVE  edit[e].id = s /\ edit[e].update.rule.type # "keep"
    <3>0. edit[e].stage # "idle"
      BY <2>2 DEF WriteEdit
    <3> PICK t \in Schedule : t = edit[e].id
      BY <2>0, <3>0, Parts
    <3> PICK base \in Row : base = IF backend = "document" THEN edit[e].base ELSE row[t]
      BY <2>0, <3>0, Parts
    <3>1. /\ t = s /\ Wrote(e, s)
          /\ row' = [row EXCEPT ![s] = Edited(base, edit[e])]
      BY <1>1, <2>0, <2>2 DEF WriteEdit, TypeOK
    <3>2. e \notin outdated[s]
      BY <1>1, <2>0, <3>1, WroteType
    <3>3. base = row[s]
      BY <2>0, <3>0, <3>1, <3>2 DEF Current, Edits
    <3>4. row'[s].nextRun = Edited(row[s], edit[e]).nextRun /\ edit[e] \in EditCall
      BY <2>0, <3>0, <3>1, <3>3, Parts DEF TypeOK
    <3>5. edit[e].sets
      BY <1>1, <2>0, <3>4, Parts, EditedType
    <3> QED
      BY <1>1, <3>0, <3>1, <3>2, <3>5 DEF Revives, Edits, Leaves
  <2>3. ASSUME NEW t \in Schedule, NEW rule \in Rules, NEW on \in BOOLEAN, Create(t, rule, on)
        PROVE  row'[s] = row[s]
    BY <1>1, <2>0, <2>3 DEF Create, Live, TypeOK
  <2>4. ASSUME NEW t \in Schedule, Delete(t)
        PROVE  t = s
    BY <1>1, <2>0, <2>4 DEF Delete, TypeOK
  <2>5. ASSUME NEW k \in Tick, TickStep(k) \/ ReadFails(k) \/ Die(k)
        PROVE  UNCHANGED row
    BY <2>5 DEF TickStep, StartTick, ReadDue, StartBatch, EndTick, ReadFails, Die, store
  <2>6. ASSUME NEW k \in Tick, NEW t \in Schedule,
               Publish(k, t) \/ ExecuteThrows(k, t) \/ Calculate(k, t)
                 \/ PublishFails(k, t) \/ SettleFails(k, t)
        PROVE  UNCHANGED row
    BY <2>6 DEF Publish, ExecuteThrows, Calculate, PublishFails, SettleFails, store
  <2>7. Pass \/ (\E e \in Editor : MergeEdit(e) \/ EditFails(e))
           \/ (\E e \in Editor, t \in Schedule, u \in Updates : BeginEdit(e, t, u))
           \/ UNCHANGED vars
          => UNCHANGED row
    BY DEF Pass, MergeEdit, EditFails, BeginEdit, store, vars
  <2> QED
    BY <1>1, <2>0, <2>1, <2>2, <2>3, <2>4, <2>5, <2>6, <2>7
       DEF Next, JobStep, EditStep, ToolCall, FaultStep, Served
<1>2. /\ \A s \in Schedule : Announced(s) /\ Revives(s)
      /\ Inv /\ [Next]_vars
      => [\A s \in Schedule : Leaves(s) => Served(s)]_vars
  BY <1>1
<1> QED
  BY <1>2, MovesAlways, Invariance, PTL DEF Spec

=============================================================================
