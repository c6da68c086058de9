--------------------------- MODULE ScheduleTicks ---------------------------
(***************************************************************************)
(* The scheduler: ticks that publish what is due, and the MCP tools that   *)
(* create, update and delete schedules meanwhile.                          *)
(*                                                                         *)
(* handleTick is started by setInterval, which does not wait for the last  *)
(* one, by POST /tick, and in every instance of the service, so ticks      *)
(* overlap: a member of Tick is a place for one of them.  A tick takes a   *)
(* snapshot of the due rows, handles it batch by batch, and works on the   *)
(* snapshot whatever happens to the row.                                   *)
(*                                                                         *)
(* IScheduleRepository.update is one call of Firestore, and a get followed *)
(* by a set of the merged row on a document store; undefined values are    *)
(* ignored by the first and erase the field in the second.                 *)
(***************************************************************************)
EXTENDS Integers, FiniteSets

CONSTANTS
    Schedule,         \* ids: create_schedule draws a new one for every row
    Tick,             \* bound: ticks that run at one time
    Editor,           \* bound: update_schedule calls that run at one time
    Cron,             \* cron expressions that parse
    NextSlot,         \* [Cron -> [0..MaxTime -> Nat]]: cron-parser's next()
    Rules,            \* the rules create_schedule is called with
    Updates,          \* the arguments update_schedule is called with
    ConcurrencyLimit, \* size of a batch
    MaxTime,          \* bound of the clock
    MaxEdits,         \* bound: calls of update_schedule
    MaxFaults         \* bound: calls that throw and ticks that die

NoRun == -1           \* nextRun null or absent

Once(t) == [type |-> "once", at |-> t]
CronRule(c) == [type |-> "cron", cron |-> c]
Broken == [type |-> "broken"]       \* a value neither Date nor cron can read
Keep == [type |-> "keep"]           \* the argument is not given

Rule == {Once(t) : t \in 0..MaxTime} \union {CronRule(c) : c \in Cron} \union {Broken}

Update == [rule : Rule \union {Keep}, event : BOOLEAN, enabled : {"keep", "on", "off"}]

ASSUME ScheduleAssumption ==
    /\ MaxTime \in Nat
    /\ MaxEdits \in Nat
    /\ MaxFaults \in Nat
    /\ ConcurrencyLimit \in Nat \ {0}
    /\ Tick \intersect Editor = {}
    /\ Rules \subseteq Rule
    /\ Updates \subseteq Update
    /\ NextSlot \in [Cron -> [0..MaxTime -> Nat]]
    /\ \A c \in Cron, t \in 0..MaxTime : NextSlot[c][t] > t
    /\ \A c \in Cron, t, u \in 0..MaxTime :
            t <= u => NextSlot[c][t] <= NextSlot[c][u]

-----------------------------------------------------------------------------
VARIABLES
    clock,     \* 0..MaxTime
    backend,   \* "firestore" or "document": what the factory chose
    row,       \* [Schedule -> Row]
    tick,      \* [Tick -> state of the tick]
    job,       \* [Tick -> [Schedule -> Job]]: processSingleSchedule calls
    edit,      \* [Editor -> state of the update_schedule call]
    edits,     \* calls of update_schedule so far
    faults,    \* faults so far
    (* history variables, read by the properties only *)
    published, \* [Schedule -> [Occurrence -> 0..2]]: events for one value of
               \* nextRun; 2 is two or more
    outdated,  \* [Schedule -> SUBSET (Tick \union Editor)]: those without a
               \* read of the row that no write has followed
    raced,     \* schedules read by two ticks at once, or written from such a read
    failed     \* schedules published and not settled because of a fault

store == <<clock, backend, row>>
history == <<published, outdated, raced, failed>>
vars == <<clock, backend, row, tick, job, edit, edits, faults,
          published, outdated, raced, failed>>

Time == 0..MaxTime
Run == Nat \union {NoRun}
\* The values of nextRun a tick can find due are times of the clock.
Occurrence == Time

Row == [state : {"unborn", "live", "deleted"}, rule : Rule,
        event : {"authored", "missing"}, enabled : BOOLEAN, nextRun : Run]
NoRow(state) == [state |-> state, rule |-> Broken, event |-> "missing",
                 enabled |-> FALSE, nextRun |-> NoRun]

\* waiting: in a later batch; publishing: in executeSchedule; calculating: the
\* event is published; writing: in repo.update.
JobStage == {"none", "waiting", "publishing", "calculating", "writing"}
Active == {"publishing", "calculating", "writing"}
Published == {"calculating", "writing"}
Job == [stage : JobStage, row : Row, next : Run, base : Row]
NoJob == [stage |-> "none", row |-> NoRow("unborn"), next |-> NoRun,
          base |-> NoRow("unborn")]

TickState == [pc : {"idle", "asked", "running"}, now : Time]
NoTick == [pc |-> "idle", now |-> 0]

\* sets: newUpdates has the key nextRun.
EditCall == [stage : {"updating", "writing"}, id : Schedule, update : Update,
             sets : BOOLEAN, next : Run, base : Row]
NoEdit == [stage |-> "idle"]
EditState == EditCall \union {NoEdit}

TypeOK ==
    /\ clock \in Time
    /\ backend \in {"firestore", "document"}
    /\ row \in [Schedule -> Row]
    /\ tick \in [Tick -> TickState]
    /\ job \in [Tick -> [Schedule -> Job]]
    /\ edit \in [Editor -> EditState]
    /\ edits \in 0..MaxEdits
    /\ faults \in 0..MaxFaults
    /\ published \in [Schedule -> [Occurrence -> 0..2]]
    /\ outdated \in [Schedule -> SUBSET (Tick \union Editor)]
    /\ raced \in SUBSET Schedule
    /\ failed \in SUBSET Schedule

Init ==
    /\ clock = 0
    /\ backend \in {"firestore", "document"}
    /\ row = [s \in Schedule |-> NoRow("unborn")]
    /\ tick = [k \in Tick |-> NoTick]
    /\ job = [k \in Tick |-> [s \in Schedule |-> NoJob]]
    /\ edit = [e \in Editor |-> NoEdit]
    /\ edits = 0
    /\ faults = 0
    /\ published = [s \in Schedule |-> [o \in Occurrence |-> 0]]
    /\ outdated = [s \in Schedule |-> Tick \union Editor]
    /\ raced = {}
    /\ failed = {}

-----------------------------------------------------------------------------
(* Helpers.                                                                 *)

Live(s) == row[s].state = "live"

\* Mutant of NextRun: the slot after the next one.
NextRunSkipping(rule, now) ==
    CASE rule.type = "once"   -> IF rule.at > now THEN rule.at ELSE NoRun
      [] rule.type = "cron"   -> NextSlot[rule.cron][now] + 1
      [] rule.type = "broken" -> NoRun

\* calculateNextRun.
NextRun(rule, now) ==
    CASE rule.type = "once"   -> IF rule.at > now THEN rule.at ELSE NoRun
      [] rule.type = "cron"   -> NextSlot[rule.cron][now]
      [] rule.type = "broken" -> NoRun

\* The filter of getDueSchedules.
DueAt(s, now) ==
    /\ Live(s)
    /\ row[s].enabled
    /\ row[s].nextRun # NoRun
    /\ row[s].nextRun <= now

Fault == faults < MaxFaults /\ faults' = faults + 1

Waiting(k) == {s \in Schedule : job[k][s].stage = "waiting"}
Busy(k) == {s \in Schedule : job[k][s].stage \in Active}
HoldsJob(k, s) == job[k][s].stage # "none"

ToStage(k, s, stage) == job' = [job EXCEPT ![k][s].stage = stage]
\* Mutant of EndJob: the call is marked, with a stage no other code knows.
EndJobMarked(k, s) == job' = [job EXCEPT ![k][s].stage = "ended"]

EndJob(k, s) == job' = [job EXCEPT ![k][s] = NoJob]
CountEvent(s, o) ==
    published' = [published EXCEPT ![s][o] = IF @ < 2 THEN @ + 1 ELSE 2]

\* h writes the row of s: every copy read before is out of date now.
Wrote(h, s) ==
    /\ outdated' = [outdated EXCEPT ![s] = Tick \union Editor]
    /\ raced' = IF h \in outdated[s] THEN raced \union {s} ELSE raced

-----------------------------------------------------------------------------
(* A tick.                                                                  *)

\* The interval fires or POST /tick arrives.
StartTick(k) ==
    /\ tick[k].pc = "idle"
    /\ tick' = [tick EXCEPT ![k] = [pc |-> "asked", now |-> clock]]
    /\ UNCHANGED <<store, job, edit, edits, faults, history>>

\* getDueSchedules answers.
ReadDue(k) ==
    LET due == {s \in Schedule : DueAt(s, tick[k].now)}
        shared == {s \in due : \E other \in Tick \ {k} : HoldsJob(other, s)}
    IN  /\ tick[k].pc = "asked"
        /\ tick' = [tick EXCEPT ![k].pc = "running"]
        /\ job' = [job EXCEPT ![k] = [s \in Schedule |->
                IF s \in due
                THEN [stage |-> "waiting", row |-> row[s], next |-> NoRun, base |-> row[s]]
                ELSE NoJob]]
        /\ outdated' = [s \in Schedule |->
                IF s \in due THEN outdated[s] \ {k} ELSE outdated[s]]
        /\ raced' = raced \union shared
        /\ UNCHANGED <<store, edit, edits, faults, published, failed>>

\* The query throws: handleTick ends, its caller logs.
ReadFails(k) ==
    /\ tick[k].pc = "asked"
    /\ Fault
    /\ tick' = [tick EXCEPT ![k] = NoTick]
    /\ UNCHANGED <<store, job, edit, edits, history>>

\* The next slice of the snapshot, when Promise.allSettled of the last is done.
StartBatch(k, batch) ==
    /\ tick[k].pc = "running"
    /\ Busy(k) = {}
    /\ batch \subseteq Waiting(k)
    /\ batch # {}
    /\ \/ batch = Waiting(k) /\ Cardinality(batch) <= ConcurrencyLimit
       \/ Cardinality(batch) = ConcurrencyLimit
    /\ job' = [job EXCEPT ![k] = [s \in Schedule |->
            IF s \in batch THEN [job[k][s] EXCEPT !.stage = "publishing"] ELSE job[k][s]]]
    /\ UNCHANGED <<store, tick, edit, edits, faults, history>>

\* executeSchedule: every call draws a new correlationId.
Publish(k, s) ==
    /\ job[k][s].stage = "publishing"
    /\ job[k][s].row.event = "authored"
    /\ CountEvent(s, job[k][s].row.nextRun)
    /\ ToStage(k, s, "calculating")
    /\ UNCHANGED <<store, tick, edit, edits, faults, outdated, raced, failed>>

\* authored.type of a row without event throws.
ExecuteThrows(k, s) ==
    /\ job[k][s].stage = "publishing"
    /\ job[k][s].row.event = "missing"
    /\ EndJob(k, s)
    /\ UNCHANGED <<store, tick, edit, edits, faults, history>>

\* publishJson rejects; the broker may have stored the event.
PublishFails(k, s) ==
    /\ job[k][s].stage = "publishing"
    /\ job[k][s].row.event = "authored"
    /\ Fault
    /\ CountEvent(s, job[k][s].row.nextRun) \/ UNCHANGED published
    /\ failed' = failed \union {s}
    /\ EndJob(k, s)
    /\ UNCHANGED <<store, tick, edit, edits, outdated, raced>>

\* calculateNextRun, and the get of the document store's update, which throws
\* when the row is gone.
Calculate(k, s) ==
    LET old == job[k][s] IN
    /\ old.stage = "calculating"
    /\ IF backend = "document" /\ ~ Live(s)
       THEN EndJob(k, s)
       ELSE job' = [job EXCEPT ![k][s] =
                [stage |-> "writing", row |-> old.row,
                 base |-> IF backend = "document" THEN row[s] ELSE old.base,
                 next |-> NextRun(old.row.rule, clock)]]
    /\ UNCHANGED <<store, tick, edit, edits, faults, history>>

Settled(base, j) ==
    [state |-> base.state, rule |-> base.rule, event |-> base.event,
     enabled |-> IF j.row.rule.type = "once" THEN FALSE ELSE j.row.enabled,
     nextRun |-> j.next]

\* Mutant of Settle: nextRun is computed and not stored.
SettleKeepsRun(k, s) ==
    /\ job[k][s].stage = "writing"
    /\ row' = [row EXCEPT ![s] = [Settled(row[s], job[k][s]) EXCEPT !.nextRun = row[s].nextRun]]
    /\ Wrote(k, s)
    /\ EndJob(k, s)
    /\ UNCHANGED <<clock, backend, tick, edit, edits, faults, published, failed>>

\* Mutant of Settle: an upsert (set with merge) for the update.
SettleUpserts(k, s) ==
    /\ job[k][s].stage = "writing"
    /\ row' = [row EXCEPT ![s] = [Settled(row[s], job[k][s]) EXCEPT !.state = "live"]]
    /\ Wrote(k, s)
    /\ EndJob(k, s)
    /\ UNCHANGED <<clock, backend, tick, edit, edits, faults, published, failed>>

\* The write of update: of the named fields in Firestore, which throws when the
\* row is gone; of the whole merged row on a document store.
Settle(k, s) ==
    LET base == IF backend = "document" THEN job[k][s].base ELSE row[s] IN
    /\ job[k][s].stage = "writing"
    /\ IF base.state = "live"
       THEN row' = [row EXCEPT ![s] = Settled(base, job[k][s])] /\ Wrote(k, s)
       ELSE UNCHANGED <<row, outdated, raced>>
    /\ EndJob(k, s)
    /\ UNCHANGED <<clock, backend, tick, edit, edits, faults, published, failed>>

\* update throws without an effect.
SettleFails(k, s) ==
    /\ job[k][s].stage \in Published
    /\ Fault
    /\ failed' = failed \union {s}
    /\ EndJob(k, s)
    /\ UNCHANGED <<store, tick, edit, edits, published, outdated, raced>>

EndTick(k) ==
    /\ tick[k].pc = "running"
    /\ Busy(k) = {}
    /\ Waiting(k) = {}
    /\ tick' = [tick EXCEPT ![k] = NoTick]
    /\ UNCHANGED <<store, job, edit, edits, faults, history>>

\* The instance dies in the middle of a tick and is started again.
Die(k) ==
    /\ tick[k].pc # "idle"
    /\ Fault
    /\ tick' = [tick EXCEPT ![k] = NoTick]
    /\ failed' = failed \union {s \in Schedule : job[k][s].stage \in Published}
    /\ job' = [job EXCEPT ![k] = [s \in Schedule |-> NoJob]]
    /\ UNCHANGED <<store, edit, edits, published, outdated, raced>>

-----------------------------------------------------------------------------
(* The tools.                                                               *)

Create(s, rule, on) ==
    /\ row[s].state = "unborn"
    /\ row' = [row EXCEPT ![s] =
            [state |-> "live", rule |-> rule, event |-> "authored",
             enabled |-> on, nextRun |-> NextRun(rule, clock)]]
    /\ UNCHANGED <<clock, backend, tick, job, edit, edits, faults, history>>

Delete(s) ==
    /\ Live(s)
    /\ row' = [row EXCEPT ![s] = NoRow("deleted")]
    /\ outdated' = [outdated EXCEPT ![s] = Tick \union Editor]
    /\ UNCHANGED <<clock, backend, tick, job, edit, edits, faults,
                   published, raced, failed>>

\* update_schedule up to its call of update: the row is read, and nextRun is
\* computed for a new rule, or for a row enabled again that has none.
BeginEdit(e, s, u) ==
    LET newRule == u.rule.type # "keep"
        revive == u.enabled = "on" /\ row[s].nextRun = NoRun
    IN  /\ edit[e].stage = "idle"
        /\ edits < MaxEdits
        /\ Live(s)
        /\ edits' = edits + 1
        /\ edit' = [edit EXCEPT ![e] =
                [stage |-> "updating", id |-> s, update |-> u,
                 sets |-> newRule \/ revive,
                 next |-> IF newRule THEN NextRun(u.rule, clock)
                          ELSE IF revive THEN NextRun(row[s].rule, clock) ELSE NoRun,
                 base |-> row[s]]]
        /\ outdated' = [outdated EXCEPT ![s] = @ \ {e}]
        /\ UNCHANGED <<store, tick, job, faults, published, raced, failed>>

EndEdit(e) == edit' = [edit EXCEPT ![e] = NoEdit]

\* The get of the document store's update.
MergeEdit(e) ==
    /\ edit[e].stage = "updating"
    /\ backend = "document"
    /\ IF Live(edit[e].id)
       THEN edit' = [edit EXCEPT ![e] =
                [stage |-> "writing", id |-> edit[e].id, update |-> edit[e].update,
                 sets |-> edit[e].sets, next |-> edit[e].next,
                 base |-> row[edit[e].id]]]
       ELSE EndEdit(e)
    /\ UNCHANGED <<store, tick, job, edits, faults, history>>

\* The row with newUpdates laid over it; keys with the value undefined erase
\* the field on a document store: event when it was not given, nextRun when
\* the new rule has none.
Edited(base, d) ==
    LET erases == backend = "document" IN
    [state |-> base.state,
     rule |-> IF d.update.rule.type = "keep" THEN base.rule ELSE d.update.rule,
     event |-> IF d.update.event THEN "authored"
               ELSE IF erases THEN "missing" ELSE base.event,
     enabled |-> IF d.update.enabled = "keep" THEN base.enabled
                 ELSE d.update.enabled = "on",
     nextRun |-> IF d.sets /\ (d.next # NoRun \/ erases) THEN d.next
                 ELSE base.nextRun]

WriteEdit(e) ==
    LET s == edit[e].id
        base == IF backend = "document" THEN edit[e].base ELSE row[s]
    IN  /\ edit[e].stage = IF backend = "document" THEN "writing" ELSE "updating"
        /\ IF base.state = "live"
           THEN row' = [row EXCEPT ![s] = Edited(base, edit[e])] /\ Wrote(e, s)
           ELSE UNCHANGED <<row, outdated, raced>>
        /\ EndEdit(e)
        /\ UNCHANGED <<clock, backend, tick, job, edits, faults, published, failed>>

\* A call of the tool throws or its instance dies.
EditFails(e) ==
    /\ edit[e].stage # "idle"
    /\ Fault
    /\ EndEdit(e)
    /\ UNCHANGED <<store, tick, job, edits, history>>

-----------------------------------------------------------------------------
Pass ==
    /\ clock < MaxTime
    /\ clock' = clock + 1
    /\ UNCHANGED <<backend, row, tick, job, edit, edits, faults, history>>

JobStep(k, s) ==
    \/ Publish(k, s)
    \/ ExecuteThrows(k, s)
    \/ Calculate(k, s)
    \/ Settle(k, s)

TickStep(k) ==
    \/ StartTick(k)
    \/ ReadDue(k)
    \/ \E batch \in SUBSET Schedule : StartBatch(k, batch)
    \/ EndTick(k)

EditStep(e) == MergeEdit(e) \/ WriteEdit(e)

ToolCall ==
    \/ \E s \in Schedule, rule \in Rules, on \in BOOLEAN : Create(s, rule, on)
    \/ \E s \in Schedule : Delete(s)
    \/ \E e \in Editor, s \in Schedule, u \in Updates : BeginEdit(e, s, u)

FaultStep ==
    \/ \E k \in Tick : ReadFails(k) \/ Die(k)
    \/ \E k \in Tick, s \in Schedule : PublishFails(k, s) \/ SettleFails(k, s)
    \/ \E e \in Editor : EditFails(e)

Next ==
    \/ Pass
    \/ \E k \in Tick : TickStep(k) \/ \E s \in Schedule : JobStep(k, s)
    \/ \E e \in Editor : EditStep(e)
    \/ ToolCall
    \/ FaultStep

Spec == Init /\ [][Next]_vars

\* The interval keeps firing and every call is answered.  No tool is forced to
\* be called, no fault to happen, and time need not pass.
Fairness ==
    /\ \A k \in Tick : WF_vars(TickStep(k))
    /\ \A k \in Tick, s \in Schedule : WF_vars(JobStep(k, s))
    /\ \A e \in Editor : WF_vars(EditStep(e))

FairSpec == Spec /\ Fairness

-----------------------------------------------------------------------------
(* Properties.                                                              *)

\* One value of nextRun is published once (executeSchedule, then update with
\* the slot after the present time), by whatever sequence of ticks, edits and
\* deletions, unless two ticks held the row together, a write landed on a row
\* that had changed since it was read, or a fault fell between the publication
\* and the update.
RepeatNeedsRaceOrFault ==
    \A s \in Schedule \ (raced \union failed), o \in Occurrence : published[s][o] <= 1

\* A cron schedule never sleeps past a slot: its stored nextRun exists and is
\* no later than the first slot after the present time, whatever is edited,
\* disabled, fails or dies, unless its row was raced for (a tick then stores
\* the slot of a rule that an edit has replaced).
NeverOversleeps ==
    \A s \in Schedule \ raced :
        Live(s) /\ row[s].rule.type = "cron" =>
            row[s].nextRun # NoRun /\ row[s].nextRun <= NextSlot[row[s].rule.cron][clock]

\* delete_schedule is final in Firestore; on a document store only a write
\* from a read before the deletion brings a row back.
DeletedStaysDeleted ==
    [][\A s \in Schedule :
          row[s].state = "deleted" /\ row'[s].state # "deleted"
            => backend = "document" /\ s \in raced']_vars

\* Every schedule that is due and has an event stops being due: it is
\* published and moved on, or somebody changes it.  A failing publication or
\* update is retried by the next tick.
DueIsServed ==
    \A s \in Schedule :
        DueAt(s, clock) /\ row[s].event = "authored"
            ~> ~ (DueAt(s, clock) /\ row[s].event = "authored")

\* documentation/guides/scheduler.md:307 "Partial Updates Supported": an update
\* that does not name the event leaves the schedule its event.
UpdateKeepsEvent ==
    \A s \in Schedule : Live(s) => row[s].event = "authored"

=============================================================================
