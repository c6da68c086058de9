---------------------------- MODULE BusDelivery ----------------------------
(***************************************************************************)
(* The delivery path of one message from the broker to a handler and back: *)
(*                                                                         *)
(*   broker  -->  driver (NatsSubscriber.subscribe, PubSubSubscriber)      *)
(*           -->  per-process dedupe (dedupe.ts)                           *)
(*           -->  Bit.onMessage wrapper: JSON.parse, Redis idempotency     *)
(*           -->  handler, raced against qos.maxResponseMs                 *)
(*           -->  ctx.ack / ctx.nack  -->  broker                          *)
(*                                                                         *)
(* A service is a queue group (a JetStream durable, a Pub/Sub              *)
(* subscription); it is run by one or more processes.  The broker redelivers*)
(* a message that was nacked or whose ack wait ended, to any process of    *)
(* the service.  A delivered copy of a message occupies a member of Copy   *)
(* from the moment the client library buffers it until the driver (and the *)
(* handler, if it outlives its answer) is done with it.                    *)
(***************************************************************************)
EXTENDS Naturals

CONSTANTS
    Msg,            \* messages of the stream: one transport id each
    LogicalId,      \* [Msg -> ids]: the correlationId the publisher gave it
    HasCorrelation, \* messages whose payload carries a correlationId
    Malformed,      \* messages whose payload JSON.parse rejects
    Timed,          \* messages with qos.maxResponseMs > 0
    Service,        \* queue groups, all subscribed to the one topic modelled
    Idempotent,     \* services whose subscription enables Redis idempotency
    Proc,           \* processes (replicas)
    ServiceOf,      \* [Proc -> Service]
    Copy,           \* bound: copies the client libraries hold at one time
    Sequential,     \* TRUE: NATS iterator; FALSE: Pub/Sub callbacks
    MaxFaults       \* bound: crashes, expiries, lease lapses, Redis failures

ASSUME DeliveryAssumption ==
    /\ LogicalId \in [Msg -> {LogicalId[m] : m \in Msg}]
    /\ HasCorrelation \subseteq Msg
    /\ Malformed \subseteq Msg
    /\ Timed \subseteq Msg
    /\ Idempotent \subseteq Service
    /\ ServiceOf \in [Proc -> Service]
    /\ Sequential \in BOOLEAN
    /\ MaxFaults \in Nat

-----------------------------------------------------------------------------
(* Keys.                                                                    *)

\* What normalizeAttributes leaves of the names a publisher attaches: a name
\* without separators is one "part", and a part is lower-cased as a whole.
WireName(name) ==
    CASE name = "correlationId"  -> "correlationid"
      [] name = "idempotencyKey" -> "idempotencykey"
      [] name = "type"           -> "type"
      [] name = "source"         -> "source"
      [] OTHER                   -> name

\* The attributes of busAttrsFromEvent and Bit.buildRoutingAttributes.
PublishedNames == {"correlationId", "idempotencyKey", "type", "source"}

WireNames == {WireName(n) : n \in PublishedNames}

\* The spellings buildDedupeKey looks up, in this order of precedence.
IdempotencySpellings == {"idempotencyKey", "IdempotencyKey",
                         "idempotency-key", "Idempotency-Key"}
CorrelationSpellings == {"correlationId", "CorrelationId",
                         "correlation-id", "Correlation-Id"}

\* Neither publisher attaches a step or an attempt, so that part of the
\* composite key is always "::".
DedupeKey(m) ==
    IF IdempotencySpellings \intersect WireNames # {}
    THEN <<"idem", LogicalId[m]>>
    ELSE IF CorrelationSpellings \intersect WireNames # {}
         THEN <<"corr", LogicalId[m]>>
         ELSE <<"id", m>>

Keys == {DedupeKey(m) : m \in Msg}

\* generateIdempotencyKey of the configuration onMessage builds: the spread of
\* mergedConfig, whose source is the hint of the message (none here), replaces
\* source: this.serviceName, so the key names the topic and the correlation
\* only, whichever service s asks.
RedisKey(s, m) == LogicalId[m]

RedisKeys == {RedisKey(s, m) : s \in Service, m \in Msg}

-----------------------------------------------------------------------------
VARIABLES
    broker,     \* [Service -> [Msg -> state of the message in the consumer]]
    copy,       \* [Copy -> a delivered copy, or Free]
    seen,       \* [Proc -> SUBSET Keys]: store.map of dedupe.ts, unexpired
    redis,      \* SUBSET RedisKeys: the keys set and not expired
    faults,     \* number of faults so far (at most MaxFaults)
    (* history variables, read by the properties only *)
    dispatched, \* [Proc -> [Keys -> Nat]]: copies the dedupe let through
    forgotten,  \* [Proc -> [Keys -> Nat]]: times the store lost the key
    guarded,    \* [RedisKeys -> Nat]: handler starts behind the Redis check
    lapses,     \* [RedisKeys -> Nat]: expiries and failed-open checks
    outcome     \* [Service -> [Msg -> SUBSET Outcome]]: how runs ended

mechanism == <<broker, copy, seen, redis, faults>>
vars == <<broker, copy, seen, redis, faults,
          dispatched, forgotten, guarded, lapses, outcome>>

Free == [pc |-> "free"]

\* buffered: held by the client library; checking: past the dedupe, in the
\* onMessage wrapper; running: the handler works; acted: its effect is done
\* and it has not answered; late: answered by the QoS timeout, still working.
Stage == {"buffered", "checking", "running", "acted", "late"}
CopyState == [pc : Stage, proc : Proc, msg : Msg] \union {Free}

BrokerState == {"ready", "pending", "acked"}
Outcome == {"done", "gaveUp", "nacked", "crashed"}

TypeOK ==
    /\ broker \in [Service -> [Msg -> BrokerState]]
    /\ copy \in [Copy -> CopyState]
    /\ seen \in [Proc -> SUBSET Keys]
    /\ redis \in SUBSET RedisKeys
    /\ faults \in 0..MaxFaults
    /\ dispatched \in [Proc -> [Keys -> Nat]]
    /\ forgotten \in [Proc -> [Keys -> Nat]]
    /\ guarded \in [RedisKeys -> Nat]
    /\ lapses \in [RedisKeys -> Nat]
    /\ outcome \in [Service -> [Msg -> SUBSET Outcome]]

Init ==
    /\ broker = [s \in Service |-> [m \in Msg |-> "ready"]]
    /\ copy = [c \in Copy |-> Free]
    /\ seen = [p \in Proc |-> {}]
    /\ redis = {}
    /\ faults = 0
    /\ dispatched = [p \in Proc |-> [k \in Keys |-> 0]]
    /\ forgotten = [p \in Proc |-> [k \in Keys |-> 0]]
    /\ guarded = [r \in RedisKeys |-> 0]
    /\ lapses = [r \in RedisKeys |-> 0]
    /\ outcome = [s \in Service |-> [m \in Msg |-> {}]]

-----------------------------------------------------------------------------
(* Helpers.                                                                 *)

Serving(c) == ServiceOf[copy[c].proc]

\* The stages in which the driver still awaits the onMessage wrapper; the
\* driver extends the lease of these copies (working(), modAck).
Attended == {"checking", "running", "acted"}
Working == Attended \union {"late"}
\* The stages past the checks: the handler is being called or works.
Handling == {"running", "acted", "late"}

InStage(c, stages) == copy[c].pc \in stages

Leased(s, m) ==
    \E c \in Copy : InStage(c, Attended) /\ copy[c].msg = m /\ Serving(c) = s

\* A handler (or the wrapper around it) of service s works on m.
InFlight(s, m) ==
    \E c \in Copy : InStage(c, Working) /\ copy[c].msg = m /\ Serving(c) = s

Fault == faults < MaxFaults /\ faults' = faults + 1

Advance(c, stage) == copy' = [copy EXCEPT ![c].pc = stage]
\* Mutant of Release: the copy is marked free, its other fields stay.
ReleaseStageOnly(c) == copy' = [copy EXCEPT ![c].pc = "free"]

Release(c) == copy' = [copy EXCEPT ![c] = Free]

\* ctx.ack(): the client sends an ack and waits for nothing.  The broker marks
\* the message, whichever of its copies is acked, or the ack is lost.
Ack(c) ==
    \/ /\ broker' = [broker EXCEPT ![Serving(c)][copy[c].msg] = "acked"]
       /\ UNCHANGED faults
    \/ /\ broker[Serving(c)][copy[c].msg] # "acked"
       /\ Fault
       /\ UNCHANGED broker

\* ctx.nack(): an outstanding message becomes deliverable again at once.
Nack(c) ==
    broker' = [broker EXCEPT ![Serving(c)][copy[c].msg] =
                  IF @ = "pending" THEN "ready" ELSE @]

\* The run of copy c ended in the given way.
Record(c, end) ==
    outcome' = [outcome EXCEPT ![Serving(c)][copy[c].msg] = @ \union {end}]

UsesRedis(c) ==
    Serving(c) \in Idempotent /\ copy[c].msg \in HasCorrelation

KeyOfCopy(c) == DedupeKey(copy[c].msg)
RedisKeyOfCopy(c) == RedisKey(Serving(c), copy[c].msg)

-----------------------------------------------------------------------------
(* The broker.                                                              *)

\* A ready message goes to any process of the service with room for a copy.
Deliver(c, p, m) ==
    /\ copy[c] = Free
    /\ broker[ServiceOf[p]][m] = "ready"
    /\ broker' = [broker EXCEPT ![ServiceOf[p]][m] = "pending"]
    /\ copy' = [copy EXCEPT ![c] = [pc |-> "buffered", proc |-> p, msg |-> m]]
    /\ UNCHANGED <<seen, redis, faults,
                   dispatched, forgotten, guarded, lapses, outcome>>

\* The ack wait ends for a message nobody extends the lease of: its copy still
\* waits in a client buffer, its process died, or its answer was lost.
AckWaitEnds(s, m) ==
    /\ broker[s][m] = "pending"
    /\ ~ Leased(s, m)
    /\ broker' = [broker EXCEPT ![s][m] = "ready"]
    /\ UNCHANGED <<copy, seen, redis, faults,
                   dispatched, forgotten, guarded, lapses, outcome>>

\* The lease lapses under a live handler: a blocked event loop sends no
\* working(), Pub/Sub stops extending after maxExtensionTime.
LeaseLapses(s, m) ==
    /\ broker[s][m] = "pending"
    /\ Leased(s, m)
    /\ Fault
    /\ broker' = [broker EXCEPT ![s][m] = "ready"]
    /\ UNCHANGED <<copy, seen, redis,
                   dispatched, forgotten, guarded, lapses, outcome>>

-----------------------------------------------------------------------------
(* The driver: the per-process dedupe runs before the handler is called.    *)

\* The NATS iterator takes the next message when the previous call of the
\* handler has returned; Pub/Sub calls back for every message at once.
LoopIdle(c) ==
    \/ ~ Sequential
    \/ \A d \in Copy : InStage(d, Attended) => copy[d].proc # copy[c].proc

\* Mutants of DropDuplicate: it drops a message this process has not seen, or
\* returns without the ack.
DropUnseen(c) ==
    /\ InStage(c, {"buffered"})
    /\ LoopIdle(c)
    /\ Ack(c)
    /\ Release(c)
    /\ UNCHANGED <<seen, redis, dispatched, forgotten, guarded, lapses, outcome>>

DropUnacked(c) ==
    /\ InStage(c, {"buffered"})
    /\ LoopIdle(c)
    /\ KeyOfCopy(c) \in seen[copy[c].proc]
    /\ Release(c)
    /\ UNCHANGED <<broker, seen, redis, faults,
                   dispatched, forgotten, guarded, lapses, outcome>>

DropDuplicate(c) ==
    /\ InStage(c, {"buffered"})
    /\ LoopIdle(c)
    /\ KeyOfCopy(c) \in seen[copy[c].proc]
    /\ Ack(c)
    /\ Release(c)
    /\ UNCHANGED <<seen, redis, dispatched, forgotten, guarded, lapses, outcome>>

\* Mutant of Admit: the key is not recorded.
AdmitUnrecorded(c) ==
    LET p == copy[c].proc
        k == KeyOfCopy(c)
    IN  /\ InStage(c, {"buffered"})
        /\ LoopIdle(c)
        /\ k \notin seen[p]
        /\ dispatched' = [dispatched EXCEPT ![p][k] = @ + 1]
        /\ Advance(c, "checking")
        /\ UNCHANGED <<broker, seen, redis, faults, forgotten, guarded, lapses, outcome>>

\* The key is recorded now, before the handler has done anything.
Admit(c) ==
    LET p == copy[c].proc
        k == KeyOfCopy(c)
    IN  /\ InStage(c, {"buffered"})
        /\ LoopIdle(c)
        /\ k \notin seen[p]
        /\ seen' = [seen EXCEPT ![p] = @ \union {k}]
        /\ dispatched' = [dispatched EXCEPT ![p][k] = @ + 1]
        /\ Advance(c, "checking")
        /\ UNCHANGED <<broker, redis, faults, forgotten, guarded, lapses, outcome>>

-----------------------------------------------------------------------------
(* The onMessage wrapper, up to the call of the handler.                    *)

\* JSON.parse throws; the outer catch acks.
RejectMalformed(c) ==
    /\ InStage(c, {"checking"})
    /\ copy[c].msg \in Malformed
    /\ Ack(c)
    /\ Record(c, "gaveUp")
    /\ Release(c)
    /\ UNCHANGED <<seen, redis, dispatched, forgotten, guarded, lapses>>

StartUnguarded(c) ==
    /\ InStage(c, {"checking"})
    /\ copy[c].msg \notin Malformed
    /\ ~ UsesRedis(c)
    /\ Advance(c, "running")
    /\ UNCHANGED <<broker, seen, redis, faults,
                   dispatched, forgotten, guarded, lapses, outcome>>

\* Mutant of StartFresh: the key is looked up and not set (a GET for the SET NX).
StartUnset(c) ==
    LET r == RedisKeyOfCopy(c)
    IN  /\ InStage(c, {"checking"})
        /\ copy[c].msg \notin Malformed
        /\ UsesRedis(c)
        /\ r \notin redis
        /\ guarded' = [guarded EXCEPT ![r] = @ + 1]
        /\ Advance(c, "running")
        /\ UNCHANGED <<broker, seen, redis, faults, dispatched, forgotten, lapses, outcome>>

\* SET NX EX answers OK.
StartFresh(c) ==
    LET r == RedisKeyOfCopy(c)
    IN  /\ InStage(c, {"checking"})
        /\ copy[c].msg \notin Malformed
        /\ UsesRedis(c)
        /\ r \notin redis
        /\ redis' = redis \union {r}
        /\ guarded' = [guarded EXCEPT ![r] = @ + 1]
        /\ Advance(c, "running")
        /\ UNCHANGED <<broker, seen, faults, dispatched, forgotten, lapses, outcome>>

\* SET NX EX answers null: ack and return without calling the handler.
SkipDuplicate(c) ==
    /\ InStage(c, {"checking"})
    /\ copy[c].msg \notin Malformed
    /\ UsesRedis(c)
    /\ RedisKeyOfCopy(c) \in redis
    /\ Ack(c)
    /\ Release(c)
    /\ UNCHANGED <<seen, redis, dispatched, forgotten, guarded, lapses, outcome>>

\* The client is not ready, or SET throws: the message is processed without
\* the check.  A SET that throws may still have set the key.
StartFailOpen(c) ==
    LET r == RedisKeyOfCopy(c)
    IN  /\ InStage(c, {"checking"})
        /\ copy[c].msg \notin Malformed
        /\ UsesRedis(c)
        /\ Fault
        /\ redis' \in {redis, redis \union {r}}
        /\ guarded' = [guarded EXCEPT ![r] = @ + 1]
        /\ lapses' = [lapses EXCEPT ![r] = @ + 1]
        /\ Advance(c, "running")
        /\ UNCHANGED <<broker, seen, dispatched, forgotten, outcome>>

-----------------------------------------------------------------------------
(* The handler.                                                             *)

\* The handler completes the effect it exists for (a publish, a write).
Act(c) ==
    /\ InStage(c, {"running"})
    /\ Record(c, "done")
    /\ Advance(c, "acted")
    /\ UNCHANGED <<broker, seen, redis, faults,
                   dispatched, forgotten, guarded, lapses>>

\* It acknowledges after its effect.
AnswerAck(c) ==
    /\ InStage(c, {"acted"})
    /\ Ack(c)
    /\ Release(c)
    /\ UNCHANGED <<seen, redis, dispatched, forgotten, guarded, lapses, outcome>>

\* It meets an error and asks for a retry: ctx.nack(true) in event-router and
\* auth.  The error may come before or after its effect.
AnswerNack(c) ==
    /\ InStage(c, {"running", "acted"})
    /\ Nack(c)
    /\ Record(c, "nacked")
    /\ Release(c)
    /\ UNCHANGED <<seen, redis, faults, dispatched, forgotten, guarded, lapses>>

\* It acks an error itself (publish timeouts) or throws and the outer catch of
\* onMessage acks.
GiveUp(c) ==
    /\ InStage(c, {"running", "acted"})
    /\ Ack(c)
    /\ Record(c, "gaveUp")
    /\ Release(c)
    /\ UNCHANGED <<seen, redis, dispatched, forgotten, guarded, lapses>>

\* qos.maxResponseMs passes: the race rejects, the outer catch acks, the driver
\* moves on, and nothing stops the handler.
QosTimeout(c) ==
    /\ InStage(c, {"running", "acted"})
    /\ copy[c].msg \in Timed
    /\ Ack(c)
    /\ Record(c, "gaveUp")
    /\ Advance(c, "late")
    /\ UNCHANGED <<seen, redis, dispatched, forgotten, guarded, lapses>>

\* The handler ends after its timeout, with or without its effect.  The client
\* library ignores a second answer for a copy.
EndLate(c) ==
    /\ InStage(c, {"late"})
    /\ Record(c, "done") \/ UNCHANGED outcome
    /\ Release(c)
    /\ UNCHANGED <<broker, seen, redis, faults,
                   dispatched, forgotten, guarded, lapses>>

-----------------------------------------------------------------------------
(* Faults.                                                                  *)

\* A process dies with its buffers, its handlers and its dedupe store, and is
\* started again.
Crash(p) ==
    LET lost == {c \in Copy : copy[c] # Free /\ copy[c].proc = p}
        cut(s) == {copy[c].msg : c \in {d \in lost : InStage(d, Working) /\ Serving(d) = s}}
    IN  /\ Fault
        /\ copy' = [c \in Copy |-> IF c \in lost THEN Free ELSE copy[c]]
        /\ seen' = [seen EXCEPT ![p] = {}]
        /\ forgotten' = [forgotten EXCEPT ![p] =
                [k \in Keys |-> @[k] + IF k \in seen[p] THEN 1 ELSE 0]]
        /\ outcome' = [s \in Service |-> [m \in Msg |->
                outcome[s][m] \union IF m \in cut(s) THEN {"crashed"} ELSE {}]]
        /\ UNCHANGED <<broker, redis, dispatched, guarded, lapses>>

\* A dedupe entry passes its TTL or is evicted by the size bound.
ForgetKey(p, k) ==
    /\ k \in seen[p]
    /\ Fault
    /\ seen' = [seen EXCEPT ![p] = @ \ {k}]
    /\ forgotten' = [forgotten EXCEPT ![p][k] = @ + 1]
    /\ UNCHANGED <<broker, copy, redis, dispatched, guarded, lapses, outcome>>

\* The EX of an idempotency key passes.
RedisExpires(r) ==
    /\ r \in redis
    /\ Fault
    /\ redis' = redis \ {r}
    /\ lapses' = [lapses EXCEPT ![r] = @ + 1]
    /\ UNCHANGED <<broker, copy, seen, dispatched, forgotten, guarded, outcome>>

-----------------------------------------------------------------------------
\* Nothing is left to do: every message is acked everywhere, no copy is held.
Drained ==
    /\ \A s \in Service, m \in Msg : broker[s][m] = "acked"
    /\ \A c \in Copy : copy[c] = Free
    /\ UNCHANGED vars

BrokerStep ==
    \/ \E c \in Copy, p \in Proc, m \in Msg : Deliver(c, p, m)
    \/ \E s \in Service, m \in Msg : AckWaitEnds(s, m) \/ LeaseLapses(s, m)

DriverStep(c) == DropDuplicate(c) \/ Admit(c)

WrapperStep(c) ==
    \/ RejectMalformed(c)
    \/ StartUnguarded(c)
    \/ StartFresh(c)
    \/ SkipDuplicate(c)
    \/ StartFailOpen(c)

HandlerStep(c) ==
    \/ Act(c)
    \/ AnswerAck(c)
    \/ AnswerNack(c)
    \/ GiveUp(c)
    \/ QosTimeout(c)
    \/ EndLate(c)

FaultStep ==
    \/ \E p \in Proc : Crash(p)
    \/ \E p \in Proc, k \in Keys : ForgetKey(p, k)
    \/ \E r \in RedisKeys : RedisExpires(r)

Next ==
    \/ BrokerStep
    \/ \E c \in Copy : DriverStep(c) \/ WrapperStep(c) \/ HandlerStep(c)
    \/ FaultStep
    \/ Drained

Spec == Init /\ [][Next]_vars

\* The broker delivers and times out, an event loop runs its callbacks, and a
\* handler ends.  No fault is forced to happen, and a timeout need not.
Fairness ==
    /\ WF_vars(\E c \in Copy, p \in Proc, m \in Msg : Deliver(c, p, m))
    /\ \A s \in Service, m \in Msg : WF_vars(AckWaitEnds(s, m))
    /\ \A c \in Copy : WF_vars(DriverStep(c) \/ WrapperStep(c) \/ HandlerStep(c))

FairSpec == Spec /\ Fairness

-----------------------------------------------------------------------------
(* Safety.                                                                  *)

\* The per-process guard of dedupe.ts: a process lets copies with one key past
\* the dedupe once, plus once for every time its store lost that key (TTL,
\* eviction, restart).  Nothing else (a redelivery into a client buffer, a
\* lapse of the lease under a running handler, a nack) buys a second run.
DispatchedOncePerMemory ==
    \A p \in Proc, k \in Keys : dispatched[p][k] <= 1 + forgotten[p][k]

\* The cross-process guard of checkIdempotency: all replicas together start a
\* handler for one Redis key once, plus once for every expiry of the key and
\* every check that failed open.
GuardedOncePerKey ==
    \A r \in RedisKeys : guarded[r] <= 1 + lapses[r]

\* A run of service t went past the checks for m, or one ended.
Started(t, m) ==
    \/ outcome[t][m] # {}
    \/ \E c \in Copy : InStage(c, Handling) /\ copy[c].msg = m /\ Serving(c) = t

\* A run behind the check was started under the Redis key of m in service s:
\* for m, or for a message with its correlation id, in s or in another service.
KeyWasUsed(s, m) ==
    /\ s \in Idempotent /\ m \in HasCorrelation
    /\ \E t \in Idempotent, n \in HasCorrelation :
          RedisKey(t, n) = RedisKey(s, m) /\ Started(t, n)

\* No message is taken off the broker of a service unless a handler run of that
\* service ended for it (completed, gave up, asked for a retry, or died) or is
\* still going on, or, behind the Redis check, such a run was started under its
\* key: what the driver drops as a duplicate was really tried in this process,
\* and a key in Redis always stands for a run that went past the checks.
AckedWasTried ==
    \A s \in Service, m \in Msg :
        broker[s][m] = "acked" =>
            outcome[s][m] # {} \/ InFlight(s, m) \/ KeyWasUsed(s, m)

-----------------------------------------------------------------------------
(* What the documentation says of losses and duplicates.                    *)

SettledBy(s, m) == outcome[s][m] \intersect {"done", "gaveUp"} # {} \/ InFlight(s, m)

\* event-router-service.ts:175 "Otherwise, nack to retry": a message whose
\* handler only ever asked for a retry is not taken off the broker.
NackedIsRetried ==
    \A s \in Service, m \in Msg :
        broker[s][m] = "acked" /\ outcome[s][m] = {"nacked"} => InFlight(s, m)

\* idempotency-middleware.ts:73 (the key ends with the consuming service): a
\* service that never ran its handler for a message does not ack it because
\* another service handled the same correlation id.
EveryServiceHandles ==
    \A s \in Service, m \in Msg :
        broker[s][m] = "acked" => outcome[s][m] # {} \/ InFlight(s, m)

-----------------------------------------------------------------------------
(* Liveness.                                                                *)

\* Every message is taken off the broker for good in every service, whatever
\* is nacked, crashes or is redelivered: no redelivery storm.
EveryMessageSettles ==
    \A s \in Service, m \in Msg : <>[](broker[s][m] = "acked")

=============================================================================
