---------------------------- MODULE RoutingSlip ----------------------------
(***************************************************************************)
(* The journey of one event along its routing slip.                        *)
(*                                                                         *)
(* The event-router has planned N steps, one service each, and dispatched  *)
(* the event to the first.  A service that receives the event marks the    *)
(* current step with its verdict (Bit.updateCurrentStep) and publishes the *)
(* event, slip included, to the topic of the first pending step, or to the *)
(* egress topic when none is left (Bit.next); or it ends the journey and   *)
(* publishes to the egress topic at once (Bit.complete).  The slip travels *)
(* in the message, so every copy of the event carries a slip of its own.   *)
(*                                                                         *)
(* A handler holds its message while the publication is awaited, and the   *)
(* publication may fail, be stored without an answer, or be cut off by the *)
(* death of the process; the broker may deliver a message twice.  Before a *)
(* handler starts, the dedupe of its process drops a message it has seen,  *)
(* and the Redis check of some services one whose topic and correlation    *)
(* have a key; both ack, so what they take for a duplicate is gone.  The   *)
(* delivery path itself is the subject of BusDelivery.                     *)
(*                                                                         *)
(* The rule loader keeps only steps with a topic, so a dispatch always has *)
(* a subject.                                                              *)
(***************************************************************************)
EXTENDS Integers, FiniteSets

CONSTANTS
    N,          \* steps of the slip
    Style,      \* [Step -> styles]: what the step's service does
    Guarded,    \* steps whose subscription enables Redis idempotency
    Copy,       \* bound: copies of the event alive at one time
    MaxErrors,  \* bound: verdicts ERROR
    MaxFaults   \* bound: failures, crashes, redeliveries, lost Redis keys

\* What a service does with the event, and when its publication fails:
\*   forward   next(event, verdict); acks, whatever happened
\*   finish    the same, or complete(event, verdict)
\*   retry     next(event, verdict); nacks the message, or acks a timeout
\*   fallback  next(event, verdict); any error leads to one next(event, 'ERROR')
\*   silent    next(event); acks
Styles == {"forward", "finish", "retry", "fallback", "silent"}

Step == 1..N
Egress == N + 1
Place == 1..(N + 1)

ASSUME SlipAssumption ==
    /\ N \in Nat \ {0}
    /\ Style \in [Step -> Styles]
    /\ Guarded \subseteq Step
    /\ MaxErrors \in Nat
    /\ MaxFaults \in Nat

VARIABLES
    copy,   \* [Copy -> free, queued at a service, or held by its handler]
    taken,  \* the steps whose Redis key of the event is set
    ended,  \* the copies that reached the end: how, from which step, with what
    errors, \* verdicts ERROR so far
    harm,   \* what has happened so far that may cost the event
    faults  \* failures, crashes, redeliveries and lost keys so far

vars == <<copy, taken, ended, errors, harm, faults>>

Verdict == {"OK", "SKIP", "ERROR"}
Status == Verdict \union {"PENDING"}

\* slip, attempt: routing.slip[s].status and .attempt; dest: the event has an
\* egress.destination.  The others are history: what the service of a step
\* last said (PENDING: nothing yet), the handlers run, and the ERRORs said.
Event == [slip : [Step -> Status], attempt : [Step -> Nat], dest : BOOLEAN,
          said : [Step -> Status], runs : Nat, errs : Nat]

\* once: the broker delivers the message for the first time that a living
\* process could remember (queued), or it has no answer and no other delivery,
\* so that the broker is sure to deliver it again if the handler dies (held).
Queued == [pc : {"queued"}, at : Step, evt : Event, once : BOOLEAN]
Held == [pc : {"held"}, at : Step, got : Event, evt : Event,
         via : {"next", "complete"}, call : {1, 2}, once : BOOLEAN]
Free == [pc |-> "free"]

\* failed: a publication failed; threw: a handler threw before it published;
\* died: a process died while the Redis key of the event was set or its message
\* answered; repeat: the event came to a step with a Redis key a second time.
Harm == {"failed", "threw", "died", "repeat"}

TypeOK ==
    /\ copy \in [Copy -> Queued \union Held \union {Free}]
    /\ taken \subseteq Step
    /\ ended \subseteq [how : {"next", "complete", "untargeted"}, at : Step, evt : Event]
    /\ errors \in 0..MaxErrors
    /\ harm \subseteq Harm
    /\ faults \in 0..MaxFaults

Settled(slip) == {s \in Step : slip[s] \in {"OK", "SKIP"}}

-----------------------------------------------------------------------------
(* The helpers of Bit.                                                      *)

\* updateCurrentStep's findIndex: the first step neither OK nor SKIP.
IsCurrent(slip, s) == s \notin Settled(slip) /\ \A t \in 1..(s - 1) : t \in Settled(slip)

\* updateCurrentStep; next and complete call it only when they are given a status.
Marked(slip, v) ==
    [s \in Step |-> IF v # "none" /\ IsCurrent(slip, s) THEN v ELSE slip[s]]

\* Mutant of IsTarget: next dispatches as its JSDoc says, the first unsettled step.
IsTargetUnsettled(slip, to) ==
    /\ to \notin Settled(slip)
    /\ \A s \in 1..(to - 1) : s \in Settled(slip)

\* next's findIndex: the first PENDING step, or the egress.
IsTarget(slip, to) ==
    /\ to \in Step => slip[to] = "PENDING"
    /\ \A s \in 1..(to - 1) : slip[s] # "PENDING"

\* Mutant of Counted: the attempts left are counted.
CountedDown(evt) ==
    [evt EXCEPT !.attempt = [s \in Step |->
        IF IsTarget(evt.slip, s) THEN evt.attempt[s] - 1 ELSE evt.attempt[s]]]

\* next counts the attempt before it publishes.
Counted(evt) ==
    [evt EXCEPT !.attempt = [s \in Step |->
        IF IsTarget(evt.slip, s) THEN evt.attempt[s] + 1 ELSE evt.attempt[s]]]

Errors(evt, v) == IF v = "ERROR" THEN evt.errs + 1 ELSE evt.errs

\* The second updateCurrentStep of a handler that falls back.
FellBack(evt) ==
    [slip |-> Marked(evt.slip, "ERROR"), attempt |-> evt.attempt, dest |-> evt.dest,
     said |-> evt.said, runs |-> evt.runs, errs |-> Errors(evt, "ERROR")]

Said(evt, at, v) == IF v = "none" THEN evt.said ELSE [evt.said EXCEPT ![at] = v]

\* Mutant of Answered: the verdict is set on a copy of the slip.
AnsweredUnmarked(evt, at, v) ==
    [slip |-> evt.slip, attempt |-> evt.attempt, dest |-> evt.dest,
     said |-> Said(evt, at, v), runs |-> evt.runs + 1, errs |-> Errors(evt, v)]

\* The event after the service of step at gave its verdict.
Answered(evt, at, v) ==
    [slip |-> Marked(evt.slip, v), attempt |-> evt.attempt, dest |-> evt.dest,
     said |-> Said(evt, at, v), runs |-> evt.runs + 1, errs |-> Errors(evt, v)]

-----------------------------------------------------------------------------
QueuedAt(at, evt, once) == [pc |-> "queued", at |-> at, evt |-> evt, once |-> once]

Holding(m, evt, via, call) ==
    [pc |-> "held", at |-> m.at,
     got |-> IF m.pc = "held" THEN m.got ELSE m.evt,
     evt |-> evt, via |-> via, call |-> call, once |-> m.once]

\* normalizeSlip, and the router's own next: step 1 is dispatched.
Planned(dest) ==
    [slip |-> [s \in Step |-> "PENDING"],
     attempt |-> [s \in Step |-> IF s = 1 THEN 1 ELSE 0],
     dest |-> dest,
     said |-> [s \in Step |-> "PENDING"], runs |-> 0, errs |-> 0]

Init ==
    /\ \E c \in Copy, dest \in BOOLEAN :
           copy = [d \in Copy |-> IF d = c THEN QueuedAt(1, Planned(dest), TRUE) ELSE Free]
    /\ taken = {}
    /\ ended = {}
    /\ errors = 0
    /\ harm = {}
    /\ faults = 0

Fault == faults < MaxFaults /\ faults' = faults + 1

Leaves(c, how) ==
    /\ copy' = [copy EXCEPT ![c] = Free]
    /\ ended' = ended \union {[how |-> how, at |-> copy[c].at, evt |-> copy[c].evt]}

\* The message is acked, or was before its handler died, and nothing comes of it.
Vanishes(c) == copy' = [copy EXCEPT ![c] = Free]

-----------------------------------------------------------------------------
(* Before the handler: the dedupe of the process, the Redis check.          *)

\* checkIdempotency: SET NX of a key made of the step's topic and the event's
\* correlation id; a service without the check passes everything.
Passes(at) ==
    /\ at \notin Guarded \intersect taken
    /\ taken' = taken \union (Guarded \intersect {at})

\* Mutant of Skip: a check that fails counts as a duplicate (fail-closed).
SkipFailClosed(c) ==
    /\ copy[c].pc = "queued"
    /\ copy[c].at \in Guarded
    /\ \/ copy[c].at \in taken /\ UNCHANGED faults
       \/ Fault
    /\ Vanishes(c)
    /\ harm' = IF copy[c].evt.attempt[copy[c].at] > 1 THEN harm \union {"repeat"} ELSE harm
    /\ UNCHANGED <<taken, ended, errors>>

\* The key is set: the message is acked as a duplicate.
Skip(c) ==
    /\ copy[c].pc = "queued"
    /\ copy[c].at \in Guarded \intersect taken
    /\ Vanishes(c)
    /\ harm' = IF copy[c].evt.attempt[copy[c].at] > 1 THEN harm \union {"repeat"} ELSE harm
    /\ UNCHANGED <<taken, ended, errors, faults>>

\* The redelivery reaches a process that has seen the message: dropped and acked.
Drop(c) ==
    /\ copy[c].pc = "queued"
    /\ ~ copy[c].once
    /\ Vanishes(c)
    /\ UNCHANGED <<taken, ended, errors, harm, faults>>

\* The key passes its TTL, or was never set because the check failed open.
Expire(s) ==
    /\ s \in taken
    /\ Fault
    /\ taken' = taken \ {s}
    /\ UNCHANGED <<copy, ended, errors, harm>>

-----------------------------------------------------------------------------
(* The handlers.                                                            *)

Verdicts(at) == IF Style[at] = "silent" THEN {"none"} ELSE Verdict

Says(v) ==
    /\ v = "ERROR" => errors < MaxErrors
    /\ errors' = IF v = "ERROR" THEN errors + 1 ELSE errors

\* A service that falls back says ERROR in its catch block only, where nothing
\* catches a second failure.
CallOf(at, v) == IF Style[at] = "fallback" /\ v = "ERROR" THEN 2 ELSE 1

\* A handler reaches next(event, v), up to the await of the publication.
Handle(c) ==
    /\ copy[c].pc = "queued"
    /\ Passes(copy[c].at)
    /\ \E v \in Verdicts(copy[c].at) :
        /\ Says(v)
        /\ copy' = [copy EXCEPT ![c] =
               Holding(@, Counted(Answered(@.evt, @.at, v)), "next", CallOf(@.at, v))]
    /\ UNCHANGED <<ended, harm, faults>>

\* A handler reaches complete(event, v).
Finish(c) ==
    /\ copy[c].pc = "queued"
    /\ Style[copy[c].at] = "finish"
    /\ Passes(copy[c].at)
    /\ \E v \in Verdict :
        /\ Says(v)
        /\ copy' = [copy EXCEPT ![c] = Holding(@, Answered(@.evt, @.at, v), "complete", 1)]
    /\ UNCHANGED <<ended, harm, faults>>

\* A handler throws before next, or returns without it.  Its own catch block or
\* onMessage's acks; auth nacks; story-engine's catch is a Handle.
Throw(c) ==
    /\ copy[c].pc = "queued"
    /\ Style[copy[c].at] # "fallback"
    /\ Passes(copy[c].at)
    /\ Fault
    /\ \/ Vanishes(c)
       \/ /\ Style[copy[c].at] = "retry"
          /\ copy' = [copy EXCEPT ![c] = QueuedAt(@.at, @.evt, FALSE)]
    /\ harm' = harm \union {"threw"}
    /\ UNCHANGED <<ended, errors>>

\* qos.maxResponseMs passes: onMessage acks and the handler works on.
Timeout(c) ==
    /\ copy[c].pc = "held"
    /\ copy[c].once
    /\ copy' = [copy EXCEPT ![c].once = FALSE]
    /\ UNCHANGED <<taken, ended, errors, harm, faults>>

\* The topic the held event is published to.
Publishes(m, to) ==
    IF m.via = "complete" THEN to = Egress ELSE IsTarget(m.evt.slip, to)

\* The publication to a step succeeds and the handler acks.
Forward(c) ==
    /\ copy[c].pc = "held"
    /\ \E to \in Step :
        /\ Publishes(copy[c], to)
        /\ copy' = [copy EXCEPT ![c] = QueuedAt(to, @.evt, TRUE)]
    /\ UNCHANGED <<taken, ended, errors, harm, faults>>

\* The publication to the egress succeeds and the handler acks.
Deliver(c) ==
    /\ copy[c].pc = "held"
    /\ Publishes(copy[c], Egress)
    /\ copy[c].evt.dest
    /\ Leaves(c, copy[c].via)
    /\ UNCHANGED <<taken, errors, harm, faults>>

\* Mutant of NoTarget: the early return leaves the message unacked.
NoTargetUnacked(c) ==
    /\ copy[c].pc = "held"
    /\ Publishes(copy[c], Egress)
    /\ ~ copy[c].evt.dest
    /\ copy' = [copy EXCEPT ![c] = QueuedAt(@.at, @.got, FALSE)]
    /\ UNCHANGED <<taken, ended, errors, harm, faults>>

\* An event without an egress destination: next and complete return, the
\* handler acks.
NoTarget(c) ==
    /\ copy[c].pc = "held"
    /\ Publishes(copy[c], Egress)
    /\ ~ copy[c].evt.dest
    /\ Leaves(c, "untargeted")
    /\ UNCHANGED <<taken, errors, harm, faults>>

-----------------------------------------------------------------------------
(* A publication fails: next clears its mark and throws.                    *)

\* There is something to publish, and it does not arrive.
Fails(c) ==
    /\ copy[c].pc = "held"
    /\ \/ copy[c].evt.dest
       \/ \E to \in Step : Publishes(copy[c], to)
    /\ Fault
    /\ harm' = harm \union {"failed"}

\* Mutant of Requeue: the redelivery carries the event as the handler left it.
RequeueMutated(c) ==
    /\ Fails(c)
    /\ Style[copy[c].at] = "retry"
    /\ copy' = [copy EXCEPT ![c] = QueuedAt(@.at, @.evt, FALSE)]
    /\ UNCHANGED <<taken, ended, errors>>

\* The handler nacks: the broker redelivers the message as it was.
Requeue(c) ==
    /\ Fails(c)
    /\ Style[copy[c].at] = "retry"
    /\ copy' = [copy EXCEPT ![c] = QueuedAt(@.at, @.got, FALSE)]
    /\ UNCHANGED <<taken, ended, errors>>

\* The handler's catch block calls next(event, 'ERROR') on the same event.
FallBack(c) ==
    /\ Fails(c)
    /\ Style[copy[c].at] = "fallback"
    /\ copy[c].call = 1
    /\ copy' = [copy EXCEPT ![c] =
           Holding(@, Counted(FellBack(@.evt)), "next", 2)]
    /\ UNCHANGED <<taken, ended, errors>>

\* The catch block of the handler, or of onMessage around it, acks.
Lose(c) ==
    /\ Fails(c)
    /\ Style[copy[c].at] = "fallback" => copy[c].call = 2
    /\ Vanishes(c)
    /\ UNCHANGED <<taken, ended, errors>>

-----------------------------------------------------------------------------
(* The process and the broker.                                              *)

\* The process dies before the publication.  The message is delivered again,
\* unless it has been answered: by the QoS timeout, or for its other delivery.
Crash(c) ==
    /\ copy[c].pc = "held"
    /\ Fault
    /\ \/ copy' = [copy EXCEPT ![c] = QueuedAt(@.at, @.got, @.once)]
       \/ ~ copy[c].once /\ Vanishes(c)
    /\ harm' = IF copy[c].once /\ copy[c].at \notin taken THEN harm
               ELSE harm \union {"died"}
    /\ UNCHANGED <<taken, ended, errors>>

\* A message whose handler works, or has just ended, is delivered again: its
\* lease lapsed, or its ack is lost.  A second delivery before the first is
\* handled comes to the same.
Redeliver(c, d) ==
    /\ copy[c].pc = "held"
    /\ copy[d] = Free
    /\ Fault
    /\ copy' = [copy EXCEPT ![c].once = FALSE,
                            ![d] = QueuedAt(copy[c].at, copy[c].got, FALSE)]
    /\ UNCHANGED <<taken, ended, errors, harm>>

\* A publication is stored, and the publisher does not learn of it.
StoredUnseen(c, d) ==
    /\ copy[c].pc = "held"
    /\ copy[d] = Free
    /\ Fault
    /\ \E to \in Step :
        /\ Publishes(copy[c], to)
        /\ copy' = [copy EXCEPT ![d] = QueuedAt(to, copy[c].evt, TRUE)]
    /\ UNCHANGED <<taken, ended, errors, harm>>

\* The same of a publication to the egress.
DeliveredUnseen(c) ==
    /\ copy[c].pc = "held"
    /\ Publishes(copy[c], Egress)
    /\ copy[c].evt.dest
    /\ Fault
    /\ ended' = ended \union {[how |-> copy[c].via, at |-> copy[c].at, evt |-> copy[c].evt]}
    /\ UNCHANGED <<copy, taken, errors, harm>>

AllLeft == \A c \in Copy : copy[c] = Free

Done == AllLeft /\ UNCHANGED vars

-----------------------------------------------------------------------------
Next ==
    \/ \E c \in Copy :
        \/ Skip(c) \/ Drop(c)
        \/ Handle(c) \/ Finish(c) \/ Throw(c) \/ Timeout(c)
        \/ Forward(c) \/ Deliver(c) \/ NoTarget(c)
        \/ Requeue(c) \/ FallBack(c) \/ Lose(c)
        \/ Crash(c) \/ DeliveredUnseen(c)
    \/ \E c, d \in Copy : Redeliver(c, d) \/ StoredUnseen(c, d)
    \/ \E s \in Step : Expire(s)
    \/ Done

Spec == Init /\ [][Next]_vars

\* The broker delivers what is queued, a handler that passes the check reaches
\* its publication, and a publication that does not fail is answered.
Fairness ==
    \A c \in Copy :
        /\ WF_vars(Skip(c) \/ Handle(c) \/ Finish(c))
        /\ WF_vars(Forward(c) \/ Deliver(c) \/ NoTarget(c))

FairSpec == Spec /\ Fairness

-----------------------------------------------------------------------------
(* Safety.                                                                  *)

\* The events of the system: waiting, in a handler, or gone.
Waiting == {copy[c] : c \in {c \in Copy : copy[c].pc = "queued"}}
InHand == {copy[c] : c \in {c \in Copy : copy[c].pc = "held"}}
Events == {m.evt : m \in Waiting \union InHand \union ended}

\* next dispatches in slip order: the event waits only at the service of its
\* first pending step, whatever was redelivered, requeued or fallen back on,
\* and no step before that is pending.  Until a service says ERROR this is also
\* the step the JSDoc of next names, the first neither OK nor SKIP.
WaitsAtFirstPending ==
    \A m \in Waiting :
        /\ m.evt.slip[m.at] = "PENDING"
        /\ IsTarget(m.evt.slip, m.at)
        /\ m.evt.errs = 0 => IsCurrent(m.evt.slip, m.at)

\* As long as no service said ERROR, updateCurrentStep marks the step of the
\* service that calls it: each status is that service's own verdict.
OwnVerdicts ==
    \A e \in Events : e.errs = 0 => \A s \in Step : e.slip[s] = e.said[s]

\* A handler runs again for a copy of the event only on account of an ERROR:
\* every other run settles one more step.
RunsAccounted ==
    \A e \in Events : e.runs <= Cardinality(Settled(e.slip)) + e.errs

\* An event that left by next without an ERROR was served by every step.
EgressMeansServed ==
    \A m \in ended :
        m.how = "next" /\ m.evt.errs = 0 => \A s \in Step : m.evt.said[s] # "PENDING"

\* What the services said is what the slip and the egress tell, until the first
\* ERROR.
VerdictsCarry == OwnVerdicts /\ EgressMeansServed

EndReached == ended # {}

\* An event is gone short of its end only for a cause: a publication failed, a
\* handler threw, a process died on an answered message or past the Redis check,
\* or the event came to a checked step for the second time.  Redeliveries, QoS
\* timeouts, unseen publications, lost keys, a death elsewhere and whatever the
\* dedupe and the Redis check make of them lose nothing: what is dropped as a
\* duplicate has its original further on.
LossHasCause == AllLeft /\ ~ EndReached => harm # {}

-----------------------------------------------------------------------------
(* Liveness.                                                                *)

\* With finitely many faults and ERRORs every copy of the event leaves the slip.
EventLeaves == <>[]AllLeft

-----------------------------------------------------------------------------
(* What the documentation says.                                             *)

\* base-server.ts:1004 "Finds the first pending step (status not in OK|SKIP)": the
\* event waits at the first step that is not settled, ERROR or not.
DispatchesUnsettled == \A m \in Waiting : IsCurrent(m.evt.slip, m.at)

\* base-server-routing.md:61 "Transport delivery remains at-least-once": if
\* nothing fails, throws or dies, the event is not gone short of its end.
RepeatsAreDelivered == AllLeft /\ ~ EndReached => harm \ {"repeat"} # {}

\* slip.ts:12 "Consumers should only flip their own step."
OwnStepOnly ==
    \A e \in Events : \A s \in Step : e.slip[s] = e.said[s]

\* base-server.ts:1144 "Clear idempotency mark to allow safe retry by caller": a
\* step is not marked ERROR by the caller of another one.
RetryIsSafe ==
    \A e \in Events : \A s \in Step : e.slip[s] = "ERROR" => e.said[s] # "PENDING"

\* agent-flow-patterns.md:50 "2. NEXT: Advance the routing slip": next does not
\* dispatch the event to the step that called it.
NextAdvances ==
    \A m \in InHand : \A to \in Step : Publishes(m, to) => to # m.at

=============================================================================
