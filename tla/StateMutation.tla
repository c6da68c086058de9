--------------------------- MODULE StateMutation ---------------------------
(***************************************************************************)
(* The state engine: mutation proposals arrive on internal.state.mutation, *)
(* handleMutation checks the key, commits with an optional expected        *)
(* version, logs the verdict and evaluates the rules.                      *)
(*                                                                         *)
(* commitMutation is one transaction of Firestore (state and log together) *)
(* and, on a document store, a get, a comparison, a set of the state and a *)
(* set of the log.  Whatever it throws becomes {success: false}, which     *)
(* handleMutation logs as a rejection.                                     *)
(*                                                                         *)
(* The value a mutation writes is the mutation itself: op is carried and   *)
(* never read by the code, so every proposal sets.                         *)
(***************************************************************************)
EXTENDS Integers

CONSTANTS
    Mutation,   \* proposals, each with an id of its own
    Announcing, \* those whose value matches a rule with a publishEgress action
    Key,
    Allowed,    \* keys that isAllowedKey accepts
    Handler,    \* bound: handler calls that run at one time
    MaxFaults   \* bound: redeliveries, failed calls, crashes

ASSUME MutationAssumption ==
    /\ Announcing \subseteq Mutation
    /\ Allowed \subseteq Key
    /\ "no value" \notin Mutation
    /\ MaxFaults \in Nat

VARIABLES
    backend,   \* "firestore" or "document": what the factory chose
    proposal,  \* [Mutation -> what propose_mutation or a producer published]
    bus,       \* [Mutation -> "unsent", "ready", "taken", "acked"]
    state,     \* [Key -> version and value]
    log,       \* [Mutation -> entry of mutation_log]
    handler,   \* [Handler -> state of the call]
    faults,
    (* history variables, read by the properties only *)
    applied,   \* [Mutation -> 0..2]: writes of the state; 2 is two or more
    announced, \* [Mutation -> 0..2]: egress events for it
    raced,     \* keys written from a read that another write followed
    disturbed  \* mutations a fault has touched

store == <<backend, proposal, state, log>>
history == <<applied, announced, raced, disturbed>>
vars == <<backend, proposal, bus, state, log, handler, faults,
          applied, announced, raced, disturbed>>

NoCheck == -1           \* no expectedVersion
NoValue == "no value"
NotProposed == [proposed |-> FALSE]
Proposal == [proposed : {TRUE}, key : Key, expected : Nat \union {NoCheck}]
State == [version : Nat, value : Mutation \union {NoValue}]

NoEntry == [status |-> "none", version |-> 0]
Entry == [status : {"none", "accepted", "rejected"}, version : Nat]

\* committing: commitMutation is called; writing: the document store compared
\* the version it read; logging: it set the state; evaluating: commitMutation
\* succeeded; rejecting: it failed, or the key is not allowed; ending: the
\* handler is about to ack.
Stage == {"committing", "writing", "logging", "evaluating", "rejecting", "ending"}
Idle == [stage |-> "idle"]
Call == [stage : Stage, id : Mutation, version : Nat]

TypeOK ==
    /\ backend \in {"firestore", "document"}
    /\ proposal \in [Mutation -> Proposal \union {NotProposed}]
    /\ bus \in [Mutation -> {"unsent", "ready", "taken", "acked"}]
    /\ state \in [Key -> State]
    /\ log \in [Mutation -> Entry]
    /\ handler \in [Handler -> Call \union {Idle}]
    /\ faults \in 0..MaxFaults
    /\ applied \in [Mutation -> 0..2]
    /\ announced \in [Mutation -> 0..2]
    /\ raced \in SUBSET Key
    /\ disturbed \in SUBSET Mutation

Init ==
    /\ backend \in {"firestore", "document"}
    /\ proposal = [m \in Mutation |-> NotProposed]
    /\ bus = [m \in Mutation |-> "unsent"]
    /\ state = [k \in Key |-> [version |-> 0, value |-> NoValue]]
    /\ log = [m \in Mutation |-> NoEntry]
    /\ handler = [h \in Handler |-> Idle]
    /\ faults = 0
    /\ applied = [m \in Mutation |-> 0]
    /\ announced = [m \in Mutation |-> 0]
    /\ raced = {}
    /\ disturbed = {}

-----------------------------------------------------------------------------
(* Helpers.                                                                 *)

\* One more, as far as two.
Bump(f, m) == [f EXCEPT ![m] = IF @ < 2 THEN @ + 1 ELSE 2]

InStage(h, stage) == handler[h].stage = stage
ToStage(h, stage, v) ==
    handler' = [handler EXCEPT ![h] = [stage |-> stage, id |-> handler[h].id, version |-> v]]

KeyOf(m) == proposal[m].key

\* A call, a crash or a redelivery that goes wrong for mutation m.
Fault(m) ==
    /\ faults < MaxFaults
    /\ faults' = faults + 1
    /\ disturbed' = disturbed \union {m}

\* Mutant of Matches: an expected version that lies behind is accepted.
MatchesOlder(m) == proposal[m].expected <= state[KeyOf(m)].version

\* The optimistic check: undefined means no check, and an absent row has
\* version 0.
Matches(m) == proposal[m].expected \in {NoCheck, state[KeyOf(m)].version}

\* Mutant of Accepted: a status the log type does not have.
Committed(v) == [status |-> "committed", version |-> v]

Accepted(v) == [status |-> "accepted", version |-> v]

\* The new row, one version after the one that was read.
WriteState(m, v) ==
    /\ state' = [state EXCEPT ![KeyOf(m)] = [version |-> v + 1, value |-> m]]
    /\ applied' = Bump(applied, m)
    /\ raced' = IF state[KeyOf(m)].version # v THEN raced \union {KeyOf(m)} ELSE raced

-----------------------------------------------------------------------------
(* The proposal and its message.                                            *)

\* propose_mutation, or another producer of the topic: expectedVersion is
\* absent or what get_state answered.  The tool refuses a key that is not
\* allowed, another producer does not.
Propose(m, k, expected) ==
    /\ bus[m] = "unsent"
    /\ expected \in {NoCheck, state[k].version}
    /\ proposal' = [proposal EXCEPT ![m] =
            [proposed |-> TRUE, key |-> k, expected |-> expected]]
    /\ bus' = [bus EXCEPT ![m] = "ready"]
    /\ UNCHANGED <<backend, state, log, handler, faults, history>>

\* The handler is called: isAllowedKey, then commitMutation.
Receive(h, m) ==
    /\ InStage(h, "idle")
    /\ bus[m] = "ready"
    /\ bus' = [bus EXCEPT ![m] = "taken"]
    /\ handler' = [handler EXCEPT ![h] =
            [stage |-> IF KeyOf(m) \in Allowed THEN "committing" ELSE "rejecting",
             id |-> m, version |-> 0]]
    /\ UNCHANGED <<store, faults, history>>

\* The lease lapses under the handler: the message is delivered again.
Redeliver(m) ==
    /\ bus[m] = "taken"
    /\ Fault(m)
    /\ bus' = [bus EXCEPT ![m] = "ready"]
    /\ UNCHANGED <<store, handler, applied, announced, raced>>

-----------------------------------------------------------------------------
(* commitMutation.                                                          *)

\* Firestore: the transaction commits.
CommitFirestore(h) ==
    LET m == handler[h].id
        v == state[KeyOf(m)].version
    IN  /\ InStage(h, "committing")
        /\ backend = "firestore"
        /\ Matches(m)
        /\ WriteState(m, v)
        /\ log' = [log EXCEPT ![m] = Accepted(v + 1)]
        /\ ToStage(h, "evaluating", v)
        /\ UNCHANGED <<backend, proposal, bus, faults, announced, disturbed>>

\* Mutant of Mismatch: the conflict is nacked, to be tried again.
MismatchRetried(h) ==
    /\ InStage(h, "committing")
    /\ ~ Matches(handler[h].id)
    /\ handler' = [handler EXCEPT ![h] = Idle]
    /\ bus' = [bus EXCEPT ![handler[h].id] = "ready"]
    /\ UNCHANGED <<store, faults, history>>

\* Both: the version differs, the throw is caught.
Mismatch(h) ==
    /\ InStage(h, "committing")
    /\ ~ Matches(handler[h].id)
    /\ ToStage(h, "rejecting", 0)
    /\ UNCHANGED <<store, bus, faults, history>>

\* Document store: the get and the comparison.
Compare(h) ==
    /\ InStage(h, "committing")
    /\ backend = "document"
    /\ Matches(handler[h].id)
    /\ ToStage(h, "writing", state[KeyOf(handler[h].id)].version)
    /\ UNCHANGED <<store, bus, faults, history>>

\* Document store: the set of the state, unconditional.
SetState(h) ==
    /\ InStage(h, "writing")
    /\ WriteState(handler[h].id, handler[h].version)
    /\ ToStage(h, "logging", handler[h].version)
    /\ UNCHANGED <<backend, proposal, bus, log, faults, announced, disturbed>>

\* Mutant of SetLog: the version that was read is logged as the result.
SetLogRead(h) ==
    /\ InStage(h, "logging")
    /\ log' = [log EXCEPT ![handler[h].id] = Accepted(handler[h].version)]
    /\ ToStage(h, "evaluating", handler[h].version)
    /\ UNCHANGED <<backend, proposal, bus, state, faults, history>>

\* Document store: the set of the log entry.
SetLog(h) ==
    /\ InStage(h, "logging")
    /\ log' = [log EXCEPT ![handler[h].id] = Accepted(handler[h].version + 1)]
    /\ ToStage(h, "evaluating", handler[h].version)
    /\ UNCHANGED <<backend, proposal, bus, state, faults, history>>

\* A call of the store throws; a write may have been stored all the same.
CommitFails(h) ==
    LET m == handler[h].id
        v == handler[h].version
    IN  /\ handler[h].stage \in {"committing", "writing", "logging"}
        /\ Fault(m)
        /\ ToStage(h, "rejecting", 0)
        /\ \/ UNCHANGED <<state, log, applied, raced>>
           \/ /\ InStage(h, "committing") /\ backend = "firestore" /\ Matches(m)
              /\ WriteState(m, state[KeyOf(m)].version)
              /\ log' = [log EXCEPT ![m] = Accepted(state[KeyOf(m)].version + 1)]
           \/ /\ InStage(h, "writing")
              /\ WriteState(m, v)
              /\ UNCHANGED log
           \/ /\ InStage(h, "logging")
              /\ log' = [log EXCEPT ![m] = Accepted(v + 1)]
              /\ UNCHANGED <<state, applied, raced>>
        /\ UNCHANGED <<backend, proposal, bus, announced>>

-----------------------------------------------------------------------------
(* The rest of the handler.                                                 *)

\* Mutant of EvaluateRules: the else of handleMutation is lost, so a rejection
\* is logged after a success too.
RulesThenRejection(h) ==
    LET m == handler[h].id IN
    /\ InStage(h, "evaluating")
    /\ ToStage(h, "rejecting", 0)
    /\ IF m \in Announcing THEN announced' = Bump(announced, m) ELSE UNCHANGED announced
    /\ UNCHANGED <<store, bus, applied, raced, faults, disturbed>>

\* evaluateRules: an error of publishEgress is swallowed.
EvaluateRules(h) ==
    LET m == handler[h].id IN
    /\ InStage(h, "evaluating")
    /\ ToStage(h, "ending", 0)
    /\ IF m \in Announcing
       THEN \/ announced' = Bump(announced, m) /\ UNCHANGED <<faults, disturbed>>
            \/ Fault(m) /\ UNCHANGED announced
       ELSE UNCHANGED <<announced, faults, disturbed>>
    /\ UNCHANGED <<store, bus, applied, raced>>

\* logMutation replaces whatever entry the mutation had; when it throws, the
\* outer catch acks.
LogRejection(h) ==
    LET m == handler[h].id IN
    /\ InStage(h, "rejecting")
    /\ ToStage(h, "ending", 0)
    /\ \/ /\ log' = [log EXCEPT ![m] = [status |-> "rejected", version |-> 0]]
          /\ UNCHANGED <<faults, disturbed>>
       \/ Fault(m) /\ UNCHANGED log
    /\ UNCHANGED <<backend, proposal, bus, state, applied, announced, raced>>

\* ctx.ack(), which may be lost.
Acknowledge(h) ==
    LET m == handler[h].id IN
    /\ InStage(h, "ending")
    /\ handler' = [handler EXCEPT ![h] = Idle]
    /\ \/ bus' = [bus EXCEPT ![m] = "acked"] /\ UNCHANGED <<faults, disturbed>>
       \/ bus' = [bus EXCEPT ![m] = "ready"] /\ Fault(m)
    /\ UNCHANGED <<store, applied, announced, raced>>

\* The process dies in the handler; the message is delivered again.
Die(h) ==
    LET m == handler[h].id IN
    /\ ~ InStage(h, "idle")
    /\ Fault(m)
    /\ handler' = [handler EXCEPT ![h] = Idle]
    /\ bus' = [bus EXCEPT ![m] = IF @ = "taken" THEN "ready" ELSE @]
    /\ UNCHANGED <<store, applied, announced, raced>>

-----------------------------------------------------------------------------
HandlerStep(h) ==
    \/ CommitFirestore(h)
    \/ Mismatch(h)
    \/ Compare(h)
    \/ SetState(h)
    \/ SetLog(h)
    \/ EvaluateRules(h)
    \/ LogRejection(h)
    \/ Acknowledge(h)

Settled(m) ==
    bus[m] = "acked" /\ \A h \in Handler : ~ InStage(h, "idle") => handler[h].id # m

\* Every proposal was sent and handled.
Done ==
    /\ \A m \in Mutation : Settled(m)
    /\ UNCHANGED vars

Next ==
    \/ \E m \in Mutation, k \in Key : \E e \in {NoCheck, state[k].version} : Propose(m, k, e)
    \/ \E h \in Handler, m \in Mutation : Receive(h, m)
    \/ \E h \in Handler : HandlerStep(h) \/ CommitFails(h) \/ Die(h)
    \/ \E m \in Mutation : Redeliver(m)
    \/ Done

Spec == Init /\ [][Next]_vars

\* The broker delivers and the calls are answered.
Fairness ==
    /\ \A m \in Mutation : WF_vars(\E h \in Handler : Receive(h, m))
    /\ \A h \in Handler : WF_vars(HandlerStep(h))

FairSpec == Spec /\ Fairness

-----------------------------------------------------------------------------
(* Properties.                                                              *)

\* No two mutations win one version of a key: their log entries name
\* different resulting versions, and none is ahead of the row.  A document
\* store loses this only for a key that was written from an outdated read.
OneWinnerPerVersion ==
    \A m, n \in Mutation :
        /\ log[m].status = "accepted"
        /\ KeyOf(m) \notin raced
        => /\ log[m].version <= state[KeyOf(m)].version
           /\ \/ m = n
              \/ log[n].status # "accepted"
              \/ KeyOf(m) # KeyOf(n)
              \/ log[m].version # log[n].version

\* A settled mutation that no fault touched is in the log as accepted exactly
\* when it changed the state, once, and its rule fired exactly then; in
\* particular, a caught error of the commit is not logged over an effect.
LogTellsTheTruth ==
    \A m \in Mutation \ disturbed :
        Settled(m) =>
            /\ log[m].status # "none"
            /\ log[m].status = "accepted" <=> applied[m] = 1
            /\ log[m].status = "rejected" <=> applied[m] = 0
            /\ announced[m] = IF m \in Announcing THEN applied[m] ELSE 0

\* The state engine implements the versioned register, on Firestore outright
\* and on a document store until the key is raced for.
Promise == INSTANCE VersionedState WITH
    reg <- [k \in Key |-> IF k \in raced THEN [version |-> -1] ELSE state[k]]
ImplementsRegister == Promise!Spec

\* Every proposal is handled and acked for good, whatever is redelivered.
EveryProposalSettles ==
    \A m \in Mutation : bus[m] = "ready" ~> [](bus[m] = "acked")

\* state-engine-repository.ts:193 "Fetch-modify-update pattern with optimistic
\* concurrency check [...] provides similar semantics for single-document
\* updates": two mutations that expect one version are not both accepted.
SimilarSemantics ==
    \A m, n \in Mutation :
        (/\ m # n
         /\ log[m].status = "accepted"
         /\ log[n].status = "accepted"
         /\ KeyOf(m) = KeyOf(n)
         /\ KeyOf(m) \in Allowed
         /\ proposal[m].expected # NoCheck)
        => proposal[m].expected # proposal[n].expected

=============================================================================
