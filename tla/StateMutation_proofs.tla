------------------------ MODULE StateMutation_proofs ------------------------
(***************************************************************************)
(* Proofs about StateMutation, for all sets of mutations, keys and         *)
(* handlers and any number of faults: its types, the one winner of every   *)
(* version, the one acceptance of every expectation, what the log tells,   *)
(* and that the engine implements the versioned register.                  *)
(***************************************************************************)
EXTENDS StateMutation, TLAPS

-----------------------------------------------------------------------------
(* Types.                                                                   *)

\* A call that is not idle names a mutation and the version it read.
LEMMA BusyCall ==
  ASSUME TypeOK, NEW h \in Handler, handler[h].stage # "idle"
  PROVE  handler[h] \in Call
  BY DEF TypeOK, Idle

\* What a stage is reached with is a call.
LEMMA StageType ==
  ASSUME NEW s \in Stage, NEW m \in Mutation, NEW v \in Nat
  PROVE  [stage |-> s, id |-> m, version |-> v] \in Call
  BY DEF Call

\* The mutation of a call that is not idle was proposed.
Sent ==
  /\ \A m \in Mutation : bus[m] # "unsent" => proposal[m] \in Proposal
  /\ \A h \in Handler : handler[h].stage # "idle" => bus[handler[h].id] # "unsent"
  /\ \A m \in Mutation : bus[m] = "unsent" => proposal[m] = NotProposed /\ log[m].status = "none"

\* The key of a call that is not idle, and its row.
LEMMA BusyKey ==
  ASSUME TypeOK, Sent, NEW h \in Handler, handler[h].stage # "idle"
  PROVE  /\ handler[h].id \in Mutation
         /\ handler[h].version \in Nat
         /\ proposal[handler[h].id] \in Proposal
         /\ KeyOf(handler[h].id) \in Key
         /\ state[KeyOf(handler[h].id)] \in State
         /\ state[KeyOf(handler[h].id)].version \in Nat
<1>1. handler[h].id \in Mutation /\ handler[h].version \in Nat
  BY BusyCall DEF Call
<1>2. proposal[handler[h].id] \in Proposal
  BY <1>1 DEF Sent
<1>3. KeyOf(handler[h].id) \in Key
  BY <1>2 DEF KeyOf, Proposal
<1>4. state[KeyOf(handler[h].id)] \in State
  BY <1>3 DEF TypeOK
<1> QED
  BY <1>1, <1>2, <1>3, <1>4 DEF State

\* Counting as far as two.
LEMMA BumpType ==
  ASSUME NEW f \in [Mutation -> 0..2], NEW m \in Mutation
  PROVE  Bump(f, m) \in [Mutation -> 0..2]
<1>1. (IF f[m] < 2 THEN f[m] + 1 ELSE 2) \in 0..2
  BY f[m] \in 0..2
<1> QED
  BY <1>1 DEF Bump

\* A fault is counted and marks a mutation.
LEMMA FaultType ==
  ASSUME TypeOK, NEW m \in Mutation, Fault(m)
  PROVE  faults' \in 0..MaxFaults /\ disturbed' \in SUBSET Mutation
<1>1. MaxFaults \in Nat
  BY MutationAssumption
<1>2. faults \in 0..MaxFaults /\ disturbed \in SUBSET Mutation
  BY DEF TypeOK
<1>3. faults < MaxFaults /\ faults' = faults + 1 /\ disturbed' = disturbed \union {m}
  BY DEF Fault
<1>4. faults' \in 0..MaxFaults
  BY <1>1, <1>2, <1>3
<1> QED
  BY <1>2, <1>3, <1>4

\* A write of the state keeps its type.
LEMMA WriteType ==
  ASSUME TypeOK, NEW m \in Mutation, KeyOf(m) \in Key, NEW v \in Nat, WriteState(m, v)
  PROVE  /\ state' \in [Key -> State]
         /\ applied' \in [Mutation -> 0..2]
         /\ raced' \in SUBSET Key
<1>1. [version |-> v + 1, value |-> m] \in State
  BY DEF State
<1>2. state' \in [Key -> State]
  BY <1>1 DEF TypeOK, WriteState
<1>3. applied' \in [Mutation -> 0..2]
  BY BumpType DEF TypeOK, WriteState
<1> QED
  BY <1>2, <1>3 DEF TypeOK, WriteState

\* Entries of the log.
LEMMA EntryType ==
  ASSUME NEW v \in Nat
  PROVE  Accepted(v) \in Entry /\ [status |-> "rejected", version |-> 0] \in Entry
  BY DEF Accepted, Entry

\* A step of a call keeps the type of the calls.
LEMMA ToStageType ==
  ASSUME TypeOK, NEW h \in Handler, handler[h].stage # "idle",
         NEW s \in Stage, NEW v \in Nat, ToStage(h, s, v)
  PROVE  handler' \in [Handler -> Call \union {Idle}]
<1>1. [stage |-> s, id |-> handler[h].id, version |-> v] \in Call
  BY BusyCall, StageType DEF Call
<1> QED
  BY <1>1 DEF TypeOK, ToStage

\* Every action keeps the types.
LEMMA TypeProposal ==
  ASSUME TypeOK, NEW m \in Mutation, NEW k \in Key, NEW e \in {NoCheck, state[k].version},
         Propose(m, k, e)
  PROVE  TypeOK'
<1>1. e \in Nat \union {NoCheck}
  BY DEF TypeOK, State
<1>2. [proposed |-> TRUE, key |-> k, expected |-> e] \in Proposal
  BY <1>1 DEF Proposal
<1> QED
  BY <1>2 DEF TypeOK, Propose, history

\* A call starts with the mutation it was given.
LEMMA TypeReceive ==
  ASSUME TypeOK, NEW h \in Handler, NEW m \in Mutation, Receive(h, m)
  PROVE  TypeOK'
<1> DEFINE s == IF KeyOf(m) \in Allowed THEN "committing" ELSE "rejecting"
<1>1. [stage |-> s, id |-> m, version |-> 0] \in Call
  BY StageType DEF Stage
<1>2. handler' \in [Handler -> Call \union {Idle}]
  BY <1>1 DEF TypeOK, Receive
<1> QED
  BY <1>2 DEF TypeOK, Receive, store, history

\* A redelivery changes the bus alone.
LEMMA TypeRedeliver ==
  ASSUME TypeOK, NEW m \in Mutation, Redeliver(m)
  PROVE  TypeOK'
  BY FaultType DEF TypeOK, Redeliver, store

\* The part of the type that commitMutation does not touch.
LEMMA TypeCommit ==
  ASSUME TypeOK, Sent, NEW h \in Handler,
         CommitFirestore(h) \/ Mismatch(h) \/ Compare(h) \/ SetState(h) \/ SetLog(h)
  PROVE  TypeOK'
<1> DEFINE m == handler[h].id
           v == handler[h].version
           w == state[KeyOf(m)].version
<1>1. handler[h].stage # "idle"
  BY DEF CommitFirestore, Mismatch, Compare, SetState, SetLog, InStage
<1>2. m \in Mutation /\ v \in Nat /\ w \in Nat /\ KeyOf(m) \in Key
  BY <1>1, BusyKey
<1>3. CASE CommitFirestore(h)
  <2>1. handler' \in [Handler -> Call \union {Idle}]
    BY <1>1, <1>2, <1>3, ToStageType DEF CommitFirestore, Stage
  <2>2. state' \in [Key -> State] /\ applied' \in [Mutation -> 0..2] /\ raced' \in SUBSET Key
    BY <1>2, <1>3, WriteType DEF CommitFirestore
  <2>3. log' \in [Mutation -> Entry]
    BY <1>2, <1>3, EntryType DEF CommitFirestore, TypeOK
  <2> QED
    BY <1>3, <2>1, <2>2, <2>3 DEF CommitFirestore, TypeOK
<1>4. CASE Mismatch(h)
  <2>1. handler' \in [Handler -> Call \union {Idle}]
    BY <1>1, <1>4, ToStageType DEF Mismatch, Stage
  <2> QED
    BY <1>4, <2>1 DEF Mismatch, TypeOK, store, history
<1>5. CASE Compare(h)
  <2>1. handler' \in [Handler -> Call \union {Idle}]
    BY <1>1, <1>2, <1>5, ToStageType DEF Compare, Stage
  <2> QED
    BY <1>5, <2>1 DEF Compare, TypeOK, store, history
<1>6. CASE SetState(h)
  <2>1. handler' \in [Handler -> Call \union {Idle}]
    BY <1>1, <1>2, <1>6, ToStageType DEF SetState, Stage
  <2>2. state' \in [Key -> State] /\ applied' \in [Mutation -> 0..2] /\ raced' \in SUBSET Key
    BY <1>2, <1>6, WriteType DEF SetState
  <2> QED
    BY <1>6, <2>1, <2>2 DEF SetState, TypeOK
<1>7. CASE SetLog(h)
  <2>1. handler' \in [Handler -> Call \union {Idle}]
    BY <1>1, <1>2, <1>7, ToStageType DEF SetLog, Stage
  <2>2. log' \in [Mutation -> Entry]
    BY <1>2, <1>7, EntryType DEF SetLog, TypeOK
  <2> QED
    BY <1>7, <2>1, <2>2 DEF SetLog, TypeOK, history
<1> QED
  BY <1>3, <1>4, <1>5, <1>6, <1>7

\* The four ways a commit may fail.
LEMMA TypeFailure ==
  ASSUME TypeOK, Sent, NEW h \in Handler, CommitFails(h)
  PROVE  TypeOK'
<1> DEFINE m == handler[h].id
           v == handler[h].version
           w == state[KeyOf(m)].version
<1>1. handler[h].stage # "idle"
  BY DEF CommitFails
<1>2. m \in Mutation /\ v \in Nat /\ w \in Nat /\ KeyOf(m) \in Key
  BY <1>1, BusyKey
<1>3. faults' \in 0..MaxFaults /\ disturbed' \in SUBSET Mutation
  BY <1>2, FaultType DEF CommitFails
<1>4. handler' \in [Handler -> Call \union {Idle}]
  BY <1>1, ToStageType DEF CommitFails, Stage
<1>5. log' \in [Mutation -> Entry]
  BY <1>2, EntryType DEF CommitFails, TypeOK
<1>6. state' \in [Key -> State] /\ applied' \in [Mutation -> 0..2] /\ raced' \in SUBSET Key
  <2>1. CASE WriteState(m, v) \/ WriteState(m, w)
    BY <1>2, <2>1, WriteType
  <2>2. CASE UNCHANGED <<state, applied, raced>>
    BY <2>2 DEF TypeOK
  <2> QED
    BY <2>1, <2>2 DEF CommitFails
<1> QED
  BY <1>3, <1>4, <1>5, <1>6 DEF CommitFails, TypeOK

\* The rest of the handler.
LEMMA TypeEnding ==
  ASSUME TypeOK, Sent, NEW h \in Handler,
         EvaluateRules(h) \/ LogRejection(h) \/ Acknowledge(h) \/ Die(h)
  PROVE  TypeOK'
<1> DEFINE m == handler[h].id
<1>1. handler[h].stage # "idle"
  BY DEF EvaluateRules, LogRejection, Acknowledge, Die, InStage
<1>2. m \in Mutation
  BY <1>1, BusyKey
<1>3. Fault(m) \/ UNCHANGED <<faults, disturbed>>
  BY DEF EvaluateRules, LogRejection, Acknowledge, Die
<1>4. faults' \in 0..MaxFaults /\ disturbed' \in SUBSET Mutation
  <2>1. CASE Fault(m)
    BY <1>2, <2>1, FaultType
  <2>2. CASE UNCHANGED <<faults, disturbed>>
    BY <2>2 DEF TypeOK
  <2> QED
    BY <1>3, <2>1, <2>2
<1>5. CASE EvaluateRules(h)
  <2>1. handler' \in [Handler -> Call \union {Idle}]
    BY <1>1, <1>5, ToStageType DEF EvaluateRules, Stage
  <2>2. announced' \in [Mutation -> 0..2]
    BY <1>2, <1>5, BumpType DEF EvaluateRules, TypeOK
  <2> QED
    BY <1>4, <1>5, <2>1, <2>2 DEF EvaluateRules, TypeOK, store
<1>6. CASE LogRejection(h)
  <2>1. handler' \in [Handler -> Call \union {Idle}]
    BY <1>1, <1>6, ToStageType DEF LogRejection, Stage
  <2>2. log' \in [Mutation -> Entry]
    BY <1>2, <1>6, EntryType DEF LogRejection, TypeOK
  <2> QED
    BY <1>4, <1>6, <2>1, <2>2 DEF LogRejection, TypeOK
<1>7. CASE Acknowledge(h)
  BY <1>2, <1>4, <1>7 DEF Acknowledge, TypeOK, store
<1>8. CASE Die(h)
  BY <1>2, <1>4, <1>8 DEF Die, TypeOK, store
<1> QED
  BY <1>5, <1>6, <1>7, <1>8

\* Every step keeps the types.
LEMMA TypeStep == TypeOK /\ Sent /\ [Next]_vars => TypeOK'
<1> SUFFICES ASSUME TypeOK, Sent, [Next]_vars PROVE TypeOK'
  OBVIOUS
<1>1. CASE \E m \in Mutation, k \in Key : \E e \in {NoCheck, state[k].version} : Propose(m, k, e)
  BY <1>1, TypeProposal
<1>2. CASE \E h \in Handler, m \in Mutation : Receive(h, m)
  BY <1>2, TypeReceive
<1>3. CASE \E h \in Handler : HandlerStep(h) \/ CommitFails(h) \/ Die(h)
  BY <1>3, TypeCommit, TypeFailure, TypeEnding DEF HandlerStep
<1>4. CASE \E m \in Mutation : Redeliver(m)
  BY <1>4, TypeRedeliver
<1>5. CASE UNCHANGED vars
  BY <1>5 DEF TypeOK, vars
<1> QED
  BY <1>1, <1>2, <1>3, <1>4, <1>5 DEF Next, Done

\* A step of a call concerns its own mutation: its message, its log entry.
LEMMA CallFrame ==
  ASSUME TypeOK, Sent, NEW h \in Handler, HandlerStep(h) \/ CommitFails(h) \/ Die(h)
  PROVE  /\ handler[h].stage # "idle"
         /\ handler[h].id \in Mutation
         /\ \A g \in Handler : g # h => handler'[g] = handler[g]
         /\ handler'[h].stage # "idle" => handler'[h].id = handler[h].id
         /\ backend' = backend /\ proposal' = proposal
         /\ \A n \in Mutation : bus'[n] = "unsent" <=> bus[n] = "unsent"
         /\ \A n \in Mutation : n # handler[h].id => log'[n] = log[n]
<1> USE DEF HandlerStep, CommitFirestore, Mismatch, Compare, SetState, SetLog, EvaluateRules,
            LogRejection, Acknowledge, CommitFails, Die
<1> DEFINE m == handler[h].id
<1>1. handler[h].stage # "idle"
  BY DEF InStage
<1>2. m \in Mutation /\ bus[m] # "unsent"
  BY <1>1, BusyKey DEF Sent
<1>3. \A g \in Handler : g # h => handler'[g] = handler[g]
  BY DEF ToStage, TypeOK
<1>4. handler'[h].stage # "idle" => handler'[h].id = m
  BY DEF ToStage, TypeOK, Idle
<1>5. backend' = backend /\ proposal' = proposal
  BY DEF store, history
<1>6. \A n \in Mutation : bus'[n] = "unsent" <=> bus[n] = "unsent"
  <2>1. bus' = bus \/ bus' = [bus EXCEPT ![m] = "acked"] \/ bus' = [bus EXCEPT ![m] = "ready"]
    BY DEF store, history, TypeOK
  <2> QED
    BY <1>2, <2>1 DEF TypeOK
<1>7. \A n \in Mutation : n # m => log'[n] = log[n]
  BY DEF store, history, TypeOK
<1> QED
  BY <1>1, <1>2, <1>3, <1>4, <1>5, <1>6, <1>7

\* A message once sent is never unsent, and a call names a message that was.
LEMMA SentStep == TypeOK /\ Sent /\ [Next]_vars => Sent'
<1> SUFFICES ASSUME TypeOK, Sent, [Next]_vars PROVE Sent'
  OBVIOUS
<1>1. CASE \E m \in Mutation, k \in Key : \E e \in {NoCheck, state[k].version} : Propose(m, k, e)
  <2> PICK m \in Mutation, k \in Key : \E e \in {NoCheck, state[k].version} : Propose(m, k, e)
    BY <1>1
  <2> PICK e \in {NoCheck, state[k].version} : Propose(m, k, e)
    OBVIOUS
  <2>1. e \in Nat \union {NoCheck}
    BY DEF TypeOK, State
  <2>2. [proposed |-> TRUE, key |-> k, expected |-> e] \in Proposal
    BY <2>1 DEF Proposal
  <2>3. \A h \in Handler : handler[h].stage # "idle" => handler[h].id \in Mutation
    BY BusyKey
  <2> QED
    BY <2>2, <2>3 DEF Sent, TypeOK, Propose, history
<1>2. CASE \E h \in Handler, m \in Mutation : Receive(h, m)
  <2> PICK h \in Handler, m \in Mutation : Receive(h, m)
    BY <1>2
  <2>1. bus' = [bus EXCEPT ![m] = "taken"] /\ bus[m] = "ready"
    BY DEF Receive
  <2>2. \A g \in Handler : handler'[g].stage # "idle" =>
          (g = h /\ handler'[g].id = m) \/ handler'[g] = handler[g]
    BY DEF Receive, TypeOK
  <2>3. \A g \in Handler : handler[g].stage # "idle" => handler[g].id \in Mutation
    BY BusyKey
  <2> QED
    BY <2>1, <2>2, <2>3 DEF Sent, TypeOK, Receive, store
<1>3. CASE \E h \in Handler : HandlerStep(h) \/ CommitFails(h) \/ Die(h)
  BY <1>3, CallFrame, BusyKey DEF Sent
<1>4. CASE \E m \in Mutation : Redeliver(m)
  <2>1. \A g \in Handler : handler[g].stage # "idle" => handler[g].id \in Mutation
    BY BusyKey
  <2> QED
    BY <1>4, <2>1 DEF Sent, TypeOK, Redeliver, store
<1>5. CASE UNCHANGED vars
  BY <1>5 DEF Sent, vars
<1> QED
  BY <1>1, <1>2, <1>3, <1>4, <1>5 DEF Next, Done

-----------------------------------------------------------------------------
(* What a call knows.                                                       *)

\* A call that commits has an allowed key, one that writes or has written compared
\* the version it read, and a transaction is never overtaken.
Checked ==
  /\ \A h \in Handler :
        handler[h].stage \in {"committing", "writing", "logging"}
          => KeyOf(handler[h].id) \in Allowed
  /\ \A h \in Handler :
        handler[h].stage \in {"writing", "logging"} =>
          /\ backend = "document"
          /\ proposal[handler[h].id].expected \in {NoCheck, handler[h].version}
  /\ backend = "firestore" => raced = {}

\* What a write of the state does to the keys written from an outdated read.
LEMMA WriteRaced ==
  ASSUME TypeOK, NEW m, NEW v, WriteState(m, v)
  PROVE  /\ v = state[KeyOf(m)].version => raced' = raced
         /\ v # state[KeyOf(m)].version => raced' = raced \union {KeyOf(m)}
  BY DEF WriteState

\* A step of a call checks before it writes.
LEMMA CheckedCall ==
  ASSUME TypeOK, Sent, Checked, NEW h \in Handler,
         HandlerStep(h) \/ CommitFails(h) \/ Die(h)
  PROVE  Checked'
<1> USE DEF HandlerStep, CommitFirestore, Mismatch, Compare, SetState, SetLog, EvaluateRules,
            LogRejection, Acknowledge, CommitFails, Die
<1> DEFINE m == handler[h].id
<1>1. /\ \A g \in Handler : g # h => handler'[g] = handler[g]
      /\ backend' = backend /\ proposal' = proposal
  BY CallFrame
<1>2. handler'[h].stage \in {"committing", "writing", "logging"} =>
        /\ handler'[h].id = m
        /\ handler[h].stage \in {"committing", "writing", "logging"}
  BY CallFrame DEF ToStage, InStage, TypeOK, Idle
<1>3. handler'[h].stage \in {"writing", "logging"} =>
        /\ backend = "document"
        /\ proposal[m].expected \in {NoCheck, handler'[h].version}
  <2>1. handler'[h].stage \in {"writing", "logging"} =>
          \/ Compare(h)
          \/ InStage(h, "writing") /\ handler'[h].version = handler[h].version
    BY CallFrame DEF ToStage, TypeOK, Idle, InStage
  <2>2. Compare(h) => handler'[h].version = state[KeyOf(m)].version
    BY DEF ToStage, TypeOK
  <2>3. Compare(h) => backend = "document" /\ proposal[m].expected \in {NoCheck, state[KeyOf(m)].version}
    BY DEF Matches
  <2>4. InStage(h, "writing") =>
          backend = "document" /\ proposal[m].expected \in {NoCheck, handler[h].version}
    BY DEF Checked, InStage
  <2> QED
    BY <2>1, <2>2, <2>3, <2>4
<1>4. backend = "firestore" => raced' = {}
  <2> SUFFICES ASSUME backend = "firestore" PROVE raced' = {}
    OBVIOUS
  <2>1. ~ InStage(h, "writing")
    BY DEF Checked, InStage
  <2>2. raced' = raced \/ WriteState(m, state[KeyOf(m)].version)
    BY <2>1 DEF store, history
  <2> QED
    BY <2>2, WriteRaced DEF Checked
<1> QED
  BY <1>1, <1>2, <1>3, <1>4 DEF Checked, KeyOf, InStage

\* What a call checked stays so.
LEMMA CheckedStep == TypeOK /\ Sent /\ Checked /\ [Next]_vars => Checked'
<1> SUFFICES ASSUME TypeOK, Sent, Checked, [Next]_vars PROVE Checked'
  OBVIOUS
<1>1. CASE \E m \in Mutation, k \in Key : \E e \in {NoCheck, state[k].version} : Propose(m, k, e)
  <2> PICK m \in Mutation, k \in Key : \E e \in {NoCheck, state[k].version} : Propose(m, k, e)
    BY <1>1
  <2>1. \A n \in Mutation : n # m => proposal'[n] = proposal[n]
    BY DEF Propose, TypeOK
  <2>2. \A h \in Handler : handler[h].stage # "idle" =>
          handler[h].id # m /\ handler[h].id \in Mutation
    BY BusyKey DEF Sent, Propose
  <2>3. handler' = handler /\ backend' = backend /\ raced' = raced
    BY DEF Propose, history
  <2> QED
    BY <2>1, <2>2, <2>3 DEF Checked, KeyOf, InStage
<1>2. CASE \E h \in Handler, m \in Mutation : Receive(h, m)
  <2> PICK h \in Handler, m \in Mutation : Receive(h, m)
    BY <1>2
  <2>1. \A g \in Handler : g # h => handler'[g] = handler[g]
    BY DEF Receive, TypeOK
  <2>2. /\ handler'[h].id = m
        /\ handler'[h].stage \in {"committing", "rejecting"}
        /\ handler'[h].stage = "committing" => KeyOf(m) \in Allowed
    BY DEF Receive, TypeOK
  <2> QED
    BY <2>1, <2>2 DEF Checked, KeyOf, InStage, Receive, store, history
<1>3. CASE \E h \in Handler : HandlerStep(h) \/ CommitFails(h) \/ Die(h)
  BY <1>3, CheckedCall
<1>4. CASE (\E m \in Mutation : Redeliver(m)) \/ UNCHANGED vars
  BY <1>4 DEF Checked, KeyOf, InStage, Redeliver, store, vars
<1> QED
  BY <1>1, <1>2, <1>3, <1>4 DEF Next, Done

-----------------------------------------------------------------------------
(* One winner per version.                                                  *)

\* Mutation m claims version v of its key: it is logged, or about to be.
Claims(m, v) ==
  \/ log[m].status = "accepted" /\ log[m].version = v
  \/ \E h \in Handler :
        InStage(h, "logging") /\ handler[h].id = m /\ handler[h].version + 1 = v

\* A version is claimed once, and only after it was written.
Winner ==
  \A m, n \in Mutation : \A v \in Nat :
    Claims(m, v) /\ KeyOf(m) \notin raced =>
      /\ v <= state[KeyOf(m)].version
      /\ Claims(n, v) /\ KeyOf(n) = KeyOf(m) => m = n

\* Who claims was sent: its key is known.
LEMMA ClaimsKey ==
  ASSUME TypeOK, Sent, NEW m \in Mutation, NEW v \in Nat, Claims(m, v)
  PROVE  bus[m] # "unsent" /\ KeyOf(m) \in Key
<1>1. bus[m] # "unsent"
  BY DEF Claims, Sent, InStage
<1> QED
  BY <1>1 DEF Sent, KeyOf, Proposal

\* A step without a new claim keeps the winners, if versions do not fall.
LEMMA WinnerKept ==
  ASSUME TypeOK, Sent, Winner, raced \subseteq raced',
         \A m \in Mutation : bus[m] # "unsent" => proposal'[m] = proposal[m],
         \A m \in Mutation : \A v \in Nat : Claims(m, v)' => Claims(m, v),
         \A k \in Key : k \notin raced' => state[k].version <= state'[k].version,
         \A k \in Key : state'[k].version \in Nat
  PROVE  Winner'
<1> SUFFICES ASSUME NEW m \in Mutation, NEW n \in Mutation, NEW v \in Nat,
                    Claims(m, v)', KeyOf(m)' \notin raced'
             PROVE  /\ v <= state'[KeyOf(m)'].version
                    /\ Claims(n, v)' /\ KeyOf(n)' = KeyOf(m)' => m = n
  BY DEF Winner
<1>1. Claims(m, v) /\ KeyOf(m) \in Key /\ KeyOf(m)' = KeyOf(m)
  BY ClaimsKey DEF KeyOf
<1>2. v <= state[KeyOf(m)].version /\ state[KeyOf(m)].version \in Nat
  BY <1>1 DEF Winner, TypeOK, State
<1>3. v <= state'[KeyOf(m)].version
  BY <1>1, <1>2
<1>4. ASSUME Claims(n, v)', KeyOf(n)' = KeyOf(m)' PROVE m = n
  <2>1. Claims(n, v) /\ KeyOf(n)' = KeyOf(n)
    BY <1>4, ClaimsKey DEF KeyOf
  <2> QED
    BY <1>1, <1>4, <2>1 DEF Winner
<1> QED
  BY <1>1, <1>3, <1>4

\* A write that makes one new claim makes it alone.
LEMMA WinnerWrite ==
  ASSUME TypeOK, Sent, Winner, NEW w \in Mutation, NEW u \in Nat,
         KeyOf(w) \in Key, WriteState(w, u), proposal' = proposal,
         \A m \in Mutation : \A v \in Nat :
            Claims(m, v)' => Claims(m, v) \/ (m = w /\ v = u + 1)
  PROVE  Winner'
<1> SUFFICES ASSUME NEW m \in Mutation, NEW n \in Mutation, NEW v \in Nat,
                    Claims(m, v)', KeyOf(m)' \notin raced'
             PROVE  /\ v <= state'[KeyOf(m)'].version
                    /\ Claims(n, v)' /\ KeyOf(n)' = KeyOf(m)' => m = n
  BY DEF Winner
<1>1. \A x \in Mutation : KeyOf(x)' = KeyOf(x)
  BY DEF KeyOf
<1>2. /\ state'[KeyOf(w)].version = u + 1
      /\ \A k \in Key : k # KeyOf(w) => state'[k] = state[k]
  BY DEF WriteState, TypeOK
<1>3. \A k \in Key : state[k].version \in Nat
  BY DEF TypeOK, State
<1>4. CASE u # state[KeyOf(w)].version
  <2>1. raced' = raced \union {KeyOf(w)}
    BY <1>4, WriteRaced
  <2>2. KeyOf(m) # KeyOf(w) /\ KeyOf(m) \notin raced
    BY <1>1, <2>1
  <2>3. Claims(m, v) /\ KeyOf(m) \in Key
    BY <2>2, ClaimsKey
  <2>4. v <= state'[KeyOf(m)].version
    BY <1>2, <2>2, <2>3 DEF Winner
  <2>5. ASSUME Claims(n, v)', KeyOf(n)' = KeyOf(m)' PROVE m = n
    <3>1. KeyOf(n) = KeyOf(m) /\ Claims(n, v)
      BY <1>1, <2>2, <2>5
    <3> QED
      BY <2>2, <2>3, <3>1 DEF Winner
  <2> QED
    BY <1>1, <2>4, <2>5
<1>5. CASE u = state[KeyOf(w)].version
  <2>1. raced' = raced /\ KeyOf(m) \notin raced
    BY <1>1, <1>5, WriteRaced
  <2>2. \A x \in Mutation :
          Claims(x, u + 1) /\ KeyOf(x) = KeyOf(w) /\ KeyOf(w) \notin raced => FALSE
    <3> SUFFICES ASSUME NEW x \in Mutation, Claims(x, u + 1), KeyOf(x) = KeyOf(w),
                        KeyOf(w) \notin raced
                 PROVE  FALSE
      OBVIOUS
    <3>1. u + 1 <= state[KeyOf(w)].version
      BY DEF Winner
    <3> QED
      BY <1>5, <3>1
  <2>3. CASE Claims(m, v)
    <3>1. KeyOf(m) \in Key /\ v <= state[KeyOf(m)].version
      BY <2>1, <2>3, ClaimsKey DEF Winner
    <3>2. v <= state'[KeyOf(m)].version
      <4>1. CASE KeyOf(m) = KeyOf(w)
        BY <1>2, <1>3, <1>5, <3>1, <4>1
      <4>2. CASE KeyOf(m) # KeyOf(w)
        BY <1>2, <3>1, <4>2
      <4> QED
        BY <4>1, <4>2
    <3>3. ASSUME Claims(n, v)', KeyOf(n)' = KeyOf(m)' PROVE m = n
      <4>1. KeyOf(n) = KeyOf(m) /\ (Claims(n, v) \/ (n = w /\ v = u + 1))
        BY <1>1, <3>3
      <4>2. CASE Claims(n, v)
        BY <2>1, <2>3, <4>1, <4>2 DEF Winner
      <4>3. CASE n = w /\ v = u + 1
        BY <2>1, <2>2, <2>3, <4>1, <4>3
      <4> QED
        BY <4>1, <4>2, <4>3
    <3> QED
      BY <1>1, <3>2, <3>3
  <2>4. CASE m = w /\ v = u + 1
    <3>1. ASSUME Claims(n, v)', KeyOf(n)' = KeyOf(m)' PROVE m = n
      <4>1. KeyOf(n) = KeyOf(w) /\ (Claims(n, v) \/ n = w)
        BY <1>1, <2>4, <3>1
      <4> QED
        BY <2>1, <2>2, <2>4, <4>1
    <3> QED
      BY <1>1, <1>2, <2>4, <3>1
  <2> QED
    BY <2>3, <2>4
<1> QED
  BY <1>4, <1>5

\* The claims after a step of a call: those of before, and its own entry in the
\* log or its coming one.
LEMMA CallClaims ==
  ASSUME TypeOK, Sent, NEW h \in Handler, HandlerStep(h) \/ CommitFails(h) \/ Die(h),
         NEW m \in Mutation, NEW v \in Nat, Claims(m, v)'
  PROVE  \/ Claims(m, v)
         \/ m = handler[h].id /\ log'[m].status = "accepted" /\ log'[m].version = v
         \/ m = handler[h].id /\ handler'[h].stage = "logging" /\ handler'[h].version + 1 = v
<1>1. CASE \E g \in Handler :
             InStage(g, "logging")' /\ handler'[g].id = m /\ handler'[g].version + 1 = v
  BY <1>1, CallFrame DEF Claims, InStage
<1>2. CASE log'[m].status = "accepted" /\ log'[m].version = v
  BY <1>2, CallFrame DEF Claims
<1> QED
  BY <1>1, <1>2 DEF Claims, InStage

\* An entry a call logs after its write was claimed before.
LEMMA LoggingClaims ==
  ASSUME TypeOK, Sent, NEW h \in Handler, InStage(h, "logging"),
         log' = [log EXCEPT ![handler[h].id] = Accepted(handler[h].version + 1)],
         NEW v \in Nat,
         log'[handler[h].id].status = "accepted", log'[handler[h].id].version = v
  PROVE  Claims(handler[h].id, v)
<1>1. handler[h].id \in Mutation
  BY BusyKey DEF InStage
<1>2. v = handler[h].version + 1
  BY <1>1 DEF Accepted, TypeOK
<1> QED
  BY <1>2 DEF Claims

\* Each step of a call keeps the winners.
LEMMA WinnerCall ==
  ASSUME TypeOK, TypeOK', Sent, Winner, NEW h \in Handler,
         HandlerStep(h) \/ CommitFails(h) \/ Die(h)
  PROVE  Winner'
<1> DEFINE m == handler[h].id
           v == handler[h].version
           w == state[KeyOf(m)].version
<1>1. /\ m \in Mutation /\ v \in Nat /\ w \in Nat /\ KeyOf(m) \in Key
      /\ proposal' = proposal
  BY CallFrame, BusyKey
<1>2. \A x \in Mutation : \A u \in Nat : Claims(x, u)' =>
        \/ Claims(x, u)
        \/ x = m /\ log'[m].status = "accepted" /\ log'[m].version = u
        \/ x = m /\ handler'[h].stage = "logging" /\ handler'[h].version + 1 = u
  BY CallClaims
<1>3. \A k \in Key : state'[k].version \in Nat
  BY DEF TypeOK, State
<1>a. \A k \in Key : state[k].version \in Nat
  BY DEF TypeOK, State
<1>b. ASSUME state' = state, raced' = raced,
             \A x \in Mutation : \A u \in Nat : Claims(x, u)' => Claims(x, u)
      PROVE  Winner'
  <2>1. raced \subseteq raced' /\ \A k \in Key : k \notin raced' => state[k].version <= state'[k].version
    BY <1>a, <1>b
  <2> QED
    BY <1>1, <1>3, <1>b, <2>1, WinnerKept
<1>4. CASE CommitFirestore(h)
  <2>1. handler'[h].stage # "logging"
    BY <1>4 DEF CommitFirestore, ToStage, TypeOK
  <2>2. log'[m].version = w + 1
    BY <1>1, <1>4 DEF CommitFirestore, Accepted, TypeOK
  <2>3. WriteState(m, w)
    BY <1>4 DEF CommitFirestore
  <2>4. \A x \in Mutation : \A u \in Nat : Claims(x, u)' => Claims(x, u) \/ (x = m /\ u = w + 1)
    BY <1>2, <2>1, <2>2
  <2> QED
    BY <1>1, <2>3, <2>4, WinnerWrite
<1>5. CASE Mismatch(h) \/ Compare(h)
  <2>1. log' = log /\ state' = state /\ raced' = raced /\ handler'[h].stage # "logging"
    BY <1>5 DEF Mismatch, Compare, store, history, ToStage, TypeOK
  <2>2. \A x \in Mutation : \A u \in Nat : Claims(x, u)' => Claims(x, u)
    BY <1>2, <2>1 DEF Claims
  <2> QED
    BY <1>b, <2>1, <2>2
<1>6. CASE SetState(h)
  <2>1. log' = log /\ handler'[h].version = v
    BY <1>6 DEF SetState, ToStage, TypeOK
  <2>2. WriteState(m, v)
    BY <1>6 DEF SetState
  <2>3. \A x \in Mutation : \A u \in Nat : Claims(x, u)' => Claims(x, u) \/ (x = m /\ u = v + 1)
    BY <1>2, <2>1 DEF Claims
  <2> QED
    BY <1>1, <2>2, <2>3, WinnerWrite
<1>7. CASE SetLog(h)
  <2>1. state' = state /\ raced' = raced /\ handler'[h].stage # "logging"
    BY <1>7 DEF SetLog, history, ToStage, TypeOK
  <2>2. \A u \in Nat : log'[m].status = "accepted" /\ log'[m].version = u => Claims(m, u)
    BY <1>7, LoggingClaims DEF SetLog
  <2>3. \A x \in Mutation : \A u \in Nat : Claims(x, u)' => Claims(x, u)
    BY <1>2, <2>1, <2>2
  <2> QED
    BY <1>b, <2>1, <2>3
<1>8. CASE EvaluateRules(h) \/ Acknowledge(h) \/ Die(h)
  <2>1. log' = log /\ state' = state /\ raced' = raced /\ handler'[h].stage # "logging"
    BY <1>8 DEF EvaluateRules, Acknowledge, Die, store, ToStage, TypeOK, Idle
  <2>2. \A x \in Mutation : \A u \in Nat : Claims(x, u)' => Claims(x, u)
    BY <1>2, <2>1 DEF Claims
  <2> QED
    BY <1>b, <2>1, <2>2
<1>9. CASE LogRejection(h)
  <2>1. state' = state /\ raced' = raced /\ handler'[h].stage # "logging"
    BY <1>9 DEF LogRejection, ToStage, TypeOK
  <2>2. log' = log \/ log'[m].status = "rejected"
    BY <1>1, <1>9 DEF LogRejection, TypeOK
  <2>3. \A x \in Mutation : \A u \in Nat : Claims(x, u)' => Claims(x, u)
    BY <1>2, <2>1, <2>2 DEF Claims
  <2> QED
    BY <1>b, <2>1, <2>3
<1>10. CASE CommitFails(h)
  <2>1. handler'[h].stage # "logging"
    BY <1>10 DEF CommitFails, ToStage, TypeOK
  <2>2. CASE UNCHANGED <<state, log, applied, raced>>
    <3>1. \A x \in Mutation : \A u \in Nat : Claims(x, u)' => Claims(x, u)
      BY <1>2, <2>1, <2>2 DEF Claims
    <3> QED
      BY <1>b, <2>2, <3>1
  <2>3. CASE WriteState(m, w) /\ log' = [log EXCEPT ![m] = Accepted(w + 1)]
    <3>1. log'[m].version = w + 1
      BY <1>1, <2>3 DEF Accepted, TypeOK
    <3>2. \A x \in Mutation : \A u \in Nat : Claims(x, u)' => Claims(x, u) \/ (x = m /\ u = w + 1)
      BY <1>2, <2>1, <3>1
    <3> QED
      BY <1>1, <2>3, <3>2, WinnerWrite
  <2>4. CASE WriteState(m, v) /\ UNCHANGED log
    <3>1. \A x \in Mutation : \A u \in Nat : Claims(x, u)' => Claims(x, u) \/ (x = m /\ u = v + 1)
      BY <1>2, <2>1, <2>4 DEF Claims
    <3> QED
      BY <1>1, <2>4, <3>1, WinnerWrite
  <2>5. CASE InStage(h, "logging") /\ log' = [log EXCEPT ![m] = Accepted(v + 1)]
             /\ UNCHANGED <<state, applied, raced>>
    <3>1. \A u \in Nat : log'[m].status = "accepted" /\ log'[m].version = u => Claims(m, u)
      BY <2>5, LoggingClaims
    <3>2. \A x \in Mutation : \A u \in Nat : Claims(x, u)' => Claims(x, u)
      BY <1>2, <2>1, <3>1
    <3> QED
      BY <1>b, <2>5, <3>2
  <2> QED
    BY <1>10, <2>2, <2>3, <2>4, <2>5 DEF CommitFails
<1> QED
  BY <1>4, <1>5, <1>6, <1>7, <1>8, <1>9, <1>10 DEF HandlerStep

\* The winners stay.
LEMMA WinnerStep == TypeOK /\ TypeOK' /\ Sent /\ Winner /\ [Next]_vars => Winner'
<1> SUFFICES ASSUME TypeOK, TypeOK', Sent, Winner, [Next]_vars PROVE Winner'
  OBVIOUS
<1>1. \A k \in Key : state[k].version \in Nat
  BY DEF TypeOK, State
<1>2. ASSUME state' = state, raced' = raced, log' = log,
             \A m \in Mutation : bus[m] # "unsent" => proposal'[m] = proposal[m],
             \A h \in Handler : InStage(h, "logging")' => handler'[h] = handler[h]
      PROVE  Winner'
  <2>1. \A m \in Mutation : \A v \in Nat : Claims(m, v)' => Claims(m, v)
    BY <1>2 DEF Claims, InStage
  <2>2. raced \subseteq raced' /\ \A k \in Key : k \notin raced' => state[k].version <= state'[k].version
    BY <1>1, <1>2
  <2>3. \A k \in Key : state'[k].version \in Nat
    BY <1>1, <1>2
  <2> QED
    BY <1>2, <2>1, <2>2, <2>3, WinnerKept
<1>3. CASE \E m \in Mutation, k \in Key : \E e \in {NoCheck, state[k].version} : Propose(m, k, e)
  BY <1>2, <1>3 DEF Propose, TypeOK, history
<1>4. CASE \E h \in Handler, m \in Mutation : Receive(h, m)
  <2> PICK h \in Handler, m \in Mutation : Receive(h, m)
    BY <1>4
  <2>1. \A g \in Handler : g # h => handler'[g] = handler[g]
    BY DEF Receive, TypeOK
  <2>2. handler'[h].stage # "logging"
    BY DEF Receive, TypeOK
  <2> QED
    BY <1>2, <2>1, <2>2 DEF Receive, store, history, InStage
<1>5. CASE \E h \in Handler : HandlerStep(h) \/ CommitFails(h) \/ Die(h)
  BY <1>5, WinnerCall
<1>6. CASE (\E m \in Mutation : Redeliver(m)) \/ UNCHANGED vars
  BY <1>2, <1>6 DEF Redeliver, store, vars
<1> QED
  BY <1>3, <1>4, <1>5, <1>6 DEF Next, Done

-----------------------------------------------------------------------------
(* The expected version of a mutation that was accepted.                    *)

\* Who was accepted with an expectation was the next after what it expected.
Expected ==
  \A m \in Mutation : log[m].status = "accepted" =>
      proposal[m].expected \in {NoCheck, log[m].version - 1}

\* A step of a call accepts what the expectation allows.
LEMMA ExpectedCall ==
  ASSUME TypeOK, Sent, Checked, Expected, NEW h \in Handler,
         HandlerStep(h) \/ CommitFails(h) \/ Die(h)
  PROVE  Expected'
<1> USE DEF HandlerStep, CommitFirestore, Mismatch, Compare, SetState, SetLog, EvaluateRules,
            LogRejection, Acknowledge, CommitFails, Die
<1> DEFINE m == handler[h].id
           v == handler[h].version
           w == state[KeyOf(m)].version
<1>1. m \in Mutation /\ v \in Nat /\ w \in Nat /\ proposal' = proposal
  BY CallFrame, BusyKey
<1>2. \A n \in Mutation : n # m => log'[n] = log[n]
  BY CallFrame
<1>3. \/ log' = log
      \/ log' = [log EXCEPT ![m] = [status |-> "rejected", version |-> 0]]
      \/ Matches(m) /\ log' = [log EXCEPT ![m] = Accepted(w + 1)]
      \/ InStage(h, "logging") /\ log' = [log EXCEPT ![m] = Accepted(v + 1)]
  BY DEF store, history
<1>4. \A u \in Nat : log' = [log EXCEPT ![m] = Accepted(u + 1)] => log'[m].version - 1 = u
  BY <1>1 DEF Accepted, TypeOK
<1>5. log'[m].status = "accepted" => proposal[m].expected \in {NoCheck, log'[m].version - 1}
  <2>1. CASE log' = log
    BY <1>1, <2>1 DEF Expected
  <2>2. CASE log' = [log EXCEPT ![m] = [status |-> "rejected", version |-> 0]]
    BY <1>1, <2>2 DEF TypeOK
  <2>3. CASE Matches(m) /\ log' = [log EXCEPT ![m] = Accepted(w + 1)]
    BY <1>1, <1>4, <2>3 DEF Matches
  <2>4. CASE InStage(h, "logging") /\ log' = [log EXCEPT ![m] = Accepted(v + 1)]
    BY <1>1, <1>4, <2>4 DEF Checked, InStage
  <2> QED
    BY <1>3, <2>1, <2>2, <2>3, <2>4
<1> QED
  BY <1>1, <1>2, <1>5 DEF Expected

\* A mutation that is proposed was not accepted yet, and nothing but a call logs.
LEMMA ExpectedStep == TypeOK /\ Sent /\ Checked /\ Expected /\ [Next]_vars => Expected'
<1> SUFFICES ASSUME TypeOK, Sent, Checked, Expected, [Next]_vars PROVE Expected'
  OBVIOUS
<1>1. CASE \E m \in Mutation, k \in Key : \E e \in {NoCheck, state[k].version} : Propose(m, k, e)
  <2> PICK m \in Mutation, k \in Key : \E e \in {NoCheck, state[k].version} : Propose(m, k, e)
    BY <1>1
  <2>1. log' = log /\ log[m].status = "none"
    BY DEF Propose, Sent
  <2>2. \A n \in Mutation : n # m => proposal'[n] = proposal[n]
    BY DEF Propose, TypeOK
  <2> QED
    BY <2>1, <2>2 DEF Expected
<1>2. CASE \E h \in Handler, m \in Mutation : Receive(h, m)
  BY <1>2 DEF Expected, Receive, store
<1>3. CASE \E h \in Handler : HandlerStep(h) \/ CommitFails(h) \/ Die(h)
  BY <1>3, ExpectedCall
<1>4. CASE (\E m \in Mutation : Redeliver(m)) \/ UNCHANGED vars
  BY <1>4 DEF Expected, Redeliver, store, vars
<1> QED
  BY <1>1, <1>2, <1>3, <1>4 DEF Next, Done

-----------------------------------------------------------------------------
(* What the log tells.                                                      *)

\* The log, the state and the announcements agree about m.
Told(m) ==
  /\ log[m].status # "none"
  /\ log[m].status = "accepted" <=> applied[m] = 1
  /\ log[m].status = "rejected" <=> applied[m] = 0
  /\ announced[m] = IF m \in Announcing THEN applied[m] ELSE 0

Untouched(m) == log[m].status = "none" /\ applied[m] = 0 /\ announced[m] = 0

Holds(h, m) == handler[h].stage # "idle" /\ handler[h].id = m

\* A mutation no fault has touched has one call at most, and what is recorded of
\* it is what that call has done so far.
Truth(m) ==
  /\ bus[m] \in {"unsent", "ready"} => Untouched(m) /\ \A h \in Handler : ~ Holds(h, m)
  /\ bus[m] = "acked" => Told(m) /\ \A h \in Handler : ~ Holds(h, m)
  /\ \A g, h \in Handler : Holds(g, m) /\ Holds(h, m) => g = h
  /\ \A h \in Handler : Holds(h, m) =>
        /\ handler[h].stage \in {"committing", "writing", "rejecting"} => Untouched(m)
        /\ handler[h].stage = "logging" =>
              log[m].status = "none" /\ applied[m] = 1 /\ announced[m] = 0
        /\ handler[h].stage = "evaluating" =>
              log[m].status = "accepted" /\ applied[m] = 1 /\ announced[m] = 0
        /\ handler[h].stage = "ending" => Told(m)

TruthInv == \A m \in Mutation \ disturbed : Truth(m)

\* Counting up from nothing.
LEMMA BumpFacts ==
  ASSUME NEW f \in [Mutation -> 0..2], NEW m \in Mutation
  PROVE  /\ f[m] = 0 => Bump(f, m)[m] = 1
         /\ \A n \in Mutation : n # m => Bump(f, m)[n] = f[n]
  BY DEF Bump

\* A step leaves alone what it does not name.
LEMMA TruthOthers ==
  ASSUME TypeOK, NEW n \in Mutation, Truth(n),
         bus'[n] = bus[n], log'[n] = log[n], applied'[n] = applied[n],
         announced'[n] = announced[n],
         \A h \in Handler : Holds(h, n)' => Holds(h, n) /\ handler'[h] = handler[h]
  PROVE  Truth(n)'
  BY DEF Truth, Told, Untouched, Holds

\* A step of a call tells nothing of other mutations.
LEMMA TruthForeign ==
  ASSUME TypeOK, Sent, NEW h \in Handler, HandlerStep(h) \/ CommitFails(h) \/ Die(h),
         NEW n \in Mutation, n # handler[h].id, Truth(n)
  PROVE  Truth(n)'
<1> USE DEF HandlerStep, CommitFirestore, Mismatch, Compare, SetState, SetLog, EvaluateRules,
            LogRejection, Acknowledge, CommitFails, Die
<1> DEFINE m == handler[h].id
<1>1. m \in Mutation /\ handler[h].stage # "idle"
  BY CallFrame
<1>2. bus'[n] = bus[n]
  BY DEF store, history, TypeOK
<1>3. applied'[n] = applied[n]
  <2>1. applied' = applied \/ applied' = Bump(applied, m)
    BY DEF store, history, WriteState
  <2> QED
    BY <1>1, <2>1, BumpFacts DEF TypeOK
<1>4. announced'[n] = announced[n]
  <2>1. announced' = announced \/ announced' = Bump(announced, m)
    BY DEF store, history
  <2> QED
    BY <1>1, <2>1, BumpFacts DEF TypeOK
<1>5. \A g \in Handler : Holds(g, n)' => Holds(g, n) /\ handler'[g] = handler[g]
  BY CallFrame DEF Holds
<1> QED
  BY <1>2, <1>3, <1>4, <1>5, CallFrame, TruthOthers

\* A step of a call without a fault records what it does.
LEMMA TruthOwn ==
  ASSUME TypeOK, Sent, NEW h \in Handler, HandlerStep(h) \/ CommitFails(h) \/ Die(h),
         NEW m \in Mutation, m = handler[h].id,
         m \notin disturbed', m \notin disturbed, Truth(m)
  PROVE  Truth(m)'
<1>1. /\ handler[h].stage # "idle" /\ Holds(h, m)
      /\ \A g \in Handler : g # h => handler'[g] = handler[g] /\ ~ Holds(g, m) /\ ~ Holds(g, m)'
  BY CallFrame DEF Holds, Truth
<1>2. ~ Fault(m)
  BY DEF Fault
<1>3. ~ CommitFails(h) /\ ~ Die(h)
  BY <1>2 DEF CommitFails, Die
<1>4. bus[m] = "taken"
  BY <1>1 DEF Truth, TypeOK
<1>5. /\ applied[m] = 0 => Bump(applied, m)[m] = 1
      /\ announced[m] = 0 => Bump(announced, m)[m] = 1
  BY BumpFacts DEF TypeOK
<1>6. \A v : log' = [log EXCEPT ![m] = Accepted(v)] => log'[m].status = "accepted"
  BY DEF Accepted, TypeOK
<1>7. \A s, v : ToStage(h, s, v) => handler'[h].stage = s /\ handler'[h].id = m
  BY DEF ToStage, TypeOK
<1>8. CASE CommitFirestore(h)
  <2>1. /\ handler'[h].stage = "evaluating" /\ log'[m].status = "accepted"
        /\ applied'[m] = 1 /\ announced'[m] = 0 /\ bus'[m] = "taken"
    BY <1>1, <1>4, <1>5, <1>6, <1>7, <1>8 DEF CommitFirestore, Truth, Untouched, InStage, WriteState
  <2> QED
    BY <1>1, <2>1 DEF Truth, Holds
<1>9. CASE Mismatch(h) \/ Compare(h)
  <2>1. /\ handler'[h].stage \in {"rejecting", "writing"} /\ Untouched(m)'
        /\ bus'[m] = "taken"
    BY <1>1, <1>4, <1>7, <1>9 DEF Mismatch, Compare, Truth, Untouched, InStage, store, history
  <2> QED
    BY <1>1, <2>1 DEF Truth, Holds
<1>10. CASE SetState(h)
  <2>1. /\ handler'[h].stage = "logging" /\ log'[m].status = "none"
        /\ applied'[m] = 1 /\ announced'[m] = 0 /\ bus'[m] = "taken"
    BY <1>1, <1>4, <1>5, <1>7, <1>10 DEF SetState, Truth, Untouched, InStage, WriteState
  <2> QED
    BY <1>1, <2>1 DEF Truth, Holds
<1>11. CASE SetLog(h)
  <2>1. /\ handler'[h].stage = "evaluating" /\ log'[m].status = "accepted"
        /\ applied'[m] = 1 /\ announced'[m] = 0 /\ bus'[m] = "taken"
    BY <1>1, <1>4, <1>6, <1>7, <1>11 DEF SetLog, Truth, InStage, history
  <2> QED
    BY <1>1, <2>1 DEF Truth, Holds
<1>12. CASE EvaluateRules(h)
  <2>1. /\ handler'[h].stage = "ending" /\ log'[m].status = "accepted"
        /\ applied'[m] = 1 /\ bus'[m] = "taken"
        /\ announced'[m] = IF m \in Announcing THEN 1 ELSE 0
    BY <1>1, <1>2, <1>4, <1>5, <1>7, <1>12 DEF EvaluateRules, Truth, InStage, store
  <2> QED
    BY <1>1, <2>1 DEF Truth, Holds, Told
<1>13. CASE LogRejection(h)
  <2>1. log' = [log EXCEPT ![m] = [status |-> "rejected", version |-> 0]]
    BY <1>2, <1>13 DEF LogRejection
  <2>2. log'[m].status = "rejected"
    BY <2>1 DEF TypeOK
  <2>3. /\ handler'[h].stage = "ending" /\ applied'[m] = 0 /\ announced'[m] = 0
        /\ bus'[m] = "taken"
    BY <1>1, <1>4, <1>7, <1>13 DEF LogRejection, Truth, Untouched, InStage
  <2> QED
    BY <1>1, <2>2, <2>3 DEF Truth, Holds, Told
<1>14. CASE Acknowledge(h)
  <2>1. bus' = [bus EXCEPT ![m] = "acked"] /\ handler' = [handler EXCEPT ![h] = Idle]
    BY <1>2, <1>14 DEF Acknowledge
  <2>2. bus'[m] = "acked" /\ ~ Holds(h, m)'
    BY <2>1 DEF TypeOK, Holds, Idle
  <2>3. Told(m)'
    BY <1>1, <1>14 DEF Acknowledge, Truth, Told, InStage, store
  <2> QED
    BY <1>1, <2>2, <2>3 DEF Truth
<1> QED
  BY <1>3, <1>8, <1>9, <1>10, <1>11, <1>12, <1>13, <1>14 DEF HandlerStep

\* The log keeps telling the truth.
LEMMA TruthStep == TypeOK /\ Sent /\ TruthInv /\ [Next]_vars => TruthInv'
<1> SUFFICES ASSUME TypeOK, Sent, TruthInv, [Next]_vars,
                    NEW n \in Mutation, n \notin disturbed'
             PROVE  Truth(n)'
  BY DEF TruthInv
<1>1. CASE \E m \in Mutation, k \in Key : \E e \in {NoCheck, state[k].version} : Propose(m, k, e)
  <2> PICK m \in Mutation, k \in Key : \E e \in {NoCheck, state[k].version} : Propose(m, k, e)
    BY <1>1
  <2>1. /\ bus[m] = "unsent" /\ bus'[m] = "ready" /\ (n # m => bus'[n] = bus[n])
        /\ UNCHANGED <<log, handler, applied, announced, disturbed>>
    BY DEF Propose, history, TypeOK
  <2>2. Truth(n)
    BY <2>1 DEF TruthInv
  <2> QED
    BY <2>1, <2>2 DEF Truth, Told, Untouched, Holds
<1>2. CASE \E h \in Handler, m \in Mutation : Receive(h, m)
  <2> PICK h \in Handler, m \in Mutation : Receive(h, m)
    BY <1>2
  <2>1. Truth(n) /\ UNCHANGED <<log, applied, announced, disturbed>>
    BY DEF TruthInv, Receive, store, history
  <2>2. \A g \in Handler : g # h => handler'[g] = handler[g]
    BY DEF Receive, TypeOK
  <2>3. handler'[h].id = m /\ handler'[h].stage \in {"committing", "rejecting"}
    BY DEF Receive, TypeOK
  <2>4. CASE n = m
    <3>1. bus[m] = "ready" /\ bus'[m] = "taken"
      BY DEF Receive, TypeOK
    <3> QED
      BY <2>1, <2>2, <2>3, <2>4, <3>1 DEF Truth, Untouched, Holds
  <2>5. CASE n # m
    <3>1. bus'[n] = bus[n] /\ ~ Holds(h, n)'
      BY <2>3, <2>5 DEF Receive, TypeOK, Holds
    <3> QED
      BY <2>1, <2>2, <3>1, TruthOthers DEF Holds
  <2> QED
    BY <2>4, <2>5
<1>3. CASE \E h \in Handler : HandlerStep(h) \/ CommitFails(h) \/ Die(h)
  <2> PICK h \in Handler : HandlerStep(h) \/ CommitFails(h) \/ Die(h)
    BY <1>3
  <2>1. disturbed \subseteq disturbed'
    BY DEF HandlerStep, CommitFirestore, Mismatch, Compare, SetState, SetLog, EvaluateRules,
           LogRejection, Acknowledge, CommitFails, Die, Fault, history
  <2>2. n \notin disturbed /\ Truth(n)
    BY <2>1 DEF TruthInv
  <2> QED
    BY <2>2, TruthForeign, TruthOwn
<1>4. CASE \E m \in Mutation : Redeliver(m)
  <2> PICK m \in Mutation : Redeliver(m)
    BY <1>4
  <2>1. /\ n # m /\ n \notin disturbed /\ bus'[n] = bus[n]
        /\ UNCHANGED <<log, handler, applied, announced>>
    BY DEF Redeliver, Fault, store, TypeOK
  <2> QED
    BY <2>1, TruthOthers DEF TruthInv, Holds
<1>5. CASE UNCHANGED vars
  BY <1>5, TruthOthers DEF TruthInv, Holds, vars
<1> QED
  BY <1>1, <1>2, <1>3, <1>4, <1>5 DEF Next, Done

-----------------------------------------------------------------------------
(* The invariant and what follows from it.                                  *)

Inv == TypeOK /\ Sent /\ Checked /\ Winner /\ Expected /\ TruthInv

\* It holds at first.
LEMMA InvInit == Init => Inv
<1> SUFFICES ASSUME Init PROVE Inv
  OBVIOUS
<1>1. TypeOK
  <2>1. NoEntry \in Entry /\ [version |-> 0, value |-> NoValue] \in State
    BY DEF NoEntry, Entry, State
  <2>2. faults \in 0..MaxFaults
    <3>1. MaxFaults \in Nat
      BY MutationAssumption
    <3> QED
      BY <3>1 DEF Init
  <2> QED
    BY <2>1, <2>2 DEF Init, TypeOK
<1>2. \A h \in Handler : handler[h].stage = "idle"
  BY DEF Init, Idle
<1>3. \A m \in Mutation : log[m].status = "none"
  BY DEF Init, NoEntry
<1>4. Sent
  BY <1>2, <1>3 DEF Init, Sent
<1>5. Checked
  BY <1>2 DEF Init, Checked, InStage
<1>6. Winner
  BY <1>2, <1>3 DEF Winner, Claims, InStage
<1>7. TruthInv
  BY <1>2, <1>3 DEF Init, TruthInv, Truth, Untouched, Holds
<1>8. Expected
  BY <1>3 DEF Expected
<1> QED
  BY <1>1, <1>4, <1>5, <1>6, <1>7, <1>8 DEF Inv

\* It holds of every state.
THEOREM Invariance == Spec => []Inv
<1>1. Inv /\ [Next]_vars => Inv'
  BY TypeStep, SentStep, CheckedStep, WinnerStep, ExpectedStep, TruthStep DEF Inv
<1> QED
  BY InvInit, <1>1, PTL DEF Spec

\* The state of the engine keeps its types.
THEOREM TypeCorrect == Spec => []TypeOK
  BY Invariance, PTL DEF Inv

\* No version of a key has two winners, until the key is raced for.
THEOREM OneWinnerAlways == Spec => []OneWinnerPerVersion
<1>1. Inv => OneWinnerPerVersion
  <2> SUFFICES ASSUME Inv, NEW m \in Mutation, NEW n \in Mutation,
                      log[m].status = "accepted", KeyOf(m) \notin raced
               PROVE  /\ log[m].version <= state[KeyOf(m)].version
                      /\ \/ m = n
                         \/ log[n].status # "accepted"
                         \/ KeyOf(m) # KeyOf(n)
                         \/ log[m].version # log[n].version
    BY DEF OneWinnerPerVersion
  <2>1. log[m].version \in Nat /\ Claims(m, log[m].version)
    BY DEF Inv, TypeOK, Entry, Claims
  <2>2. log[n].status = "accepted" => Claims(n, log[n].version)
    BY DEF Claims
  <2> QED
    BY <2>1, <2>2 DEF Inv, Winner
<1> QED
  BY Invariance, <1>1, PTL

\* Two mutations that expect the same version of a key are not both accepted,
\* until the key is written from an outdated read.
OneAcceptancePerExpectation ==
  \A m, n \in Mutation :
      (/\ m # n /\ log[m].status = "accepted" /\ log[n].status = "accepted"
       /\ KeyOf(m) = KeyOf(n) /\ KeyOf(m) \notin raced
       /\ proposal[m].expected # NoCheck)
      => proposal[m].expected # proposal[n].expected

\* The expected version of commitMutation admits one mutation: the version it
\* names is the one the winner left behind, and no version has two winners.
LEMMA ExpectedOnce == Inv => OneAcceptancePerExpectation
<1> SUFFICES ASSUME Inv, NEW m \in Mutation, NEW n \in Mutation, m # n,
                    KeyOf(m) = KeyOf(n), KeyOf(m) \notin raced,
                    log[m].status = "accepted", log[n].status = "accepted",
                    proposal[m].expected # NoCheck,
                    proposal[m].expected = proposal[n].expected
             PROVE  FALSE
  BY DEF OneAcceptancePerExpectation
<1>1. log[m].version \in Nat /\ log[n].version \in Nat
  BY DEF Inv, TypeOK, Entry
<1>2. log[m].version - 1 = log[n].version - 1
  BY DEF Inv, Expected
<1>3. Claims(m, log[m].version) /\ Claims(n, log[m].version)
  BY <1>1, <1>2 DEF Claims
<1> QED
  BY <1>1, <1>3 DEF Inv, Winner

\* It admits one on either store, as long as nobody wrote the key from an
\* outdated read.
THEOREM OneAcceptanceAlways == Spec => []OneAcceptancePerExpectation
  BY Invariance, ExpectedOnce, PTL

\* The transaction of Firestore reads and writes one version, so no key is ever
\* written from an outdated read, and the claim of the document store's comment
\* holds of Firestore without a condition.
THEOREM FirestoreIsSerial ==
  Spec => [](backend = "firestore" => raced = {} /\ SimilarSemantics)
<1>1. Inv => (backend = "firestore" => raced = {} /\ SimilarSemantics)
  <2> SUFFICES ASSUME Inv, backend = "firestore" PROVE raced = {} /\ SimilarSemantics
    OBVIOUS
  <2>1. raced = {}
    BY DEF Inv, Checked
  <2> QED
    BY <2>1, ExpectedOnce DEF OneAcceptancePerExpectation, SimilarSemantics
<1> QED
  BY Invariance, <1>1, PTL

\* The log of a mutation that no fault touched tells what became of it.
THEOREM LogIsTrue == Spec => []LogTellsTheTruth
<1>1. Inv => LogTellsTheTruth
  BY DEF Inv, TruthInv, Truth, Told, LogTellsTheTruth, Settled
<1> QED
  BY Invariance, <1>1, PTL

-----------------------------------------------------------------------------
(* The engine implements the versioned register.                            *)

\* The register of every key: the row, or nothing that is promised.
Reg == [k \in Key |-> IF k \in raced THEN [version |-> -1] ELSE state[k]]

\* A key that is not raced for is not forfeited.
LEMMA NotForfeited ==
  ASSUME TypeOK, NEW k \in Key, k \notin raced
  PROVE  Reg[k] = state[k] /\ Reg[k] # Promise!Forfeited
<1>1. state[k].version \in Nat
  BY DEF TypeOK, State
<1>2. Promise!Forfeited.version = -1
  BY DEF Promise!Forfeited
<1> QED
  BY <1>1, <1>2 DEF Reg

\* A write from the current version is an acceptance, one from an outdated
\* version forfeits the promise.
LEMMA WritePromise ==
  ASSUME TypeOK, NEW m \in Mutation, NEW v \in Nat, WriteState(m, v),
         proposal[m] \in Proposal, KeyOf(m) \in Allowed,
         proposal[m].expected \in {NoCheck, v},
         v = state[KeyOf(m)].version \/ backend = "document",
         proposal' = proposal, backend' = backend
  PROVE  Promise!Next \/ Reg' = Reg
<1> PICK k \in Key : k = KeyOf(m) /\ k = proposal[m].key
  BY DEF KeyOf, Proposal
<1>2. /\ state' = [state EXCEPT ![k] = [version |-> v + 1, value |-> m]]
      /\ raced \subseteq raced' /\ raced' \subseteq raced \union {k}
  BY DEF WriteState
<1>3. CASE k \in raced
  <2>1. raced' = raced
    BY <1>2, <1>3
  <2>2. \A x \in Key : x \notin raced => state'[x] = state[x]
    BY <1>2, <1>3 DEF TypeOK
  <2> QED
    BY <2>1, <2>2 DEF Reg
<1>4. CASE k \notin raced /\ v = state[k].version
  <2>1. raced' = raced
    BY <1>4, WriteRaced
  <2>2. Reg' = [Reg EXCEPT ![k] = [version |-> v + 1, value |-> m]]
    BY <1>2, <1>4, <2>1 DEF Reg, TypeOK
  <2>3. Reg[k] = state[k] /\ Reg[k] # Promise!Forfeited
    BY <1>4, NotForfeited
  <2>4. proposal[m].proposed
    BY DEF Proposal
  <2>5. Promise!Accept(m)
    BY <1>4, <2>2, <2>3, <2>4 DEF Promise!Accept, Promise!NoCheck, NoCheck, Reg
  <2> QED
    BY <2>5 DEF Promise!Next
<1>5. CASE k \notin raced /\ v # state[k].version
  <2>1. raced' = raced \union {k}
    BY <1>5, WriteRaced
  <2>2. Reg' = [Reg EXCEPT ![k] = [version |-> -1]]
    BY <1>2, <2>1 DEF Reg, TypeOK
  <2>3. backend = "document"
    BY <1>5
  <2>4. Promise!Forfeit(k)
    BY <2>2, <2>3 DEF Promise!Forfeit, Promise!Forfeited, Reg
  <2> QED
    BY <2>4 DEF Promise!Next
<1> QED
  BY <1>3, <1>4, <1>5

\* Every step is a step of the register or leaves it alone.
LEMMA StepPromise ==
  Inv /\ [Next]_vars => [Promise!Next]_<<backend, proposal, Reg>>
<1> SUFFICES ASSUME Inv, [Next]_vars
             PROVE  Promise!Next \/ UNCHANGED <<backend, proposal, Reg>>
  OBVIOUS
<1>1. TypeOK /\ Sent /\ Checked
  BY DEF Inv
<1>2. CASE \E m \in Mutation, k \in Key : \E e \in {NoCheck, state[k].version} : Propose(m, k, e)
  <2> PICK m \in Mutation, k \in Key : \E e \in {NoCheck, state[k].version} : Propose(m, k, e)
    BY <1>2
  <2> PICK e \in {NoCheck, state[k].version} : Propose(m, k, e)
    OBVIOUS
  <2>1. e \in Nat \union {NoCheck}
    BY <1>1 DEF TypeOK, State
  <2>2. [proposed |-> TRUE, key |-> k, expected |-> e] \in Promise!Proposal
    BY <2>1 DEF Promise!Proposal, Promise!NoCheck, NoCheck
  <2>3. /\ proposal'[m] = [proposed |-> TRUE, key |-> k, expected |-> e]
        /\ proposal' = [proposal EXCEPT ![m] = proposal'[m]]
    BY <1>1 DEF Propose, TypeOK
  <2>4. backend' = backend /\ Reg' = Reg
    BY DEF Propose, Reg, history
  <2>5. ~ proposal[m].proposed
    BY <1>1 DEF Propose, Sent, NotProposed
  <2>6. Promise!Propose(m)
    BY <2>2, <2>3, <2>4, <2>5 DEF Promise!Propose, Reg
  <2> QED
    BY <2>6 DEF Promise!Next
<1>3. CASE \E h \in Handler, m \in Mutation : Receive(h, m)
  BY <1>3 DEF Receive, store, history, Reg
<1>4. CASE \E h \in Handler : HandlerStep(h) \/ CommitFails(h) \/ Die(h)
  <2> PICK h \in Handler : HandlerStep(h) \/ CommitFails(h) \/ Die(h)
    BY <1>4
  <2> DEFINE m == handler[h].id
             v == handler[h].version
             w == state[KeyOf(m)].version
  <2>1. /\ backend' = backend /\ proposal' = proposal
        /\ m \in Mutation /\ v \in Nat /\ w \in Nat /\ proposal[m] \in Proposal
    BY <1>1, CallFrame, BusyKey
  <2>2. CASE WriteState(m, w) /\ InStage(h, "committing") /\ Matches(m)
    <3>1. KeyOf(m) \in Allowed /\ proposal[m].expected \in {NoCheck, w}
      BY <1>1, <2>2 DEF Checked, Matches, InStage
    <3> QED
      BY <1>1, <2>1, <2>2, <3>1, WritePromise
  <2>3. CASE WriteState(m, v) /\ InStage(h, "writing")
    <3>1. KeyOf(m) \in Allowed /\ proposal[m].expected \in {NoCheck, v} /\ backend = "document"
      BY <1>1, <2>3 DEF Checked, InStage
    <3> QED
      BY <1>1, <2>1, <2>3, <3>1, WritePromise
  <2>4. CASE UNCHANGED <<state, raced>>
    BY <2>1, <2>4 DEF Reg
  <2> QED
    BY <2>2, <2>3, <2>4 DEF HandlerStep, CommitFirestore, Mismatch, Compare, SetState, SetLog,
       EvaluateRules, LogRejection, Acknowledge, CommitFails, Die, store, history
<1>5. CASE (\E m \in Mutation : Redeliver(m)) \/ UNCHANGED vars
  BY <1>5 DEF Redeliver, store, vars, Reg
<1> QED
  BY <1>2, <1>3, <1>4, <1>5 DEF Next, Done

\* The register starts at version 0 without a value.
LEMMA InitPromise == Init => Promise!Init
<1> SUFFICES ASSUME Init PROVE Promise!Init
  OBVIOUS
<1>1. Reg = [k \in Key |-> [version |-> 0, value |-> Promise!NoValue]]
  BY DEF Init, Reg, NoValue, Promise!NoValue
<1> QED
  BY <1>1 DEF Init, Promise!Init, Reg, NotProposed, Promise!NotProposed

\* The state engine implements the versioned register: outright on Firestore,
\* and on a document store until a key is raced for.
THEOREM EngineImplementsRegister == Spec => ImplementsRegister
<1>1. Inv /\ [Next]_vars
        => [Promise!Next]_<<backend, proposal,
                            [k \in Key |-> IF k \in raced THEN [version |-> -1] ELSE state[k]]>>
  BY StepPromise DEF Reg
<1> QED
  BY Invariance, InitPromise, <1>1, PTL DEF Spec, ImplementsRegister, Promise!Spec

=============================================================================
