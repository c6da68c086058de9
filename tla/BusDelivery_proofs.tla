------------------------ MODULE BusDelivery_proofs -------------------------
(* Theorems about BusDelivery for every value of its constants.             *)
EXTENDS BusDelivery, TLAPS

-----------------------------------------------------------------------------
(* Copies.                                                                  *)

\* A copy in a stage is a delivered copy: it names a process and a message.
LEMMA StagedCopy ==
    ASSUME TypeOK, NEW c \in Copy, copy[c].pc \in Stage
    PROVE  /\ copy[c] \in [pc : Stage, proc : Proc, msg : Msg]
           /\ copy[c].proc \in Proc
           /\ copy[c].msg \in Msg
           /\ Serving(c) \in Service
<1>1. copy[c] \in CopyState
  BY DEF TypeOK
<1>2. copy[c] # Free
  BY DEF Free, Stage
<1>3. copy[c] \in [pc : Stage, proc : Proc, msg : Msg]
  BY <1>1, <1>2 DEF CopyState
<1>4. copy[c].proc \in Proc /\ copy[c].msg \in Msg
  BY <1>3
<1> QED
  BY <1>3, <1>4, DeliveryAssumption DEF Serving, DeliveryAssumption

\* Moving a delivered copy to a stage, and giving it back, keep the type.
LEMMA AdvanceType ==
    ASSUME TypeOK, NEW c \in Copy, copy[c].pc \in Stage,
           NEW stage \in Stage, Advance(c, stage)
    PROVE  copy' \in [Copy -> CopyState]
<1>1. copy[c] \in [pc : Stage, proc : Proc, msg : Msg]
  BY StagedCopy
<1>2. [copy[c] EXCEPT !.pc = stage] \in CopyState
  BY <1>1 DEF CopyState
<1> QED
  BY <1>2 DEF TypeOK, Advance

LEMMA ReleaseType ==
    ASSUME TypeOK, NEW c \in Copy, Release(c)
    PROVE  copy' \in [Copy -> CopyState]
BY DEF TypeOK, Release, CopyState

\* An answer keeps the type of the broker and the bound on faults.
LEMMA AckType ==
    ASSUME TypeOK, NEW c \in Copy, copy[c].pc \in Stage, Ack(c)
    PROVE  /\ broker' \in [Service -> [Msg -> BrokerState]]
           /\ faults' \in 0..MaxFaults
<1>1. Serving(c) \in Service /\ copy[c].msg \in Msg
  BY StagedCopy
<1>2. broker' \in [Service -> [Msg -> BrokerState]]
  <2>1. CASE broker' = [broker EXCEPT ![Serving(c)][copy[c].msg] = "acked"]
    BY <1>1, <2>1 DEF TypeOK, BrokerState
  <2>2. CASE UNCHANGED broker
    BY <2>2 DEF TypeOK
  <2> QED
    BY <2>1, <2>2 DEF Ack
<1>3. faults' \in 0..MaxFaults
  <2>1. CASE UNCHANGED faults
    BY <2>1 DEF TypeOK
  <2>2. CASE Fault
    BY <2>2, DeliveryAssumption DEF Fault, TypeOK, DeliveryAssumption
  <2> QED
    BY <2>1, <2>2 DEF Ack
<1> QED
  BY <1>2, <1>3

LEMMA NackType ==
    ASSUME TypeOK, NEW c \in Copy, copy[c].pc \in Stage, Nack(c)
    PROVE  broker' \in [Service -> [Msg -> BrokerState]]
<1>1. Serving(c) \in Service /\ copy[c].msg \in Msg
  BY StagedCopy
<1> QED
  BY <1>1 DEF Nack, TypeOK, BrokerState

LEMMA RecordType ==
    ASSUME TypeOK, NEW c \in Copy, copy[c].pc \in Stage,
           NEW end \in Outcome, Record(c, end)
    PROVE  outcome' \in [Service -> [Msg -> SUBSET Outcome]]
<1>1. Serving(c) \in Service /\ copy[c].msg \in Msg
  BY StagedCopy
<1>2. outcome[Serving(c)][copy[c].msg] \union {end} \in SUBSET Outcome
  BY <1>1 DEF TypeOK
<1> QED
  BY <1>1, <1>2 DEF Record, TypeOK

\* The keys of a delivered copy.
LEMMA CopyKeys ==
    ASSUME TypeOK, NEW c \in Copy, copy[c].pc \in Stage
    PROVE  KeyOfCopy(c) \in Keys /\ RedisKeyOfCopy(c) \in RedisKeys
BY StagedCopy DEF KeyOfCopy, RedisKeyOfCopy, Keys, RedisKeys

-----------------------------------------------------------------------------
(* Type correctness.                                                        *)

LEMMA InitType == Init => TypeOK
BY DeliveryAssumption
   DEF Init, TypeOK, CopyState, BrokerState, DeliveryAssumption

LEMMA NextType ==
    TypeOK /\ [Next]_vars => TypeOK'
<1> SUFFICES ASSUME TypeOK, [Next]_vars
             PROVE  TypeOK'
  OBVIOUS
<1> USE DeliveryAssumption
<1>1. ASSUME NEW c \in Copy, NEW p \in Proc, NEW m \in Msg, Deliver(c, p, m)
      PROVE  TypeOK'
  <2>1. [pc |-> "buffered", proc |-> p, msg |-> m] \in CopyState
    BY DEF CopyState, Stage
  <2>2. copy' \in [Copy -> CopyState]
    BY <1>1, <2>1 DEF Deliver, TypeOK
  <2>3. broker' \in [Service -> [Msg -> BrokerState]]
    BY <1>1 DEF Deliver, TypeOK, BrokerState, DeliveryAssumption
  <2> QED
    BY <1>1, <2>2, <2>3 DEF Deliver, TypeOK
<1>2. ASSUME NEW s \in Service, NEW m \in Msg, AckWaitEnds(s, m)
      PROVE  TypeOK'
  BY <1>2 DEF AckWaitEnds, TypeOK, BrokerState
<1>3. ASSUME NEW s \in Service, NEW m \in Msg, LeaseLapses(s, m)
      PROVE  TypeOK'
  BY <1>3 DEF LeaseLapses, Fault, TypeOK, BrokerState, DeliveryAssumption
<1>4. ASSUME NEW c \in Copy, DropDuplicate(c)
      PROVE  TypeOK'
  <2>1. copy[c].pc \in Stage
    BY <1>4 DEF DropDuplicate, InStage, Stage
  <2> QED
    BY <1>4, <2>1, AckType, ReleaseType DEF DropDuplicate, TypeOK
<1>5. ASSUME NEW c \in Copy, Admit(c)
      PROVE  TypeOK'
  <2>1. copy[c].pc \in Stage
    BY <1>5 DEF Admit, InStage, Stage
  <2>2. copy' \in [Copy -> CopyState]
    BY <1>5, <2>1, AdvanceType DEF Admit, Stage
  <2>3. copy[c].proc \in Proc /\ KeyOfCopy(c) \in Keys
    BY <2>1, StagedCopy, CopyKeys
  <2>4. seen' \in [Proc -> SUBSET Keys]
    BY <1>5, <2>3 DEF Admit, TypeOK
  <2>5. dispatched' \in [Proc -> [Keys -> Nat]]
    BY <1>5, <2>3 DEF Admit, TypeOK
  <2> QED
    BY <1>5, <2>2, <2>4, <2>5 DEF Admit, TypeOK
<1>6. ASSUME NEW c \in Copy, WrapperStep(c)
      PROVE  TypeOK'
  <2>0. copy[c].pc \in Stage
    BY <1>6 DEF WrapperStep, RejectMalformed, StartUnguarded, StartFresh,
                SkipDuplicate, StartFailOpen, InStage, Stage
  <2>1. RedisKeyOfCopy(c) \in RedisKeys
    BY <2>0, CopyKeys
  <2>2. CASE RejectMalformed(c)
    BY <2>0, <2>2, AckType, ReleaseType, RecordType
       DEF RejectMalformed, TypeOK, Outcome
  <2>3. CASE StartUnguarded(c)
    BY <2>0, <2>3, AdvanceType DEF StartUnguarded, TypeOK, Stage
  <2>4. CASE StartFresh(c)
    <3>1. copy' \in [Copy -> CopyState]
      BY <2>0, <2>4, AdvanceType DEF StartFresh, Stage
    <3>2. redis' \in SUBSET RedisKeys /\ guarded' \in [RedisKeys -> Nat]
      BY <2>1, <2>4 DEF StartFresh, TypeOK
    <3> QED
      BY <2>4, <3>1, <3>2 DEF StartFresh, TypeOK
  <2>5. CASE SkipDuplicate(c)
    BY <2>0, <2>5, AckType, ReleaseType DEF SkipDuplicate, TypeOK
  <2>6. CASE StartFailOpen(c)
    <3>1. copy' \in [Copy -> CopyState]
      BY <2>0, <2>6, AdvanceType DEF StartFailOpen, Stage
    <3>2. /\ redis' \in SUBSET RedisKeys
          /\ guarded' \in [RedisKeys -> Nat]
          /\ lapses' \in [RedisKeys -> Nat]
      BY <2>1, <2>6 DEF StartFailOpen, TypeOK
    <3>3. faults' \in 0..MaxFaults
      BY <2>6 DEF StartFailOpen, Fault, TypeOK, DeliveryAssumption
    <3> QED
      BY <2>6, <3>1, <3>2, <3>3 DEF StartFailOpen, TypeOK
  <2> QED
    BY <1>6, <2>2, <2>3, <2>4, <2>5, <2>6 DEF WrapperStep
<1>7. ASSUME NEW c \in Copy, HandlerStep(c)
      PROVE  TypeOK'
  <2>0. copy[c].pc \in Stage
    BY <1>7 DEF HandlerStep, Act, AnswerAck, AnswerNack, GiveUp, QosTimeout,
                EndLate, InStage, Stage
  <2>1. CASE Act(c)
    BY <2>0, <2>1, AdvanceType, RecordType DEF Act, TypeOK, Outcome, Stage
  <2>2. CASE AnswerAck(c)
    BY <2>0, <2>2, AckType, ReleaseType DEF AnswerAck, TypeOK
  <2>3. CASE AnswerNack(c)
    BY <2>0, <2>3, NackType, ReleaseType, RecordType DEF AnswerNack, TypeOK, Outcome
  <2>4. CASE GiveUp(c)
    BY <2>0, <2>4, AckType, ReleaseType, RecordType DEF GiveUp, TypeOK, Outcome
  <2>5. CASE QosTimeout(c)
    BY <2>0, <2>5, AckType, AdvanceType, RecordType
       DEF QosTimeout, TypeOK, Outcome, Stage
  <2>6. CASE EndLate(c)
    BY <2>0, <2>6, ReleaseType, RecordType DEF EndLate, TypeOK, Outcome
  <2> QED
    BY <1>7, <2>1, <2>2, <2>3, <2>4, <2>5, <2>6 DEF HandlerStep
<1>8. ASSUME NEW p \in Proc, Crash(p)
      PROVE  TypeOK'
  <2>1. copy' \in [Copy -> CopyState]
    BY <1>8 DEF Crash, TypeOK, CopyState
  <2>2. seen' \in [Proc -> SUBSET Keys] /\ faults' \in 0..MaxFaults
    BY <1>8 DEF Crash, Fault, TypeOK, DeliveryAssumption
  <2>3. forgotten' \in [Proc -> [Keys -> Nat]]
    BY <1>8 DEF Crash, TypeOK
  <2>4. outcome' \in [Service -> [Msg -> SUBSET Outcome]]
    BY <1>8 DEF Crash, TypeOK, Outcome
  <2> QED
    BY <1>8, <2>1, <2>2, <2>3, <2>4 DEF Crash, TypeOK
<1>9. ASSUME NEW p \in Proc, NEW k \in Keys, ForgetKey(p, k)
      PROVE  TypeOK'
  BY <1>9 DEF ForgetKey, Fault, TypeOK, DeliveryAssumption
<1>10. ASSUME NEW r \in RedisKeys, RedisExpires(r)
       PROVE  TypeOK'
  BY <1>10 DEF RedisExpires, Fault, TypeOK, DeliveryAssumption
<1>11. CASE UNCHANGED vars
  BY <1>11 DEF vars, TypeOK
<1> QED
  BY <1>1, <1>2, <1>3, <1>4, <1>5, <1>6, <1>7, <1>8, <1>9, <1>10, <1>11
     DEF Next, BrokerStep, DriverStep, FaultStep, Drained

\* The variables of the delivery path keep their types.
THEOREM TypeCorrect == Spec => []TypeOK
BY InitType, NextType, PTL DEF Spec

-----------------------------------------------------------------------------
(* The per-process guard.  A process has let a key through exactly as often *)
(* as its store lost the key, and once more while the store holds it.       *)

DispatchBalance ==
    \A p \in Proc, k \in Keys :
        dispatched[p][k] = forgotten[p][k] + (IF k \in seen[p] THEN 1 ELSE 0)

LEMMA DispatchStep ==
    TypeOK /\ DispatchBalance /\ [Next]_vars => DispatchBalance'
<1> SUFFICES ASSUME TypeOK, DispatchBalance, [Next]_vars,
                    NEW p \in Proc, NEW k \in Keys
             PROVE  dispatched'[p][k] =
                        forgotten'[p][k] + (IF k \in seen'[p] THEN 1 ELSE 0)
  BY DEF DispatchBalance
<1>1. dispatched[p][k] = forgotten[p][k] + (IF k \in seen[p] THEN 1 ELSE 0)
  BY DEF DispatchBalance
<1>2. dispatched[p][k] \in Nat /\ forgotten[p][k] \in Nat
  BY DEF TypeOK
<1>3. ASSUME NEW c \in Copy, Admit(c)
      PROVE  dispatched'[p][k] =
                 forgotten'[p][k] + (IF k \in seen'[p] THEN 1 ELSE 0)
  BY <1>1, <1>2, <1>3 DEF Admit, TypeOK
<1>4. ASSUME NEW q \in Proc, Crash(q)
      PROVE  dispatched'[p][k] =
                 forgotten'[p][k] + (IF k \in seen'[p] THEN 1 ELSE 0)
  BY <1>1, <1>2, <1>4 DEF Crash, TypeOK
<1>5. ASSUME NEW q \in Proc, NEW l \in Keys, ForgetKey(q, l)
      PROVE  dispatched'[p][k] =
                 forgotten'[p][k] + (IF k \in seen'[p] THEN 1 ELSE 0)
  BY <1>1, <1>2, <1>5 DEF ForgetKey, TypeOK
<1>6. CASE UNCHANGED <<dispatched, forgotten, seen>>
  BY <1>1, <1>6
<1> QED
  BY <1>3, <1>4, <1>5, <1>6
     DEF Next, BrokerStep, DriverStep, WrapperStep, HandlerStep, FaultStep,
         Deliver, AckWaitEnds, LeaseLapses, DropDuplicate, RejectMalformed,
         StartUnguarded, StartFresh, SkipDuplicate, StartFailOpen, Act,
         AnswerAck, AnswerNack, GiveUp, QosTimeout, EndLate, RedisExpires,
         Drained, vars

\* A process dispatches one key at most once per memory of it, whatever the
\* broker redelivers and however the handlers answer (dedupe.ts:96-126).
THEOREM DispatchBound == Spec => []DispatchedOncePerMemory
<1>1. Init => DispatchBalance
  BY DEF Init, DispatchBalance
<1>2. TypeOK /\ DispatchBalance => DispatchedOncePerMemory
  BY DEF TypeOK, DispatchBalance, DispatchedOncePerMemory
<1> QED
  BY <1>1, <1>2, DispatchStep, TypeCorrect, PTL DEF Spec

-----------------------------------------------------------------------------
(* The cross-process guard.  Handlers started behind the check are paid for *)
(* by the lapses of the key, except the one the key now in Redis stands for.*)

GuardBalance ==
    \A r \in RedisKeys :
        guarded[r] <= lapses[r] + (IF r \in redis THEN 1 ELSE 0)

LEMMA GuardStep ==
    TypeOK /\ GuardBalance /\ [Next]_vars => GuardBalance'
<1> SUFFICES ASSUME TypeOK, GuardBalance, [Next]_vars, NEW r \in RedisKeys
             PROVE  guarded'[r] <= lapses'[r] + (IF r \in redis' THEN 1 ELSE 0)
  BY DEF GuardBalance
<1>1. guarded[r] <= lapses[r] + (IF r \in redis THEN 1 ELSE 0)
  BY DEF GuardBalance
<1>2. guarded[r] \in Nat /\ lapses[r] \in Nat
  BY DEF TypeOK
<1>3. ASSUME NEW c \in Copy, StartFresh(c)
      PROVE  guarded'[r] <= lapses'[r] + (IF r \in redis' THEN 1 ELSE 0)
  BY <1>1, <1>2, <1>3 DEF StartFresh, TypeOK
<1>4. ASSUME NEW c \in Copy, StartFailOpen(c)
      PROVE  guarded'[r] <= lapses'[r] + (IF r \in redis' THEN 1 ELSE 0)
  BY <1>1, <1>2, <1>4 DEF StartFailOpen, TypeOK
<1>5. ASSUME NEW q \in RedisKeys, RedisExpires(q)
      PROVE  guarded'[r] <= lapses'[r] + (IF r \in redis' THEN 1 ELSE 0)
  BY <1>1, <1>2, <1>5 DEF RedisExpires, TypeOK
<1>6. CASE UNCHANGED <<guarded, lapses, redis>>
  BY <1>1, <1>6
<1> QED
  BY <1>3, <1>4, <1>5, <1>6
     DEF Next, BrokerStep, DriverStep, WrapperStep, HandlerStep, FaultStep,
         Deliver, AckWaitEnds, LeaseLapses, DropDuplicate, Admit,
         RejectMalformed, StartUnguarded, SkipDuplicate, Act, AnswerAck,
         AnswerNack, GiveUp, QosTimeout, EndLate, Crash, ForgetKey, Drained, vars

\* All replicas of all guarded services together start one handler per Redis
\* key, plus one per expiry or failed-open check (idempotency-middleware.ts).
THEOREM GuardBound == Spec => []GuardedOncePerKey
<1>1. Init => GuardBalance
  BY DEF Init, GuardBalance
<1>2. TypeOK /\ GuardBalance => GuardedOncePerKey
  BY DEF TypeOK, GuardBalance, GuardedOncePerKey
<1> QED
  BY <1>1, <1>2, GuardStep, TypeCorrect, PTL DEF Spec
-----------------------------------------------------------------------------
(* Acks.  A service takes a message off the broker only after it was tried, *)
(* or, behind the Redis check, after a run was started under its key.       *)

\* None of the spellings buildDedupeKey looks up survives normalizeAttributes,
\* so the key of a message is its transport id.
LEMMA KeyIsTransportId ==
    ASSUME NEW m \in Msg
    PROVE  DedupeKey(m) = <<"id", m>>
<1>1. WireNames = {"correlationid", "idempotencykey", "type", "source"}
  BY DEF WireNames, WireName, PublishedNames
<1>2. IdempotencySpellings \intersect WireNames = {}
  BY <1>1 DEF IdempotencySpellings
<1>3. CorrelationSpellings \intersect WireNames = {}
  BY <1>1 DEF CorrelationSpellings
<1> QED
  BY <1>2, <1>3 DEF DedupeKey

LEMMA KeyInjective ==
    ASSUME NEW m \in Msg, NEW n \in Msg, DedupeKey(m) = DedupeKey(n)
    PROVE  m = n
BY KeyIsTransportId

Tried(s, m) == outcome[s][m] # {} \/ InFlight(s, m)
Covered(s, m) == Tried(s, m) \/ KeyWasUsed(s, m)

AckedTried ==
    \A s \in Service, m \in Msg : broker[s][m] = "acked" => Covered(s, m)

\* What the dedupe store remembers was tried by this process's service, or
\* skipped under a key that was used.
SeenTried ==
    \A p \in Proc, m \in Msg :
        DedupeKey(m) \in seen[p] => Covered(ServiceOf[p], m)

\* A run was started under every key in Redis.
KeyStarted(r) ==
    \E t \in Idempotent, n \in HasCorrelation : RedisKey(t, n) = r /\ Started(t, n)

RedisStarted == \A r \in redis : KeyStarted(r)

\* A run that has acted, or was timed out, has left its mark.
RunsRecorded ==
    \A c \in Copy :
        InStage(c, {"acted", "late"}) => outcome[Serving(c)][copy[c].msg] # {}

TriedInv == AckedTried /\ SeenTried /\ RedisStarted /\ RunsRecorded

\* Marks are never taken back.
LEMMA OutcomeGrows ==
    ASSUME TypeOK, [Next]_vars, NEW s \in Service, NEW m \in Msg
    PROVE  outcome[s][m] \subseteq outcome'[s][m]
<1>1. ASSUME NEW c \in Copy, NEW end \in Outcome, Record(c, end)
      PROVE  outcome[s][m] \subseteq outcome'[s][m]
  BY <1>1 DEF Record, TypeOK
<1>2. ASSUME NEW p \in Proc, Crash(p)
      PROVE  outcome[s][m] \subseteq outcome'[s][m]
  BY <1>2 DEF Crash, TypeOK
<1>3. CASE UNCHANGED outcome
  BY <1>3
<1>4. \A c \in Copy : WrapperStep(c) =>
          Record(c, "gaveUp") \/ UNCHANGED outcome
  BY DEF WrapperStep, RejectMalformed, StartUnguarded, StartFresh,
         SkipDuplicate, StartFailOpen
<1>5. \A c \in Copy : HandlerStep(c) =>
          \/ Record(c, "done") \/ Record(c, "nacked") \/ Record(c, "gaveUp")
          \/ UNCHANGED outcome
  BY DEF HandlerStep, Act, AnswerAck, AnswerNack, GiveUp, QosTimeout, EndLate
<1>6. {"done", "nacked", "gaveUp"} \subseteq Outcome
  BY DEF Outcome
<1> QED
  BY <1>1, <1>2, <1>3, <1>4, <1>5, <1>6
     DEF Next, BrokerStep, DriverStep, FaultStep, Deliver, AckWaitEnds,
         LeaseLapses, DropDuplicate, Admit, ForgetKey, RedisExpires, Drained, vars
\* A copy at work either stays at work, and does not go back before the call
\* of the handler, or leaves a mark when it goes; only a copy that is skipped
\* under a key in Redis leaves none.
LEMMA WorkLeavesMark ==
    ASSUME TypeOK, RunsRecorded, [Next]_vars,
           NEW c \in Copy, InStage(c, Working)
    PROVE  \/ outcome'[Serving(c)][copy[c].msg] # {}
           \/ /\ copy'[c].pc \in Working
              /\ copy[c].pc \in Handling => copy'[c].pc \in Handling
              /\ copy'[c].proc = copy[c].proc
              /\ copy'[c].msg = copy[c].msg
           \/ SkipDuplicate(c)
<1> DEFINE Stays == /\ copy'[c].pc \in Working
                    /\ copy[c].pc \in Handling => copy'[c].pc \in Handling
                    /\ copy'[c].proc = copy[c].proc
                    /\ copy'[c].msg = copy[c].msg
           Goal == \/ outcome'[Serving(c)][copy[c].msg] # {}
                   \/ Stays
                   \/ SkipDuplicate(c)
<1>0. /\ copy[c].pc \in Stage
      /\ copy[c] \in [pc : Stage, proc : Proc, msg : Msg]
      /\ Serving(c) \in Service
      /\ copy[c].msg \in Msg
      /\ copy[c] # Free
  <2>1. copy[c].pc \in Stage
    BY DEF InStage, Working, Attended, Stage
  <2> QED
    BY <2>1, StagedCopy DEF Free, Stage
<1>1. CASE copy'[c] = copy[c]
  BY <1>1 DEF InStage
<1>2. ASSUME NEW d \in Copy, d # c, copy' = [copy EXCEPT ![d] = Free]
      PROVE  Goal
  BY <1>1, <1>2 DEF TypeOK
<1>3. ASSUME NEW d \in Copy, NEW stage \in Working, Advance(d, stage),
             copy[d].pc \in Handling => stage \in Handling
      PROVE  Goal
  BY <1>0, <1>1, <1>3 DEF Advance, TypeOK, InStage
<1>4. ASSUME NEW end \in Outcome, Record(c, end)
      PROVE  Goal
  BY <1>0, <1>4 DEF Record, TypeOK
<1>5. CASE outcome[Serving(c)][copy[c].msg] # {}
  BY <1>0, <1>5, OutcomeGrows
<1>6. ASSUME NEW d \in Copy, NEW p \in Proc, NEW m \in Msg, Deliver(d, p, m)
      PROVE  Goal
  BY <1>0, <1>1, <1>6 DEF Deliver, TypeOK
<1>7. ASSUME NEW d \in Copy, DriverStep(d)
      PROVE  Goal
  <2>1. CASE d = c
    BY <1>7, <2>1 DEF DriverStep, DropDuplicate, Admit, InStage, Working, Attended
  <2>2. CASE d # c
    <3>1. CASE DropDuplicate(d)
      BY <1>2, <2>2, <3>1 DEF DropDuplicate, Release
    <3>2. CASE Admit(d)
      BY <1>3, <3>2 DEF Admit, InStage, Working, Attended, Handling
    <3> QED
      BY <1>7, <3>1, <3>2 DEF DriverStep
  <2> QED
    BY <2>1, <2>2
<1>8. ASSUME NEW d \in Copy, WrapperStep(d)
      PROVE  Goal
  <2>1. CASE RejectMalformed(d)
    BY <1>2, <1>4, <2>1 DEF RejectMalformed, Release, Outcome
  <2>2. CASE SkipDuplicate(d)
    BY <1>2, <2>2 DEF SkipDuplicate, Release
  <2>3. CASE StartUnguarded(d) \/ StartFresh(d) \/ StartFailOpen(d)
    BY <1>3, <2>3
       DEF StartUnguarded, StartFresh, StartFailOpen, Working, Attended, Handling
  <2> QED
    BY <1>8, <2>1, <2>2, <2>3 DEF WrapperStep
<1>9. ASSUME NEW d \in Copy, HandlerStep(d)
      PROVE  Goal
  <2>1. CASE Act(d) \/ QosTimeout(d)
    BY <1>3, <2>1 DEF Act, QosTimeout, Working, Attended, Handling
  <2>2. CASE AnswerAck(d) \/ EndLate(d)
    <3>1. CASE d = c
      BY <1>5, <2>2, <3>1 DEF AnswerAck, EndLate, RunsRecorded, InStage
    <3>2. CASE d # c
      BY <1>2, <2>2, <3>2 DEF AnswerAck, EndLate, Release
    <3> QED
      BY <3>1, <3>2
  <2>3. CASE AnswerNack(d) \/ GiveUp(d)
    BY <1>2, <1>4, <2>3 DEF AnswerNack, GiveUp, Release, Outcome
  <2> QED
    BY <1>9, <2>1, <2>2, <2>3 DEF HandlerStep
<1>10. ASSUME NEW p \in Proc, Crash(p)
       PROVE  Goal
  <2>1. CASE copy[c].proc = p
    BY <1>0, <1>10, <2>1 DEF Crash
  <2>2. CASE copy[c].proc # p
    BY <1>1, <1>10, <2>2 DEF Crash
  <2> QED
    BY <2>1, <2>2
<1>11. CASE UNCHANGED copy
  BY <1>1, <1>11
<1> QED
  BY <1>6, <1>7, <1>8, <1>9, <1>10, <1>11
     DEF Next, BrokerStep, FaultStep, AckWaitEnds, LeaseLapses, ForgetKey,
         RedisExpires, Drained, vars

\* That a run was started is never taken back, and so is the use of a key.
LEMMA StartedStable ==
    ASSUME TypeOK, RunsRecorded, [Next]_vars,
           NEW t \in Service, NEW m \in Msg, Started(t, m)
    PROVE  Started(t, m)'
<1>1. CASE outcome[t][m] # {}
  BY <1>1, OutcomeGrows DEF Started
<1>2. ASSUME NEW c \in Copy, InStage(c, Handling), copy[c].msg = m, Serving(c) = t
      PROVE  Started(t, m)'
  <2>1. InStage(c, Working) /\ ~ SkipDuplicate(c)
    BY <1>2 DEF InStage, Working, Attended, Handling, SkipDuplicate
  <2>2. \/ outcome'[t][m] # {}
        \/ /\ copy'[c].pc \in Handling
           /\ copy'[c].proc = copy[c].proc
           /\ copy'[c].msg = m
    BY <1>2, <2>1, WorkLeavesMark DEF InStage
  <2> QED
    BY <1>2, <2>2 DEF Started, InStage, Serving
<1> QED
  BY <1>1, <1>2 DEF Started

LEMMA KeyStable ==
    ASSUME TypeOK, RunsRecorded, [Next]_vars
    PROVE  /\ \A r : KeyStarted(r) => KeyStarted(r)'
           /\ \A s \in Service, m \in Msg : KeyWasUsed(s, m) => KeyWasUsed(s, m)'
<1>1. Idempotent \subseteq Service /\ HasCorrelation \subseteq Msg
  BY DeliveryAssumption DEF DeliveryAssumption
<1>2. ASSUME NEW r, KeyStarted(r)
      PROVE  KeyStarted(r)'
  <2>1. PICK t \in Idempotent, n \in HasCorrelation :
            RedisKey(t, n) = r /\ Started(t, n)
    BY <1>2 DEF KeyStarted
  <2>2. Started(t, n)'
    BY <1>1, <2>1, StartedStable
  <2> QED
    BY <2>1, <2>2 DEF KeyStarted, RedisKey
<1>3. ASSUME NEW s \in Service, NEW m \in Msg, KeyWasUsed(s, m)
      PROVE  KeyWasUsed(s, m)'
  <2>1. PICK t \in Idempotent, n \in HasCorrelation :
            RedisKey(t, n) = RedisKey(s, m) /\ Started(t, n)
    BY <1>3 DEF KeyWasUsed
  <2>2. Started(t, n)'
    BY <1>1, <2>1, StartedStable
  <2> QED
    BY <1>3, <2>1, <2>2 DEF KeyWasUsed, RedisKey
<1> QED
  BY <1>2, <1>3

\* A copy is skipped only under a key that was used.
LEMMA SkippedKeyUsed ==
    ASSUME TypeOK, RedisStarted, NEW c \in Copy, SkipDuplicate(c)
    PROVE  KeyWasUsed(Serving(c), copy[c].msg)
<1>1. /\ Serving(c) \in Idempotent
      /\ copy[c].msg \in HasCorrelation
      /\ RedisKey(Serving(c), copy[c].msg) \in redis
  BY DEF SkipDuplicate, UsesRedis, RedisKeyOfCopy
<1> QED
  BY <1>1 DEF RedisStarted, KeyStarted, KeyWasUsed

LEMMA CoveredStable ==
    ASSUME TypeOK, TriedInv, [Next]_vars,
           NEW s \in Service, NEW m \in Msg, Covered(s, m)
    PROVE  Covered(s, m)'
<1> USE DEF TriedInv
<1>1. CASE outcome[s][m] # {}
  BY <1>1, OutcomeGrows DEF Covered, Tried
<1>2. CASE InFlight(s, m)
  <2>1. PICK c \in Copy :
            InStage(c, Working) /\ copy[c].msg = m /\ Serving(c) = s
    BY <1>2 DEF InFlight
  <2>2. \/ outcome'[s][m] # {}
        \/ /\ copy'[c].pc \in Working
           /\ copy'[c].proc = copy[c].proc
           /\ copy'[c].msg = m
        \/ SkipDuplicate(c)
    BY <2>1, WorkLeavesMark
  <2>3. CASE SkipDuplicate(c)
    <3>1. KeyWasUsed(s, m)
      BY <2>1, <2>3, SkippedKeyUsed
    <3>2. KeyWasUsed(s, m)'
      BY <3>1, KeyStable
    <3> QED
      BY <3>2 DEF Covered
  <2> QED
    BY <2>1, <2>2, <2>3 DEF Covered, Tried, InFlight, InStage, Serving
<1>3. CASE KeyWasUsed(s, m)
  BY <1>3, KeyStable DEF Covered
<1> QED
  BY <1>1, <1>2, <1>3 DEF Covered, Tried
\* A copy that acks was tried: it is at work itself, or the store of its
\* process remembers the message.
LEMMA AckStep ==
    ASSUME TypeOK, TriedInv, [Next]_vars,
           NEW s \in Service, NEW m \in Msg,
           broker'[s][m] = "acked"
    PROVE  Covered(s, m)'
<1>1. CASE broker[s][m] = "acked"
  BY <1>1, CoveredStable DEF TriedInv, AckedTried
<1>2. ASSUME NEW c \in Copy, Ack(c), InStage(c, Attended)
      PROVE  Covered(s, m)'
  <2>1. copy[c].pc \in Stage
    BY <1>2 DEF InStage, Attended, Stage
  <2>2. CASE Serving(c) = s /\ copy[c].msg = m
    BY <1>2, <2>2, CoveredStable
       DEF Covered, Tried, InFlight, InStage, Working
  <2>3. CASE ~ (Serving(c) = s /\ copy[c].msg = m)
    <3>1. broker[s][m] = "acked"
      <4>1. CASE broker' = [broker EXCEPT ![Serving(c)][copy[c].msg] = "acked"]
        BY <2>1, <2>3, <4>1, StagedCopy DEF TypeOK
      <4>2. CASE UNCHANGED broker
        BY <4>2
      <4> QED
        BY <1>2, <4>1, <4>2 DEF Ack
    <3> QED
      BY <1>1, <3>1
  <2> QED
    BY <2>2, <2>3
<1>3. ASSUME NEW c \in Copy, DropDuplicate(c)
      PROVE  Covered(s, m)'
  <2>1. copy[c].pc \in Stage
    BY <1>3 DEF DropDuplicate, InStage, Stage
  <2>2. CASE Serving(c) = s /\ copy[c].msg = m
    <3>1. ServiceOf[copy[c].proc] = s /\ DedupeKey(m) \in seen[copy[c].proc]
      BY <1>3, <2>2 DEF DropDuplicate, Serving, KeyOfCopy
    <3>2. Covered(s, m)
      BY <2>1, <3>1, StagedCopy DEF TriedInv, SeenTried
    <3> QED
      BY <3>2, CoveredStable
  <2>3. CASE ~ (Serving(c) = s /\ copy[c].msg = m)
    <3>1. broker[s][m] = "acked"
      <4>1. CASE broker' = [broker EXCEPT ![Serving(c)][copy[c].msg] = "acked"]
        BY <2>1, <2>3, <4>1, StagedCopy DEF TypeOK
      <4>2. CASE UNCHANGED broker
        BY <4>2
      <4> QED
        BY <1>3, <4>1, <4>2 DEF DropDuplicate, Ack
    <3> QED
      BY <1>1, <3>1
  <2> QED
    BY <2>2, <2>3
<1>4. ASSUME NEW t \in Service, NEW n \in Msg,
             \/ AckWaitEnds(t, n)
             \/ LeaseLapses(t, n)
      PROVE  Covered(s, m)'
  <2>1. broker[s][m] = "acked"
    BY <1>4 DEF AckWaitEnds, LeaseLapses, TypeOK
  <2> QED
    BY <1>1, <2>1
<1>5. ASSUME NEW c \in Copy, NEW p \in Proc, NEW n \in Msg, Deliver(c, p, n)
      PROVE  Covered(s, m)'
  <2>1. ServiceOf[p] \in Service
    BY DeliveryAssumption DEF DeliveryAssumption
  <2>2. broker[s][m] = "acked"
    BY <1>5, <2>1 DEF Deliver, TypeOK
  <2> QED
    BY <1>1, <2>2
<1>6. ASSUME NEW c \in Copy, AnswerNack(c)
      PROVE  Covered(s, m)'
  <2>1. copy[c].pc \in Stage
    BY <1>6 DEF AnswerNack, InStage, Stage
  <2>2. broker[s][m] = "acked"
    BY <1>6, <2>1, StagedCopy DEF AnswerNack, Nack, TypeOK
  <2> QED
    BY <1>1, <2>2
<1>7. CASE UNCHANGED broker
  BY <1>1, <1>7
<1>8. ASSUME NEW c \in Copy, WrapperStep(c)
      PROVE  Covered(s, m)'
  BY <1>2, <1>7, <1>8
     DEF WrapperStep, RejectMalformed, StartUnguarded, StartFresh,
         SkipDuplicate, StartFailOpen, InStage, Attended
<1>9. ASSUME NEW c \in Copy, HandlerStep(c)
      PROVE  Covered(s, m)'
  BY <1>2, <1>6, <1>7, <1>9
     DEF HandlerStep, Act, AnswerAck, GiveUp, QosTimeout, EndLate, InStage, Attended
<1> QED
  BY <1>3, <1>4, <1>5, <1>7, <1>8, <1>9
     DEF Next, BrokerStep, DriverStep, FaultStep, Admit, Crash, ForgetKey,
         RedisExpires, Drained, vars

\* The store learns a key from a copy that goes to work on that very message.
LEMMA SeenStep ==
    ASSUME TypeOK, TriedInv, [Next]_vars,
           NEW p \in Proc, NEW m \in Msg, DedupeKey(m) \in seen'[p]
    PROVE  Covered(ServiceOf[p], m)'
<1>0. ServiceOf[p] \in Service
  BY DeliveryAssumption DEF DeliveryAssumption
<1>1. CASE DedupeKey(m) \in seen[p]
  BY <1>0, <1>1, CoveredStable DEF TriedInv, SeenTried
<1>2. ASSUME NEW c \in Copy, Admit(c), DedupeKey(m) \notin seen[p]
      PROVE  Covered(ServiceOf[p], m)'
  <2>1. copy[c].pc \in Stage
    BY <1>2 DEF Admit, InStage, Stage
  <2>2. /\ copy[c] \in [pc : Stage, proc : Proc, msg : Msg]
        /\ copy[c].msg \in Msg
    BY <2>1, StagedCopy
  <2>3. copy[c].proc = p /\ DedupeKey(m) = DedupeKey(copy[c].msg)
    BY <1>2, <2>2 DEF Admit, TypeOK, KeyOfCopy
  <2>4. copy[c].msg = m
    BY <2>2, <2>3, KeyInjective
  <2>5. /\ copy'[c].pc = "checking"
        /\ copy'[c].proc = p
        /\ copy'[c].msg = m
    BY <1>2, <2>2, <2>3, <2>4 DEF Admit, Advance, TypeOK
  <2> QED
    BY <2>5 DEF Covered, Tried, InFlight, InStage, Serving, Working, Attended
<1>3. ASSUME NEW q \in Proc, Crash(q)
      PROVE  DedupeKey(m) \in seen[p]
  BY <1>3 DEF Crash, TypeOK
<1>4. ASSUME NEW q \in Proc, NEW k \in Keys, ForgetKey(q, k)
      PROVE  DedupeKey(m) \in seen[p]
  BY <1>4 DEF ForgetKey, TypeOK
<1>5. CASE UNCHANGED seen
  BY <1>1, <1>5
<1> QED
  BY <1>1, <1>2, <1>3, <1>4, <1>5
     DEF Next, BrokerStep, DriverStep, WrapperStep, HandlerStep, FaultStep,
         Deliver, AckWaitEnds, LeaseLapses, DropDuplicate, RejectMalformed,
         StartUnguarded, StartFresh, SkipDuplicate, StartFailOpen, Act,
         AnswerAck, AnswerNack, GiveUp, QosTimeout, EndLate, RedisExpires,
         Drained, vars
\* A copy comes to "acted" or "late" with a mark, and marks stay.
LEMMA RecordedStep ==
    ASSUME TypeOK, TriedInv, [Next]_vars,
           NEW c \in Copy, InStage(c, {"acted", "late"})'
    PROVE  outcome'[Serving(c)'][copy'[c].msg] # {}
<1> DEFINE Goal == outcome'[Serving(c)'][copy'[c].msg] # {}
<1>0. copy'[c].pc \in {"acted", "late"}
  BY DEF InStage
<1>1. ASSUME copy'[c] = copy[c]
      PROVE  Goal
  <2>1. InStage(c, {"acted", "late"})
    BY <1>0, <1>1 DEF InStage
  <2>2. outcome[Serving(c)][copy[c].msg] # {}
    BY <2>1 DEF TriedInv, RunsRecorded
  <2>3. Serving(c) \in Service /\ copy[c].msg \in Msg
    BY <2>1, StagedCopy DEF InStage, Stage
  <2>4. outcome'[Serving(c)][copy[c].msg] # {}
    BY <2>2, <2>3, OutcomeGrows
  <2> QED
    BY <1>1, <2>4 DEF Serving
<1>2. ASSUME NEW d \in Copy, NEW end \in Outcome, NEW stage \in Stage,
             copy[d].pc \in Stage, Record(d, end), Advance(d, stage)
      PROVE  Goal
  <2>1. CASE d = c
    <3>1. /\ copy[c] \in [pc : Stage, proc : Proc, msg : Msg]
          /\ Serving(c) \in Service
          /\ copy[c].msg \in Msg
      BY <1>2, <2>1, StagedCopy
    <3>2. copy'[c].proc = copy[c].proc /\ copy'[c].msg = copy[c].msg
      BY <1>2, <2>1, <3>1 DEF Advance, TypeOK
    <3>3. end \in outcome'[Serving(c)][copy[c].msg]
      BY <1>2, <2>1, <3>1 DEF Record, TypeOK
    <3> QED
      BY <3>2, <3>3 DEF Serving
  <2>2. CASE d # c
    BY <1>1, <1>2, <2>2 DEF Advance, TypeOK
  <2> QED
    BY <2>1, <2>2
<1>3. ASSUME NEW d \in Copy, NEW stage \in {"checking", "running"},
             copy[d].pc \in Stage, Advance(d, stage)
      PROVE  Goal
  <2>1. CASE d = c
    <3>1. copy[c] \in [pc : Stage, proc : Proc, msg : Msg]
      BY <1>3, <2>1, StagedCopy
    <3> QED
      BY <1>0, <1>3, <2>1, <3>1 DEF Advance, TypeOK
  <2>2. CASE d # c
    BY <1>1, <1>3, <2>2 DEF Advance, TypeOK
  <2> QED
    BY <2>1, <2>2
<1>4. ASSUME NEW d \in Copy, Release(d)
      PROVE  Goal
  BY <1>0, <1>1, <1>4 DEF Release, TypeOK, Free
<1>5. ASSUME NEW d \in Copy, NEW p \in Proc, NEW m \in Msg, Deliver(d, p, m)
      PROVE  Goal
  BY <1>0, <1>1, <1>5 DEF Deliver, TypeOK
<1>6. ASSUME NEW p \in Proc, Crash(p)
      PROVE  Goal
  BY <1>0, <1>1, <1>6 DEF Crash, Free
<1>7. CASE UNCHANGED copy
  BY <1>1, <1>7
<1>8. ASSUME NEW d \in Copy, DriverStep(d) \/ WrapperStep(d)
      PROVE  Goal
  BY <1>3, <1>4, <1>8
     DEF DriverStep, DropDuplicate, Admit, WrapperStep, RejectMalformed,
         StartUnguarded, StartFresh, SkipDuplicate, StartFailOpen, InStage, Stage
<1>9. ASSUME NEW d \in Copy, HandlerStep(d)
      PROVE  Goal
  <2>1. CASE Act(d)
    BY <1>2, <2>1 DEF Act, InStage, Stage, Outcome
  <2>2. CASE QosTimeout(d)
    BY <1>2, <2>2 DEF QosTimeout, InStage, Stage, Outcome
  <2>3. CASE AnswerAck(d) \/ AnswerNack(d) \/ GiveUp(d) \/ EndLate(d)
    BY <1>4, <2>3 DEF AnswerAck, AnswerNack, GiveUp, EndLate
  <2> QED
    BY <1>9, <2>1, <2>2, <2>3 DEF HandlerStep
<1> QED
  BY <1>5, <1>6, <1>7, <1>8, <1>9
     DEF Next, BrokerStep, FaultStep, AckWaitEnds, LeaseLapses, ForgetKey,
         RedisExpires, Drained, vars

\* A key comes into Redis with the call of a handler.
LEMMA RedisStep ==
    ASSUME TypeOK, TriedInv, [Next]_vars, NEW r \in redis'
    PROVE  KeyStarted(r)'
<1>1. CASE r \in redis
  BY <1>1, KeyStable DEF TriedInv, RedisStarted
<1>2. ASSUME NEW c \in Copy, StartFresh(c) \/ StartFailOpen(c), r \notin redis
      PROVE  KeyStarted(r)'
  <2>1. /\ r = RedisKey(Serving(c), copy[c].msg)
        /\ Serving(c) \in Idempotent
        /\ copy[c].msg \in HasCorrelation
        /\ Advance(c, "running")
        /\ copy[c].pc \in Stage
    BY <1>2 DEF StartFresh, StartFailOpen, UsesRedis, RedisKeyOfCopy, InStage, Stage
  <2>2. copy[c] \in [pc : Stage, proc : Proc, msg : Msg]
    BY <2>1, StagedCopy
  <2>3. /\ copy'[c].pc = "running"
        /\ copy'[c].proc = copy[c].proc
        /\ copy'[c].msg = copy[c].msg
    BY <2>1, <2>2 DEF Advance, TypeOK
  <2>4. Started(Serving(c), copy[c].msg)'
    BY <2>3 DEF Started, InStage, Serving, Handling
  <2>5. PICK t \in Idempotent, n \in HasCorrelation :
            t = Serving(c) /\ n = copy[c].msg
    BY <2>1
  <2>6. RedisKey(t, n) = r /\ outcome'[t][n] = outcome'[Serving(c)][copy[c].msg]
    BY <2>1, <2>5
  <2>7. Started(t, n)'
    BY <2>3, <2>5 DEF Started, InStage, Serving, Handling
  <2> QED
    BY <2>6, <2>7 DEF KeyStarted, RedisKey
<1>3. CASE redis' \subseteq redis
  BY <1>1, <1>3
<1> QED
  BY <1>1, <1>2, <1>3
     DEF Next, BrokerStep, DriverStep, WrapperStep, HandlerStep, FaultStep,
         Deliver, AckWaitEnds, LeaseLapses, DropDuplicate, Admit,
         RejectMalformed, StartUnguarded, SkipDuplicate, Act, AnswerAck,
         AnswerNack, GiveUp, QosTimeout, EndLate, Crash, ForgetKey,
         RedisExpires, Drained, vars

LEMMA TriedStep ==
    TypeOK /\ TriedInv /\ [Next]_vars => TriedInv'
<1> SUFFICES ASSUME TypeOK, TriedInv, [Next]_vars
             PROVE  TriedInv'
  OBVIOUS
<1>1. AckedTried'
  BY AckStep DEF AckedTried
<1>2. SeenTried'
  BY SeenStep DEF SeenTried
<1>3. RunsRecorded'
  BY RecordedStep DEF RunsRecorded
<1>4. RedisStarted'
  BY RedisStep DEF RedisStarted
<1> QED
  BY <1>1, <1>2, <1>3, <1>4 DEF TriedInv

\* A service loses a message only by the end of one of its own runs or, behind
\* the Redis check, under a key a run was started under: neither a redelivery,
\* nor the dedupe, nor checkIdempotency acks what was never tried.
THEOREM AckedTriedAlways == Spec => []AckedWasTried
<1>1. Init => TriedInv
  BY DeliveryAssumption
     DEF Init, TriedInv, AckedTried, SeenTried, RedisStarted, RunsRecorded,
         InStage, Free, DeliveryAssumption
<1>2. TriedInv => AckedWasTried
  BY DEF TriedInv, AckedTried, Covered, Tried, AckedWasTried
<1> QED
  BY <1>1, <1>2, TriedStep, TypeCorrect, PTL DEF Spec

=============================================================================
