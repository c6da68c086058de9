-------------------------- MODULE EventPersistence --------------------------
(***************************************************************************)
(* What the persistence service keeps of one event: its aggregate document *)
(* and the numbered snapshots of it.                                       *)
(*                                                                         *)
(* The service has five subscriptions (ingress, snapshot, finalize and two *)
(* dead-letter topics), so messages about one event are handled side by    *)
(* side, in any order, and each one may be delivered again.  A handler     *)
(* acks whatever happens: a store call that throws costs the message.      *)
(*                                                                         *)
(* There are two stores.  FirestorePersistenceStore works in a             *)
(* transaction.  DocumentStorePersistenceStore, which the service always   *)
(* asks for, reads the aggregate, looks for a snapshot with the message's  *)
(* key, writes the aggregate and writes the snapshot, in four calls.       *)
(***************************************************************************)
EXTENDS Integers, FiniteSets

CONSTANTS
    Msg,       \* the messages published about the event
    Kind,      \* [Msg -> Kinds]
    Key,       \* [Msg -> keys]: idempotencyKey
    Keyless,   \* the dead letters published without an idempotencyKey
    Worker,    \* bound: handlers at work at one time
    MaxFaults  \* bound: calls that throw, deaths, redeliveries

SnapshotKinds == {"update", "final", "deadletter"}
Kinds == SnapshotKinds \union {"ingress", "finalization"}

\* The key of a snapshot names its kind.
ASSUME MessageAssumption ==
    /\ Kind \in [Msg -> Kinds]
    /\ DOMAIN Key = Msg
    /\ Keyless \subseteq {m \in Msg : Kind[m] = "deadletter"}
    /\ \A m, n \in Msg : Key[m] = Key[n] => Kind[m] = Kind[n] /\ (m \in Keyless => m = n)
    /\ MaxFaults \in Nat

VARIABLES
    backend,  \* the store createPersistenceStore returned
    agg,      \* the event's document, or Absent
    snaps,    \* the snapshot documents
    due,      \* messages the broker is to deliver
    work,     \* [Worker -> its handler]
    clock,    \* what Date shows to the handler of a keyless dead letter
    applied,  \* history: messages handled to the end without an error
    torn,     \* history: a document changed between a handler's read and
              \* write of it, or a handler ended between its two writes
    faults    \* calls that threw, deaths and redeliveries so far

vars == <<backend, agg, snaps, due, work, clock, applied, torn, faults>>

Status == {"INGESTED", "IN_PROGRESS", "FINALIZED", "ERROR"}
Ended == {"FINALIZED", "ERROR"}

\* A key as stored: the message's own, or the dead letter and the time; and
\* the key of the initial snapshot, which no message carries.
Keys == [of : {Key[m] : m \in Msg}, at : Nat]
NoKey == [of |-> "initial", at |-> -1]

Snapshot == [seq : Nat \ {0}, kind : SnapshotKinds \union {"initial"},
             key : Keys \union {NoKey}]

\* snapshotCount is absent, and read as 0, in a document that a finalization
\* created; latest is the sequence number in latestSnapshotId, 0 when absent.
Aggregate == [status : Status, count : Nat, latest : Nat]
Absent == [status |-> "absent", count |-> 0, latest |-> 0]

Idle == [pc |-> "idle"]
Reading == [pc : {"read"}, msg : Msg, at : Nat]
Working == [pc : {"query", "set", "add"}, msg : Msg, at : Nat,
            agg : Aggregate \union {Absent}]

TypeOK ==
    /\ backend \in {"firestore", "document"}
    /\ agg \in Aggregate \union {Absent}
    /\ snaps \subseteq Snapshot
    /\ due \subseteq Msg
    /\ work \in [Worker -> Reading \union Working \union {Idle}]
    /\ clock \in Nat
    /\ applied \subseteq Msg
    /\ torn \in BOOLEAN
    /\ faults \in 0..MaxFaults

-----------------------------------------------------------------------------
(* The data.                                                                *)

KeyOf(m, at) == [of |-> Key[m], at |-> IF m \in Keyless THEN at ELSE 0]

\* Mutant of Derived: an update always puts the event in progress.
DerivedAnew(kind, status) ==
    CASE kind = "deadletter" -> "ERROR"
      [] kind = "final" -> "FINALIZED"
      [] kind = "update" -> "IN_PROGRESS"

\* deriveAggregateStatus
Derived(kind, status) ==
    CASE kind = "deadletter" -> "ERROR"
      [] kind = "final" -> "FINALIZED"
      [] kind = "update" -> IF status \in Ended THEN status ELSE "IN_PROGRESS"

\* Mutant of SnapshotOf: the number is the count before this snapshot.
SnapshotOfBefore(m, at, a) ==
    IF Kind[m] = "ingress"
    THEN [seq |-> 1, kind |-> "initial", key |-> NoKey]
    ELSE [seq |-> a.count, kind |-> Kind[m], key |-> KeyOf(m, at)]

\* The snapshot a handler that read a adds for m: buildSnapshotDoc.
SnapshotOf(m, at, a) ==
    IF Kind[m] = "ingress"
    THEN [seq |-> 1, kind |-> "initial", key |-> NoKey]
    ELSE [seq |-> a.count + 1, kind |-> Kind[m], key |-> KeyOf(m, at)]

\* The aggregate it writes: the normalized ingress event's, or a with the
\* snapshot applied (applySnapshotToAggregate).
AggregateOf(m, a) ==
    IF Kind[m] = "ingress"
    THEN [status |-> "INGESTED", count |-> 1, latest |-> 1]
    ELSE [status |-> Derived(Kind[m], a.status), count |-> a.count + 1,
          latest |-> a.count + 1]

\* Setting the document of a snapshot replaces the one with its id, which
\* is made of its number and its kind.
Put(s) == {t \in snaps : t.seq # s.seq \/ t.kind # s.kind} \union {s}

\* Mutant of IsKnown: the query takes every handling for a new one.
IsKnownNever(m, at) == FALSE

\* Mutant of IsKnown: the query lacks the filter on the key.
IsKnownEvent(m, at) == snaps # {}

\* The idempotency check.
IsKnown(m, at) == \E s \in snaps : s.key = KeyOf(m, at)

\* Mutant of IsDone: an ingress event is always written.
IsDoneUnlessKnown(m, at) == Kind[m] # "ingress" /\ IsKnown(m, at)

\* Nothing is to be written: the ingress event of a known correlationId, or
\* a snapshot with a known key.
IsDone(m, at) == IF Kind[m] = "ingress" THEN agg # Absent ELSE IsKnown(m, at)

-----------------------------------------------------------------------------
(* The handlers.                                                            *)

Init ==
    /\ backend \in {"firestore", "document"}
    /\ agg = Absent /\ snaps = {}
    /\ due = Msg /\ work = [w \in Worker |-> Idle]
    /\ clock = 0
    /\ applied = {} /\ torn = FALSE /\ faults = 0

Fault == faults < MaxFaults /\ faults' = faults + 1

\* A handler of a dead letter without a key makes one with the time, which
\* may or may not have moved since the last one.
Take(w, m) ==
    /\ m \in due /\ work[w] = Idle
    /\ due' = due \ {m}
    /\ \E now \in IF m \in Keyless THEN {clock, clock + 1} ELSE {clock} :
        /\ clock' = now
        /\ work' = [work EXCEPT ![w] = [pc |-> "read", msg |-> m, at |-> now]]
    /\ UNCHANGED <<backend, agg, snaps, applied, torn, faults>>

\* The handler acks.  A death before the ack is a Redeliver after it.
End(w) ==
    /\ work' = [work EXCEPT ![w] = Idle]
    /\ applied' = applied \union {work[w].msg}

Goes(w, pc, a) ==
    work' = [work EXCEPT ![w] =
        [pc |-> pc, msg |-> work[w].msg, at |-> work[w].at, agg |-> a]]

\* applyFinalization: either store merges the patch in one call.
Finalize(w) ==
    /\ work[w].pc = "read" /\ Kind[work[w].msg] = "finalization"
    /\ agg' = [status |-> "FINALIZED", count |-> agg.count, latest |-> agg.latest]
    /\ End(w)
    /\ UNCHANGED <<backend, snaps, due, clock, torn, faults>>

\* FirestorePersistenceStore: upsertIngressEvent and applySnapshotEvent.
Transact(w) ==
    LET m == work[w].msg  at == work[w].at IN
    /\ backend = "firestore"
    /\ work[w].pc = "read" /\ Kind[m] # "finalization"
    /\ IF IsDone(m, at)
       THEN UNCHANGED <<agg, snaps>>
       ELSE /\ agg' = AggregateOf(m, agg)
            /\ snaps' = Put(SnapshotOf(m, at, agg))
    /\ End(w)
    /\ UNCHANGED <<backend, due, clock, torn, faults>>

\* DocumentStorePersistenceStore reads the aggregate.  upsertIngressEvent
\* goes on only if there is none.
Read(w) ==
    LET m == work[w].msg IN
    /\ backend = "document"
    /\ work[w].pc = "read" /\ Kind[m] # "finalization"
    /\ IF Kind[m] = "ingress"
       THEN IF agg # Absent THEN End(w) ELSE Goes(w, "set", agg) /\ UNCHANGED applied
       ELSE Goes(w, "query", agg) /\ UNCHANGED applied
    /\ UNCHANGED <<backend, agg, snaps, due, clock, torn, faults>>

Adds(v, key) == work[v].pc = "add" /\ KeyOf(work[v].msg, work[v].at) = key

\* applySnapshotEvent: the idempotency check misses a handling that has
\* still to write its snapshot.
Query(w) ==
    LET m == work[w].msg  at == work[w].at IN
    /\ work[w].pc = "query"
    /\ IF IsKnown(m, at)
       THEN End(w) /\ UNCHANGED torn
       ELSE /\ Goes(w, "set", work[w].agg)
            /\ torn' = (torn \/ \E v \in Worker : Adds(v, KeyOf(m, at)))
            /\ UNCHANGED applied
    /\ UNCHANGED <<backend, agg, snaps, due, clock, faults>>

SetAggregate(w) ==
    /\ work[w].pc = "set"
    /\ agg' = AggregateOf(work[w].msg, work[w].agg)
    /\ Goes(w, "add", work[w].agg)
    /\ torn' = (torn \/ agg # work[w].agg)
    /\ UNCHANGED <<backend, snaps, due, clock, applied, faults>>

AddSnapshot(w) ==
    /\ work[w].pc = "add"
    /\ snaps' = Put(SnapshotOf(work[w].msg, work[w].at, work[w].agg))
    /\ End(w)
    /\ UNCHANGED <<backend, agg, due, clock, torn, faults>>

Drops(w) ==
    /\ work[w] # Idle
    /\ Fault
    /\ work' = [work EXCEPT ![w] = Idle]
    /\ torn' = (torn \/ work[w].pc = "add")
    /\ UNCHANGED <<backend, agg, snaps, clock, applied>>

\* A store call throws.  The handler logs and acks.
Throw(w) == Drops(w) /\ UNCHANGED due

\* The process dies.  The broker delivers the message again.
Die(w) == Drops(w) /\ due' = due \union {work[w].msg}

Redeliver(m) ==
    /\ m \notin due
    /\ Fault
    /\ due' = due \union {m}
    /\ UNCHANGED <<backend, agg, snaps, work, clock, applied, torn>>

Handle(w) ==
    \/ Finalize(w) \/ Transact(w)
    \/ Read(w) \/ Query(w) \/ SetAggregate(w) \/ AddSnapshot(w)
    \/ Throw(w) \/ Die(w)

Next ==
    \/ \E w \in Worker : Handle(w) \/ \E m \in Msg : Take(w, m)
    \/ \E m \in Msg : Redeliver(m)

Spec == Init /\ [][Next]_vars

-----------------------------------------------------------------------------
(* Properties.                                                              *)

\* A snapshot a handler has counted in the aggregate and is about to add.
Adding(w) == SnapshotOf(work[w].msg, work[w].at, work[w].agg)
Adders == {w \in Worker : work[w].pc = "add"}
Counted == snaps \union {Adding(w) : w \in Adders}

(* The aggregate counts the snapshots: those stored and those about to be   *)
(* added are numbered 1 to snapshotCount, no number is given twice, and     *)
(* latestSnapshotId names the last (applySnapshotToAggregate and            *)
(* buildSnapshotId, over whatever order ingress events, updates, final      *)
(* snapshots, dead letters and finalizations come in).                      *)
CountIsExact ==
    ~torn =>
        /\ {s.seq : s \in Counted} = 1..agg.count
        /\ \A s, t \in Counted : s.seq = t.seq => s = t
        /\ \A v, w \in Adders : Adding(v).seq = Adding(w).seq => v = w
        /\ \A w \in Adders : Adding(w) \notin snaps
        /\ agg.latest = agg.count

(* A message that is delivered again, during its handling or after it, is   *)
(* recorded once: no two snapshots have the same idempotencyKey             *)
(* (applySnapshotEvent's query before the write).                           *)
RecordedOnce ==
    ~torn => \A s, t \in Counted : s.key = t.key => s = t

(* A message that was handled to the end has left its trace: a snapshot     *)
(* with its key, or for an ingress event or a finalization the document     *)
(* (applySnapshotEvent, upsertIngressEvent; nothing later may write over    *)
(* it).                                                                     *)
Kept(m) ==
    IF Kind[m] \in SnapshotKinds THEN \E s \in snaps : s.key.of = Key[m] ELSE agg # Absent

AppliedIsKept == ~torn => \A m \in applied : Kept(m)

(* Once a final snapshot, a dead letter or a finalization was handled the   *)
(* event stays ended, although updates and even its ingress event may be    *)
(* handled afterwards (deriveAggregateStatus, upsertIngressEvent's check).  *)
EndIsFinal ==
    ~torn => \A m \in applied :
        Kind[m] \in {"final", "deadletter", "finalization"} => agg.status \in Ended

(* Whatever order messages come in, the aggregate and its snapshots are an  *)
(* append-only ledger of the event: nothing that was counted is changed,    *)
(* replaced or given back, a key is entered once, and the status follows    *)
(* the entries; on Firestore always, on a document store until a tear.      *)
Ledger == INSTANCE EventLedger WITH
    Key <- Keys,
    Opening <- NoKey,
    entries <- IF torn THEN {} ELSE Counted,
    count <- IF torn THEN 0 ELSE agg.count,
    status <- IF torn THEN "torn" ELSE agg.status
ImplementsLedger == Ledger!Spec

(* repository.ts says of applySnapshotEvent that it applies a snapshot      *)
(* event with transaction support: what was handled is kept.                *)
TransactionalApply == \A m \in applied : Kept(m)

=============================================================================
