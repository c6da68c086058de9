---------------------- MODULE EventPersistence_proofs ----------------------
(***************************************************************************)
(* The safety of EventPersistence, for every set of messages, every number *)
(* of handlers and of faults, and both stores.                             *)
(*                                                                         *)
(* The invariant counts a snapshot from the moment its handler has written *)
(* the aggregate (Counted), so that writing the snapshot changes nothing.  *)
(* What a handler remembers is tied to the aggregate by the count it read: *)
(* the count never decreases while nothing is torn (Behind), and as long   *)
(* as it is the one the handler read, no snapshot has taken the handler's  *)
(* key (KeysFree).                                                         *)
(***************************************************************************)
EXTENDS EventPersistence, TLAPS

Busy == {w \in Worker : work[w].pc \in {"query", "set", "add"}}

\* Where a handler may be, and what upsertIngressEvent has read.
WorkInv ==
    \A w \in Busy :
        /\ backend = "document"
        /\ Kind[work[w].msg] # "finalization"
        /\ Kind[work[w].msg] = "ingress" => work[w].agg = Absent /\ work[w].pc # "query"

Numbered ==
    /\ \A s \in Counted : s.seq \in 1..agg.count
    /\ \A n \in 1..agg.count : \E s \in Counted : s.seq = n
    /\ \A s, t \in Counted : s.seq = t.seq => s = t
    /\ agg.latest = agg.count

AddersApart ==
    /\ \A v, w \in Adders : Adding(v).seq = Adding(w).seq => v = w
    /\ \A w \in Adders : Adding(w) \notin snaps

KeysApart == \A s, t \in Counted : s.key = t.key => s = t

Behind == \A w \in Busy : work[w].agg.count <= agg.count

KeysFree ==
    \A w \in Busy :
        work[w].pc = "set" /\ work[w].agg.count = agg.count
            => \A s \in Counted : s.key # Adding(w).key

\* The key of a snapshot tells its kind.
KeysTell ==
    \A s \in Counted :
        s.key # NoKey => \E m \in Msg : s.key.of = Key[m] /\ s.kind = Kind[m]

EndsTell == \A s \in Counted : s.kind \in {"final", "deadletter"} => agg.status \in Ended

Records == Numbered /\ KeysApart /\ KeysTell

Handlers == AddersApart /\ Behind /\ KeysFree

Applied ==
    /\ EndsTell
    /\ \A m \in applied : Kept(m)
    /\ \A m \in applied :
        Kind[m] \in {"final", "deadletter", "finalization"} => agg.status \in Ended

Whole == Records /\ Handlers /\ Applied

Inv ==
    /\ TypeOK
    /\ WorkInv
    /\ ~torn => Whole


-----------------------------------------------------------------------------
(* The data.                                                                *)

Ready(m, at, a) ==
    /\ m \in Msg /\ at \in Nat /\ a \in Aggregate \union {Absent}
    /\ Kind[m] # "finalization"
    /\ Kind[m] = "ingress" => a = Absent

\* What a record of work holds at each place of a handler.
LEMMA WorkRecords ==
  ASSUME TypeOK, NEW w \in Worker
  PROVE  /\ work[w].pc = "read" => work[w] \in Reading
         /\ work[w] # Idle => work[w] \in Reading \union Working
         /\ w \in Busy => work[w] \in Working
  BY SMT DEF TypeOK, Busy, Reading, Working, Idle

\* A handler at work has what it needs to build a snapshot.
LEMMA BusyIsReady ==
  ASSUME TypeOK, WorkInv, NEW w \in Busy
  PROVE  Ready(work[w].msg, work[w].at, work[w].agg)
<1>1. w \in Worker
  BY DEF Busy
<1>2. work[w] \in Working
  BY <1>1, WorkRecords
<1> QED
  BY <1>2 DEF WorkInv, Ready, Working

\* A document is not the absent one, which has no snapshots.
LEMMA Documents ==
  /\ \A a \in Aggregate : a # Absent /\ a.status \in Status
  /\ \A a \in Aggregate \union {Absent} : a.count \in Nat /\ a.latest \in Nat
  /\ Absent.count = 0 /\ Absent.status \notin Ended
  BY DEF Aggregate, Absent, Status, Ended

\* Every message has a kind, and its key is stored as a key of a message.
LEMMA KeyTypes ==
  ASSUME NEW m \in Msg, NEW at \in Nat
  PROVE  /\ Kind[m] \in Kinds
         /\ KeyOf(m, at) \in Keys
         /\ KeyOf(m, at).of = Key[m]
         /\ KeyOf(m, at) # NoKey
  BY MessageAssumption DEF KeyOf, Keys, NoKey

\* The snapshot and the aggregate that a handler builds carry the number
\* after the count it read, and end the event if the message says so.
LEMMA Built ==
  ASSUME NEW m, NEW at, NEW a, Ready(m, at, a)
  PROVE  /\ SnapshotOf(m, at, a) \in Snapshot
         /\ SnapshotOf(m, at, a).seq = a.count + 1
         /\ SnapshotOf(m, at, a).key =
              IF Kind[m] = "ingress" THEN NoKey ELSE KeyOf(m, at)
         /\ SnapshotOf(m, at, a).kind =
              IF Kind[m] = "ingress" THEN "initial" ELSE Kind[m]
         /\ AggregateOf(m, a) \in Aggregate
         /\ AggregateOf(m, a).count = a.count + 1
         /\ AggregateOf(m, a).latest = a.count + 1
         /\ Kind[m] \in {"final", "deadletter"} => AggregateOf(m, a).status \in Ended
         /\ a.status \in Ended => AggregateOf(m, a).status \in Ended
<1>1. m \in Msg /\ at \in Nat /\ a.count \in Nat /\ Kind[m] # "finalization"
  BY Documents DEF Ready
<1>2. CASE Kind[m] = "ingress"
  <2>1. a = Absent
    BY <1>2 DEF Ready
  <2> QED
    BY <1>2, <2>1, Documents DEF SnapshotOf, AggregateOf, Snapshot, Aggregate, Status
<1>3. CASE Kind[m] # "ingress"
  <2>1. Kind[m] \in SnapshotKinds
    BY <1>1, <1>3, KeyTypes DEF Kinds
  <2>2. KeyOf(m, at) \in Keys
    BY <1>1, KeyTypes
  <2>3. /\ Derived(Kind[m], a.status) \in Status
        /\ Kind[m] \in {"final", "deadletter"} => Derived(Kind[m], a.status) \in Ended
        /\ a.status \in Ended => Derived(Kind[m], a.status) \in Ended
    BY <2>1 DEF Derived, SnapshotKinds, Status, Ended
  <2> QED
    BY <1>1, <1>3, <2>1, <2>2, <2>3 DEF SnapshotOf, AggregateOf, Snapshot, Aggregate
<1> QED
  BY <1>2, <1>3

-----------------------------------------------------------------------------
(* Types, and what a handler has read.                                      *)

\* A step that moves one handler on, or to its end, keeps the places of the
\* others.
LEMMA Moved ==
  ASSUME TypeOK, NEW w \in Worker, NEW r,
         work' = [work EXCEPT ![w] = r]
  PROVE  /\ work'[w] = r
         /\ \A v \in Worker : v # w => work'[v] = work[v]
         /\ r \in Reading \union Working \union {Idle} =>
              work' \in [Worker -> Reading \union Working \union {Idle}]
  BY SMT DEF TypeOK

\* An idle or a reading handler is not busy, a working one is.
LEMMA Places ==
  /\ Idle.pc \notin {"read", "query", "set", "add"}
  /\ \A r \in Reading : r.pc = "read" /\ r.msg \in Msg /\ r.at \in Nat /\ r # Idle
  /\ \A r \in Working : /\ r.pc \in {"query", "set", "add"}
                        /\ r.msg \in Msg /\ r.at \in Nat
                        /\ r.agg \in Aggregate \union {Absent}
  BY SMT DEF Idle, Reading, Working

\* A handler that goes on works, with what it read.
LEMMA GoesOn ==
  ASSUME TypeOK, NEW w \in Worker, work[w] \in Reading \union Working,
         NEW pc \in {"query", "set", "add"}, NEW a \in Aggregate \union {Absent},
         Goes(w, pc, a)
  PROVE  /\ work'[w] \in Working
         /\ work'[w].pc = pc /\ work'[w].agg = a
         /\ work'[w].msg = work[w].msg /\ work'[w].at = work[w].at
         /\ \A v \in Worker : v # w => work'[v] = work[v]
         /\ work' \in [Worker -> Reading \union Working \union {Idle}]
<1> DEFINE r == [pc |-> pc, msg |-> work[w].msg, at |-> work[w].at, agg |-> a]
<1>1. work[w].msg \in Msg /\ work[w].at \in Nat
  BY Places
<1>2. r \in Working
  BY <1>1 DEF Working
<1>3. work' = [work EXCEPT ![w] = r]
  BY DEF Goes
<1>4. /\ work'[w] = r
      /\ \A v \in Worker : v # w => work'[v] = work[v]
      /\ work' \in [Worker -> Reading \union Working \union {Idle}]
  BY <1>2, <1>3, Moved
<1> QED
  BY <1>2, <1>4

\* The types and WorkInv hold initially.
LEMMA TypeInit == Init => TypeOK /\ WorkInv
<1> SUFFICES ASSUME Init PROVE TypeOK /\ WorkInv
  OBVIOUS
<1>1. TypeOK
  <2>1. work \in [Worker -> Reading \union Working \union {Idle}]
    BY Zenon DEF Init
  <2>2. faults \in 0..MaxFaults /\ clock \in Nat
    BY MessageAssumption DEF Init
  <2>3. backend \in {"firestore", "document"} /\ torn \in BOOLEAN
    BY DEF Init
  <2>4. /\ agg \in Aggregate \union {Absent}
        /\ snaps \subseteq Snapshot /\ due \subseteq Msg /\ applied \subseteq Msg
    BY Zenon DEF Init
  <2> QED
    BY <2>1, <2>2, <2>3, <2>4 DEF TypeOK
<1>2. Busy = {}
  BY Places DEF Init, Busy
<1> QED
  BY <1>1, <1>2 DEF WorkInv

\* A handler that is busy after a step was busy before it, as it was, or is
\* the one that moved.
LEMMA StillReady ==
  ASSUME TypeOK, WorkInv, NEW w \in Worker, backend' = backend,
         \A v \in Worker : v # w => work'[v] = work[v],
         work'[w].pc \in {"query", "set", "add"} =>
            /\ backend = "document"
            /\ Kind[work'[w].msg] # "finalization"
            /\ Kind[work'[w].msg] = "ingress" =>
                 work'[w].agg = Absent /\ work'[w].pc # "query"
  PROVE  WorkInv'
<1> SUFFICES ASSUME NEW v \in Busy'
             PROVE  /\ backend' = "document"
                    /\ Kind[work'[v].msg] # "finalization"
                    /\ Kind[work'[v].msg] = "ingress" =>
                         work'[v].agg = Absent /\ work'[v].pc # "query"
  BY DEF WorkInv
<1>1. v \in Worker /\ work'[v].pc \in {"query", "set", "add"}
  BY DEF Busy
<1>2. CASE v = w
  BY <1>1, <1>2
<1>3. CASE v # w
  <2>1. v \in Busy /\ work'[v] = work[v]
    BY <1>1, <1>3 DEF Busy
  <2> QED
    BY <2>1 DEF WorkInv
<1> QED
  BY <1>2, <1>3

\* A handler that is somewhere is reading or working.
LEMMA SomeWhere ==
  ASSUME TypeOK, NEW w \in Worker, work[w].pc \in {"read", "query", "set", "add"}
  PROVE  /\ work[w] \in Reading \union Working
         /\ work[w].pc # "read" => work[w] \in Working /\ w \in Busy
         /\ work[w].msg \in Msg /\ work[w].at \in Nat
<1>1. work[w] # Idle
  BY Places
<1> QED
  BY <1>1, WorkRecords, Places DEF Busy

\* A handler that ends leaves the others where they are.
LEMMA Ends ==
  ASSUME TypeOK, NEW w \in Worker, work[w] \in Reading \union Working, End(w)
  PROVE  /\ work'[w] = Idle
         /\ \A v \in Worker : v # w => work'[v] = work[v]
         /\ work' \in [Worker -> Reading \union Working \union {Idle}]
         /\ applied' = applied \union {work[w].msg} /\ applied' \subseteq Msg
<1>1. work[w].msg \in Msg
  BY Places
<1> QED
  BY <1>1, Moved, Zenon DEF End, TypeOK

\* Taking a message keeps the types.
LEMMA TypeTake ==
  ASSUME TypeOK, WorkInv, NEW w \in Worker, NEW m \in Msg, Take(w, m)
  PROVE  TypeOK' /\ WorkInv'
<1>1. PICK now \in IF m \in Keyless THEN {clock, clock + 1} ELSE {clock} :
        /\ clock' = now
        /\ work' = [work EXCEPT ![w] = [pc |-> "read", msg |-> m, at |-> now]]
  BY DEF Take
<1>2. now \in Nat
  BY DEF TypeOK
<1> DEFINE r == [pc |-> "read", msg |-> m, at |-> now]
<1>3. r \in Reading
  BY <1>2 DEF Reading
<1>4. /\ work'[w] = r
      /\ \A v \in Worker : v # w => work'[v] = work[v]
      /\ work' \in [Worker -> Reading \union Working \union {Idle}]
  BY <1>1, <1>3, Moved
<1>5. TypeOK'
  BY <1>1, <1>2, <1>4 DEF Take, TypeOK
<1>6. WorkInv'
  <2>1. work'[w].pc \notin {"query", "set", "add"}
    BY <1>4
  <2>2. backend' = backend
    BY DEF Take
  <2> QED
    BY <1>4, <2>1, <2>2, StillReady
<1> QED
  BY <1>5, <1>6

\* The ends of a handler: nothing but the documents and the history moves.
LEMMA TypeEnd ==
  ASSUME TypeOK, WorkInv, NEW w \in Worker, work[w] \in Reading \union Working,
         End(w), UNCHANGED <<backend, due, clock, torn, faults>>,
         agg' \in Aggregate \union {Absent}, snaps' \subseteq Snapshot
  PROVE  TypeOK' /\ WorkInv'
<1>1. /\ work'[w] = Idle
      /\ \A v \in Worker : v # w => work'[v] = work[v]
      /\ work' \in [Worker -> Reading \union Working \union {Idle}]
      /\ applied' \subseteq Msg
  BY Ends
<1>2. TypeOK'
  BY <1>1 DEF TypeOK
<1>3. WorkInv'
  BY <1>1, Places, StillReady
<1> QED
  BY <1>2, <1>3

\* A handler that goes on keeps the types, if it takes along what it needs.
LEMMA TypeGo ==
  ASSUME TypeOK, WorkInv, NEW w \in Worker, work[w] \in Reading \union Working,
         NEW pc \in {"query", "set", "add"}, NEW a, Goes(w, pc, a),
         UNCHANGED <<backend, due, clock, applied, snaps, faults>>,
         agg' \in Aggregate \union {Absent}, torn' \in BOOLEAN,
         backend = "document", Ready(work[w].msg, work[w].at, a),
         Kind[work[w].msg] = "ingress" => pc # "query"
  PROVE  TypeOK' /\ WorkInv'
<1>1. a \in Aggregate \union {Absent}
  BY DEF Ready
<1>2. /\ work'[w].pc = pc /\ work'[w].agg = a /\ work'[w].msg = work[w].msg
      /\ \A v \in Worker : v # w => work'[v] = work[v]
      /\ work' \in [Worker -> Reading \union Working \union {Idle}]
  BY <1>1, GoesOn
<1>3. TypeOK'
  BY <1>2 DEF TypeOK
<1>4. WorkInv'
  BY <1>2, StillReady DEF Ready
<1> QED
  BY <1>3, <1>4

\* The document of a finalized event.
LEMMA Finalized ==
  ASSUME NEW a \in Aggregate \union {Absent}
  PROVE  [status |-> "FINALIZED", count |-> a.count, latest |-> a.latest] \in Aggregate
<1>1. a.count \in Nat /\ a.latest \in Nat
  BY Documents
<1> QED
  BY <1>1 DEF Aggregate, Status

\* Putting a snapshot leaves snapshots.
LEMMA PutType ==
  ASSUME TypeOK, NEW s \in Snapshot
  PROVE  Put(s) \subseteq Snapshot
  BY DEF Put, TypeOK

\* Every step of a handler keeps the types.
LEMMA TypeHandle ==
  ASSUME TypeOK, WorkInv, NEW w \in Worker, Handle(w)
  PROVE  TypeOK' /\ WorkInv'
<1> USE DEF TypeOK
<1>1. CASE Finalize(w)
  <2>1. work[w] \in Reading \union Working
    BY <1>1, SomeWhere DEF Finalize
  <2>2. agg' \in Aggregate \union {Absent} /\ snaps' \subseteq Snapshot
    BY <1>1, Finalized DEF Finalize
  <2> QED
    BY <1>1, <2>1, <2>2, TypeEnd DEF Finalize
<1>2. CASE Transact(w)
  <2> DEFINE m == work[w].msg  at == work[w].at
  <2>1. work[w] \in Reading \union Working /\ m \in Msg /\ at \in Nat
    BY <1>2, SomeWhere DEF Transact
  <2>2. agg' \in Aggregate \union {Absent} /\ snaps' \subseteq Snapshot
    <3>1. CASE IsDone(m, at)
      BY <1>2, <3>1 DEF Transact
    <3>2. CASE ~IsDone(m, at)
      <4>1. Ready(m, at, agg)
        BY <1>2, <2>1, <3>2 DEF Transact, Ready, IsDone
      <4>2. AggregateOf(m, agg) \in Aggregate /\ SnapshotOf(m, at, agg) \in Snapshot
        BY <4>1, Built
      <4>3. agg' = AggregateOf(m, agg) /\ snaps' = Put(SnapshotOf(m, at, agg))
        BY <1>2, <3>2 DEF Transact
      <4> QED
        BY <4>2, <4>3, PutType
    <3> QED
      BY <3>1, <3>2
  <2> QED
    BY <1>2, <2>1, <2>2, TypeEnd DEF Transact
<1>3. CASE Read(w)
  <2> DEFINE m == work[w].msg  at == work[w].at
  <2>1. work[w] \in Reading \union Working /\ m \in Msg /\ at \in Nat
    BY <1>3, SomeWhere DEF Read
  <2>2. UNCHANGED <<backend, agg, snaps, due, clock, torn, faults>>
    BY <1>3 DEF Read
  <2>3. CASE End(w)
    BY <2>1, <2>2, <2>3, TypeEnd
  <2>4. CASE Kind[m] = "ingress" /\ agg = Absent /\ Goes(w, "set", agg) /\ UNCHANGED applied
    <3>1. Ready(m, at, agg) /\ backend = "document"
      BY <1>3, <2>1, <2>4 DEF Read, Ready
    <3> QED
      BY <2>1, <2>2, <2>4, <3>1, TypeGo
  <2>5. CASE Kind[m] # "ingress" /\ Goes(w, "query", agg) /\ UNCHANGED applied
    <3>1. Ready(m, at, agg) /\ backend = "document"
      BY <1>3, <2>1, <2>5 DEF Read, Ready
    <3> QED
      BY <2>1, <2>2, <2>5, <3>1, TypeGo
  <2> QED
    BY <1>3, <2>3, <2>4, <2>5 DEF Read
<1>4. CASE Query(w)
  <2> DEFINE m == work[w].msg  at == work[w].at
  <2>1. work[w] \in Reading \union Working /\ w \in Busy
    BY <1>4, SomeWhere DEF Query
  <2>2. UNCHANGED <<backend, agg, snaps, due, clock, faults>>
    BY <1>4 DEF Query
  <2>3. CASE End(w) /\ UNCHANGED torn
    BY <2>1, <2>2, <2>3, TypeEnd
  <2>4. CASE /\ Goes(w, "set", work[w].agg) /\ UNCHANGED applied
             /\ torn' = (torn \/ \E v \in Worker : Adds(v, KeyOf(m, at)))
    <3>1. Ready(m, at, work[w].agg) /\ backend = "document"
      BY <2>1, BusyIsReady DEF WorkInv
    <3>2. torn' \in BOOLEAN
      BY <2>4
    <3> QED
      BY <2>1, <2>2, <2>4, <3>1, <3>2, TypeGo
  <2> QED
    BY <1>4, <2>3, <2>4 DEF Query
<1>5. CASE SetAggregate(w)
  <2> DEFINE m == work[w].msg  a == work[w].agg
  <2>1. work[w] \in Reading \union Working /\ w \in Busy
    BY <1>5, SomeWhere DEF SetAggregate
  <2>2. Ready(m, work[w].at, a) /\ backend = "document"
    BY <2>1, BusyIsReady DEF WorkInv
  <2>3. agg' \in Aggregate /\ torn' \in BOOLEAN
    BY <1>5, <2>2, Built DEF SetAggregate
  <2> QED
    BY <1>5, <2>1, <2>2, <2>3, TypeGo DEF SetAggregate
<1>6. CASE AddSnapshot(w)
  <2>1. work[w] \in Reading \union Working /\ w \in Busy
    BY <1>6, SomeWhere DEF AddSnapshot
  <2>2. SnapshotOf(work[w].msg, work[w].at, work[w].agg) \in Snapshot
    BY <2>1, BusyIsReady, Built
  <2>3. snaps' \subseteq Snapshot /\ agg' \in Aggregate \union {Absent}
    BY <1>6, <2>2, PutType DEF AddSnapshot
  <2> QED
    BY <1>6, <2>1, <2>3, TypeEnd DEF AddSnapshot
<1>7. CASE Throw(w) \/ Die(w)
  <2>1. /\ work' = [work EXCEPT ![w] = Idle] /\ work[w] # Idle
        /\ faults < MaxFaults /\ faults' = faults + 1
        /\ torn' = (torn \/ work[w].pc = "add")
        /\ UNCHANGED <<backend, agg, snaps, clock, applied>>
        /\ due' = due \/ due' = due \union {work[w].msg}
    BY <1>7 DEF Throw, Die, Drops, Fault
  <2>2. /\ work'[w] = Idle
        /\ \A v \in Worker : v # w => work'[v] = work[v]
        /\ work' \in [Worker -> Reading \union Working \union {Idle}]
    BY <2>1, Moved
  <2>3. work[w].msg \in Msg
    BY <2>1, WorkRecords, Places
  <2>4. faults' \in 0..MaxFaults
    BY <2>1, MessageAssumption
  <2>5. TypeOK'
    BY <2>1, <2>2, <2>3, <2>4
  <2>6. WorkInv'
    BY <2>1, <2>2, Places, StillReady
  <2> QED
    BY <2>5, <2>6
<1> QED
  BY <1>1, <1>2, <1>3, <1>4, <1>5, <1>6, <1>7 DEF Handle

\* Every step keeps the types and WorkInv.
LEMMA TypeStep == TypeOK /\ WorkInv /\ [Next]_vars => TypeOK' /\ WorkInv'
<1> SUFFICES ASSUME TypeOK, WorkInv, [Next]_vars PROVE TypeOK' /\ WorkInv'
  OBVIOUS
<1>1. CASE \E w \in Worker : Handle(w)
  BY <1>1, TypeHandle
<1>2. CASE \E w \in Worker, m \in Msg : Take(w, m)
  BY <1>2, TypeTake
<1>3. CASE \E m \in Msg : Redeliver(m)
  <2>1. PICK m \in Msg : Redeliver(m)
    BY <1>3
  <2>2. faults' \in 0..MaxFaults
    BY <2>1, MessageAssumption DEF Redeliver, Fault, TypeOK
  <2>3. TypeOK'
    BY <2>1, <2>2 DEF Redeliver, TypeOK
  <2>4. WorkInv'
    BY <2>1 DEF Redeliver, WorkInv, Busy
  <2> QED
    BY <2>3, <2>4
<1>4. CASE UNCHANGED vars
  BY <1>4 DEF vars, TypeOK, WorkInv, Busy
<1> QED
  BY <1>1, <1>2, <1>3, <1>4 DEF Next

-----------------------------------------------------------------------------
(* The records, while nothing is torn.                                      *)

\* What is counted is stored or being added.
LEMMA CountedIs ==
  ASSUME NEW s
  PROVE  s \in Counted <=> s \in snaps \/ \E w \in Adders : s = Adding(w)
  BY DEF Counted

\* A step of a handler that is adding no snapshot before or after it leaves
\* what is counted as it was.
LEMMA StillCounted ==
  ASSUME NEW w \in Worker, \A v \in Worker : v # w => work'[v] = work[v],
         work[w].pc # "add", work'[w].pc # "add", snaps' = snaps
  PROVE  /\ Adders' = Adders
         /\ \A v \in Adders : Adding(v)' = Adding(v)
         /\ Counted' = Counted
<1>1. Adders' = Adders
  BY DEF Adders
<1>2. ASSUME NEW v \in Adders PROVE Adding(v)' = Adding(v)
  <2>1. work'[v] = work[v]
    BY DEF Adders
  <2> QED
    BY <2>1 DEF Adding
<1>3. Counted' = Counted
  BY <1>1, <1>2, Zenon DEF Counted
<1> QED
  BY <1>1, <1>2, <1>3

\* A handler that is busy and did not move has what it had.
LEMMA SameWork ==
  ASSUME NEW w \in Worker, \A v \in Worker : v # w => work'[v] = work[v],
         NEW v \in Busy', v # w
  PROVE  v \in Busy /\ work'[v] = work[v] /\ Adding(v)' = Adding(v)
<1>1. v \in Worker /\ work'[v] = work[v]
  BY DEF Busy
<1> QED
  BY <1>1 DEF Busy, Adding

\* Such a step, when the aggregate keeps its count, keeps the records.
LEMMA Calm ==
  ASSUME Records, Handlers, NEW w \in Worker,
         \A v \in Worker : v # w => work'[v] = work[v],
         work[w].pc # "add", work'[w].pc # "add", snaps' = snaps,
         agg'.count = agg.count, agg'.latest = agg.latest,
         work'[w].pc \in {"query", "set"} => work'[w].agg.count <= agg.count,
         work'[w].pc = "set" /\ work'[w].agg.count = agg.count =>
            \A s \in Counted : s.key # Adding(w)'.key
  PROVE  Records' /\ Handlers'
<1>1. /\ Adders' = Adders
      /\ \A v \in Adders : Adding(v)' = Adding(v)
      /\ Counted' = Counted
  BY StillCounted
<1>2. Records'
  BY <1>1 DEF Records, Numbered, KeysApart, KeysTell
<1>3. AddersApart'
  BY <1>1 DEF Handlers, AddersApart
<1>4. ASSUME NEW v \in Busy'
      PROVE  /\ work'[v].agg.count <= agg'.count
             /\ work'[v].pc = "set" /\ work'[v].agg.count = agg'.count
                  => \A s \in Counted' : s.key # Adding(v)'.key
  <2>1. CASE v = w
    <3>1. work'[w].pc \in {"query", "set"}
      BY <2>1 DEF Busy
    <3> QED
      BY <1>1, <2>1, <3>1
  <2>2. CASE v # w
    <3>1. v \in Busy /\ work'[v] = work[v] /\ Adding(v)' = Adding(v)
      BY <2>2, SameWork
    <3> QED
      BY <1>1, <3>1 DEF Handlers, Behind, KeysFree
  <2> QED
    BY <2>1, <2>2
<1>5. Behind' /\ KeysFree'
  BY <1>4 DEF Behind, KeysFree
<1> QED
  BY <1>2, <1>3, <1>5 DEF Handlers

\* What was applied stays applied: no snapshot is lost, no document
\* disappears, and no end is taken back.
LEMMA StillApplied ==
  ASSUME Applied, snaps \subseteq snaps',
         agg # Absent => agg' # Absent,
         agg.status \in Ended => agg'.status \in Ended,
         \A s \in Counted' :
            s \notin Counted /\ s.kind \in {"final", "deadletter"} => agg'.status \in Ended,
         \A m \in applied' : m \notin applied =>
            /\ Kept(m)'
            /\ Kind[m] \in {"final", "deadletter", "finalization"} => agg'.status \in Ended
  PROVE  Applied'
<1>1. EndsTell'
  BY DEF Applied, EndsTell
<1>2. ASSUME NEW m \in applied', m \in applied PROVE Kept(m)'
  BY <1>2 DEF Applied, Kept
<1>3. \A m \in applied' : Kept(m)'
  BY <1>2
<1>4. \A m \in applied' :
        Kind[m] \in {"final", "deadletter", "finalization"} => agg'.status \in Ended
  BY DEF Applied
<1> QED
  BY <1>1, <1>3, <1>4 DEF Applied

\* A document without snapshots, the absent one too, counts none.
LEMMA NoneCounted ==
  ASSUME Numbered, agg.count = 0
  PROVE  Counted = {}
<1>1. \A n : n \notin 1..0
  OBVIOUS
<1> QED
  BY <1>1 DEF Numbered

\* A message that the idempotency check turns away has left its trace.
LEMMA DoneIsKept ==
  ASSUME Records, Applied, NEW m \in Msg, NEW at \in Nat,
         Kind[m] # "finalization", IsDone(m, at)
  PROVE  /\ Kept(m)
         /\ Kind[m] \in {"final", "deadletter"} => agg.status \in Ended
<1>1. CASE Kind[m] = "ingress"
  BY <1>1 DEF IsDone, Kept, SnapshotKinds
<1>2. CASE Kind[m] # "ingress"
  <2>1. PICK s \in snaps : s.key = KeyOf(m, at)
    BY <1>2 DEF IsDone, IsKnown
  <2>2. s \in Counted /\ s.key # NoKey /\ s.key.of = Key[m]
    BY <2>1, CountedIs, KeyTypes
  <2>3. PICK n \in Msg : s.key.of = Key[n] /\ s.kind = Kind[n]
    BY <2>2 DEF Records, KeysTell
  <2>4. s.kind = Kind[m]
    BY <2>2, <2>3, MessageAssumption
  <2>5. Kind[m] \in SnapshotKinds
    BY <1>2, KeyTypes DEF Kinds
  <2>6. Kept(m)
    BY <2>1, <2>2, <2>5 DEF Kept
  <2>7. Kind[m] \in {"final", "deadletter"} => agg.status \in Ended
    BY <2>2, <2>4 DEF Applied, EndsTell
  <2> QED
    BY <2>6, <2>7
<1> QED
  BY <1>1, <1>2

\* A new snapshot with the next number and a key of its own.
LEMMA NewRecord ==
  ASSUME Records, agg.count \in Nat, NEW s,
         s.seq = agg.count + 1,
         \A t \in Counted : t.key # s.key,
         s.key # NoKey => \E m \in Msg : s.key.of = Key[m] /\ s.kind = Kind[m],
         agg'.count = agg.count + 1, agg'.latest = agg.count + 1,
         Counted' = Counted \union {s}
  PROVE  Records'
<1>1. Numbered'
  <2>1. ASSUME NEW t \in Counted' PROVE t.seq \in 1..agg'.count
    BY DEF Records, Numbered
  <2>2. ASSUME NEW n \in 1..agg'.count PROVE \E t \in Counted' : t.seq = n
    <3>1. CASE n = agg.count + 1
      BY <3>1
    <3>2. CASE n # agg.count + 1
      <4>1. n \in 1..agg.count
        BY <3>2
      <4> QED
        BY <4>1 DEF Records, Numbered
    <3> QED
      BY <3>1, <3>2
  <2>3. \A t \in Counted : t.seq # s.seq
    BY DEF Records, Numbered
  <2>4. \A t, u \in Counted' : t.seq = u.seq => t = u
    BY <2>3 DEF Records, Numbered
  <2> QED
    BY <2>1, <2>2, <2>4 DEF Numbered
<1>2. KeysApart'
  BY DEF Records, KeysApart
<1>3. KeysTell'
  BY DEF Records, KeysTell
<1> QED
  BY <1>1, <1>2, <1>3 DEF Records

\* Putting a snapshot replaces none, if its number is another's only when
\* it is the same snapshot.
LEMMA PutAdds ==
  ASSUME NEW s, \A t \in snaps : t.seq = s.seq => t = s
  PROVE  Put(s) = snaps \union {s}
  BY DEF Put

\* The key of what a ready handler builds is its message's.
LEMMA BuiltTells ==
  ASSUME NEW m, NEW at, NEW a, Ready(m, at, a)
  PROVE  SnapshotOf(m, at, a).key # NoKey =>
           \E n \in Msg : /\ SnapshotOf(m, at, a).key.of = Key[n]
                          /\ SnapshotOf(m, at, a).kind = Kind[n]
<1>1. m \in Msg /\ at \in Nat
  BY DEF Ready
<1> QED
  BY <1>1, Built, KeyTypes

-----------------------------------------------------------------------------
(* The steps of a handler, while nothing is torn.                           *)

\* A finalization keeps the count and ends the event.
LEMMA WholeFinalize ==
  ASSUME TypeOK, WorkInv, Whole, NEW w \in Worker, Finalize(w)
  PROVE  Whole'
<1> USE DEF Whole
<1> PICK m : m = work[w].msg
  OBVIOUS
<1>1. work[w] \in Reading \union Working /\ m \in Msg
  BY SomeWhere DEF Finalize
<1>2. /\ work'[w] = Idle
      /\ \A v \in Worker : v # w => work'[v] = work[v]
      /\ applied' = applied \union {m}
  BY <1>1, Ends DEF Finalize
<1>3. agg' \in Aggregate /\ agg'.status \in Ended
  BY Finalized DEF Finalize, TypeOK, Ended
<1>4. agg'.count = agg.count /\ agg'.latest = agg.latest /\ snaps' = snaps
  BY DEF Finalize
<1>5. work[w].pc # "add" /\ work'[w].pc \notin {"query", "set", "add"}
  BY <1>2, Places DEF Finalize
<1>6. Records' /\ Handlers'
  BY <1>2, <1>4, <1>5, Calm
<1>7. Applied'
  <2>1. Kept(m)'
    BY <1>3, Documents DEF Finalize, Kept, SnapshotKinds
  <2> QED
    BY <1>2, <1>3, <1>4, <2>1, Documents, StillApplied
<1> QED
  BY <1>6, <1>7

\* A handler that ends because the check turned the message away.
LEMMA WholeDone ==
  ASSUME TypeOK, WorkInv, Whole, NEW w \in Worker,
         work[w].pc \in {"read", "query"}, Kind[work[w].msg] # "finalization",
         IsDone(work[w].msg, work[w].at), End(w), UNCHANGED <<agg, snaps>>
  PROVE  Whole'
<1> USE DEF Whole
<1> PICK m : m = work[w].msg
  OBVIOUS
<1>1. work[w] \in Reading \union Working /\ m \in Msg /\ work[w].at \in Nat
  BY SomeWhere
<1>2. /\ work'[w] = Idle
      /\ \A v \in Worker : v # w => work'[v] = work[v]
      /\ applied' = applied \union {m}
  BY <1>1, Ends
<1>3. work[w].pc # "add" /\ work'[w].pc \notin {"query", "set", "add"}
  BY <1>2, Places
<1>4. Records' /\ Handlers'
  BY <1>2, <1>3, Calm
<1>5. Applied'
  <2>1. Kept(m) /\ (Kind[m] \in {"final", "deadletter"} => agg.status \in Ended)
    BY <1>1, DoneIsKept
  <2>2. Kept(m)'
    BY <2>1 DEF Kept
  <2>3. Counted' = Counted
    BY <1>2, <1>3, StillCounted
  <2> QED
    BY <1>2, <2>1, <2>2, <2>3, StillApplied
<1> QED
  BY <1>4, <1>5

\* A step of a handler that writes nothing and is done with nothing.
LEMMA WholeQuiet ==
  ASSUME TypeOK, WorkInv, Whole, NEW w \in Worker,
         \A v \in Worker : v # w => work'[v] = work[v],
         work[w].pc # "add", work'[w].pc # "add",
         UNCHANGED <<agg, snaps, applied>>,
         work'[w].pc \in {"query", "set"} => work'[w].agg.count <= agg.count,
         work'[w].pc = "set" /\ work'[w].agg.count = agg.count =>
            \A s \in Counted : s.key # Adding(w)'.key
  PROVE  Whole'
<1> USE DEF Whole
<1>1. Records' /\ Handlers'
  BY Calm
<1>2. Counted' = Counted
  BY StillCounted
<1>3. Applied'
  BY <1>2, StillApplied
<1> QED
  BY <1>1, <1>3

\* The transaction of the Firestore store, when it writes, counts one snapshot
\* more: nobody is between two writes.
LEMMA Transacted ==
  ASSUME TypeOK, WorkInv, Whole, NEW w \in Worker, Transact(w),
         NEW m, NEW at, NEW s,
         m = work[w].msg, at = work[w].at, s = SnapshotOf(m, at, agg),
         ~IsDone(m, at)
  PROVE  /\ Ready(m, at, agg) /\ agg' = AggregateOf(m, agg)
         /\ Busy' = {} /\ Adders' = {}
         /\ \A t \in Counted : t.seq # s.seq /\ t.key # s.key
         /\ snaps' = snaps \union {s} /\ Counted' = Counted \union {s}
<1> USE DEF Whole
<1>1. work[w] \in Reading \union Working /\ m \in Msg /\ at \in Nat
  BY SomeWhere DEF Transact
<1>2. /\ work'[w] = Idle
      /\ \A v \in Worker : v # w => work'[v] = work[v]
  BY <1>1, Ends DEF Transact
<1>3. Ready(m, at, agg)
  BY <1>1 DEF Transact, Ready, IsDone, TypeOK
<1>4. agg' = AggregateOf(m, agg) /\ snaps' = Put(s)
  BY DEF Transact
<1>5. Busy = {} /\ Adders = {} /\ Counted = snaps
  <2>1. Busy = {}
    BY DEF Transact, WorkInv
  <2> QED
    BY <2>1 DEF Busy, Adders, Counted
<1>6. Busy' = {} /\ Adders' = {} /\ Counted' = snaps'
  <2>1. Busy' = {}
    BY <1>2, <1>5, Places DEF Busy
  <2> QED
    BY <2>1 DEF Busy, Adders, Counted
<1>7. agg.count \in Nat
  BY Documents DEF TypeOK
<1>8. \A t \in Counted : t.seq # s.seq /\ t.key # s.key
  <2>1. \A t \in Counted : t.seq # s.seq
    BY <1>3, <1>7, Built DEF Records, Numbered
  <2>2. CASE Kind[m] = "ingress"
    <3>1. agg.count = 0
      BY <2>2, Documents DEF IsDone
    <3> QED
      BY <3>1, NoneCounted DEF Records
  <2>3. CASE Kind[m] # "ingress"
    BY <1>3, <1>5, <2>1, <2>3, Built DEF IsDone, IsKnown
  <2> QED
    BY <2>1, <2>2, <2>3
<1>9. snaps' = snaps \union {s} /\ Counted' = Counted \union {s}
  BY <1>4, <1>5, <1>6, <1>8, PutAdds
<1> QED
  BY <1>3, <1>4, <1>6, <1>8, <1>9

LEMMA WholeTransact ==
  ASSUME TypeOK, WorkInv, Whole, NEW w \in Worker, Transact(w)
  PROVE  Whole'
<1> PICK m, at, s : m = work[w].msg /\ at = work[w].at /\ s = SnapshotOf(m, at, agg)
  OBVIOUS
<1>1. work[w] \in Reading \union Working /\ m \in Msg /\ at \in Nat
  BY SomeWhere DEF Transact
<1>2. /\ work'[w] = Idle
      /\ \A v \in Worker : v # w => work'[v] = work[v]
      /\ applied' = applied \union {m}
  BY <1>1, Ends DEF Transact
<1>3. CASE IsDone(m, at)
  BY <1>3, WholeDone DEF Transact
<1>4. CASE ~IsDone(m, at)
  <2> USE DEF Whole
  <2>1. /\ Ready(m, at, agg) /\ agg' = AggregateOf(m, agg)
        /\ Busy' = {} /\ Adders' = {}
        /\ \A t \in Counted : t.seq # s.seq /\ t.key # s.key
        /\ snaps' = snaps \union {s} /\ Counted' = Counted \union {s}
    BY <1>4, Transacted
  <2>2. agg.count \in Nat
    BY Documents DEF TypeOK
  <2>3. /\ agg' \in Aggregate
        /\ agg'.count = agg.count + 1 /\ agg'.latest = agg.count + 1
        /\ Kind[m] \in {"final", "deadletter"} => agg'.status \in Ended
        /\ agg.status \in Ended => agg'.status \in Ended
        /\ s.seq = agg.count + 1
        /\ s.key = IF Kind[m] = "ingress" THEN NoKey ELSE KeyOf(m, at)
        /\ s.kind = IF Kind[m] = "ingress" THEN "initial" ELSE Kind[m]
    BY <2>1, Built
  <2>4. Records'
    BY <2>1, <2>2, <2>3, BuiltTells, NewRecord
  <2>5. Handlers'
    BY <2>1 DEF Handlers, AddersApart, Behind, KeysFree
  <2>6. Applied'
    <3>1. Kept(m)'
      <4>1. CASE Kind[m] = "ingress"
        BY <2>3, <4>1, Documents DEF Kept, SnapshotKinds
      <4>2. CASE Kind[m] # "ingress"
        <5>1. s.key.of = Key[m] /\ s \in snaps'
          BY <1>1, <2>1, <2>3, <4>2, KeyTypes
        <5>2. Kind[m] \in SnapshotKinds
          BY <1>1, <2>1, <4>2, KeyTypes DEF Kinds, Ready
        <5> QED
          BY <5>1, <5>2 DEF Kept
      <4> QED
        BY <4>1, <4>2
    <3>2. Kind[m] # "finalization"
      BY <2>1 DEF Ready
    <3>3. \A t \in Counted' : t \notin Counted /\ t.kind \in {"final", "deadletter"}
             => agg'.status \in Ended
      BY <2>1, <2>3
    <3> QED
      BY <1>2, <2>1, <2>3, <3>1, <3>2, <3>3, Documents, StillApplied
  <2> QED
    BY <2>4, <2>5, <2>6
<1> QED
  BY <1>3, <1>4

\* What a handler remembers is the aggregate it read: no later.
LEMMA WholeRead ==
  ASSUME TypeOK, WorkInv, Whole, NEW w \in Worker, Read(w)
  PROVE  Whole'
<1> PICK m : m = work[w].msg
  OBVIOUS
<1>1. work[w] \in Reading \union Working /\ m \in Msg
  BY SomeWhere DEF Read
<1>2. agg \in Aggregate \union {Absent} /\ agg.count \in Nat
  BY Documents DEF TypeOK
<1>3. UNCHANGED <<agg, snaps>> /\ work[w].pc = "read" /\ Kind[m] # "finalization"
  BY DEF Read
<1>4. CASE Kind[m] = "ingress" /\ agg # Absent
  BY <1>3, <1>4, WholeDone DEF Read, IsDone
<1>5. CASE Kind[m] = "ingress" /\ agg = Absent
  <2>1. Goes(w, "set", agg) /\ UNCHANGED applied
    BY <1>5 DEF Read
  <2>2. /\ work'[w].pc = "set" /\ work'[w].agg = agg
        /\ \A v \in Worker : v # w => work'[v] = work[v]
    BY <1>1, <1>2, <2>1, GoesOn
  <2>3. Counted = {}
    BY <1>5, NoneCounted, Documents DEF Whole, Records
  <2> QED
    BY <1>2, <1>3, <2>1, <2>2, <2>3, WholeQuiet
<1>6. CASE Kind[m] # "ingress"
  <2>1. Goes(w, "query", agg) /\ UNCHANGED applied
    BY <1>6 DEF Read
  <2>2. /\ work'[w].pc = "query" /\ work'[w].agg = agg
        /\ \A v \in Worker : v # w => work'[v] = work[v]
    BY <1>1, <1>2, <2>1, GoesOn
  <2> QED
    BY <1>2, <1>3, <2>1, <2>2, WholeQuiet
<1> QED
  BY <1>4, <1>5, <1>6

\* The query of a handler that goes on has seen that its key is free, also
\* among the snapshots being added.
LEMMA WholeQuery ==
  ASSUME TypeOK, WorkInv, Whole, NEW w \in Worker, Query(w), ~torn'
  PROVE  Whole'
<1> PICK m, at, a : m = work[w].msg /\ at = work[w].at /\ a = work[w].agg
  OBVIOUS
<1>1. /\ work[w] \in Reading \union Working /\ w \in Busy
      /\ m \in Msg /\ at \in Nat
  BY SomeWhere DEF Query
<1>2. UNCHANGED <<agg, snaps>> /\ work[w].pc = "query"
  BY DEF Query
<1>3. Ready(m, at, a) /\ Kind[m] # "ingress" /\ Kind[m] # "finalization"
  BY <1>1, <1>2, BusyIsReady DEF WorkInv
<1>4. CASE IsKnown(m, at)
  <2>1. IsDone(m, at) /\ End(w)
    BY <1>3, <1>4 DEF Query, IsDone
  <2> QED
    BY <1>2, <1>3, <2>1, WholeDone
<1>5. CASE ~IsKnown(m, at)
  <2>1. /\ Goes(w, "set", a) /\ UNCHANGED applied
        /\ \A v \in Worker : ~Adds(v, KeyOf(m, at))
    BY <1>5 DEF Query
  <2>2. a \in Aggregate \union {Absent}
    BY <1>3 DEF Ready
  <2>3. /\ work'[w].pc = "set" /\ work'[w].agg = a
        /\ work'[w].msg = m /\ work'[w].at = at
        /\ \A v \in Worker : v # w => work'[v] = work[v]
    BY <1>1, <2>1, <2>2, GoesOn
  <2>4. Adding(w)'.key = KeyOf(m, at)
    <3>1. Adding(w)' = SnapshotOf(m, at, a)
      BY <2>3 DEF Adding
    <3> QED
      BY <1>3, <3>1, Built
  <2>5. ASSUME NEW s \in Counted PROVE s.key # KeyOf(m, at)
    <3>1. CASE s \in snaps
      BY <1>5, <3>1 DEF IsKnown
    <3>2. CASE \E v \in Adders : s = Adding(v)
      <4>1. PICK v \in Adders : s = Adding(v)
        BY <3>2
      <4>2. v \in Worker /\ v \in Busy /\ work[v].pc = "add"
        BY <4>1 DEF Adders, Busy
      <4>3. Ready(work[v].msg, work[v].at, work[v].agg)
        BY <4>2, BusyIsReady
      <4>4. KeyOf(work[v].msg, work[v].at) # KeyOf(m, at)
        BY <2>1, <4>2 DEF Adds
      <4>5. KeyOf(m, at) # NoKey
        BY <1>1, KeyTypes
      <4> QED
        BY <4>1, <4>3, <4>4, <4>5, Built DEF Adding
    <3> QED
      BY <3>1, <3>2, CountedIs
  <2>6. a.count <= agg.count
    BY <1>1 DEF Whole, Handlers, Behind
  <2> QED
    BY <1>2, <2>1, <2>3, <2>4, <2>5, <2>6, WholeQuiet
<1> QED
  BY <1>4, <1>5

\* A handler that writes the aggregate it read, when that is still the one
\* stored, counts one snapshot more.
LEMMA SetCounts ==
  ASSUME TypeOK, WorkInv, Whole, NEW w \in Worker, SetAggregate(w), ~torn',
         NEW m, NEW at, NEW s,
         m = work[w].msg, at = work[w].at, s = Adding(w)
  PROVE  /\ Ready(m, at, agg) /\ s = SnapshotOf(m, at, agg) /\ agg' = AggregateOf(m, agg)
         /\ work'[w].pc = "add" /\ work'[w].agg = agg /\ Adding(w)' = s
         /\ \A v \in Worker : v # w => work'[v] = work[v]
         /\ Adders' = Adders \union {w} /\ w \notin Adders
         /\ \A v \in Adders : Adding(v)' = Adding(v)
         /\ \A t \in Counted : t.seq # s.seq /\ t.key # s.key
         /\ Counted' = Counted \union {s}
<1> USE DEF Whole
<1>1. work[w] \in Reading \union Working /\ w \in Busy
  BY SomeWhere DEF SetAggregate
<1>2. work[w].pc = "set" /\ work[w].agg = agg /\ UNCHANGED <<snaps, applied>>
  BY DEF SetAggregate
<1>3. Ready(m, at, agg) /\ s = SnapshotOf(m, at, agg) /\ agg' = AggregateOf(m, agg)
  BY <1>1, <1>2, BusyIsReady DEF SetAggregate, Adding
<1>4. agg \in Aggregate \union {Absent} /\ agg.count \in Nat
  BY Documents DEF TypeOK
<1>5. /\ work'[w].pc = "add" /\ work'[w].agg = agg
      /\ work'[w].msg = m /\ work'[w].at = at
      /\ \A v \in Worker : v # w => work'[v] = work[v]
  BY <1>1, <1>2, <1>4, GoesOn DEF SetAggregate
<1>6. Adding(w)' = s
  BY <1>3, <1>5 DEF Adding
<1>7. Adders' = Adders \union {w} /\ w \notin Adders
  BY <1>2, <1>5 DEF Adders
<1>8. \A v \in Adders : Adding(v)' = Adding(v)
  BY <1>5, <1>7 DEF Adders, Adding
<1>9. Counted' = Counted \union {s}
  <2>1. Counted' = snaps' \union {Adding(v)' : v \in Adders'}
    BY DEF Counted
  <2> QED
    BY <1>2, <1>6, <1>7, <1>8, <2>1, Zenon DEF Counted
<1>10. /\ agg' \in Aggregate
       /\ agg'.count = agg.count + 1 /\ agg'.latest = agg.count + 1
       /\ Kind[m] \in {"final", "deadletter"} => agg'.status \in Ended
       /\ agg.status \in Ended => agg'.status \in Ended
       /\ s.seq = agg.count + 1
       /\ s.kind = IF Kind[m] = "ingress" THEN "initial" ELSE Kind[m]
  BY <1>3, Built
<1>11. \A t \in Counted : t.seq # s.seq /\ t.key # s.key
  <2>1. \A t \in Counted : t.seq # s.seq
    BY <1>4, <1>10 DEF Records, Numbered
  <2>2. \A t \in Counted : t.key # s.key
    BY <1>1, <1>2 DEF Handlers, KeysFree
  <2> QED
    BY <2>1, <2>2
<1> QED
  BY <1>3, <1>5, <1>6, <1>7, <1>8, <1>9, <1>11

LEMMA WholeSetAggregate ==
  ASSUME TypeOK, WorkInv, Whole, NEW w \in Worker, SetAggregate(w), ~torn'
  PROVE  Whole'
<1> USE DEF Whole
<1> PICK m, at, s : m = work[w].msg /\ at = work[w].at /\ s = Adding(w)
  OBVIOUS
<1>1. work[w].pc = "set" /\ UNCHANGED <<snaps, applied>>
  BY DEF SetAggregate
<1>2. Ready(m, at, agg) /\ s = SnapshotOf(m, at, agg) /\ agg' = AggregateOf(m, agg)
  BY SetCounts
<1>3. agg \in Aggregate \union {Absent} /\ agg.count \in Nat
  BY Documents DEF TypeOK
<1>4. /\ work'[w].pc = "add" /\ work'[w].agg = agg /\ Adding(w)' = s
      /\ \A v \in Worker : v # w => work'[v] = work[v]
  BY SetCounts
<1>5. Adders' = Adders \union {w} /\ \A v \in Adders : Adding(v)' = Adding(v)
  BY SetCounts
<1>6. /\ \A t \in Counted : t.seq # s.seq /\ t.key # s.key
      /\ Counted' = Counted \union {s}
  BY SetCounts
<1>7. /\ agg' \in Aggregate
      /\ agg'.count = agg.count + 1 /\ agg'.latest = agg.count + 1
      /\ Kind[m] \in {"final", "deadletter"} => agg'.status \in Ended
      /\ agg.status \in Ended => agg'.status \in Ended
      /\ s.seq = agg.count + 1
      /\ s.kind = IF Kind[m] = "ingress" THEN "initial" ELSE Kind[m]
  BY <1>2, Built
<1>8. Records'
  <2>1. s.key # NoKey => \E n \in Msg : s.key.of = Key[n] /\ s.kind = Kind[n]
    BY <1>2, BuiltTells
  <2> QED
    BY <1>3, <1>6, <1>7, <2>1, NewRecord
<1>9. AddersApart'
  <2>1. \A v \in Adders : Adding(v) \in Counted
    BY CountedIs
  <2>2. \A v \in Adders : Adding(v).seq # s.seq
    BY <1>6, <2>1
  <2>3. s \notin snaps
    BY <1>6, CountedIs
  <2>4. ASSUME NEW v \in Adders', NEW u \in Adders', Adding(v)'.seq = Adding(u)'.seq
        PROVE  v = u
    BY <1>4, <1>5, <2>2, <2>4 DEF Handlers, AddersApart
  <2>5. ASSUME NEW v \in Adders' PROVE Adding(v)' \notin snaps'
    BY <1>1, <1>4, <1>5, <2>3 DEF Handlers, AddersApart
  <2> QED
    BY <2>4, <2>5 DEF AddersApart
<1>10. ASSUME NEW v \in Busy'
       PROVE  /\ work'[v].agg.count <= agg'.count
              /\ work'[v].pc = "set" => work'[v].agg.count # agg'.count
  <2>1. CASE v = w
    BY <1>3, <1>4, <1>7, <2>1
  <2>2. CASE v # w
    <3>1. v \in Busy /\ work'[v] = work[v]
      BY <1>4, <2>2, SameWork
    <3>2. work[v].agg.count \in Nat
      BY <3>1, BusyIsReady, Documents DEF Ready
    <3>3. work[v].agg.count <= agg.count
      BY <3>1 DEF Handlers, Behind
    <3> QED
      BY <1>3, <1>7, <3>1, <3>2, <3>3
  <2> QED
    BY <2>1, <2>2
<1>11. Handlers'
  BY <1>9, <1>10 DEF Handlers, Behind, KeysFree
<1>12. Applied'
  BY <1>1, <1>6, <1>7, Documents, StillApplied
<1> QED
  BY <1>8, <1>11, <1>12

\* Writing a snapshot that is counted already leaves what is counted.
LEMMA AddCounts ==
  ASSUME TypeOK, WorkInv, Whole, NEW w \in Worker, AddSnapshot(w),
         NEW s, s = Adding(w)
  PROVE  /\ work'[w] = Idle
         /\ \A v \in Worker : v # w => work'[v] = work[v]
         /\ applied' = applied \union {work[w].msg}
         /\ w \in Adders /\ s \in Counted
         /\ snaps' = snaps \union {s} /\ agg' = agg
         /\ Adders' = Adders \ {w}
         /\ \A v \in Adders' : Adding(v)' = Adding(v)
         /\ Counted' = Counted
<1> USE DEF Whole
<1> PICK m, at : m = work[w].msg /\ at = work[w].at
  OBVIOUS
<1>1. work[w] \in Reading \union Working /\ w \in Busy /\ m \in Msg /\ at \in Nat
  BY SomeWhere DEF AddSnapshot
<1>2. /\ work'[w] = Idle
      /\ \A v \in Worker : v # w => work'[v] = work[v]
      /\ applied' = applied \union {m}
  BY <1>1, Ends DEF AddSnapshot
<1>3. w \in Adders /\ agg' = agg /\ snaps' = Put(s)
  BY DEF AddSnapshot, Adders, Adding
<1>4. s \in Counted
  BY <1>3, CountedIs
<1>5. snaps' = snaps \union {s}
  <2>1. \A t \in snaps : t.seq = s.seq => t = s
    BY <1>4, CountedIs DEF Records, Numbered
  <2> QED
    BY <1>3, <2>1, PutAdds
<1>6. Adders' = Adders \ {w}
  BY <1>2, Places DEF Adders
<1>7. \A v \in Adders' : Adding(v)' = Adding(v)
  BY <1>2, <1>6 DEF Adders, Adding
<1>8. Counted' = Counted
  <2>1. Counted' = snaps' \union {Adding(v)' : v \in Adders'}
    BY DEF Counted
  <2>2. Counted' = snaps' \union {Adding(v) : v \in Adders'}
    BY <1>7, <2>1, Zenon
  <2> QED
    BY <1>3, <1>5, <1>6, <2>2 DEF Counted
<1> QED
  BY <1>2, <1>3, <1>4, <1>5, <1>6, <1>7, <1>8

\* Writing a snapshot that is counted already changes nothing that counts.
LEMMA WholeAddSnapshot ==
  ASSUME TypeOK, WorkInv, Whole, NEW w \in Worker, AddSnapshot(w)
  PROVE  Whole'
<1> USE DEF Whole
<1> PICK m, at, s : m = work[w].msg /\ at = work[w].at /\ s = Adding(w)
  OBVIOUS
<1>1. work[w] \in Reading \union Working /\ w \in Busy /\ m \in Msg /\ at \in Nat
  BY SomeWhere DEF AddSnapshot
<1>2. /\ work'[w] = Idle
      /\ \A v \in Worker : v # w => work'[v] = work[v]
      /\ applied' = applied \union {m}
  BY AddCounts
<1>3. w \in Adders /\ s \in Counted /\ snaps' = snaps \union {s} /\ agg' = agg
  BY AddCounts
<1>4. Adders' = Adders \ {w} /\ \A v \in Adders' : Adding(v)' = Adding(v)
  BY AddCounts
<1>5. Counted' = Counted
  BY AddCounts
<1>6. Records'
  BY <1>3, <1>5 DEF Records, Numbered, KeysApart, KeysTell
<1>7. AddersApart'
  <2>1. ASSUME NEW v \in Adders' PROVE Adding(v)' \notin snaps'
    <3>1. v \in Adders /\ v # w
      BY <1>4
    <3>2. Adding(v) \notin snaps /\ Adding(v) # s
      BY <1>3, <3>1 DEF Handlers, AddersApart
    <3> QED
      BY <1>3, <1>4, <3>2
  <2>2. ASSUME NEW v \in Adders', NEW u \in Adders', Adding(v)'.seq = Adding(u)'.seq
        PROVE  v = u
    BY <1>4, <2>2 DEF Handlers, AddersApart
  <2> QED
    BY <2>1, <2>2 DEF AddersApart
<1>8. ASSUME NEW v \in Busy'
       PROVE  /\ work'[v].agg.count <= agg'.count
              /\ work'[v].pc = "set" /\ work'[v].agg.count = agg'.count
                   => \A t \in Counted' : t.key # Adding(v)'.key
  <2>1. v # w
    BY <1>2, Places DEF Busy
  <2>2. v \in Busy /\ work'[v] = work[v] /\ Adding(v)' = Adding(v)
    BY <1>2, <2>1, SameWork
  <2> QED
    BY <1>3, <1>5, <2>2 DEF Handlers, Behind, KeysFree
<1>9. Handlers'
  BY <1>7, <1>8 DEF Handlers, Behind, KeysFree
<1>10. /\ Kept(m)'
       /\ Kind[m] \in {"final", "deadletter", "finalization"} => agg'.status \in Ended
  <2>1. Ready(m, at, work[w].agg)
    BY <1>1, BusyIsReady
  <2>2. s = SnapshotOf(m, at, work[w].agg)
    BY DEF Adding
  <2>3. CASE Kind[m] = "ingress"
    <3>1. agg # Absent
      BY <1>3, NoneCounted, Documents DEF Records
    <3> QED
      BY <1>3, <2>3, <3>1 DEF Kept, SnapshotKinds
  <2>4. CASE Kind[m] # "ingress"
    <3>1. s.key.of = Key[m] /\ s.kind = Kind[m]
      BY <1>1, <2>1, <2>2, <2>4, Built, KeyTypes
    <3>2. Kind[m] \in SnapshotKinds /\ Kind[m] # "finalization"
      BY <1>1, <2>1, <2>4, KeyTypes DEF Kinds, Ready
    <3>3. Kept(m)'
      BY <1>3, <3>1, <3>2 DEF Kept
    <3> QED
      BY <1>3, <3>1, <3>2, <3>3 DEF Applied, EndsTell
  <2> QED
    BY <2>3, <2>4
<1>11. Applied'
  BY <1>2, <1>3, <1>5, <1>10, StillApplied
<1> QED
  BY <1>6, <1>9, <1>11

\* A handler that is cut off before its first write leaves the records.
LEMMA WholeDrops ==
  ASSUME TypeOK, WorkInv, Whole, NEW w \in Worker, Drops(w), ~torn'
  PROVE  Whole'
<1>1. /\ work'[w] = Idle
      /\ \A v \in Worker : v # w => work'[v] = work[v]
  BY Moved DEF Drops
<1>2. work[w].pc # "add" /\ UNCHANGED <<agg, snaps, applied>>
  BY DEF Drops
<1>3. work'[w].pc \notin {"query", "set", "add"}
  BY <1>1, Places
<1> QED
  BY <1>1, <1>2, <1>3, WholeQuiet

\* A handler that takes a message has read nothing yet.
LEMMA WholeTake ==
  ASSUME TypeOK, WorkInv, Whole, NEW w \in Worker, NEW m \in Msg, Take(w, m)
  PROVE  Whole'
<1>1. PICK now : work' = [work EXCEPT ![w] = [pc |-> "read", msg |-> m, at |-> now]]
  BY DEF Take
<1>2. /\ work'[w] = [pc |-> "read", msg |-> m, at |-> now]
      /\ \A v \in Worker : v # w => work'[v] = work[v]
  BY <1>1, Moved
<1>3. work[w].pc # "add" /\ UNCHANGED <<agg, snaps, applied>>
  BY Places DEF Take
<1> QED
  BY <1>2, <1>3, WholeQuiet

\* A step that touches neither documents nor handlers.
LEMMA SameCounted ==
  ASSUME UNCHANGED <<snaps, work>>
  PROVE  Counted' = Counted
<1>1. Adders' = Adders /\ Adders \subseteq Worker
  BY DEF Adders
<1>2. \A v \in Worker : Adding(v)' = Adding(v)
  BY DEF Adding
<1> QED
  BY <1>1, <1>2, Zenon DEF Counted

LEMMA WholeSame ==
  ASSUME Whole, UNCHANGED <<agg, snaps, work, applied>>
  PROVE  Whole'
<1>1. Adders' = Adders /\ Busy' = Busy
  BY DEF Adders, Busy
<1>2. \A v \in Worker : Adding(v)' = Adding(v)
  BY DEF Adding
<1>3. Counted' = Counted
  BY SameCounted
<1>4. Records'
  BY <1>3 DEF Whole, Records, Numbered, KeysApart, KeysTell
<1>5. Handlers'
  <2>1. Adders \subseteq Worker /\ Busy \subseteq Worker
    BY DEF Adders, Busy
  <2>2. AddersApart'
    BY <1>1, <1>2, <2>1 DEF Whole, Handlers, AddersApart
  <2>3. Behind' /\ KeysFree'
    BY <1>1, <1>2, <1>3, <2>1 DEF Whole, Handlers, Behind, KeysFree
  <2> QED
    BY <2>2, <2>3 DEF Handlers
<1>6. Applied'
  BY <1>3 DEF Whole, Applied, EndsTell, Kept
<1> QED
  BY <1>4, <1>5, <1>6 DEF Whole

-----------------------------------------------------------------------------
(* The theorems.                                                            *)

\* The records are whole initially: there are none.
LEMMA InvInit == Init => Inv
<1> SUFFICES ASSUME Init PROVE Inv
  OBVIOUS
<1>1. Busy = {} /\ Adders = {}
  BY Places DEF Init, Busy, Adders
<1>2. Counted = {} /\ agg.count = 0 /\ agg.latest = 0 /\ applied = {}
  BY <1>1, Zenon DEF Init, Counted, Absent
<1>3. Records
  <2>1. \A n : n \notin 1..0
    OBVIOUS
  <2> QED
    BY <1>2, <2>1 DEF Records, Numbered, KeysApart, KeysTell
<1>4. Handlers /\ Applied
  BY <1>1, <1>2 DEF Handlers, AddersApart, Behind, KeysFree, Applied, EndsTell
<1> QED
  BY <1>3, <1>4, TypeInit DEF Inv, Whole

\* No step takes a tear back, and a step that leaves none keeps the records.
LEMMA InvStep == Inv /\ [Next]_vars => Inv'
<1> SUFFICES ASSUME Inv, [Next]_vars PROVE Inv'
  OBVIOUS
<1>1. TypeOK /\ WorkInv /\ TypeOK' /\ WorkInv'
  BY TypeStep DEF Inv
<1> SUFFICES ASSUME ~torn' PROVE Whole'
  BY <1>1 DEF Inv
<1>2. CASE \E w \in Worker : Handle(w)
  <2>1. PICK w \in Worker : Handle(w)
    BY <1>2
  <2>2. ~torn
    BY <2>1 DEF Handle, Finalize, Transact, Read, Query, SetAggregate,
                AddSnapshot, Throw, Die, Drops
  <2>3. Whole
    BY <2>2 DEF Inv, Whole
  <2>4. CASE Finalize(w)
    BY <1>1, <2>3, <2>4, WholeFinalize
  <2>5. CASE Transact(w)
    BY <1>1, <2>3, <2>5, WholeTransact
  <2>6. CASE Read(w)
    BY <1>1, <2>3, <2>6, WholeRead
  <2>7. CASE Query(w)
    BY <1>1, <2>3, <2>7, WholeQuery
  <2>8. CASE SetAggregate(w)
    BY <1>1, <2>3, <2>8, WholeSetAggregate
  <2>9. CASE AddSnapshot(w)
    BY <1>1, <2>3, <2>9, WholeAddSnapshot
  <2>10. CASE Throw(w) \/ Die(w)
    BY <1>1, <2>3, <2>10, WholeDrops DEF Throw, Die
  <2> QED
    BY <2>1, <2>4, <2>5, <2>6, <2>7, <2>8, <2>9, <2>10 DEF Handle
<1>3. CASE \E w \in Worker, m \in Msg : Take(w, m)
  <2>1. ~torn
    BY <1>3 DEF Take
  <2> QED
    BY <1>1, <1>3, <2>1, WholeTake DEF Inv, Whole
<1>4. CASE \E m \in Msg : Redeliver(m)
  <2>1. ~torn /\ UNCHANGED <<agg, snaps, work, applied>>
    BY <1>4 DEF Redeliver
  <2> QED
    BY <2>1, WholeSame DEF Inv, Whole
<1>5. CASE UNCHANGED vars
  <2>1. ~torn /\ UNCHANGED <<agg, snaps, work, applied>>
    BY <1>5 DEF vars
  <2> QED
    BY <2>1, WholeSame DEF Inv, Whole
<1> QED
  BY <1>2, <1>3, <1>4, <1>5 DEF Next

\* The types, where the handlers are, and, while no document was changed
\* between a handler's read and write of it, the records and what they keep.
THEOREM Invariance == Spec => []Inv
  BY InvInit, InvStep, PTL DEF Spec

\* Aggregates, snapshots and handlers keep their types.
THEOREM TypeCorrect == Spec => []TypeOK
<1>1. Inv => TypeOK
  BY DEF Inv
<1> QED
  BY <1>1, Invariance, PTL

\* The snapshots of an event are numbered 1 to snapshotCount, each number
\* once (applySnapshotToAggregate, buildSnapshotDoc).
THEOREM NumbersExact == Spec => []CountIsExact
<1>1. Inv => CountIsExact
  <2> SUFFICES ASSUME Inv, ~torn
               PROVE  /\ {s.seq : s \in Counted} = 1..agg.count
                      /\ \A s, t \in Counted : s.seq = t.seq => s = t
                      /\ AddersApart
                      /\ agg.latest = agg.count
    BY DEF CountIsExact, AddersApart
  <2> QED
    BY DEF Inv, Whole, Records, Numbered, Handlers
<1> QED
  BY <1>1, Invariance, PTL

\* No two snapshots have the same key, however often a message is delivered
\* (applySnapshotEvent's query).
THEOREM RecordedOnceAlways == Spec => []RecordedOnce
<1>1. Inv => RecordedOnce
  BY DEF Inv, Whole, Records, KeysApart, RecordedOnce
<1> QED
  BY <1>1, Invariance, PTL

\* A message that was handled to the end is recorded from then on.
THEOREM NothingAppliedLost == Spec => []AppliedIsKept
<1>1. Inv => AppliedIsKept
  BY DEF Inv, Whole, Applied, AppliedIsKept
<1> QED
  BY <1>1, Invariance, PTL

\* An event that ended stays ended, whatever arrives late
\* (deriveAggregateStatus).
THEOREM EndsStay == Spec => []EndIsFinal
<1>1. Inv => EndIsFinal
  BY DEF Inv, Whole, Applied, EndIsFinal
<1> QED
  BY <1>1, Invariance, PTL

\* Only a handler of the document store can tear: in Firestore nobody is
\* ever between a read and a write.
NeverTorn == backend = "firestore" => ~torn

\* With the Firestore store nothing is ever torn (its transactions).
THEOREM FirestoreNeverTears == Spec => []NeverTorn
<1>1. Init => NeverTorn
  BY DEF Init, NeverTorn
<1>2. Inv /\ NeverTorn /\ [Next]_vars => NeverTorn'
  <2> SUFFICES ASSUME Inv, NeverTorn, [Next]_vars, backend' = "firestore"
               PROVE  ~torn'
    BY DEF NeverTorn
  <2>1. backend' = backend
    BY DEF Next, Handle, Finalize, Transact, Read, Query, SetAggregate, AddSnapshot,
           Throw, Die, Drops, Take, Redeliver, vars
  <2>2. \A w \in Worker : work[w].pc \notin {"query", "set", "add"}
    BY <2>1 DEF Inv, WorkInv, Busy
  <2>3. ~torn
    BY <2>1 DEF NeverTorn
  <2> QED
    BY <2>2, <2>3 DEF Next, Handle, Finalize, Transact, Read, Query, SetAggregate, AddSnapshot,
                Throw, Die, Drops, Take, Redeliver, vars
<1> QED
  BY <1>1, <1>2, Invariance, PTL DEF Spec

\* With the Firestore store applySnapshotEvent keeps its promise of
\* repository.ts without a condition: what was handled is kept.
THEOREM FirestoreKeeps == Spec => [](backend = "firestore" => TransactionalApply)
<1>1. Inv /\ NeverTorn => (backend = "firestore" => TransactionalApply)
  BY DEF Inv, Whole, Applied, NeverTorn, TransactionalApply
<1> QED
  BY <1>1, FirestoreNeverTears, Invariance, PTL

-----------------------------------------------------------------------------
(* The ledger.  While nothing is torn, the steps that write an aggregate    *)
(* make an entry, and the others leave what is counted alone.               *)

LedgerVars ==
    <<backend, IF torn THEN {} ELSE Counted, IF torn THEN 0 ELSE agg.count,
      IF torn THEN "torn" ELSE agg.status>>

\* A handler that reads, asks or ends does not come to its second write.
LEMMA Quiets ==
  ASSUME TypeOK, WorkInv, NEW w \in Worker, Read(w) \/ Query(w) \/ Drops(w)
  PROVE  /\ work'[w].pc # "add"
         /\ \A v \in Worker : v # w => work'[v] = work[v]
<1>1. CASE Drops(w)
  BY <1>1, Moved, Places DEF Drops
<1>2. CASE (Read(w) \/ Query(w)) /\ End(w)
  <2>1. work[w] \in Reading \union Working
    BY <1>2, SomeWhere DEF Read, Query
  <2> QED
    BY <1>2, <2>1, Ends, Places
<1>3. CASE Read(w) /\ ~End(w)
  <2>1. work[w] \in Reading \union Working /\ agg \in Aggregate \union {Absent}
    BY <1>3, SomeWhere DEF Read, TypeOK
  <2>2. Goes(w, "set", agg) \/ Goes(w, "query", agg)
    BY <1>3 DEF Read
  <2> QED
    BY <2>1, <2>2, GoesOn
<1>4. CASE Query(w) /\ ~End(w)
  <2>1. work[w] \in Reading \union Working /\ work[w].agg \in Aggregate \union {Absent}
    <3>1. w \in Busy
      BY <1>4 DEF Query, Busy
    <3> QED
      BY <1>4, <3>1, SomeWhere, BusyIsReady DEF Query, Ready
  <2>2. Goes(w, "set", work[w].agg)
    BY <1>4 DEF Query
  <2> QED
    BY <2>1, <2>2, GoesOn
<1> QED
  BY <1>1, <1>2, <1>3, <1>4

\* A handler that counts one snapshot more, on the aggregate that is stored,
\* makes an entry.
LEMMA EntersLedger ==
  ASSUME TypeOK, ~torn, ~torn', backend' = backend,
         NEW m, NEW at, NEW s, Ready(m, at, agg), s = SnapshotOf(m, at, agg),
         agg' = AggregateOf(m, agg),
         \A t \in Counted : t.seq # s.seq /\ t.key # s.key,
         Counted' = Counted \union {s}
  PROVE  Ledger!Next
<1>1. m \in Msg /\ at \in Nat /\ Kind[m] \in Kinds /\ Kind[m] # "finalization"
  BY KeyTypes DEF Ready
<1>2. s.seq = agg.count + 1 /\ agg'.count = agg.count + 1
  BY Built
<1>3. /\ s.kind \in Ledger!Kinds
      /\ IF s.kind = "initial" THEN agg.status = "absent" /\ s.key = NoKey ELSE s.key \in Keys
      /\ agg'.status = IF s.kind = "initial" THEN "INGESTED" ELSE Derived(s.kind, agg.status)
  <2>1. CASE Kind[m] = "ingress"
    BY <2>1 DEF Ready, SnapshotOf, AggregateOf, Absent, Ledger!Kinds
  <2>2. CASE Kind[m] # "ingress"
    <3>1. Kind[m] \in SnapshotKinds /\ KeyOf(m, at) \in Keys
      BY <1>1, <2>2, KeyTypes DEF Kinds
    <3> QED
      BY <2>2, <3>1 DEF SnapshotOf, AggregateOf, SnapshotKinds, Ledger!Kinds
  <2> QED
    BY <2>1, <2>2
<1>4. agg'.status = CASE s.kind = "initial" -> "INGESTED"
                      [] s.kind = "deadletter" -> "ERROR"
                      [] s.kind = "final" -> "FINALIZED"
                      [] s.kind = "update" -> IF agg.status \in Ended THEN agg.status
                                             ELSE "IN_PROGRESS"
  BY <1>3 DEF Derived, Ledger!Kinds
<1>5. agg.status # "torn"
  BY DEF TypeOK, Aggregate, Absent, Status
<1>6. Ledger!Enter(s)
  BY <1>2, <1>3, <1>4, <1>5 DEF Ledger!Enter, Ledger!After, Ledger!Ended, Ended
<1> QED
  BY <1>6 DEF Ledger!Next

\* A step that leaves what is counted and the status leaves the ledger.
LEMMA KeepsLedger ==
  ASSUME ~torn, ~torn', backend' = backend, agg' = agg, Counted' = Counted
  PROVE  UNCHANGED LedgerVars
  BY DEF LedgerVars

\* A handler that tears has read the document from a store without
\* transactions.
LEMMA TearsLedger ==
  ASSUME TypeOK, Inv, NEW w \in Worker, ~torn, torn',
         Query(w) \/ SetAggregate(w) \/ Drops(w)
  PROVE  Ledger!Tear
<1>1. w \in Busy
  BY DEF Query, SetAggregate, Drops, Busy
<1>2. backend = "document" /\ backend' = backend
  BY <1>1 DEF Inv, WorkInv, Query, SetAggregate, Drops
<1> QED
  BY <1>2 DEF Ledger!Tear

\* Every step is a step of the ledger or leaves it alone.
LEMMA StepLedger ==
  Inv /\ [Next]_vars => [Ledger!Next]_LedgerVars
<1> SUFFICES ASSUME Inv, [Next]_vars
             PROVE  Ledger!Next \/ UNCHANGED LedgerVars
  OBVIOUS
<1>1. TypeOK /\ WorkInv
  BY DEF Inv
<1>2. backend' = backend
  BY DEF Next, Handle, Finalize, Transact, Read, Query, SetAggregate, AddSnapshot,
         Throw, Die, Drops, Take, Redeliver, vars
<1>3. torn => torn'
  BY DEF Next, Handle, Finalize, Transact, Read, Query, SetAggregate, AddSnapshot,
         Throw, Die, Drops, Take, Redeliver, vars
<1>4. CASE torn
  BY <1>2, <1>3, <1>4 DEF LedgerVars
<1>5. CASE ~torn
  <2>1. Whole
    BY <1>5 DEF Inv
  <2>2. ASSUME NEW w \in Worker, Finalize(w)
        PROVE  Ledger!Next
    <3>1. work[w].pc # "add" /\ snaps' = snaps /\ ~torn'
      BY <1>5, <2>2 DEF Finalize
    <3>2. work[w] \in Reading \union Working
      BY <1>1, <2>2, SomeWhere DEF Finalize
    <3>3. work'[w] = Idle /\ \A v \in Worker : v # w => work'[v] = work[v]
      BY <1>1, <2>2, <3>2, Ends DEF Finalize
    <3>4. Counted' = Counted
      BY <3>1, <3>3, StillCounted, Places
    <3>5. agg.status # "torn"
      BY <1>1 DEF TypeOK, Aggregate, Absent, Status
    <3>6. agg'.status = "FINALIZED" /\ agg'.count = agg.count
      BY <2>2 DEF Finalize
    <3>7. Ledger!Finalize
      BY <1>2, <1>5, <3>1, <3>4, <3>5, <3>6 DEF Ledger!Finalize
    <3> QED
      BY <3>7 DEF Ledger!Next
  <2>3. ASSUME NEW w \in Worker, Transact(w)
        PROVE  Ledger!Next \/ UNCHANGED LedgerVars
    <3> PICK m, at, s : m = work[w].msg /\ at = work[w].at /\ s = SnapshotOf(m, at, agg)
      OBVIOUS
    <3>1. ~torn'
      BY <1>5, <2>3 DEF Transact
    <3>2. CASE IsDone(m, at)
      <4>1. work[w].pc # "add" /\ snaps' = snaps /\ agg' = agg /\ End(w)
        BY <2>3, <3>2 DEF Transact
      <4>2. work[w] \in Reading \union Working
        BY <1>1, <2>3, SomeWhere DEF Transact
      <4>3. work'[w] = Idle /\ \A v \in Worker : v # w => work'[v] = work[v]
        BY <1>1, <4>1, <4>2, Ends
      <4>4. Counted' = Counted
        BY <4>1, <4>3, StillCounted, Places
      <4> QED
        BY <1>2, <1>5, <3>1, <4>1, <4>4, KeepsLedger
    <3>3. CASE ~IsDone(m, at)
      <4>1. /\ Ready(m, at, agg) /\ agg' = AggregateOf(m, agg)
            /\ \A t \in Counted : t.seq # s.seq /\ t.key # s.key
            /\ Counted' = Counted \union {s}
        BY <1>1, <2>1, <2>3, <3>3, Transacted
      <4> QED
        BY <1>1, <1>2, <1>5, <3>1, <4>1, EntersLedger
    <3> QED
      BY <3>2, <3>3
  <2>4. ASSUME NEW w \in Worker, SetAggregate(w)
        PROVE  Ledger!Next
    <3> PICK m, at, s : m = work[w].msg /\ at = work[w].at /\ s = Adding(w)
      OBVIOUS
    <3>1. CASE torn'
      BY <1>1, <1>5, <2>4, <3>1, TearsLedger DEF Ledger!Next
    <3>2. CASE ~torn'
      <4>1. Ready(m, at, agg) /\ s = SnapshotOf(m, at, agg) /\ agg' = AggregateOf(m, agg)
        BY <1>1, <2>1, <2>4, <3>2, SetCounts
      <4>2. /\ \A t \in Counted : t.seq # s.seq /\ t.key # s.key
            /\ Counted' = Counted \union {s}
        BY <1>1, <2>1, <2>4, <3>2, SetCounts
      <4> QED
        BY <1>1, <1>2, <1>5, <3>2, <4>1, <4>2, EntersLedger
    <3> QED
      BY <3>1, <3>2
  <2>5. ASSUME NEW w \in Worker, AddSnapshot(w)
        PROVE  UNCHANGED LedgerVars
    <3>1. Counted' = Counted /\ agg' = agg
      BY <1>1, <2>1, <2>5, AddCounts
    <3> QED
      BY <1>2, <1>5, <2>5, <3>1, KeepsLedger DEF AddSnapshot
  <2>6. ASSUME NEW w \in Worker, Read(w) \/ Query(w) \/ Drops(w)
        PROVE  Ledger!Next \/ UNCHANGED LedgerVars
    <3>1. CASE torn'
      <4>1. Query(w) \/ Drops(w)
        BY <1>5, <2>6, <3>1 DEF Read
      <4> QED
        BY <1>1, <1>5, <3>1, <4>1, TearsLedger DEF Ledger!Next
    <3>2. CASE ~torn'
      <4>1. work[w].pc # "add" /\ snaps' = snaps /\ agg' = agg
        BY <2>6, <3>2 DEF Read, Query, Drops
      <4>2. work'[w].pc # "add" /\ \A v \in Worker : v # w => work'[v] = work[v]
        BY <1>1, <2>6, Quiets
      <4>3. Counted' = Counted
        BY <4>1, <4>2, StillCounted
      <4> QED
        BY <1>2, <1>5, <3>2, <4>1, <4>3, KeepsLedger
    <3> QED
      BY <3>1, <3>2
  <2>7. ASSUME NEW w \in Worker, NEW m \in Msg, Take(w, m)
        PROVE  UNCHANGED LedgerVars
    <3>1. PICK now : work' = [work EXCEPT ![w] = [pc |-> "read", msg |-> m, at |-> now]]
      BY <2>7 DEF Take
    <3>2. /\ work'[w] = [pc |-> "read", msg |-> m, at |-> now]
          /\ \A v \in Worker : v # w => work'[v] = work[v]
      BY <1>1, <3>1, Moved
    <3>3. work[w].pc # "add" /\ snaps' = snaps /\ agg' = agg /\ ~torn'
      BY <1>5, <2>7, Places DEF Take
    <3>4. Counted' = Counted
      BY <3>2, <3>3, StillCounted
    <3> QED
      BY <1>2, <1>5, <3>3, <3>4, KeepsLedger
  <2>8. CASE (\E m \in Msg : Redeliver(m)) \/ UNCHANGED vars
    <3>1. UNCHANGED <<agg, snaps, work, torn>>
      BY <2>8 DEF Redeliver, vars
    <3>2. Counted' = Counted
      BY <3>1, SameCounted
    <3> QED
      BY <1>2, <1>5, <3>1, <3>2, KeepsLedger
  <2> QED
    BY <2>2, <2>3, <2>4, <2>5, <2>6, <2>7, <2>8 DEF Next, Handle, Throw, Die
<1> QED
  BY <1>4, <1>5

\* The ledger starts empty.
LEMMA InitLedger == Init => Ledger!Init
<1> SUFFICES ASSUME Init PROVE Ledger!Init
  OBVIOUS
<1>1. Adders = {}
  BY Places DEF Init, Adders
<1>2. Counted = {}
  BY <1>1, Zenon DEF Init, Counted
<1> QED
  BY <1>2 DEF Init, Absent, Ledger!Init

\* The aggregate and the snapshots of an event implement the append-only
\* ledger, outright on Firestore and until a tear on a document store
\* (upsertIngressEvent, applySnapshotEvent, applyFinalization).
THEOREM PersistenceImplementsLedger == Spec => ImplementsLedger
<1>1. Inv /\ [Next]_vars
        => [Ledger!Next]_<<backend, IF torn THEN {} ELSE Counted,
                           IF torn THEN 0 ELSE agg.count,
                           IF torn THEN "torn" ELSE agg.status>>
  BY StepLedger DEF LedgerVars
<1> QED
  BY Invariance, InitLedger, <1>1, PTL DEF Spec, ImplementsLedger, Ledger!Spec

=============================================================================
