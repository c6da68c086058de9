------------------------- MODULE DedupeStore_proofs -------------------------
(***************************************************************************)
(* Proofs about DedupeStore, for any set of keys, any limit, TTL and prune *)
(* period.  Inv strengthens the type invariant by what a stamp means: it   *)
(* is the time of the key's last offer, and an entry that is missing while *)
(* its time is not over fell to an eviction that came no earlier.          *)
(***************************************************************************)
EXTENDS DedupeStore, FiniteSetTheorems, TLAPS

HeldIsFinite == IsFiniteSet(Held)

StampIsLastOffer == \A k \in Key : stamp[k] # 0 => stamp[k] = lastOffer[k]

MissingWasEvicted ==
    \A k \in Key :
        lastOffer[k] # 0 /\ now - lastOffer[k] <= Ttl /\ stamp[k] = 0
            => lastEvict >= lastOffer[k]

Inv ==
    /\ TypeOK
    /\ HeldIsFinite
    /\ HeldBound
    /\ StampIsLastOffer
    /\ MissingWasEvicted
    /\ DropIsRecent
    /\ RepeatNeedsEviction

-----------------------------------------------------------------------------
(* What the helpers return.                                                 *)

\* An eviction leaves at most Max entries: Math.floor(max * 0.9) <= max.
LEMMA TargetBound == Target \in Nat /\ Target <= Max
  BY StoreAssumption, SMT DEF Target

\* A prune keeps entries of the map, at most Max of them, and loses an
\* unexpired one only by an eviction.
LEMMA SurviveFacts ==
  ASSUME TypeOK, HeldIsFinite, NEW kept \in SUBSET Held, Survive(kept)
  PROVE  /\ kept \subseteq Key
         /\ IsFiniteSet(kept)
         /\ Cardinality(kept) \in Nat
         /\ Cardinality(kept) <= Max
         /\ ~ Evicts => Fresh \subseteq kept
<1>1. kept \subseteq Key
  BY DEF Held
<1>2. Fresh \subseteq Held
  BY DEF Fresh
<1>3. /\ IsFiniteSet(kept) /\ Cardinality(kept) \in Nat
      /\ IsFiniteSet(Fresh) /\ Cardinality(Fresh) \in Nat
      /\ Cardinality(Held) \in Nat
  BY <1>2, FS_Subset, FS_CardinalityType DEF HeldIsFinite
<1>4. Cardinality(kept) <= Max
  <2>1. CASE ~ PruneDue /\ kept = Held
    BY <1>3, <2>1, StoreAssumption DEF PruneDue
  <2>2. CASE PruneDue /\ ~ Evicts /\ kept = Fresh
    BY <1>3, <2>2, StoreAssumption DEF Evicts
  <2>3. CASE Evicts /\ Cardinality(kept) = Target
    BY <2>3, TargetBound
  <2> QED
    BY <2>1, <2>2, <2>3 DEF Survive
<1>5. ~ Evicts => Fresh \subseteq kept
  BY <1>2 DEF Survive
<1> QED
  BY <1>1, <1>3, <1>4, <1>5

\* After an offer the map holds what the prune left and the key offered.
LEMMA HeldAfterOffer ==
  ASSUME TypeOK, NEW k \in Key, NEW kept \in SUBSET Held, Write(k, kept)
  PROVE  Held' = kept \union {k}
<1>1. now # 0 /\ kept \subseteq Key
  BY DEF TypeOK, Held
<1>2. \A j \in kept : stamp[j] # 0
  BY DEF Held
<1> QED
  BY <1>1, <1>2 DEF Write, Held

-----------------------------------------------------------------------------
(* The invariant.                                                           *)

LEMMA InitInv == Init => Inv
<1> SUFFICES ASSUME Init PROVE Inv
  OBVIOUS
<1>1. Held = {}
  BY DEF Init, Held
<1>2. TypeOK
  BY <1>1, StoreAssumption DEF Init, TypeOK, NoAnswer, NoAsk
<1>3. HeldIsFinite /\ HeldBound
  BY <1>1, FS_EmptySet, StoreAssumption DEF HeldIsFinite, HeldBound
<1>4. StampIsLastOffer /\ MissingWasEvicted /\ DropIsRecent /\ RepeatNeedsEviction
  BY DEF Init, StampIsLastOffer, MissingWasEvicted, DropIsRecent,
         RepeatNeedsEviction, NoAnswer, NoAsk
<1> QED
  BY <1>2, <1>3, <1>4 DEF Inv

LEMMA TickInv == Inv /\ Tick => Inv'
<1> SUFFICES ASSUME Inv, Tick PROVE Inv'
  OBVIOUS
<1> USE DEF Inv, Tick
<1>1. Held' = Held
  BY DEF Held
<1>2. TypeOK'
  <2>1. now' \in Nat \ {0} /\ 0..now \subseteq 0..now'
    BY DEF TypeOK
  <2> QED
    BY <1>1, <2>1 DEF TypeOK
<1>3. HeldIsFinite' /\ HeldBound'
  BY <1>1 DEF HeldIsFinite, HeldBound
<1>4. StampIsLastOffer' /\ DropIsRecent' /\ RepeatNeedsEviction'
  BY DEF StampIsLastOffer, DropIsRecent, RepeatNeedsEviction
<1>5. MissingWasEvicted'
  <2> SUFFICES ASSUME NEW k \in Key, lastOffer'[k] # 0,
                      now' - lastOffer'[k] <= Ttl, stamp'[k] = 0
               PROVE  lastEvict' >= lastOffer'[k]
    BY DEF MissingWasEvicted
  <2>1. lastOffer[k] \in Nat /\ now \in Nat
    BY DEF TypeOK
  <2>2. now - lastOffer[k] <= Ttl
    BY <2>1, StoreAssumption
  <2> QED
    BY <2>2 DEF MissingWasEvicted
<1> QED
  BY <1>2, <1>3, <1>4, <1>5

LEMMA OfferInv == ASSUME Inv, NEW k \in Key, Offer(k) PROVE Inv'
<1> USE DEF Inv
<1> PICK kept \in SUBSET Held :
        /\ Survive(kept)
        /\ Write(k, kept)
        /\ lastPrune' = IF PruneDue THEN now ELSE lastPrune
        /\ answer' = [key |-> k, drop |-> Drops(k, kept)]
        /\ lastOffer' = [lastOffer EXCEPT ![k] = now]
        /\ lastEvict' = IF Evicts THEN now ELSE lastEvict
        /\ ask' = [at |-> now, before |-> lastOffer[k], evict |-> lastEvict']
        /\ UNCHANGED now
  BY DEF Offer
<1>1. /\ kept \subseteq Key /\ IsFiniteSet(kept) /\ Cardinality(kept) \in Nat
      /\ Cardinality(kept) <= Max
      /\ ~ Evicts => Fresh \subseteq kept
  BY SurviveFacts
<1>2. Held' = kept \union {k}
  BY HeldAfterOffer
<1>3. now \in Nat \ {0} /\ lastEvict' \in 0..now /\ lastOffer[k] \in 0..now
  BY DEF TypeOK
<1>4. TypeOK'
  <2>1. stamp' \in [Key -> 0..now]
    BY <1>3 DEF TypeOK, Write
  <2>2. older' \in [Key -> SUBSET Held']
    BY <1>1, <1>2 DEF TypeOK, Write
  <2>3. lastPrune' \in 0..now
    BY <1>3 DEF TypeOK
  <2>4. answer' \in [key : Key, drop : BOOLEAN]
    BY DEF Drops
  <2>5. lastOffer' \in [Key -> 0..now]
    BY <1>3 DEF TypeOK
  <2>6. ask' \in [at : 0..now, before : 0..now, evict : 0..now]
    BY <1>3
  <2> QED
    BY <1>3, <2>1, <2>2, <2>3, <2>4, <2>5, <2>6 DEF TypeOK
<1>5. HeldIsFinite' /\ HeldBound'
  <2>1. IsFiniteSet(Held')
    BY <1>1, <1>2, FS_AddElement
  <2>2. Cardinality(Held') = IF k \in kept THEN Cardinality(kept)
                                           ELSE Cardinality(kept) + 1
    BY <1>1, <1>2, FS_AddElement
  <2> QED
    BY <1>1, <2>1, <2>2, StoreAssumption DEF HeldIsFinite, HeldBound
<1>6. StampIsLastOffer'
  <2> SUFFICES ASSUME NEW j \in Key, stamp'[j] # 0
               PROVE  stamp'[j] = lastOffer'[j]
    BY DEF StampIsLastOffer
  <2>1. CASE j = k
    BY <2>1 DEF Write, TypeOK
  <2>2. CASE j # k
    BY <2>2 DEF Write, TypeOK, StampIsLastOffer
  <2> QED
    BY <2>1, <2>2
<1>7. MissingWasEvicted'
  <2> SUFFICES ASSUME NEW j \in Key, lastOffer'[j] # 0,
                      now - lastOffer'[j] <= Ttl, stamp'[j] = 0
               PROVE  lastEvict' >= lastOffer'[j]
    BY DEF MissingWasEvicted
  <2>1. j # k
    BY <1>3 DEF Write
  <2>2. lastOffer'[j] = lastOffer[j] /\ lastOffer[j] \in 0..now
    BY <2>1 DEF TypeOK
  <2>3. j \notin kept
    BY <2>1 DEF Write, Held
  <2>4. CASE Evicts
    BY <1>3, <2>2, <2>4
  <2>5. CASE ~ Evicts
    <3>1. j \notin Fresh
      BY <1>1, <2>3, <2>5
    <3>2. stamp[j] = 0
      BY <2>2, <3>1 DEF Fresh, Held, StampIsLastOffer
    <3> QED
      BY <2>2, <2>5, <3>2 DEF MissingWasEvicted
  <2> QED
    BY <2>4, <2>5
<1>8. DropIsRecent'
  <2> SUFFICES ASSUME Drops(k, kept)
               PROVE  lastOffer[k] # 0 /\ now - lastOffer[k] <= Ttl
    BY DEF DropIsRecent
  <2> QED
    BY <1>1 DEF Drops, Held, StampIsLastOffer
<1>9. RepeatNeedsEviction'
  <2> SUFFICES ASSUME lastOffer[k] # 0, now - lastOffer[k] <= Ttl, ~ Drops(k, kept)
               PROVE  lastEvict' >= lastOffer[k]
    BY DEF RepeatNeedsEviction
  <2>1. CASE Evicts
    BY <1>3, <2>1
  <2>2. CASE ~ Evicts
    <3>1. k \notin Fresh
      BY <1>1, <2>2 DEF Drops, Fresh
    <3>2. stamp[k] = 0
      BY <3>1 DEF Fresh, Held, StampIsLastOffer
    <3> QED
      BY <2>2, <3>2 DEF MissingWasEvicted
  <2> QED
    BY <2>1, <2>2
<1> QED
  BY <1>4, <1>5, <1>6, <1>7, <1>8, <1>9

LEMMA StutterInv == Inv /\ UNCHANGED vars => Inv'
  BY DEF vars, Inv, TypeOK, Held, HeldIsFinite, HeldBound, StampIsLastOffer,
         MissingWasEvicted, DropIsRecent, RepeatNeedsEviction

\* Inv holds of every reachable state of the store.
THEOREM Invariance == Spec => []Inv
<1>1. Inv /\ [Next]_vars => Inv'
  BY TickInv, OfferInv, StutterInv DEF Next
<1> QED
  BY InitInv, <1>1, PTL DEF Spec

\* The state of the store is well-typed: every entry names only entries of the
\* map as older, and no time lies ahead of the clock.
THEOREM TypeCorrect == Spec => []TypeOK
  BY Invariance, PTL DEF Inv

\* The map of a process holds at most one entry above MESSAGE_DEDUP_MAX.
THEOREM MapIsBounded == Spec => []HeldBound
  BY Invariance, PTL DEF Inv

\* A first delivery, and a repetition after its time, is never dropped.
THEOREM NoFalseDrop == Spec => []DropIsRecent
  BY Invariance, PTL DEF Inv

\* A repetition within its time is let through only after an eviction.
THEOREM NoFalseAdmission == Spec => []RepeatNeedsEviction
  BY Invariance, PTL DEF Inv

\* The answers are right, until an eviction makes the map forget.
THEOREM AnswersAreRight == Spec => []AnswerIsRight
  BY NoFalseDrop, NoFalseAdmission, PTL DEF AnswerIsRight

-----------------------------------------------------------------------------
(* The store implements DedupeMemory.                                       *)

\* Cardinality, as the instance of DedupeMemory sees it.
LEMMA SameCardinality == ASSUME NEW S PROVE Memory!Cardinality(S) = Cardinality(S)
  BY DEF Cardinality, Memory!Cardinality

\* The keys the abstract memory knows are the unexpired entries of the map.
LEMMA KnownIsFresh == Inv => Memory!Known = Fresh
<1> SUFFICES ASSUME Inv PROVE Memory!Known = Fresh
  OBVIOUS
<1>1. Fresh \subseteq Key /\ \A k \in Fresh : stamp[k] # 0
  BY DEF Fresh, Held
<1> QED
  BY <1>1 DEF Memory!Known

LEMMA InitMemory == Init => Memory!Init
<1> SUFFICES ASSUME Init PROVE Memory!Init
  OBVIOUS
<1>1. Fresh = {}
  BY DEF Init, Fresh, Held
<1> QED
  BY <1>1, StoreAssumption DEF Init, Memory!Init, NoAnswer, Memory!NoAnswer

\* The clock forgets in the memory what expires in the map.
LEMMA TickMemory == Inv /\ Tick => Memory!Tick
<1> SUFFICES ASSUME Inv, Tick PROVE Memory!Tick
  OBVIOUS
<1>1. /\ now \in Nat \ {0} /\ now' = now + 1 /\ stamp' = stamp
      /\ answer' = answer /\ Held' = Held /\ Held \subseteq Key
      /\ \A k \in Key : stamp[k] \in 0..now
  BY DEF Inv, TypeOK, Tick, Held
<1>2. ASSUME NEW k \in Key
      PROVE  (IF k \in Fresh' THEN stamp'[k] ELSE 0)
           = IF now + 1 > (IF k \in Fresh THEN stamp[k] ELSE 0) + Ttl
             THEN 0 ELSE IF k \in Fresh THEN stamp[k] ELSE 0
  <2>1. stamp[k] \in Nat /\ Ttl \in Nat
    BY <1>1, StoreAssumption
  <2>2. CASE k \in Fresh'
    <3>1. k \in Held /\ now + 1 - stamp[k] <= Ttl
      BY <1>1, <2>2 DEF Fresh
    <3>2. k \in Fresh
      BY <1>1, <2>1, <3>1 DEF Fresh
    <3> QED
      BY <1>1, <2>1, <2>2, <3>1, <3>2
  <2>3. CASE k \notin Fresh' /\ k \in Fresh
    <3>1. now + 1 - stamp[k] > Ttl
      BY <1>1, <2>1, <2>3 DEF Fresh
    <3> QED
      BY <1>1, <2>1, <2>3, <3>1
  <2>4. CASE k \notin Fresh' /\ k \notin Fresh
    BY <2>4
  <2> QED
    BY <2>2, <2>3, <2>4
<1> QED
  BY <1>1, <1>2 DEF Memory!Tick

\* An offer forgets in the memory the unexpired entries its prune deleted.
LEMMA OfferMemory == ASSUME Inv, NEW k \in Key, Offer(k) PROVE Memory!Offer(k)
<1> PICK kept \in SUBSET Held :
        /\ Survive(kept)
        /\ Write(k, kept)
        /\ answer' = [key |-> k, drop |-> Drops(k, kept)]
        /\ UNCHANGED now
  BY DEF Offer
<1> DEFINE lost == Fresh \ kept
<1>1. /\ now \in Nat \ {0} /\ Fresh \subseteq Key
      /\ Memory!Known = Fresh /\ lost \in SUBSET Memory!Known
  BY KnownIsFresh DEF Inv, TypeOK, Fresh, Held
<1>2. Memory!Overflow(lost)
  <2>1. CASE ~ Evicts
    <3>1. lost = {}
      BY <2>1 DEF Survive, Fresh
    <3> QED
      BY <3>1 DEF Memory!Overflow
  <2>2. CASE Evicts
    <3>1. kept \subseteq Fresh /\ Cardinality(kept) = Target
      BY <2>2 DEF Survive, Evicts
    <3>2. Memory!Known \ lost = kept
      BY <1>1, <3>1
    <3>3. Memory!Cardinality(Memory!Known) > Max
      BY <1>1, <2>2, SameCardinality, Zenon DEF Evicts
    <3>4. Memory!Cardinality(Memory!Known \ lost) = Target
      BY <3>1, <3>2, SameCardinality, Zenon
    <3> QED
      BY <3>3, <3>4, Zenon DEF Memory!Overflow
  <2> QED
    BY <2>1, <2>2
<1>3. Drops(k, kept) <=> k \in Fresh \ lost
  BY DEF Drops, Fresh
<1>4. ASSUME NEW j \in Key
      PROVE  (IF j \in Fresh' THEN stamp'[j] ELSE 0)
           = IF j = k THEN now
             ELSE IF j \in lost THEN 0
             ELSE IF j \in Fresh THEN stamp[j] ELSE 0
  <2>1. Fresh' = {i \in Key : stamp'[i] # 0 /\ now - stamp'[i] <= Ttl}
    BY DEF Fresh, Held
  <2>2. CASE j = k
    BY <1>1, <2>1, <2>2, StoreAssumption DEF Write
  <2>3. CASE j # k /\ j \in kept
    <3>1. stamp'[j] = stamp[j]
      BY <2>3 DEF Write
    <3>2. j \in Fresh' <=> j \in Fresh
      BY <2>1, <3>1 DEF Fresh, Held
    <3> QED
      BY <2>3, <3>1, <3>2
  <2>4. CASE j # k /\ j \notin kept
    <3>1. stamp'[j] = 0
      BY <2>4 DEF Write
    <3> QED
      BY <2>1, <2>4, <3>1
  <2> QED
    BY <2>2, <2>3, <2>4
<1> DEFINE remembered == [i \in Key |-> IF i \in Fresh THEN stamp[i] ELSE 0]
<1>5. remembered' = [j \in Key |->
        IF j = k THEN now ELSE IF j \in lost THEN 0 ELSE remembered[j]]
  BY <1>4
<1>6. Drops(k, kept) = (k \in Memory!Known \ lost)
  BY <1>1, <1>3 DEF Drops
<1>7. answer' = [key |-> k, drop |-> k \in Memory!Known \ lost]
  BY <1>6, Zenon
<1> HIDE DEF lost
<1> QED
  BY <1>1, <1>2, <1>5, <1>7, Zenon DEF Memory!Offer

LEMMA StutterMemory ==
  UNCHANGED vars
      => UNCHANGED <<now, [k \in Key |-> IF k \in Fresh THEN stamp[k] ELSE 0], answer>>
  BY DEF vars, Fresh, Held

\* The lazily pruned map implements the memory that forgets on time.
THEOREM StoreImplementsMemory == Spec => ImplementsMemory
<1>1. Inv /\ [Next]_vars
        => [Memory!Next]_<<now, [k \in Key |-> IF k \in Fresh THEN stamp[k] ELSE 0], answer>>
  BY TickMemory, OfferMemory, StutterMemory DEF Next, Memory!Next
<1> QED
  BY Invariance, InitMemory, <1>1, PTL DEF Spec, ImplementsMemory, Memory!Spec

=============================================================================
