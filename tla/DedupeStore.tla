----------------------------- MODULE DedupeStore -----------------------------
(***************************************************************************)
(* The store of dedupe.ts: a JavaScript Map from keys to the time of the   *)
(* last offer, in insertion order.  dedupeShouldDrop prunes it now and     *)
(* then (expired entries go; when more than Max are left, the oldest       *)
(* inserted go until Target are left), answers whether the key was offered *)
(* in the last Ttl milliseconds, and writes the time of this offer.        *)
(*                                                                         *)
(* Date.now() is never 0, so a time of 0 stands for an absent entry, which *)
(* is also how the code reads it (prev && ...).                            *)
(***************************************************************************)
EXTENDS Naturals, FiniteSets

CONSTANTS
    Key,        \* dedupe keys
    Ttl,        \* MESSAGE_DEDUP_TTL_MS
    Max,        \* MESSAGE_DEDUP_MAX
    PruneEvery, \* Math.min(ttl, 30000)
    MaxTime     \* bound: the clock stops here

ASSUME StoreAssumption ==
    /\ Ttl \in Nat \ {0}
    /\ Max \in Nat \ {0}
    /\ PruneEvery \in 1..Ttl
    /\ MaxTime \in Nat

\* Math.floor(max * 0.9)
Target == (9 * Max) \div 10

VARIABLES
    now,        \* Date.now()
    stamp,      \* [Key -> time]: store.map, 0 when absent
    older,      \* [Key -> SUBSET Key]: the entries inserted before this one
    lastPrune,  \* store.lastPrune
    answer,     \* the last answer: [key, drop]
    (* history variables, read by the properties only *)
    lastOffer,  \* [Key -> time of the last offer, 0 for none]
    lastEvict,  \* time of the last eviction, 0 for none
    ask         \* the last offer: its time, that of the one before, and lastEvict

vars == <<now, stamp, older, lastPrune, answer, lastOffer, lastEvict, ask>>

Held == {k \in Key : stamp[k] # 0}
Fresh == {k \in Held : now - stamp[k] <= Ttl}

NoAnswer == [key |-> "none", drop |-> FALSE]
NoAsk == [at |-> 0, before |-> 0, evict |-> 0]

TypeOK ==
    /\ now \in Nat \ {0}
    /\ stamp \in [Key -> 0..now]
    /\ older \in [Key -> SUBSET Held]
    /\ lastPrune \in 0..now
    /\ answer \in [key : Key, drop : BOOLEAN] \union {NoAnswer}
    /\ lastOffer \in [Key -> 0..now]
    /\ lastEvict \in 0..now
    /\ ask \in [at : 0..now, before : 0..now, evict : 0..now]

\* The clock is far from lastPrune = 0 when the process starts.
Init ==
    /\ now = PruneEvery + 1
    /\ stamp = [k \in Key |-> 0]
    /\ older = [k \in Key |-> {}]
    /\ lastPrune = 0
    /\ answer = NoAnswer
    /\ lastOffer = [k \in Key |-> 0]
    /\ lastEvict = 0
    /\ ask = NoAsk

Tick ==
    /\ now < MaxTime
    /\ now' = now + 1
    /\ UNCHANGED <<stamp, older, lastPrune, answer, lastOffer, lastEvict, ask>>

-----------------------------------------------------------------------------
(* dedupeShouldDrop.                                                        *)

\* Mutant of PruneDue: the size of the map does not trigger a prune.
PruneOnTimeOnly == now - lastPrune > PruneEvery

PruneDue ==
    \/ Cardinality(Held) > Max
    \/ now - lastPrune > PruneEvery

Evicts == PruneDue /\ Cardinality(Fresh) > Max

\* Mutant of Survive: an eviction may take any entry and leaves Max of them.
SurviveAny(kept) ==
    \/ ~ PruneDue /\ kept = Held
    \/ PruneDue /\ ~ Evicts /\ kept = Fresh
    \/ /\ Evicts
       /\ kept \in SUBSET Fresh
       /\ Cardinality(kept) = Max

\* Mutant of Survive: an entry expires at its Ttl, not after it.
SurviveShort(kept) ==
    \/ ~ PruneDue /\ kept = Held
    \/ PruneDue /\ ~ Evicts /\ kept = {k \in Held : now - stamp[k] < Ttl}
    \/ /\ Evicts
       /\ kept \in SUBSET Fresh
       /\ Cardinality(kept) = Target

\* The entries the prune leaves: an eviction deletes in insertion order, so an
\* entry stays only if every younger one does.
Survive(kept) ==
    \/ ~ PruneDue /\ kept = Held
    \/ PruneDue /\ ~ Evicts /\ kept = Fresh
    \/ /\ Evicts
       /\ kept \in SUBSET Fresh
       /\ Cardinality(kept) = Target
       /\ \A i \in Fresh : older[i] \intersect kept # {} => i \in kept

\* Mutant of Write: it stores the end of the window for its beginning.
WriteExpiry(k, kept) ==
    /\ stamp' = [j \in Key |-> IF j = k THEN now + Ttl
                               ELSE IF j \in kept THEN stamp[j] ELSE 0]
    /\ older' = [j \in Key |-> IF j = k /\ k \notin kept THEN kept
                               ELSE IF j \in kept THEN older[j] \intersect kept
                               ELSE {}]

\* map.set: a new entry goes to the end of the order, a known one keeps its
\* place in it.
Write(k, kept) ==
    /\ stamp' = [j \in Key |-> IF j = k THEN now
                               ELSE IF j \in kept THEN stamp[j] ELSE 0]
    /\ older' = [j \in Key |-> IF j = k /\ k \notin kept THEN kept
                               ELSE IF j \in kept THEN older[j] \intersect kept
                               ELSE {}]

Drops(k, kept) == k \in kept /\ now - stamp[k] <= Ttl

Offer(k) ==
    \E kept \in SUBSET Held :
        /\ Survive(kept)
        /\ Write(k, kept)
        /\ lastPrune' = IF PruneDue THEN now ELSE lastPrune
        /\ answer' = [key |-> k, drop |-> Drops(k, kept)]
        /\ lastOffer' = [lastOffer EXCEPT ![k] = now]
        /\ lastEvict' = IF Evicts THEN now ELSE lastEvict
        /\ ask' = [at |-> now, before |-> lastOffer[k], evict |-> lastEvict']
        /\ UNCHANGED now

-----------------------------------------------------------------------------
Next == Tick \/ \E k \in Key : Offer(k)

Spec == Init /\ [][Next]_vars

-----------------------------------------------------------------------------
(* Safety.                                                                  *)

\* The memory of a process is bounded: an offer prunes before it inserts, so
\* the map never holds more than one entry above MESSAGE_DEDUP_MAX.
HeldBound == Cardinality(Held) <= Max + 1

\* dedupeShouldDrop loses no first delivery: a key is dropped only if it was
\* offered before, at most Ttl ago, however the map was pruned in between.
DropIsRecent ==
    answer.drop => ask.before # 0 /\ ask.at - ask.before <= Ttl

\* dedupeShouldDrop lets a repetition within Ttl through only when an eviction
\* took place at or after the key's last offer (or in this one).
RepeatNeedsEviction ==
    ask.before # 0 /\ ask.at - ask.before <= Ttl /\ ~ answer.drop
        => ask.evict >= ask.before

\* The map answers as its Ttl says, but for what an eviction made it forget.
AnswerIsRight == DropIsRecent /\ RepeatNeedsEviction

\* DedupeStore implements DedupeMemory: an entry past its Ttl that no prune has
\* deleted yet is as good as forgotten.
Memory == INSTANCE DedupeMemory WITH
    remembered <- [k \in Key |-> IF k \in Fresh THEN stamp[k] ELSE 0]

ImplementsMemory == Memory!Spec

=============================================================================
