---------------------------- MODULE DedupeMemory ----------------------------
(***************************************************************************)
(* What a process relies on in dedupe.ts: a memory of the keys offered in  *)
(* the last Ttl milliseconds.  It answers "drop" for a key it remembers.   *)
(* A key is forgotten the moment its time is over; before that only when   *)
(* more than Max keys are remembered, and then all but Target of them go,  *)
(* whichever they are.                                                     *)
(*                                                                         *)
(* DedupeStore implements this specification with a map that is pruned now *)
(* and then.  The set Known is what BusDelivery calls seen[p]: an offer    *)
(* that is dropped is its DropDuplicate, one that is not is its Admit, and *)
(* a key that leaves Known is its ForgetKey.                               *)
(***************************************************************************)
EXTENDS Naturals, FiniteSets

CONSTANTS
    Key,        \* dedupe keys
    Ttl,        \* MESSAGE_DEDUP_TTL_MS
    Max,        \* MESSAGE_DEDUP_MAX
    Target      \* keys that outlive an overflow

VARIABLES
    now,        \* the clock
    remembered, \* [Key -> time of the last offer, 0 when forgotten]
    answer      \* the last answer: [key, drop]

Known == {k \in Key : remembered[k] # 0}

NoAnswer == [key |-> "none", drop |-> FALSE]

Init ==
    /\ now \in Nat \ {0}
    /\ remembered = [k \in Key |-> 0]
    /\ answer = NoAnswer

Tick ==
    /\ now' = now + 1
    /\ remembered' = [k \in Key |->
            IF now + 1 > remembered[k] + Ttl THEN 0 ELSE remembered[k]]
    /\ UNCHANGED answer

\* What an offer may forget beside what expired.
Overflow(lost) ==
    \/ lost = {}
    \/ Cardinality(Known) > Max /\ Cardinality(Known \ lost) = Target

Offer(k) ==
    \E lost \in SUBSET Known :
        /\ Overflow(lost)
        /\ answer' = [key |-> k, drop |-> k \in Known \ lost]
        /\ remembered' = [j \in Key |->
                IF j = k THEN now ELSE IF j \in lost THEN 0 ELSE remembered[j]]
        /\ UNCHANGED now

Next == Tick \/ \E k \in Key : Offer(k)

Spec == Init /\ [][Next]_<<now, remembered, answer>>

=============================================================================
