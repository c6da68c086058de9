---------------------------- MODULE EventLedger -----------------------------
(***************************************************************************)
(* What the persistence service promises of one event: a ledger to which   *)
(* entries are added and of which none is changed or taken back.  Entries  *)
(* are numbered from 1 without a gap, an idempotency key is entered once,  *)
(* the ingress event only opens the ledger, and the status is the one the  *)
(* entries give in their order: once ended, the event stays ended.         *)
(*                                                                         *)
(* A store without transactions may tear the ledger, once and for good.    *)
(***************************************************************************)
EXTENDS Integers

CONSTANTS
    Key,      \* the keys of entries
    Opening   \* the key of the ingress event's entry

VARIABLES
    backend,  \* "firestore" or "document"
    entries,  \* the numbered entries
    count,    \* how many there are
    status    \* of the event; "absent" before its first message

Kinds == {"initial", "update", "final", "deadletter"}
Ended == {"FINALIZED", "ERROR"}

\* The status after an entry of a kind.
After(kind) ==
    CASE kind = "initial" -> "INGESTED"
      [] kind = "deadletter" -> "ERROR"
      [] kind = "final" -> "FINALIZED"
      [] kind = "update" -> IF status \in Ended THEN status ELSE "IN_PROGRESS"

Init ==
    /\ backend \in {"firestore", "document"}
    /\ entries = {} /\ count = 0
    /\ status = "absent"

\* Entry e is added, with the next number and a key of its own.
Enter(e) ==
    /\ status # "torn"
    /\ e.seq = count + 1
    /\ e.kind \in Kinds
    /\ IF e.kind = "initial" THEN status = "absent" /\ e.key = Opening ELSE e.key \in Key
    /\ \A f \in entries : f.key # e.key
    /\ entries' = entries \union {e}
    /\ count' = count + 1
    /\ status' = After(e.kind)
    /\ UNCHANGED backend

\* A finalization ends the event without an entry.
Finalize ==
    /\ status # "torn"
    /\ status' = "FINALIZED"
    /\ UNCHANGED <<backend, entries, count>>

Tear ==
    /\ backend = "document"
    /\ status' = "torn"
    /\ entries' = {} /\ count' = 0
    /\ UNCHANGED backend

Next ==
    \/ \E e \in entries' : Enter(e)
    \/ Finalize
    \/ Tear

Spec == Init /\ [][Next]_<<backend, entries, count, status>>

=============================================================================
