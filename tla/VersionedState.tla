-------------------------- MODULE VersionedState ---------------------------
(***************************************************************************)
(* What the state engine promises of a key: a register with a version.  A  *)
(* proposal that carries an expected version takes effect only on exactly  *)
(* that version, every effect raises the version by one, and nothing else  *)
(* changes the key.                                                        *)
(*                                                                         *)
(* A backend without transactions may forfeit the promise for a key, once  *)
(* and for good; Firestore never does.                                     *)
(***************************************************************************)
EXTENDS Integers

CONSTANTS Mutation, Key, Allowed

VARIABLES
    backend,   \* "firestore" or "document"
    proposal,  \* [Mutation -> what was proposed]
    reg        \* [Key -> the register, or Forfeited]

NoCheck == -1           \* no expectedVersion
NoValue == "no value"

NotProposed == [proposed |-> FALSE]
Proposal == [proposed : {TRUE}, key : Key, expected : Nat \union {NoCheck}]

Forfeited == [version |-> -1]

Init ==
    /\ backend \in {"firestore", "document"}
    /\ proposal = [m \in Mutation |-> NotProposed]
    /\ reg = [k \in Key |-> [version |-> 0, value |-> NoValue]]

Propose(m) ==
    /\ ~ proposal[m].proposed
    /\ proposal'[m] \in Proposal
    /\ proposal' = [proposal EXCEPT ![m] = proposal'[m]]
    /\ UNCHANGED <<backend, reg>>

\* Proposal m takes effect; delivered twice, it may do so twice.
Accept(m) ==
    LET p == proposal[m]
        v == reg[p.key].version
    IN  /\ p.proposed
        /\ p.key \in Allowed
        /\ reg[p.key] # Forfeited
        /\ p.expected \in {NoCheck, v}
        /\ reg' = [reg EXCEPT ![p.key] = [version |-> v + 1, value |-> m]]
        /\ UNCHANGED <<backend, proposal>>

Forfeit(k) ==
    /\ backend = "document"
    /\ reg' = [reg EXCEPT ![k] = Forfeited]
    /\ UNCHANGED <<backend, proposal>>

Next ==
    \/ \E m \in Mutation : Propose(m) \/ Accept(m)
    \/ \E k \in Key : Forfeit(k)

Spec == Init /\ [][Next]_<<backend, proposal, reg>>

=============================================================================
