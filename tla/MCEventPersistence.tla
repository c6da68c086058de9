------------------------- MODULE MCEventPersistence -------------------------
(* The messages about one event: its ingress event, two updates, a final    *)
(* snapshot and its repetition under the same key, a dead letter without a  *)
(* key and a finalization.                                                  *)
EXTENDS EventPersistence, TLC

CONSTANTS in, u1, u2, f1, f2, dl, fz, w1, w2, w3

Small == {in, u1, f1, f2, dl, fz}
Updates == {in, u1, u2}

KindOf ==
    in :> "ingress" @@ u1 :> "update" @@ u2 :> "update" @@ f1 :> "final"
    @@ f2 :> "final" @@ dl :> "deadletter" @@ fz :> "finalization"

SmallKind == [m \in Small |-> KindOf[m]]
UpdatesKind == [m \in Updates |-> KindOf[m]]

\* f2 repeats f1.
SmallKey == [m \in Small |-> IF m = f2 THEN f1 ELSE m]
UpdatesKey == [m \in Updates |-> m]

Handlers == Permutations({w1, w2})

\* Nothing is claimed of the states after a tear.
Untorn == ~torn
=============================================================================
