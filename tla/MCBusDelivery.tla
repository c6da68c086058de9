--------------------------- MODULE MCBusDelivery ---------------------------
(* TLC instances of BusDelivery.                                            *)
EXTENDS BusDelivery, TLC

CONSTANTS m1, m2, p1, p2, p3, s1, s2, c1, c2, c3

TwoMessages == {m1, m2}
OneMessage == {m1}

\* Two events with correlation ids of their own, and one event.
DistinctIds == (m1 :> "x") @@ (m2 :> "y")
OneId == m1 :> "x"

TwoReplicas == (p1 :> s1) @@ (p2 :> s1)
OneReplica == p1 :> s1
TwoServices == (p1 :> s1) @@ (p2 :> s2)
TwoServicesThree == (p1 :> s1) @@ (p2 :> s1) @@ (p3 :> s2)

CopySymmetry == Permutations(Copy)
=============================================================================
