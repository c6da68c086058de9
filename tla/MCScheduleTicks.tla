-------------------------- MODULE MCScheduleTicks --------------------------
(* TLC instances of ScheduleTicks.                                          *)
EXTENDS ScheduleTicks, TLC

CONSTANTS s1, k1, k2, e1, hourly, daily

\* hourly has a slot at every instant, daily at the even ones.
Slots == (hourly :> [t \in 0..MaxTime |-> t + 1])
      @@ (daily :> [t \in 0..MaxTime |-> IF t % 2 = 0 THEN t + 2 ELSE t + 1])

Call(rule, event, enabled) == [rule |-> rule, event |-> event, enabled |-> enabled]

SomeRules == {Once(1), CronRule(daily)}

\* Switch off, switch on, replace the rule, and name nothing but the title.
AllUpdates == {Call(Keep, TRUE, "off"), Call(Keep, TRUE, "on"),
               Call(CronRule(hourly), TRUE, "keep"), Call(Once(0), TRUE, "keep"),
               Call(Keep, FALSE, "keep")}
=============================================================================
