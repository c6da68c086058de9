------------------------- MODULE RoutingSlip_proofs -------------------------
(***************************************************************************)
(* The safety of RoutingSlip, for every slip length, every assignment of   *)
(* styles to services and every number of copies, ERRORs and faults.       *)
(*                                                                         *)
(* The invariant speaks of one event at a time (EventInv): its PENDING     *)
(* steps are a suffix of the slip, which makes the first pending step the  *)
(* current one as long as nobody said ERROR; its verdicts are the services'*)
(* own until then; and its runs are paid for by settled steps and ERRORs.  *)
(* It must hold of the event a handler received as well as of the one it   *)
(* works on, because the first comes back after a nack or a crash.         *)
(*                                                                         *)
(* That an event is lost for a cause only takes two more: the attempts     *)
(* count the dispatches (Attempts), which tells the first visit of a step  *)
(* from a later one; and until some harm is done or the end is reached, a  *)
(* copy is where no duplicate detection can drop it, and for every Redis   *)
(* key that is set one is past the step of that key (OnItsWay).            *)
(***************************************************************************)
EXTENDS RoutingSlip, FiniteSetTheorems, WellFoundedInduction, TLAPS

PendingSuffix(slip) ==
    \A s, t \in Step : s < t /\ slip[s] = "PENDING" => slip[t] = "PENDING"

NoSilent == \A s \in Step : Style[s] # "silent"

EventInv(e) ==
    /\ PendingSuffix(e.slip)
    /\ e.errs = 0 => \A s \in Step : e.slip[s] = e.said[s] /\ e.slip[s] # "ERROR"
    /\ NoSilent => e.runs <= Cardinality(Settled(e.slip)) + e.errs

DispatchedTo(e, at) == e.slip[at] = "PENDING" /\ IsTarget(e.slip, at)

\* The event in the hands of the service of step at: no step before it is
\* pending, nor is its own, unless it gave no verdict or an ERROR was said.
Passed(e, at) ==
    /\ \A s \in 1..(at - 1) : e.slip[s] # "PENDING"
    /\ e.errs = 0 /\ Style[at] # "silent" => e.slip[at] # "PENDING"

CopyInv(m) ==
    /\ m \in Queued \union Held \union {Free}
    /\ m.pc = "queued" => EventInv(m.evt) /\ DispatchedTo(m.evt, m.at)
    /\ m.pc = "held" => /\ EventInv(m.got) /\ DispatchedTo(m.got, m.at)
                        /\ EventInv(m.evt) /\ Passed(m.evt, m.at)

LeftInv(m) ==
    /\ EventInv(m.evt)
    /\ m.how = "next" => \A s \in Step : m.evt.slip[s] # "PENDING"

CopiesInv == \A c \in Copy : CopyInv(copy[c])

EndedInv == \A m \in ended : LeftInv(m)

Inv == TypeOK /\ CopiesInv /\ EndedInv

-----------------------------------------------------------------------------
(* The current step of a slip.                                              *)

\* A set of naturals that is not empty has a least element.
LEMMA LeastElement ==
  ASSUME NEW T \in SUBSET Nat, T # {}
  PROVE  \E m \in T : \A y \in T : m <= y
<1> DEFINE F == {1..x : x \in T}
<1>1. F \subseteq FiniteSubsetsOf(Nat) /\ F # {}
  <2>1. \A x \in T : IsFiniteSet(1..x) /\ 1..x \subseteq Nat
    BY FS_Interval, SMT
  <2> QED
    BY <2>1 DEF FiniteSubsetsOf
<1>2. PICK X \in F : \A Y \in F : ~ (<<Y, X>> \in StrictSubsetOrdering(Nat))
  BY <1>1, FS_StrictSubsetOrderingWellFounded, WFMin
<1>3. PICK m \in T : X = 1..m
  OBVIOUS
<1>4. ASSUME NEW y \in T, y < m PROVE FALSE
  <2>1. 1..y \subseteq 1..m /\ 1..y # 1..m /\ m \in 1..m /\ m \notin 1..y
    BY <1>4
  <2>2. <<1..y, X>> \in StrictSubsetOrdering(Nat)
    BY <2>1, <1>3 DEF StrictSubsetOrdering
  <2> QED
    BY <1>2, <2>2
<1> QED
  BY <1>4

\* updateCurrentStep finds a step whenever one is not settled.
LEMMA HasCurrent ==
  ASSUME NEW slip, NEW s \in Step, s \notin Settled(slip)
  PROVE  \E c \in Step : IsCurrent(slip, c) /\ c <= s
<1>1. Step \ Settled(slip) \in SUBSET Nat /\ Step \ Settled(slip) # {}
  BY SlipAssumption DEF Step
<1>2. PICK c \in Step \ Settled(slip) : \A y \in Step \ Settled(slip) : c <= y
  BY <1>1, LeastElement
<1>3. \A t \in 1..(c - 1) : t \in Step /\ ~ (c <= t)
  BY SlipAssumption, <1>2 DEF Step
<1> QED
  BY <1>2, <1>3 DEF IsCurrent

\* There is one current step at most.
LEMMA OneCurrent ==
  ASSUME NEW slip, NEW c \in Step, NEW d \in Step,
         IsCurrent(slip, c), IsCurrent(slip, d)
  PROVE  c = d
<1>1. c \in Nat /\ d \in Nat /\ c >= 1 /\ d >= 1
  BY SlipAssumption DEF Step
<1>2. ~ (c < d) /\ ~ (d < c)
  BY <1>1 DEF IsCurrent
<1> QED
  BY <1>1, <1>2

\* The settled steps are finitely many.
LEMMA SettledFinite ==
  ASSUME NEW slip
  PROVE  IsFiniteSet(Settled(slip)) /\ Cardinality(Settled(slip)) \in Nat
<1>1. IsFiniteSet(Step)
  BY SlipAssumption, FS_Interval DEF Step
<1>2. Settled(slip) \in SUBSET Step
  BY DEF Settled
<1> QED
  BY <1>1, <1>2, FS_Subset, FS_CardinalityType

\* Marking keeps the slip well-typed.
LEMMA MarkedType ==
  ASSUME NEW slip \in [Step -> Status], NEW v \in Verdict \union {"none"}
  PROVE  Marked(slip, v) \in [Step -> Status]
  BY DEF Marked, Verdict, Status

\* Marking keeps the pending steps a suffix: the first unsettled step is taken.
LEMMA MarkedSuffix ==
  ASSUME NEW slip \in [Step -> Status], NEW v \in Verdict \union {"none"},
         PendingSuffix(slip)
  PROVE  PendingSuffix(Marked(slip, v))
<1> SUFFICES ASSUME NEW s \in Step, NEW t \in Step, s < t,
                    Marked(slip, v)[s] = "PENDING"
             PROVE  Marked(slip, v)[t] = "PENDING"
  BY DEF PendingSuffix
<1>1. slip[s] = "PENDING"
  BY DEF Marked, Verdict
<1>2. slip[t] = "PENDING"
  BY <1>1 DEF PendingSuffix
<1>3. s \notin Settled(slip) /\ s \in 1..(t - 1)
  BY <1>1, SlipAssumption DEF Settled, Step
<1>4. ~ IsCurrent(slip, t)
  BY <1>3 DEF IsCurrent
<1> QED
  BY <1>2, <1>4 DEF Marked

\* A verdict OK or SKIP settles one more step.
LEMMA MarkedSettles ==
  ASSUME NEW slip \in [Step -> Status], NEW s \in Step, slip[s] = "PENDING",
         NEW v \in {"OK", "SKIP"}
  PROVE  Cardinality(Settled(Marked(slip, v))) = Cardinality(Settled(slip)) + 1
<1>1. PICK c \in Step : IsCurrent(slip, c)
  BY HasCurrent DEF Settled
<1>2. \A d \in Step : IsCurrent(slip, d) <=> d = c
  BY <1>1, OneCurrent
<1>3. Settled(Marked(slip, v)) = Settled(slip) \union {c}
  BY <1>2 DEF Settled, Marked
<1>4. c \notin Settled(slip)
  BY <1>1 DEF IsCurrent
<1> QED
  BY <1>3, <1>4, SettledFinite, FS_AddElement

\* A verdict ERROR settles no step and unsettles none.
LEMMA MarkedErrorSettles ==
  ASSUME NEW slip \in [Step -> Status]
  PROVE  Settled(Marked(slip, "ERROR")) = Settled(slip)
<1>1. \A c \in Step : IsCurrent(slip, c) => c \notin Settled(slip)
  BY DEF IsCurrent
<1> QED
  BY <1>1 DEF Settled, Marked

\* While nobody said ERROR, the step a message is dispatched to is the current one.
LEMMA TargetIsCurrent ==
  ASSUME NEW slip \in [Step -> Status], NEW at \in Step,
         slip[at] = "PENDING", IsTarget(slip, at),
         \A s \in Step : slip[s] # "ERROR"
  PROVE  IsCurrent(slip, at)
<1>1. \A t \in 1..(at - 1) : t \in Step
  BY SlipAssumption DEF Step
<1>2. \A t \in 1..(at - 1) : slip[t] \in {"OK", "SKIP"}
  BY <1>1 DEF IsTarget, Status, Verdict
<1> QED
  BY <1>1, <1>2 DEF IsCurrent, Settled

-----------------------------------------------------------------------------
(* The events handlers make.                                                *)

\* next's counting leaves everything alone but the attempts.
LEMMA CountedFields ==
  ASSUME NEW e \in Event
  PROVE  /\ Counted(e) \in Event
         /\ Counted(e).slip = e.slip /\ Counted(e).said = e.said
         /\ Counted(e).runs = e.runs /\ Counted(e).errs = e.errs
  BY DEF Counted, Event

\* What a service's answer does to the event.
LEMMA AnsweredType ==
  ASSUME NEW e \in Event, NEW at \in Step, NEW v \in Verdict \union {"none"}
  PROVE  Answered(e, at, v) \in Event
<1>1. /\ e.slip \in [Step -> Status] /\ e.said \in [Step -> Status]
      /\ e.attempt \in [Step -> Nat] /\ e.dest \in BOOLEAN
      /\ e.runs \in Nat /\ e.errs \in Nat
  BY DEF Event
<1>2. Marked(e.slip, v) \in [Step -> Status]
  BY <1>1, MarkedType
<1>3. Said(e, at, v) \in [Step -> Status]
  BY <1>1 DEF Said, Status, Verdict
<1>4. Errors(e, v) \in Nat /\ e.runs + 1 \in Nat
  BY <1>1 DEF Errors
<1> QED
  BY <1>1, <1>2, <1>3, <1>4 DEF Answered, Event

\* A service that got the event at its first pending step keeps the invariant.
LEMMA AnsweredInv ==
  ASSUME NEW e \in Event, NEW at \in Step, EventInv(e), DispatchedTo(e, at),
         NEW v \in Verdicts(at)
  PROVE  EventInv(Answered(e, at, v))
<1> DEFINE f == Answered(e, at, v)
<1>1. /\ v \in Verdict \union {"none"}
      /\ v = "none" => Style[at] = "silent"
  BY DEF Verdicts, Verdict
<1>2. /\ e.slip \in [Step -> Status] /\ e.said \in [Step -> Status]
      /\ e.runs \in Nat /\ e.errs \in Nat
  BY DEF Event
<1>0. /\ f.slip = Marked(e.slip, v)
      /\ f.said = IF v = "none" THEN e.said ELSE [e.said EXCEPT ![at] = v]
      /\ f.runs = e.runs + 1
      /\ f.errs = IF v = "ERROR" THEN e.errs + 1 ELSE e.errs
  BY DEF Answered, Said, Errors
<1> HIDE DEF f
<1>3. PendingSuffix(f.slip)
  BY <1>0, <1>1, <1>2, MarkedSuffix DEF EventInv
<1>4. ASSUME f.errs = 0, NEW s \in Step
      PROVE  f.slip[s] = f.said[s] /\ f.slip[s] # "ERROR"
  <2>1. v # "ERROR" /\ e.errs = 0
    BY <1>1, <1>2, <1>4, <1>0
  <2>2. \A t \in Step : e.slip[t] = e.said[t] /\ e.slip[t] # "ERROR"
    BY <2>1 DEF EventInv
  <2>3. \A t \in Step : IsCurrent(e.slip, t) <=> t = at
    BY <1>2, <2>2, TargetIsCurrent, OneCurrent DEF DispatchedTo
  <2>4. f.slip[s] = IF v # "none" /\ s = at THEN v ELSE e.slip[s]
    BY <1>1, <2>3, <1>0 DEF Marked
  <2>5. f.said[s] = IF v # "none" /\ s = at THEN v ELSE e.said[s]
    BY <1>1, <1>2, <1>0
  <2> QED
    BY <2>1, <2>2, <2>4, <2>5
<1>5. ASSUME NoSilent PROVE f.runs <= Cardinality(Settled(f.slip)) + f.errs
  <2>1. v \in Verdict /\ e.runs <= Cardinality(Settled(e.slip)) + e.errs
    BY <1>1, <1>5 DEF EventInv, NoSilent
  <2>2. f.runs = e.runs + 1 /\ f.slip = Marked(e.slip, v)
    BY <1>1, <1>0
  <2>3. Cardinality(Settled(e.slip)) \in Nat
    BY SettledFinite
  <2>4. CASE v = "ERROR"
    <3>1. f.errs = e.errs + 1
      BY <1>1, <2>4, <1>0
    <3>2. Settled(f.slip) = Settled(e.slip)
      BY <1>2, <2>2, <2>4, MarkedErrorSettles
    <3> QED
      BY <1>2, <2>1, <2>2, <2>3, <3>1, <3>2
  <2>5. CASE v \in {"OK", "SKIP"}
    <3>1. f.errs = e.errs
      BY <1>1, <2>5, <1>0
    <3>2. Cardinality(Settled(f.slip)) = Cardinality(Settled(e.slip)) + 1
      BY <1>2, <2>2, <2>5, MarkedSettles DEF DispatchedTo
    <3> QED
      BY <1>2, <2>1, <2>2, <2>3, <3>1, <3>2
  <2> QED
    BY <2>1, <2>4, <2>5 DEF Verdict
<1> QED
  BY <1>3, <1>4, <1>5 DEF EventInv, f

\* A verdict takes the event past its step: marking makes nothing pending, and
\* until an ERROR it marks the step the event was dispatched to.
LEMMA AnsweredPassed ==
  ASSUME NEW e \in Event, NEW at \in Step, EventInv(e), DispatchedTo(e, at),
         NEW v \in Verdicts(at)
  PROVE  Passed(Answered(e, at, v), at)
<1> DEFINE f == Answered(e, at, v)
<1>1. /\ v \in Verdict \union {"none"}
      /\ v = "none" => Style[at] = "silent"
  BY DEF Verdicts, Verdict
<1>2. e.slip \in [Step -> Status] /\ e.errs \in Nat
  BY DEF Event
<1>3. f.slip = Marked(e.slip, v) /\ f.errs = IF v = "ERROR" THEN e.errs + 1 ELSE e.errs
  BY DEF Answered, Errors
<1> HIDE DEF f
<1>4. \A s \in Step : f.slip[s] = e.slip[s] \/ f.slip[s] \in Verdict
  BY <1>1, <1>3 DEF Marked
<1>5. \A s \in 1..(at - 1) : s \in Step /\ e.slip[s] # "PENDING"
  BY SlipAssumption DEF DispatchedTo, IsTarget, Step
<1>6. ASSUME f.errs = 0, Style[at] # "silent"
      PROVE  f.slip[at] # "PENDING"
  <2>1. e.errs = 0 /\ v \in Verdict
    BY <1>1, <1>2, <1>3, <1>6
  <2>2. \A s \in Step : e.slip[s] # "ERROR"
    BY <2>1 DEF EventInv
  <2>3. IsCurrent(e.slip, at)
    BY <1>2, <2>2, TargetIsCurrent DEF DispatchedTo
  <2>4. f.slip[at] = v
    BY <1>3, <2>1, <2>3 DEF Marked, Verdict
  <2> QED
    BY <2>1, <2>4 DEF Verdict
<1>7. Passed(f, at)
  BY <1>4, <1>5, <1>6 DEF Passed, Verdict
<1> QED
  BY <1>7 DEF f

\* A fallback makes nothing pending, and says ERROR.
LEMMA FellBackPassed ==
  ASSUME NEW e \in Event, NEW at \in Step, Passed(e, at)
  PROVE  Passed(FellBack(e), at)
<1> DEFINE f == FellBack(e)
<1>1. f.slip = Marked(e.slip, "ERROR") /\ f.errs = e.errs + 1 /\ e.errs \in Nat
  BY DEF FellBack, Errors, Event
<1> HIDE DEF f
<1>2. \A s \in Step : e.slip[s] # "PENDING" => f.slip[s] # "PENDING"
  BY <1>1 DEF Marked
<1>3. \A s \in 1..(at - 1) : s \in Step
  BY SlipAssumption DEF Step
<1>4. f.errs # 0
  BY <1>1
<1>5. Passed(f, at)
  BY <1>2, <1>3, <1>4 DEF Passed
<1> QED
  BY <1>5 DEF f

\* The attempts are not the invariant's business.
LEMMA CountedInv ==
  ASSUME NEW e \in Event, EventInv(e)
  PROVE  /\ EventInv(Counted(e))
         /\ \A at : Passed(e, at) => Passed(Counted(e), at)
  BY CountedFields DEF EventInv, Passed

\* The event of a fallback: marked ERROR once more, by no handler run.
LEMMA FellBackInv ==
  ASSUME NEW e \in Event, EventInv(e)
  PROVE  FellBack(e) \in Event /\ EventInv(FellBack(e))
<1> DEFINE f == FellBack(e)
<1>1. /\ e.slip \in [Step -> Status] /\ e.runs \in Nat /\ e.errs \in Nat
  BY DEF Event
<1>2. Marked(e.slip, "ERROR") \in [Step -> Status]
  BY <1>1, MarkedType DEF Verdict
<1>3. f.slip = Marked(e.slip, "ERROR") /\ f.errs = e.errs + 1 /\ f.runs = e.runs
  BY DEF FellBack, Errors
<1>4. f \in Event
  BY <1>1, <1>2 DEF FellBack, Errors, Event
<1>5. PendingSuffix(f.slip)
  BY <1>1, <1>3, MarkedSuffix DEF EventInv, Verdict
<1>6. Settled(f.slip) = Settled(e.slip) /\ Cardinality(Settled(e.slip)) \in Nat
  BY <1>1, <1>3, MarkedErrorSettles, SettledFinite
<1>7. NoSilent => f.runs <= Cardinality(Settled(f.slip)) + f.errs
  BY <1>1, <1>3, <1>6 DEF EventInv
<1> HIDE DEF f
<1>8. ~ (f.errs = 0)
  BY <1>1, <1>3
<1>9. EventInv(f)
  BY <1>5, <1>7, <1>8 DEF EventInv
<1> QED
  BY <1>4, <1>9 DEF f

-----------------------------------------------------------------------------
(* The copies.                                                              *)

\* A message put back or sent on to its first pending step.
LEMMA QueuedInv ==
  ASSUME NEW e \in Event, EventInv(e), NEW at \in Step, DispatchedTo(e, at),
         NEW once \in BOOLEAN
  PROVE  CopyInv(QueuedAt(at, e, once))
<1> DEFINE q == QueuedAt(at, e, once)
<1>1. q \in Queued
  BY DEF QueuedAt, Queued
<1>2. q.pc = "queued" /\ q.evt = e /\ q.at = at
  BY DEF QueuedAt
<1> HIDE DEF q
<1>3. CopyInv(q)
  BY <1>1, <1>2 DEF CopyInv
<1> QED
  BY <1>3 DEF q

\* What a copy that is not free is made of.
LEMMA CopyFields ==
  ASSUME NEW m, CopyInv(m), m.pc # "free"
  PROVE  /\ \/ m \in Queued /\ m.pc = "queued"
            \/ m \in Held /\ m.pc = "held"
         /\ m.at \in Step
         /\ m.evt \in Event /\ EventInv(m.evt)
         /\ m.pc = "held" => m.got \in Event /\ m.via \in {"next", "complete"}
         /\ m.once \in BOOLEAN
<1>1. m \in Queued \union Held
  BY DEF CopyInv, Free
<1>2. CASE m \in Queued
  BY <1>2 DEF Queued, CopyInv
<1>3. CASE m \in Held
  BY <1>3 DEF Held, CopyInv
<1> QED
  BY <1>1, <1>2, <1>3

\* The message as it was received is in order whoever holds it.
LEMMA OriginalInv ==
  ASSUME NEW m, CopyInv(m), m.pc # "free"
  PROVE  LET e == IF m.pc = "held" THEN m.got ELSE m.evt
         IN  e \in Event /\ EventInv(e) /\ DispatchedTo(e, m.at)
<1>1. CASE m.pc = "held"
  BY <1>1, CopyFields DEF CopyInv
<1>2. CASE m.pc = "queued"
  BY <1>2, CopyFields DEF CopyInv
<1> QED
  BY <1>1, <1>2, CopyFields

\* A handler that works on the event.
LEMMA HeldInv ==
  ASSUME NEW m, CopyInv(m), m.pc # "free", NEW e \in Event, EventInv(e), Passed(e, m.at),
         NEW via \in {"next", "complete"}, NEW call \in {1, 2}
  PROVE  CopyInv(Holding(m, e, via, call))
<1> DEFINE got == IF m.pc = "held" THEN m.got ELSE m.evt
           h == Holding(m, e, via, call)
<1>1. /\ got \in Event /\ EventInv(got) /\ DispatchedTo(got, m.at)
      /\ m.at \in Step /\ m.once \in BOOLEAN
  BY OriginalInv, CopyFields
<1>2. h = [pc |-> "held", at |-> m.at, got |-> got, evt |-> e, via |-> via, call |-> call,
           once |-> m.once]
  BY DEF Holding
<1> HIDE DEF got, h
<1>3. h \in Held
  BY <1>1, <1>2 DEF Held
<1>4. h.pc = "held" /\ h.got = got /\ h.evt = e /\ h.at = m.at
  BY <1>2
<1>5. CopyInv(h)
  BY <1>1, <1>3, <1>4 DEF CopyInv
<1> QED
  BY <1>5 DEF h

\* The copies after one of them changed.
LEMMA CopyUpdate ==
  ASSUME Inv, NEW c \in Copy, NEW x, CopyInv(x), copy' = [copy EXCEPT ![c] = x]
  PROVE  copy' \in [Copy -> Queued \union Held \union {Free}] /\ CopiesInv'
<1>1. copy \in [Copy -> Queued \union Held \union {Free}]
  BY DEF Inv, TypeOK
<1>2. \A d \in Copy : copy'[d] = IF d = c THEN x ELSE copy[d]
  BY <1>1
<1>3. x \in Queued \union Held \union {Free}
  BY DEF CopyInv
<1>4. \A d \in Copy : CopyInv(copy'[d])
  BY <1>2 DEF Inv, CopiesInv
<1>5. copy' \in [Copy -> Queued \union Held \union {Free}]
  BY <1>1, <1>3
<1> QED
  BY <1>4, <1>5 DEF CopiesInv

\* A copy that leaves the slip.
LEMMA EndedUpdate ==
  ASSUME Inv, NEW m, CopyInv(m), m.pc = "held",
         NEW how \in {"next", "complete", "untargeted"},
         how = "next" => \A s \in Step : m.evt.slip[s] # "PENDING",
         ended' = ended \union {[how |-> how, at |-> m.at, evt |-> m.evt]}
  PROVE  /\ ended' \subseteq [how : {"next", "complete", "untargeted"},
                              at : Step, evt : Event]
         /\ EndedInv'
<1> DEFINE r == [how |-> how, at |-> m.at, evt |-> m.evt]
<1>1. m.at \in Step /\ m.evt \in Event /\ EventInv(m.evt)
  BY CopyFields
<1>2. r \in [how : {"next", "complete", "untargeted"}, at : Step, evt : Event]
  BY <1>1
<1>3. r.how = how /\ r.evt = m.evt
  OBVIOUS
<1> HIDE DEF r
<1>4. LeftInv(r)
  BY <1>1, <1>3 DEF LeftInv
<1>5. ended' = ended \union {r}
  BY DEF r
<1> QED
  BY <1>2, <1>4, <1>5 DEF Inv, TypeOK, EndedInv

-----------------------------------------------------------------------------
(* Every step preserves the invariant.                                      *)

\* The planned event.
LEMMA InitInv == Init => Inv
<1> SUFFICES ASSUME Init PROVE Inv
  OBVIOUS
<1>1. PICK c \in Copy, dest \in BOOLEAN :
        copy = [d \in Copy |-> IF d = c THEN QueuedAt(1, Planned(dest), TRUE) ELSE Free]
  BY DEF Init
<1> DEFINE e == Planned(dest)
<1>2. 1 \in Step
  BY SlipAssumption DEF Step
<1>3. e \in Event
  BY DEF Planned, Event, Status
<1>4. /\ e.slip = [s \in Step |-> "PENDING"] /\ e.said = e.slip
      /\ e.runs = 0 /\ e.errs = 0
  BY DEF Planned
<1> HIDE DEF e
<1>5. EventInv(e)
  <2>1. Cardinality(Settled(e.slip)) \in Nat
    BY SettledFinite
  <2> QED
    BY <1>4, <2>1 DEF EventInv, PendingSuffix
<1>6. DispatchedTo(e, 1)
  BY <1>2, <1>4 DEF DispatchedTo, IsTarget
<1>7. CopyInv(QueuedAt(1, e, TRUE))
  BY <1>2, <1>3, <1>5, <1>6, QueuedInv
<1>8. CopyInv(Free)
  BY DEF CopyInv, Free
<1>9. \A d \in Copy : CopyInv(copy[d])
  BY <1>1, <1>7, <1>8 DEF e
<1>10. copy \in [Copy -> Queued \union Held \union {Free}]
  <2>1. QueuedAt(1, e, TRUE) \in Queued
    BY <1>2, <1>3 DEF QueuedAt, Queued
  <2> QED
    BY <1>1, <2>1 DEF e
<1>11. TypeOK
  <2>1. taken = {} /\ ended = {} /\ errors = 0 /\ harm = {} /\ faults = 0
    BY DEF Init
  <2>2. 0 \in 0..MaxErrors /\ 0 \in 0..MaxFaults
    BY SlipAssumption
  <2> QED
    BY <1>10, <2>1, <2>2 DEF TypeOK
<1> QED
  BY <1>9, <1>11 DEF Init, Inv, CopiesInv, EndedInv

\* What a verdict does to the number of ERRORs.
LEMMA SaysType == ASSUME Inv, NEW v, Says(v) PROVE errors' \in 0..MaxErrors
  BY SlipAssumption DEF Inv, TypeOK, Says

\* A fault is counted up to the bound.
LEMMA FaultType == ASSUME Inv, Fault PROVE faults' \in 0..MaxFaults
  BY SlipAssumption DEF Inv, TypeOK, Fault

\* The Redis check sets the key of a step.
LEMMA PassesType == ASSUME Inv, NEW at, Passes(at) PROVE taken' \subseteq Step
  BY SlipAssumption DEF Inv, TypeOK, Passes

\* next(event, v), up to the publication.
LEMMA HandleInv == ASSUME Inv, NEW c \in Copy, Handle(c) PROVE Inv'
<1> DEFINE m == copy[c]
<1>1. CopyInv(m) /\ m.pc = "queued"
  BY DEF Inv, CopiesInv, Handle
<1>2. PICK v \in Verdicts(m.at) :
        /\ Says(v)
        /\ copy' = [copy EXCEPT ![c] =
               Holding(m, Counted(Answered(m.evt, m.at, v)), "next", CallOf(m.at, v))]
  BY DEF Handle
<1>3. /\ m.at \in Step /\ m.evt \in Event /\ EventInv(m.evt)
      /\ DispatchedTo(m.evt, m.at)
  BY <1>1, CopyFields DEF CopyInv
<1>4. v \in Verdict \union {"none"}
  BY <1>2 DEF Verdicts
<1> DEFINE e == Answered(m.evt, m.at, v)
<1>5. e \in Event /\ EventInv(e) /\ Passed(e, m.at)
  BY <1>3, <1>4, AnsweredType, AnsweredInv, AnsweredPassed
<1>6. Counted(e) \in Event /\ EventInv(Counted(e)) /\ Passed(Counted(e), m.at)
  BY <1>5, CountedFields, CountedInv
<1>7. CopyInv(Holding(m, Counted(e), "next", CallOf(m.at, v)))
  BY <1>1, <1>6, HeldInv DEF CallOf
<1>8. copy' \in [Copy -> Queued \union Held \union {Free}] /\ CopiesInv'
  BY <1>2, <1>7, CopyUpdate
<1>9. errors' \in 0..MaxErrors
  BY <1>2, SaysType
<1>10. taken' \subseteq Step
  BY PassesType DEF Handle
<1> QED
  BY <1>8, <1>9, <1>10 DEF Inv, TypeOK, EndedInv, Handle

\* complete(event, v), up to the publication.
LEMMA FinishInv == ASSUME Inv, NEW c \in Copy, Finish(c) PROVE Inv'
<1> DEFINE m == copy[c]
<1>1. CopyInv(m) /\ m.pc = "queued"
  BY DEF Inv, CopiesInv, Finish
<1>2. PICK v \in Verdict :
        /\ Says(v)
        /\ copy' = [copy EXCEPT ![c] =
               Holding(m, Answered(m.evt, m.at, v), "complete", 1)]
  BY DEF Finish
<1>3. /\ m.at \in Step /\ m.evt \in Event /\ EventInv(m.evt)
      /\ DispatchedTo(m.evt, m.at)
  BY <1>1, CopyFields DEF CopyInv
<1>4. v \in Verdicts(m.at)
  BY DEF Finish, Verdicts
<1> DEFINE e == Answered(m.evt, m.at, v)
<1>5. e \in Event /\ EventInv(e) /\ Passed(e, m.at)
  BY <1>3, <1>4, AnsweredType, AnsweredInv, AnsweredPassed
<1>6. CopyInv(Holding(m, e, "complete", 1))
  BY <1>1, <1>5, HeldInv
<1>7. copy' \in [Copy -> Queued \union Held \union {Free}] /\ CopiesInv'
  BY <1>2, <1>6, CopyUpdate
<1>8. errors' \in 0..MaxErrors
  BY <1>2, SaysType
<1>9. taken' \subseteq Step
  BY PassesType DEF Finish
<1> QED
  BY <1>7, <1>8, <1>9 DEF Inv, TypeOK, EndedInv, Finish

\* A copy of which nothing comes.
LEMMA VanishesInv ==
  ASSUME Inv, NEW c \in Copy, Vanishes(c)
  PROVE  copy' \in [Copy -> Queued \union Held \union {Free}] /\ CopiesInv'
<1>1. CopyInv(Free)
  BY DEF CopyInv, Free
<1> QED
  BY <1>1, CopyUpdate DEF Vanishes

\* A duplicate by the Redis check or by the dedupe, and a key that is lost.
LEMMA SkipInv == ASSUME Inv, NEW c \in Copy, Skip(c) PROVE Inv'
  BY VanishesInv DEF Inv, TypeOK, EndedInv, Skip, Harm

LEMMA DropInv == ASSUME Inv, NEW c \in Copy, Drop(c) PROVE Inv'
  BY VanishesInv DEF Inv, TypeOK, EndedInv, Drop

LEMMA ExpireInv == ASSUME Inv, NEW s \in Step, Expire(s) PROVE Inv'
  BY FaultType DEF Inv, TypeOK, CopiesInv, EndedInv, Expire

\* A handler that throws before next.
LEMMA ThrowInv == ASSUME Inv, NEW c \in Copy, Throw(c) PROVE Inv'
<1> DEFINE m == copy[c]
<1>1. CopyInv(m) /\ m.pc = "queued"
  BY DEF Inv, CopiesInv, Throw
<1>2. m.at \in Step /\ m.evt \in Event /\ EventInv(m.evt) /\ DispatchedTo(m.evt, m.at)
  BY <1>1, CopyFields DEF CopyInv
<1>3. CopyInv(QueuedAt(m.at, m.evt, FALSE))
  BY <1>2, QueuedInv
<1>4. copy' \in [Copy -> Queued \union Held \union {Free}] /\ CopiesInv'
  BY <1>3, CopyUpdate, VanishesInv DEF Throw
<1>5. taken' \subseteq Step /\ faults' \in 0..MaxFaults /\ harm' \subseteq Harm
  BY PassesType, FaultType DEF Throw, Inv, TypeOK, Harm
<1> QED
  BY <1>4, <1>5 DEF Inv, TypeOK, EndedInv, Throw

\* A handler whose message is answered, or delivered once more, works on.
LEMMA OnceInv ==
  ASSUME NEW m, CopyInv(m), m.pc = "held"
  PROVE  CopyInv([m EXCEPT !.once = FALSE])
<1> DEFINE n == [m EXCEPT !.once = FALSE]
<1>1. m \in Held
  BY CopyFields
<1>2. n \in Held /\ n.pc = "held" /\ n.at = m.at /\ n.got = m.got /\ n.evt = m.evt
  BY <1>1 DEF Held
<1> HIDE DEF n
<1>3. CopyInv(n)
  BY <1>2 DEF CopyInv
<1> QED
  BY <1>3 DEF n

\* The QoS timeout.
LEMMA TimeoutInv == ASSUME Inv, NEW c \in Copy, Timeout(c) PROVE Inv'
<1>1. CopyInv([copy[c] EXCEPT !.once = FALSE])
  BY OnceInv DEF Inv, CopiesInv, Timeout
<1>2. copy' = [copy EXCEPT ![c] = [copy[c] EXCEPT !.once = FALSE]]
  BY DEF Timeout, Inv, TypeOK
<1>3. copy' \in [Copy -> Queued \union Held \union {Free}] /\ CopiesInv'
  BY <1>1, <1>2, CopyUpdate
<1> QED
  BY <1>3 DEF Inv, TypeOK, EndedInv, Timeout

\* A publication to a step dispatches the event to its first pending step.
LEMMA PublishedInv ==
  ASSUME NEW m, CopyInv(m), m.pc = "held", NEW to \in Step, Publishes(m, to)
  PROVE  CopyInv(QueuedAt(to, m.evt, TRUE))
<1>1. m.evt \in Event /\ EventInv(m.evt) /\ m.via \in {"next", "complete"}
  BY CopyFields
<1>2. to # Egress
  BY SlipAssumption DEF Step, Egress
<1>3. DispatchedTo(m.evt, to)
  BY <1>2 DEF Publishes, IsTarget, DispatchedTo
<1> QED
  BY <1>1, <1>3, QueuedInv

\* The dispatch to the next step.
LEMMA ForwardInv == ASSUME Inv, NEW c \in Copy, Forward(c) PROVE Inv'
<1> DEFINE m == copy[c]
<1>1. CopyInv(m) /\ m.pc = "held"
  BY DEF Inv, CopiesInv, Forward
<1>2. PICK to \in Step :
        Publishes(m, to) /\ copy' = [copy EXCEPT ![c] = QueuedAt(to, m.evt, TRUE)]
  BY DEF Forward
<1>3. CopyInv(QueuedAt(to, m.evt, TRUE))
  BY <1>1, <1>2, PublishedInv
<1>4. copy' \in [Copy -> Queued \union Held \union {Free}] /\ CopiesInv'
  BY <1>2, <1>3, CopyUpdate
<1> QED
  BY <1>4 DEF Inv, TypeOK, EndedInv, Forward

\* An event that leaves by next has no pending step left.
LEMMA EgressHasNoPending ==
  ASSUME NEW m, Publishes(m, Egress), m.via # "complete"
  PROVE  \A s \in Step : m.evt.slip[s] # "PENDING"
<1>1. \A s \in Step : s \in 1..(Egress - 1)
  BY SlipAssumption DEF Step, Egress
<1> QED
  BY <1>1 DEF Publishes, IsTarget

\* A copy that leaves keeps the invariant, when its record does.
LEMMA LeavesInv ==
  ASSUME Inv, NEW c \in Copy, copy[c].pc = "held",
         NEW how \in {"next", "complete", "untargeted"},
         how = "next" => \A s \in Step : copy[c].evt.slip[s] # "PENDING",
         Leaves(c, how)
  PROVE  /\ copy' \in [Copy -> Queued \union Held \union {Free}] /\ CopiesInv'
         /\ ended' \subseteq [how : {"next", "complete", "untargeted"},
                              at : Step, evt : Event]
         /\ EndedInv'
<1>1. CopyInv(Free)
  BY DEF CopyInv, Free
<1>2. CopyInv(copy[c])
  BY DEF Inv, CopiesInv
<1>3. copy' \in [Copy -> Queued \union Held \union {Free}] /\ CopiesInv'
  BY <1>1, CopyUpdate DEF Leaves
<1>4. ended' = ended \union {[how |-> how, at |-> copy[c].at, evt |-> copy[c].evt]}
  BY DEF Leaves
<1> QED
  BY <1>2, <1>3, <1>4, EndedUpdate

\* The publication to the egress.
LEMMA DeliverInv == ASSUME Inv, NEW c \in Copy, Deliver(c) PROVE Inv'
<1>1. copy[c].pc = "held" /\ Publishes(copy[c], Egress) /\ Leaves(c, copy[c].via)
  BY DEF Deliver
<1>2. copy[c].via \in {"next", "complete"}
  BY <1>1, CopyFields DEF Inv, CopiesInv
<1>3. copy[c].via = "next" => \A s \in Step : copy[c].evt.slip[s] # "PENDING"
  BY <1>1, EgressHasNoPending
<1> QED
  BY <1>1, <1>2, <1>3, LeavesInv DEF Inv, TypeOK, Deliver

\* The return without a publication.
LEMMA NoTargetInv == ASSUME Inv, NEW c \in Copy, NoTarget(c) PROVE Inv'
  BY LeavesInv DEF Inv, TypeOK, NoTarget

\* A held copy goes back to its service as it was received.
LEMMA PutBackInv ==
  ASSUME Inv, NEW c \in Copy, copy[c].pc = "held", NEW once \in BOOLEAN
  PROVE  CopyInv(QueuedAt(copy[c].at, copy[c].got, once))
<1> DEFINE m == copy[c]
<1>1. CopyInv(m)
  BY DEF Inv, CopiesInv
<1>2. m.got \in Event /\ EventInv(m.got) /\ DispatchedTo(m.got, m.at) /\ m.at \in Step
  BY <1>1, CopyFields DEF CopyInv
<1> QED
  BY <1>2, QueuedInv

\* What a failure does beside the copy.
LEMMA FailsType ==
  ASSUME Inv, NEW c \in Copy, Fails(c)
  PROVE  copy[c].pc = "held" /\ faults' \in 0..MaxFaults /\ harm' \subseteq Harm
  BY FaultType DEF Fails, Inv, TypeOK, Harm

\* A failed publication of a handler that nacks.
LEMMA RequeueInv == ASSUME Inv, NEW c \in Copy, Requeue(c) PROVE Inv'
<1>1. copy' \in [Copy -> Queued \union Held \union {Free}] /\ CopiesInv'
  BY PutBackInv, CopyUpdate DEF Requeue, Fails
<1> QED
  BY <1>1, FailsType DEF Inv, TypeOK, EndedInv, Requeue

\* A failed publication of a handler that calls next(event, 'ERROR') again.
LEMMA FallBackInv == ASSUME Inv, NEW c \in Copy, FallBack(c) PROVE Inv'
<1> DEFINE m == copy[c]
           e == FellBack(m.evt)
<1>1. CopyInv(m) /\ m.pc = "held"
  BY DEF Inv, CopiesInv, FallBack, Fails
<1>2. e \in Event /\ EventInv(e) /\ Passed(e, m.at)
  BY <1>1, CopyFields, FellBackInv, FellBackPassed DEF CopyInv
<1>3. Counted(e) \in Event /\ EventInv(Counted(e)) /\ Passed(Counted(e), m.at)
  BY <1>2, CountedFields, CountedInv
<1>4. CopyInv(Holding(m, Counted(e), "next", 2))
  BY <1>1, <1>3, HeldInv
<1>5. copy' = [copy EXCEPT ![c] = Holding(m, Counted(e), "next", 2)]
  BY DEF FallBack
<1>6. copy' \in [Copy -> Queued \union Held \union {Free}] /\ CopiesInv'
  BY <1>4, <1>5, CopyUpdate
<1> QED
  BY <1>6, FailsType DEF Inv, TypeOK, EndedInv, FallBack

\* A failed publication of a handler that acks.
LEMMA LoseInv == ASSUME Inv, NEW c \in Copy, Lose(c) PROVE Inv'
  BY VanishesInv, FailsType DEF Inv, TypeOK, EndedInv, Lose

\* The death of a process.
LEMMA CrashInv == ASSUME Inv, NEW c \in Copy, Crash(c) PROVE Inv'
<1>1. copy[c].pc = "held" /\ copy[c].once \in BOOLEAN
  BY CopyFields DEF Crash, Inv, CopiesInv
<1>2. copy' \in [Copy -> Queued \union Held \union {Free}] /\ CopiesInv'
  BY <1>1, PutBackInv, CopyUpdate, VanishesInv DEF Crash
<1>3. faults' \in 0..MaxFaults /\ harm' \subseteq Harm
  BY FaultType DEF Crash, Inv, TypeOK, Harm
<1> QED
  BY <1>2, <1>3 DEF Inv, TypeOK, EndedInv, Crash

\* A second delivery of a message.
LEMMA RedeliverInv ==
  ASSUME Inv, NEW c \in Copy, NEW d \in Copy, Redeliver(c, d)
  PROVE  Inv'
<1> DEFINE q == QueuedAt(copy[c].at, copy[c].got, FALSE)
           n == [copy[c] EXCEPT !.once = FALSE]
<1>1. copy[c].pc = "held" /\ CopyInv(copy[c]) /\ c # d
  BY DEF Inv, CopiesInv, Redeliver, Free
<1>2. CopyInv(q)
  BY <1>1, PutBackInv
<1>3. CopyInv(n)
  BY <1>1, OnceInv
<1>4. copy \in [Copy -> Queued \union Held \union {Free}]
  BY DEF Inv, TypeOK
<1>5. copy' = [copy EXCEPT ![c] = n, ![d] = q]
  BY <1>1, <1>4 DEF Redeliver
<1> HIDE DEF q, n
<1>6. /\ \A b \in Copy : copy'[b] = IF b = d THEN q ELSE IF b = c THEN n ELSE copy[b]
      /\ copy' = [b \in Copy |-> copy'[b]]
  BY <1>1, <1>4, <1>5
<1>7. \A b \in Copy : CopyInv(copy'[b])
  BY <1>2, <1>3, <1>6 DEF Inv, CopiesInv
<1>8. copy' \in [Copy -> Queued \union Held \union {Free}] /\ CopiesInv'
  BY <1>6, <1>7 DEF CopyInv, CopiesInv
<1>9. faults' \in 0..MaxFaults
  BY FaultType DEF Redeliver
<1> QED
  BY <1>8, <1>9 DEF Inv, TypeOK, EndedInv, Redeliver

\* A dispatch the publisher does not learn of.
LEMMA StoredUnseenInv ==
  ASSUME Inv, NEW c \in Copy, NEW d \in Copy, StoredUnseen(c, d)
  PROVE  Inv'
<1> DEFINE m == copy[c]
<1>1. CopyInv(m) /\ m.pc = "held"
  BY DEF Inv, CopiesInv, StoredUnseen
<1>2. PICK to \in Step :
        Publishes(m, to) /\ copy' = [copy EXCEPT ![d] = QueuedAt(to, m.evt, TRUE)]
  BY DEF StoredUnseen
<1>3. CopyInv(QueuedAt(to, m.evt, TRUE))
  BY <1>1, <1>2, PublishedInv
<1>4. copy' \in [Copy -> Queued \union Held \union {Free}] /\ CopiesInv'
  BY <1>2, <1>3, CopyUpdate
<1>5. faults' \in 0..MaxFaults
  BY FaultType DEF StoredUnseen
<1> QED
  BY <1>4, <1>5 DEF Inv, TypeOK, EndedInv, StoredUnseen

\* An egress publication the publisher does not learn of.
LEMMA DeliveredUnseenInv == ASSUME Inv, NEW c \in Copy, DeliveredUnseen(c) PROVE Inv'
<1> DEFINE m == copy[c]
<1>1. CopyInv(m) /\ m.pc = "held" /\ Publishes(m, Egress)
  BY DEF Inv, CopiesInv, DeliveredUnseen
<1>2. m.via \in {"next", "complete"}
  BY <1>1, CopyFields
<1>3. m.via = "next" => \A s \in Step : m.evt.slip[s] # "PENDING"
  BY <1>1, EgressHasNoPending
<1>4. ended' = ended \union {[how |-> m.via, at |-> m.at, evt |-> m.evt]}
  BY DEF DeliveredUnseen
<1>5. /\ ended' \subseteq [how : {"next", "complete", "untargeted"},
                           at : Step, evt : Event]
      /\ EndedInv'
  BY <1>1, <1>2, <1>3, <1>4, EndedUpdate
<1>6. faults' \in 0..MaxFaults
  BY FaultType DEF DeliveredUnseen
<1> QED
  BY <1>5, <1>6 DEF Inv, TypeOK, CopiesInv, DeliveredUnseen

\* The steps that change nothing.
LEMMA StutterInv == Inv /\ UNCHANGED vars => Inv'
  BY DEF vars, Inv, TypeOK, CopiesInv, EndedInv

-----------------------------------------------------------------------------
(* The way along the slip.                                                  *)

\* next never dispatches the event to an earlier step, and to the step that
\* called it only if that one gave no verdict or an ERROR was said.
Advances ==
    \A m \in InHand : \A to \in Step :
        Publishes(m, to) =>
            /\ to >= m.at
            /\ to = m.at => Style[m.at] = "silent" \/ m.evt.errs > 0

\* What is published goes on.
LEMMA PublishedOn ==
  ASSUME NEW m, CopyInv(m), m.pc = "held", NEW to \in Step, Publishes(m, to)
  PROVE  /\ to >= m.at
         /\ to = m.at => Style[m.at] = "silent" \/ m.evt.errs > 0
<1>1. m.at \in Step /\ m.evt \in Event /\ Passed(m.evt, m.at)
  BY CopyFields DEF CopyInv
<1>2. to # Egress /\ to \in Nat /\ m.at \in Nat /\ to >= 1
  BY <1>1, SlipAssumption DEF Step, Egress
<1>3. m.evt.slip[to] = "PENDING"
  BY <1>2 DEF Publishes, IsTarget
<1>4. to \notin 1..(m.at - 1)
  BY <1>1, <1>3 DEF Passed
<1>5. to >= m.at
  BY <1>2, <1>4
<1>6. to = m.at /\ Style[m.at] # "silent" => m.evt.errs > 0
  <2>1. m.evt.errs \in Nat
    BY <1>1 DEF Event
  <2> QED
    BY <1>1, <1>3, <2>1 DEF Passed
<1> QED
  BY <1>5, <1>6

\* What a copy that is in order may become.
LEMMA StepOn ==
  ASSUME Inv, [Next]_vars, NEW c \in Copy, copy[c].pc # "free", copy'[c].pc # "free"
  PROVE  copy'[c].at >= copy[c].at
<1>0. CopyInv(copy[c]) /\ copy[c].at \in Step /\ copy[c].at \in Nat
  <2>1. CopyInv(copy[c])
    BY DEF Inv, CopiesInv
  <2> QED
    BY <2>1, CopyFields, SlipAssumption DEF Step
<1>1. ASSUME NEW d \in Copy, NEW x, copy' = [copy EXCEPT ![d] = x],
             x.pc = "free" \/ x.at = copy[d].at
      PROVE  copy'[c].at >= copy[c].at
  BY <1>0, <1>1 DEF Inv, TypeOK
<1>2. \A at, e, once : QueuedAt(at, e, once).at = at
  BY DEF QueuedAt
<1>3. \A m, e, via, call : Holding(m, e, via, call).at = m.at
  BY DEF Holding
<1>4. Free.pc = "free"
  BY DEF Free
<1>5. ASSUME NEW d \in Copy, Handle(d) \/ Finish(d) \/ FallBack(d)
      PROVE  copy'[c].at >= copy[c].at
  BY <1>1, <1>3, <1>5 DEF Handle, Finish, FallBack
<1>6. ASSUME NEW d \in Copy, Forward(d)
      PROVE  copy'[c].at >= copy[c].at
  <2>1. PICK to \in Step : Publishes(copy[d], to) /\ copy' = [copy EXCEPT ![d] = QueuedAt(to, copy[d].evt, TRUE)]
    BY <1>6 DEF Forward
  <2>2. CASE d = c
    <3>1. copy'[c].at = to
      BY <1>2, <2>1, <2>2 DEF Inv, TypeOK
    <3> QED
      BY <1>0, <1>6, <2>1, <2>2, <3>1, PublishedOn DEF Forward
  <2>3. CASE d # c
    <3>1. copy'[c] = copy[c]
      BY <2>1, <2>3 DEF Inv, TypeOK
    <3> QED
      BY <1>0, <3>1
  <2> QED
    BY <2>2, <2>3
<1>7. ASSUME NEW d \in Copy, Deliver(d) \/ NoTarget(d) \/ Lose(d) \/ Skip(d) \/ Drop(d)
      PROVE  copy'[c].at >= copy[c].at
  BY <1>1, <1>4, <1>7 DEF Deliver, NoTarget, Lose, Skip, Drop, Leaves, Vanishes
<1>8. ASSUME NEW d \in Copy, Requeue(d) \/ Crash(d) \/ Throw(d)
      PROVE  copy'[c].at >= copy[c].at
  <2>1. \/ copy' = [copy EXCEPT ![d] = Free]
        \/ \E e, once : copy' = [copy EXCEPT ![d] = QueuedAt(copy[d].at, e, once)]
    BY <1>8 DEF Requeue, Crash, Throw, Vanishes
  <2> QED
    BY <1>1, <1>2, <1>4, <2>1
<1>9. ASSUME NEW d \in Copy, Timeout(d)
      PROVE  copy'[c].at >= copy[c].at
  <2>1. copy' = [copy EXCEPT ![d] = [copy[d] EXCEPT !.once = FALSE]]
    BY <1>9 DEF Timeout, Inv, TypeOK
  <2>2. [copy[d] EXCEPT !.once = FALSE].at = copy[d].at
    <3>1. copy[d] \in Held
      BY <1>9, CopyFields DEF Timeout, Inv, CopiesInv
    <3> QED
      BY <3>1 DEF Held
  <2> QED
    BY <1>1, <2>1, <2>2
<1>10. ASSUME NEW b \in Copy, NEW d \in Copy, Redeliver(b, d)
      PROVE  copy'[c].at >= copy[c].at
  <2>1. d # c /\ b # d
    BY <1>4, <1>10 DEF Redeliver
  <2>2. copy[b] \in Held
    BY <1>10, CopyFields DEF Redeliver, Inv, CopiesInv
  <2>3. copy'[c] = IF b = c THEN [copy[c] EXCEPT !.once = FALSE] ELSE copy[c]
    BY <1>10, <2>1 DEF Redeliver, Inv, TypeOK
  <2>4. copy'[c].at = copy[c].at
    BY <2>2, <2>3 DEF Held
  <2> QED
    BY <1>0, <2>4
<1>11. ASSUME NEW b \in Copy, NEW d \in Copy, StoredUnseen(b, d)
      PROVE  copy'[c].at >= copy[c].at
  <2>1. d # c
    BY <1>4, <1>11 DEF StoredUnseen
  <2>2. copy'[c] = copy[c]
    BY <1>11, <2>1 DEF StoredUnseen, Inv, TypeOK
  <2> QED
    BY <1>0, <2>2
<1>12. (\E d \in Copy : DeliveredUnseen(d)) \/ (\E s \in Step : Expire(s)) \/ Done \/ UNCHANGED vars
         => copy' = copy
  BY DEF DeliveredUnseen, Expire, Done, vars
<1> QED
  BY <1>0, <1>5, <1>6, <1>7, <1>8, <1>9, <1>10, <1>11, <1>12 DEF Next

-----------------------------------------------------------------------------
(* The theorems.                                                            *)

\* Inv holds of every reachable state.
THEOREM Invariance == Spec => []Inv
<1>1. Inv /\ [Next]_vars => Inv'
  <2> SUFFICES ASSUME Inv, [Next]_vars PROVE Inv'
    OBVIOUS
  <2>1. CASE UNCHANGED vars
    BY <2>1, StutterInv
  <2>2. CASE \E c \in Copy : Handle(c) \/ Finish(c) \/ Throw(c) \/ Timeout(c)
    BY <2>2, HandleInv, FinishInv, ThrowInv, TimeoutInv
  <2>3. CASE \E c \in Copy : Forward(c) \/ Deliver(c) \/ NoTarget(c)
    BY <2>3, ForwardInv, DeliverInv, NoTargetInv
  <2>4. CASE \E c \in Copy : Requeue(c) \/ FallBack(c) \/ Lose(c)
    BY <2>4, RequeueInv, FallBackInv, LoseInv
  <2>5. CASE \E c \in Copy : Crash(c) \/ DeliveredUnseen(c)
    BY <2>5, CrashInv, DeliveredUnseenInv
  <2>6. CASE \E c, d \in Copy : Redeliver(c, d) \/ StoredUnseen(c, d)
    BY <2>6, RedeliverInv, StoredUnseenInv
  <2>7. CASE \E c \in Copy : Skip(c) \/ Drop(c)
    BY <2>7, SkipInv, DropInv
  <2>8. CASE \E s \in Step : Expire(s)
    BY <2>8, ExpireInv
  <2>9. CASE Done
    BY <2>9, <2>1 DEF Done
  <2> QED
    BY <2>1, <2>2, <2>3, <2>4, <2>5, <2>6, <2>7, <2>8, <2>9 DEF Next
<1> QED
  BY InitInv, <1>1, PTL DEF Spec

\* The state of the slip is well-typed, whatever the services and the faults.
THEOREM TypeCorrect == Spec => []TypeOK
  BY Invariance, PTL DEF Inv

\* An event waits only at the service of its first pending step, which until an
\* ERROR is the first one neither OK nor SKIP.
THEOREM FirstPendingAlways == Spec => []WaitsAtFirstPending
<1>1. Inv => WaitsAtFirstPending
  <2> SUFFICES ASSUME Inv, NEW c \in Copy, copy[c].pc = "queued"
               PROVE  /\ DispatchedTo(copy[c].evt, copy[c].at)
                      /\ copy[c].evt.errs = 0 => IsCurrent(copy[c].evt.slip, copy[c].at)
    BY DEF WaitsAtFirstPending, Waiting, DispatchedTo
  <2> DEFINE e == copy[c].evt
  <2>1. CopyInv(copy[c])
    BY DEF Inv, CopiesInv
  <2>2. copy[c].at \in Step /\ e.slip \in [Step -> Status] /\ EventInv(e)
        /\ DispatchedTo(e, copy[c].at)
    BY <2>1, CopyFields DEF CopyInv, Event
  <2>3. e.errs = 0 => \A s \in Step : e.slip[s] # "ERROR"
    BY <2>2 DEF EventInv
  <2> QED
    BY <2>2, <2>3, TargetIsCurrent DEF DispatchedTo
<1> QED
  BY Invariance, <1>1, PTL

\* Every event of the system satisfies the invariant of events.
LEMMA EventsInv == Inv => \A e \in Events : EventInv(e)
<1> SUFFICES ASSUME Inv, NEW m \in Waiting \union InHand \union ended
             PROVE  EventInv(m.evt)
  BY DEF Events
<1>1. CASE m \in Waiting \union InHand
  BY <1>1 DEF Inv, CopiesInv, CopyInv, Waiting, InHand
<1>2. CASE m \in ended
  BY <1>2 DEF Inv, EndedInv, LeftInv
<1> QED
  BY <1>1, <1>2

\* As long as no service said ERROR, a status is its own service's verdict.
THEOREM VerdictsAreOwn == Spec => []OwnVerdicts
<1>1. Inv => OwnVerdicts
  BY EventsInv DEF EventInv, OwnVerdicts
<1> QED
  BY Invariance, <1>1, PTL

\* If every service gives a status, handlers run at most once per settled step
\* and once per ERROR, along the way of every copy of the event.
THEOREM RunsBound ==
  ASSUME NoSilent
  PROVE  Spec => []RunsAccounted
<1>1. Inv => RunsAccounted
  BY EventsInv DEF EventInv, RunsAccounted
<1> QED
  BY Invariance, <1>1, PTL

\* An event that left by next without an ERROR was served by every step.
THEOREM EgressAfterService == Spec => []EgressMeansServed
<1>1. Inv => EgressMeansServed
  BY DEF Inv, EndedInv, LeftInv, EventInv, EgressMeansServed
<1> QED
  BY Invariance, <1>1, PTL

\* What the services said is what the slip and the egress tell, until the first
\* ERROR.
THEOREM VerdictsCarryAlways == Spec => []VerdictsCarry
  BY VerdictsAreOwn, EgressAfterService, PTL DEF VerdictsCarry

-----------------------------------------------------------------------------
(* An event that is gone has a cause.                                       *)

\* The attempts tell how often the event was dispatched: one that waits was
\* dispatched there, and one that its handler is about to dispatch to the
\* handler's own step comes there at least for the second time.
Attempted(m) ==
    /\ m.pc = "queued" => m.evt.attempt[m.at] > 0
    /\ m.pc = "held" =>
        /\ m.got.attempt[m.at] > 0
        /\ m.evt.attempt[m.at] > 0
        /\ \A to \in Step :
            Publishes(m, to) => m.evt.attempt[to] > IF to = m.at THEN 1 ELSE 0

Attempts == \A c \in Copy : Attempted(copy[c])

\* A copy that no dedupe can drop.
Sound(m) == m.pc = "held" \/ (m.pc = "queued" /\ m.once)

\* A copy that has taken the event past the Redis check of step s.
Beyond(m, s) ==
    \/ m.pc = "held" /\ m.at >= s
    \/ /\ m.pc = "queued" /\ m.once
       /\ m.at > s \/ (m.at = s /\ m.evt.attempt[s] > 1)

\* While nothing has done harm and the end is not reached, there is a copy that
\* cannot be dropped, and one beyond every step whose key is set.
OnItsWay ==
    harm = {} /\ ended = {} =>
        /\ \E c \in Copy : Sound(copy[c])
        /\ \A s \in taken : \E c \in Copy : Beyond(copy[c], s)

\* What Counted does to the attempts.
LEMMA CountedAttempt ==
  ASSUME NEW e \in Event, NEW s \in Step
  PROVE  /\ Counted(e).attempt[s] >= e.attempt[s]
         /\ IsTarget(e.slip, s) => Counted(e).attempt[s] = e.attempt[s] + 1
<1>1. e.attempt[s] \in Nat
  BY DEF Event
<1>2. Counted(e).attempt[s] = IF IsTarget(e.slip, s) THEN e.attempt[s] + 1 ELSE e.attempt[s]
  BY DEF Counted, Event
<1> QED
  BY <1>1, <1>2

\* A copy in the hands of a handler that calls next.
LEMMA HoldingNext ==
  ASSUME NEW m, CopyInv(m), Attempted(m), m.pc # "free",
         NEW e \in Event, e.attempt = m.evt.attempt, NEW call
  PROVE  Attempted(Holding(m, Counted(e), "next", call))
<1> DEFINE h == Holding(m, Counted(e), "next", call)
           got == IF m.pc = "held" THEN m.got ELSE m.evt
<1>1. m.at \in Step /\ m.evt \in Event /\ got.attempt[m.at] > 0 /\ e.attempt[m.at] > 0
  BY CopyFields DEF Attempted
<1>2. /\ h.pc = "held" /\ h.at = m.at /\ h.got = got /\ h.evt = Counted(e)
      /\ h.via = "next"
  BY DEF Holding
<1> HIDE DEF h, got
<1>3. \A s \in Step : e.attempt[s] \in Nat /\ Counted(e).attempt[s] \in Nat
  BY CountedFields DEF Event
<1>4. Counted(e).attempt[m.at] > 0
  BY <1>1, <1>3, CountedAttempt
<1>5. ASSUME NEW to \in Step, Publishes(h, to)
      PROVE  Counted(e).attempt[to] > IF to = m.at THEN 1 ELSE 0
  <2>1. IsTarget(e.slip, to)
    BY <1>2, <1>5, CountedFields DEF Publishes
  <2>2. Counted(e).attempt[to] = e.attempt[to] + 1
    BY <2>1, CountedAttempt
  <2> QED
    BY <1>1, <1>3, <2>2
<1>6. Attempted(h)
  BY <1>1, <1>2, <1>4, <1>5 DEF Attempted
<1> QED
  BY <1>6 DEF h

\* A message in the queue of a step.
LEMMA QueuedAttempt ==
  ASSUME NEW at, NEW e, NEW once, e.attempt[at] > 0
  PROVE  Attempted(QueuedAt(at, e, once))
<1> DEFINE q == QueuedAt(at, e, once)
<1>1. q.pc = "queued" /\ q.evt = e /\ q.at = at
  BY DEF QueuedAt
<1> HIDE DEF q
<1>2. Attempted(q)
  BY <1>1 DEF Attempted
<1> QED
  BY <1>2 DEF q

\* A held message counted as answered or delivered again.
LEMMA OnceAttempt ==
  ASSUME NEW m \in Held, Attempted(m)
  PROVE  Attempted([m EXCEPT !.once = FALSE])
<1> DEFINE n == [m EXCEPT !.once = FALSE]
<1>1. n.pc = m.pc /\ n.at = m.at /\ n.got = m.got /\ n.evt = m.evt /\ n.via = m.via
  BY DEF Held
<1> HIDE DEF n
<1>2. Attempted(n)
  BY <1>1 DEF Attempted, Publishes
<1> QED
  BY <1>2 DEF n

\* One copy changed.
LEMMA AttemptsUpdate ==
  ASSUME Inv, Attempts, NEW c \in Copy, NEW x, Attempted(x), copy' = [copy EXCEPT ![c] = x]
  PROVE  Attempts'
<1>1. \A d \in Copy : copy'[d] = IF d = c THEN x ELSE copy[d]
  BY DEF Inv, TypeOK
<1> QED
  BY <1>1 DEF Attempts

\* Every step keeps count of the attempts.
LEMMA AttemptsStep ==
  ASSUME Inv, Attempts, [Next]_vars
  PROVE  Attempts'
<1>1. \A c \in Copy : CopyInv(copy[c]) /\ Attempted(copy[c])
  BY DEF Inv, CopiesInv, Attempts
<1>2. Attempted(Free)
  BY DEF Attempted, Free
<1>3. ASSUME NEW c \in Copy, Handle(c) PROVE Attempts'
  <2>1. PICK v \in Verdicts(copy[c].at) :
          copy' = [copy EXCEPT ![c] = Holding(copy[c],
              Counted(Answered(copy[c].evt, copy[c].at, v)), "next", CallOf(copy[c].at, v))]
    BY <1>3 DEF Handle
  <2> DEFINE e == Answered(copy[c].evt, copy[c].at, v)
  <2>2. copy[c].evt \in Event /\ copy[c].at \in Step /\ copy[c].pc # "free"
    BY <1>1, <1>3, CopyFields DEF Handle
  <2>3. e \in Event /\ e.attempt = copy[c].evt.attempt
    BY <2>2, AnsweredType DEF Answered, Verdicts
  <2> HIDE DEF e
  <2>4. Attempted(Holding(copy[c], Counted(e), "next", CallOf(copy[c].at, v)))
    BY <1>1, <2>2, <2>3, HoldingNext
  <2> QED
    BY <2>1, <2>4, AttemptsUpdate DEF e
<1>4. ASSUME NEW c \in Copy, Finish(c) PROVE Attempts'
  <2>1. PICK v \in Verdict :
          copy' = [copy EXCEPT ![c] =
              Holding(copy[c], Answered(copy[c].evt, copy[c].at, v), "complete", 1)]
    BY <1>4 DEF Finish
  <2> DEFINE e == Answered(copy[c].evt, copy[c].at, v)
             h == Holding(copy[c], e, "complete", 1)
  <2>2. copy[c].pc = "queued" /\ copy[c].evt.attempt[copy[c].at] > 0
    BY <1>1, <1>4 DEF Finish, Attempted
  <2>3. e.attempt = copy[c].evt.attempt
    BY DEF Answered
  <2> HIDE DEF e
  <2>4. /\ h.pc = "held" /\ h.at = copy[c].at /\ h.got = copy[c].evt /\ h.evt = e
        /\ h.via = "complete"
    BY <2>2 DEF Holding
  <2> HIDE DEF h
  <2>5. \A to \in Step : ~ Publishes(h, to)
    BY <2>4, SlipAssumption DEF Publishes, Step, Egress
  <2>6. Attempted(h)
    BY <2>2, <2>3, <2>4, <2>5 DEF Attempted
  <2> QED
    BY <2>1, <2>6, AttemptsUpdate DEF e, h
<1>5. ASSUME NEW c \in Copy, FallBack(c) PROVE Attempts'
  <2>1. copy[c].pc = "held" /\ copy' = [copy EXCEPT ![c] =
          Holding(copy[c], Counted(FellBack(copy[c].evt)), "next", 2)]
    BY <1>5 DEF FallBack, Fails
  <2>2. FellBack(copy[c].evt) \in Event /\ FellBack(copy[c].evt).attempt = copy[c].evt.attempt
    BY <1>1, <2>1, CopyFields, FellBackInv DEF FellBack
  <2>3. Attempted(Holding(copy[c], Counted(FellBack(copy[c].evt)), "next", 2))
    BY <1>1, <2>1, <2>2, HoldingNext
  <2> QED
    BY <2>1, <2>3, AttemptsUpdate
<1>6. ASSUME NEW c \in Copy, NEW d \in Copy, NEW to \in Step, copy[c].pc = "held",
             Publishes(copy[c], to),
             copy' = [copy EXCEPT ![d] = QueuedAt(to, copy[c].evt, TRUE)]
      PROVE  Attempts'
  <2>1. copy[c].evt \in Event
    BY <1>1, <1>6, CopyFields
  <2>2. copy[c].evt.attempt[to] > 0
    BY <1>1, <1>6, <2>1 DEF Attempted, Event
  <2> QED
    BY <1>6, <2>2, QueuedAttempt, AttemptsUpdate
<1>7. ASSUME NEW c \in Copy, Forward(c) PROVE Attempts'
  BY <1>6, <1>7 DEF Forward
<1>8. ASSUME NEW c \in Copy, NEW d \in Copy, StoredUnseen(c, d) PROVE Attempts'
  BY <1>6, <1>8 DEF StoredUnseen
<1>9. ASSUME NEW c \in Copy, copy' = [copy EXCEPT ![c] = Free] PROVE Attempts'
  BY <1>2, <1>9, AttemptsUpdate
<1>10. ASSUME NEW c \in Copy, Deliver(c) \/ NoTarget(c) \/ Lose(c) \/ Skip(c) \/ Drop(c)
      PROVE  Attempts'
  BY <1>9, <1>10 DEF Deliver, NoTarget, Lose, Skip, Drop, Leaves, Vanishes
<1>11. ASSUME NEW c \in Copy, Throw(c) PROVE Attempts'
  <2>1. Attempted(QueuedAt(copy[c].at, copy[c].evt, FALSE))
    BY <1>1, <1>11, QueuedAttempt DEF Throw, Attempted
  <2> QED
    BY <1>9, <1>11, <2>1, AttemptsUpdate DEF Throw, Vanishes
<1>12. ASSUME NEW c \in Copy, Requeue(c) \/ Crash(c) PROVE Attempts'
  <2>1. copy[c].pc = "held"
    BY <1>12 DEF Requeue, Crash, Fails
  <2>2. \A once : Attempted(QueuedAt(copy[c].at, copy[c].got, once))
    BY <1>1, <2>1, QueuedAttempt DEF Attempted
  <2> QED
    BY <1>9, <1>12, <2>2, AttemptsUpdate DEF Requeue, Crash, Vanishes
<1>13. ASSUME NEW c \in Copy, copy[c].pc = "held"
       PROVE  Attempted([copy[c] EXCEPT !.once = FALSE])
  BY <1>1, <1>13, CopyFields, OnceAttempt
<1>14. ASSUME NEW c \in Copy, Timeout(c) PROVE Attempts'
  <2>1. copy' = [copy EXCEPT ![c] = [copy[c] EXCEPT !.once = FALSE]]
    BY <1>14 DEF Timeout, Inv, TypeOK
  <2> QED
    BY <1>13, <1>14, <2>1, AttemptsUpdate DEF Timeout
<1>15. ASSUME NEW c \in Copy, NEW d \in Copy, Redeliver(c, d) PROVE Attempts'
  <2>1. copy[c].pc = "held" /\ c # d
    BY <1>15 DEF Redeliver, Free
  <2>2. Attempted(QueuedAt(copy[c].at, copy[c].got, FALSE))
    BY <1>1, <2>1, QueuedAttempt DEF Attempted
  <2>3. \A b \in Copy : copy'[b] = IF b = d THEN QueuedAt(copy[c].at, copy[c].got, FALSE)
                                  ELSE IF b = c THEN [copy[c] EXCEPT !.once = FALSE]
                                  ELSE copy[b]
    BY <1>15, <2>1 DEF Redeliver, Inv, TypeOK
  <2> QED
    BY <1>1, <1>13, <2>1, <2>2, <2>3 DEF Attempts
<1>16. (\E c \in Copy : DeliveredUnseen(c)) \/ (\E s \in Step : Expire(s)) \/ Done \/ UNCHANGED vars
         => Attempts'
  BY DEF DeliveredUnseen, Expire, Done, vars, Attempts
<1> QED
  BY <1>3, <1>4, <1>5, <1>7, <1>8, <1>10, <1>11, <1>12, <1>14, <1>15, <1>16 DEF Next

\* Whatever a copy stood for is stood for after the step.
LEMMA WayKept ==
  ASSUME OnItsWay, harm' = {} /\ ended' = {} => harm = {} /\ ended = {},
         \A b \in Copy : Sound(copy[b]) => \E d \in Copy : Sound(copy'[d]),
         \A s \in taken' : \/ \E d \in Copy : Beyond(copy'[d], s)
                           \/ /\ s \in taken
                              /\ \A b \in Copy : Beyond(copy[b], s) =>
                                    \E d \in Copy : Beyond(copy'[d], s)
  PROVE  OnItsWay'
  BY DEF OnItsWay, Sound, Beyond

\* One copy changed into another that stands for as much.
LEMMA WayUpdate ==
  ASSUME Inv, OnItsWay, harm' = {} /\ ended' = {} => harm = {} /\ ended = {},
         NEW c \in Copy, NEW x, copy' = [copy EXCEPT ![c] = x],
         Sound(copy[c]) => Sound(x),
         \A s \in taken' : \/ Beyond(x, s)
                           \/ s \in taken /\ ~ Beyond(copy[c], s)
  PROVE  OnItsWay'
<1>1. \A d \in Copy : copy'[d] = IF d = c THEN x ELSE copy[d]
  BY DEF Inv, TypeOK
<1>2. \A b \in Copy : Sound(copy[b]) => Sound(copy'[b])
  BY <1>1
<1>3. \A s \in taken' : Beyond(x, s) => Beyond(copy'[c], s)
  BY <1>1
<1>4. \A s \in taken' : ~ Beyond(copy[c], s) =>
        \A b \in Copy : Beyond(copy[b], s) => Beyond(copy'[b], s)
  BY <1>1
<1> QED
  BY <1>2, <1>3, <1>4, WayKept

\* A handler that starts has taken the event past its step's check.
LEMMA HandlerOnWay ==
  ASSUME Inv, OnItsWay, NEW c \in Copy, Handle(c) \/ Finish(c)
  PROVE  OnItsWay'
<1>1. /\ copy[c].pc = "queued" /\ taken' \subseteq taken \union {copy[c].at}
      /\ harm' = harm /\ ended' = ended
  BY DEF Handle, Finish, Passes
<1>2. copy[c].at \in Step /\ copy[c].at \in Int
  BY <1>1, CopyFields, SlipAssumption DEF Inv, CopiesInv, Step
<1>3. PICK e, via, call : copy' = [copy EXCEPT ![c] = Holding(copy[c], e, via, call)]
  BY DEF Handle, Finish
<1> DEFINE h == Holding(copy[c], e, via, call)
<1>4. h.pc = "held" /\ h.at = copy[c].at
  BY DEF Holding
<1> HIDE DEF h
<1>5. Sound(h) /\ Beyond(h, copy[c].at)
  BY <1>2, <1>4 DEF Sound, Beyond
<1>6. taken \subseteq Step
  BY DEF Inv, TypeOK
<1>7. \A s \in taken : Beyond(copy[c], s) => Beyond(h, s)
  <2> SUFFICES ASSUME NEW s \in taken, Beyond(copy[c], s) PROVE Beyond(h, s)
    OBVIOUS
  <2>1. s \in Int
    BY <1>6, SlipAssumption DEF Step
  <2>2. copy[c].at > s \/ copy[c].at = s
    BY <1>1 DEF Beyond
  <2>3. copy[c].at >= s
    BY <1>2, <2>1, <2>2
  <2> QED
    BY <1>4, <2>3 DEF Beyond
<1> QED
  BY <1>1, <1>3, <1>5, <1>7, WayUpdate DEF h

\* A dispatch takes the event further, or to the same step once more.
LEMMA ForwardOnWay ==
  ASSUME Inv, Attempts, OnItsWay, NEW c \in Copy, Forward(c)
  PROVE  OnItsWay'
<1>1. copy[c].pc = "held" /\ taken' = taken /\ harm' = harm /\ ended' = ended
  BY DEF Forward
<1>2. PICK to \in Step :
        Publishes(copy[c], to) /\ copy' = [copy EXCEPT ![c] = QueuedAt(to, copy[c].evt, TRUE)]
  BY DEF Forward
<1>3. CopyInv(copy[c]) /\ Attempted(copy[c])
  BY DEF Inv, CopiesInv, Attempts
<1>4. copy[c].at \in Int /\ to \in Int /\ to >= copy[c].at
  BY <1>1, <1>2, <1>3, CopyFields, PublishedOn, SlipAssumption DEF Step
<1>5. to = copy[c].at => copy[c].evt.attempt[to] > 1
  BY <1>1, <1>2, <1>3 DEF Attempted
<1> DEFINE q == QueuedAt(to, copy[c].evt, TRUE)
<1>6. q.pc = "queued" /\ q.once /\ q.at = to /\ q.evt = copy[c].evt
  BY DEF QueuedAt
<1> HIDE DEF q
<1>7. \A s \in taken : Beyond(copy[c], s) => Beyond(q, s)
  <2> SUFFICES ASSUME NEW s \in taken, Beyond(copy[c], s) PROVE Beyond(q, s)
    OBVIOUS
  <2>1. s \in Int /\ copy[c].at >= s
    BY <1>1, SlipAssumption DEF Inv, TypeOK, Step, Beyond
  <2>2. CASE to > s
    BY <1>6, <2>2 DEF Beyond
  <2>3. CASE to = s
    BY <1>4, <1>5, <1>6, <2>1, <2>3 DEF Beyond
  <2> QED
    BY <1>4, <2>1, <2>2, <2>3
<1>8. Sound(q)
  BY <1>6 DEF Sound
<1> QED
  BY <1>1, <1>2, <1>7, <1>8, WayUpdate DEF q

\* A duplicate by the Redis check leaves the one it duplicates.
LEMMA SkipOnWay ==
  ASSUME Inv, Attempts, OnItsWay, NEW c \in Copy, Skip(c)
  PROVE  OnItsWay'
<1> SUFFICES ASSUME harm' = {}, ended' = {}
             PROVE  OnItsWay'
  BY DEF OnItsWay
<1> DEFINE t == copy[c].at
<1>1. /\ copy[c].pc = "queued" /\ t \in taken /\ taken' = taken
      /\ harm = {} /\ ended = {} /\ ~ (copy[c].evt.attempt[t] > 1)
  BY DEF Skip
<1>2. PICK b \in Copy : Beyond(copy[b], t)
  BY <1>1 DEF OnItsWay
<1>3. CopyInv(copy[b]) /\ CopyInv(copy[c]) /\ copy[b].pc # "free"
  BY <1>2 DEF Inv, CopiesInv, Beyond
<1>4. t \in Step /\ copy[b].at \in Step
  BY <1>1, <1>3, CopyFields
<1>5. t \in Int /\ copy[b].at \in Int /\ taken \subseteq Int
  BY <1>4, SlipAssumption DEF Inv, TypeOK, Step
<1>6. b # c
  BY <1>1, <1>2, <1>5 DEF Beyond
<1>7. \A d \in Copy : d # c => copy'[d] = copy[d]
  BY DEF Skip, Vanishes, Inv, TypeOK
<1>8. Sound(copy'[b])
  BY <1>2, <1>6, <1>7 DEF Sound, Beyond
<1>9. ASSUME NEW s \in taken, Beyond(copy[c], s)
      PROVE  Beyond(copy'[b], s)
  <2>1. t > s
    BY <1>1, <1>5, <1>9 DEF Beyond
  <2>2. copy[b].at >= t
    BY <1>2, <1>5 DEF Beyond
  <2>3. copy[b].at > s /\ copy[b].at >= s
    BY <1>5, <2>1, <2>2
  <2> QED
    BY <1>2, <1>6, <1>7, <2>3 DEF Beyond
<1> QED
  BY <1>1, <1>6, <1>7, <1>8, <1>9, WayKept

\* A death without harm puts back a message whose step has no key.
LEMMA CrashOnWay ==
  ASSUME Inv, OnItsWay, NEW c \in Copy, Crash(c)
  PROVE  OnItsWay'
<1> SUFFICES ASSUME harm' = {}, ended' = {}
             PROVE  OnItsWay'
  BY DEF OnItsWay
<1>1. /\ copy[c].pc = "held" /\ copy[c].once /\ copy[c].at \notin taken
      /\ harm = {} /\ ended = {} /\ taken' = taken
  BY DEF Crash
<1> DEFINE q == QueuedAt(copy[c].at, copy[c].got, copy[c].once)
<1>2. copy' = [copy EXCEPT ![c] = q]
  BY <1>1 DEF Crash
<1>3. q.pc = "queued" /\ q.once /\ q.at = copy[c].at
  BY <1>1 DEF QueuedAt
<1> HIDE DEF q
<1>4. copy[c].at \in Int /\ taken \subseteq Int
  BY <1>1, CopyFields, SlipAssumption DEF Inv, CopiesInv, TypeOK, Step
<1>5. \A s \in taken : Beyond(copy[c], s) => Beyond(q, s)
  BY <1>1, <1>3, <1>4 DEF Beyond
<1>6. Sound(q)
  BY <1>3 DEF Sound
<1> QED
  BY <1>1, <1>2, <1>5, <1>6, WayUpdate

\* Redeliveries and publications nobody sees only add copies.
LEMMA CopiesOnWay ==
  ASSUME Inv, OnItsWay, NEW c \in Copy, NEW d \in Copy, Redeliver(c, d) \/ StoredUnseen(c, d)
  PROVE  OnItsWay'
<1>1. /\ copy[c].pc = "held" /\ copy[d] = Free /\ c # d
      /\ taken' = taken /\ harm' = harm /\ ended' = ended
  <2>1. copy[c].pc = "held" /\ copy[d] = Free
    BY DEF Redeliver, StoredUnseen
  <2>2. taken' = taken /\ harm' = harm /\ ended' = ended
    BY DEF Redeliver, StoredUnseen
  <2>3. c # d
    BY <2>1 DEF Free
  <2> QED
    BY <2>1, <2>2, <2>3
<1>2. ~ Sound(copy[d]) /\ \A s : ~ Beyond(copy[d], s)
  BY <1>1 DEF Sound, Beyond, Free
<1>3. copy[c] \in Held
  BY <1>1, CopyFields DEF Inv, CopiesInv
<1>4. ASSUME NEW b \in Copy, b # d
      PROVE  /\ copy'[b].pc = copy[b].pc /\ copy'[b].at = copy[b].at
             /\ copy'[b].evt = copy[b].evt
             /\ copy[b].pc = "queued" => copy'[b].once = copy[b].once
  <2>1. CASE b = c /\ Redeliver(c, d)
    <3>1. copy'[c] = [copy[c] EXCEPT !.once = FALSE]
      BY <1>1, <2>1 DEF Redeliver, Inv, TypeOK
    <3> QED
      BY <1>1, <1>3, <2>1, <3>1 DEF Held
  <2>2. CASE b # c \/ StoredUnseen(c, d)
    <3>1. copy'[b] = copy[b]
      BY <1>1, <1>4, <2>2 DEF Redeliver, StoredUnseen, Inv, TypeOK
    <3> QED
      BY <3>1
  <2> QED
    BY <2>1, <2>2
<1>5. \A b \in Copy : Sound(copy[b]) => Sound(copy'[b])
  BY <1>2, <1>4 DEF Sound
<1>6. \A s \in taken : \A b \in Copy : Beyond(copy[b], s) => Beyond(copy'[b], s)
  BY <1>2, <1>4 DEF Beyond
<1> QED
  BY <1>1, <1>5, <1>6, WayKept

\* Every step keeps the event on its way, or does harm, or takes it to the end.
LEMMA OnItsWayStep ==
  ASSUME Inv, Attempts, OnItsWay, [Next]_vars
  PROVE  OnItsWay'
<1>1. ASSUME NEW c \in Copy, Handle(c) \/ Finish(c) PROVE OnItsWay'
  BY <1>1, HandlerOnWay
<1>2. ASSUME NEW c \in Copy, Forward(c) PROVE OnItsWay'
  BY <1>2, ForwardOnWay
<1>3. ASSUME NEW c \in Copy, Skip(c) PROVE OnItsWay'
  BY <1>3, SkipOnWay
<1>4. ASSUME NEW c \in Copy, Crash(c) PROVE OnItsWay'
  BY <1>4, CrashOnWay
<1>5. ASSUME NEW c \in Copy, NEW d \in Copy, Redeliver(c, d) \/ StoredUnseen(c, d)
      PROVE  OnItsWay'
  BY <1>5, CopiesOnWay
<1>6. ASSUME NEW c \in Copy, Deliver(c) \/ NoTarget(c) \/ DeliveredUnseen(c) PROVE OnItsWay'
  <2>1. ended' # {}
    BY <1>6 DEF Deliver, NoTarget, DeliveredUnseen, Leaves
  <2> QED
    BY <2>1 DEF OnItsWay
<1>7. ASSUME NEW c \in Copy, Requeue(c) \/ FallBack(c) \/ Lose(c) \/ Throw(c) PROVE OnItsWay'
  <2>1. harm' # {}
    BY <1>7 DEF Requeue, FallBack, Lose, Throw, Fails
  <2> QED
    BY <2>1 DEF OnItsWay
<1>8. ASSUME NEW c \in Copy, Drop(c) PROVE OnItsWay'
  <2>1. /\ ~ Sound(copy[c]) /\ \A s : ~ Beyond(copy[c], s)
        /\ taken' = taken /\ harm' = harm /\ ended' = ended
    BY <1>8 DEF Drop, Sound, Beyond
  <2> QED
    BY <1>8, <2>1, WayUpdate DEF Drop, Vanishes
<1>9. ASSUME NEW c \in Copy, Timeout(c) PROVE OnItsWay'
  <2>1. copy[c] \in Held /\ copy[c].pc = "held"
    BY <1>9, CopyFields DEF Timeout, Inv, CopiesInv
  <2> DEFINE x == [copy[c] EXCEPT !.once = FALSE]
  <2>2. x.pc = "held" /\ x.at = copy[c].at
    BY <2>1 DEF Held
  <2>3. copy' = [copy EXCEPT ![c] = x] /\ taken' = taken /\ harm' = harm /\ ended' = ended
    BY <1>9 DEF Timeout, Inv, TypeOK
  <2> HIDE DEF x
  <2>4. Sound(x) /\ \A s \in taken : Beyond(copy[c], s) => Beyond(x, s)
    BY <2>1, <2>2 DEF Sound, Beyond
  <2> QED
    BY <2>3, <2>4, WayUpdate
<1>10. ASSUME NEW s \in Step, Expire(s) PROVE OnItsWay'
  BY <1>10 DEF Expire, OnItsWay
<1>11. CASE UNCHANGED vars
  BY <1>11 DEF vars, OnItsWay
<1> QED
  BY <1>1, <1>2, <1>3, <1>4, <1>5, <1>6, <1>7, <1>8, <1>9, <1>10, <1>11 DEF Next, Done

\* An event that is gone short of its end had a publication fail, a handler
\* throw, a process die on an answered message or past the Redis check, or came
\* to a checked step twice: nothing else that the broker, the QoS timeout, the
\* dedupe and the Redis check do to its copies loses it.
THEOREM LossHasCauseAlways == Spec => []LossHasCause
<1>1. Init => Attempts /\ OnItsWay
  <2> SUFFICES ASSUME Init PROVE Attempts /\ OnItsWay
    OBVIOUS
  <2>1. PICK c \in Copy, dest \in BOOLEAN :
          copy = [d \in Copy |-> IF d = c THEN QueuedAt(1, Planned(dest), TRUE) ELSE Free]
    BY DEF Init
  <2>2. Planned(dest).attempt[1] > 0
    BY SlipAssumption DEF Planned, Step
  <2>3. Attempted(QueuedAt(1, Planned(dest), TRUE)) /\ Attempted(Free)
    BY <2>2, QueuedAttempt DEF Attempted, Free
  <2>4. Sound(copy[c])
    BY <2>1 DEF Sound, QueuedAt
  <2> QED
    BY <2>1, <2>3, <2>4 DEF Init, Attempts, OnItsWay
<1>2. Inv /\ Attempts /\ OnItsWay /\ [Next]_vars => Attempts' /\ OnItsWay'
  BY AttemptsStep, OnItsWayStep
<1>3. OnItsWay => LossHasCause
  BY DEF OnItsWay, LossHasCause, AllLeft, EndReached, Sound, Free
<1> QED
  BY <1>1, <1>2, <1>3, Invariance, PTL DEF Spec

\* agent-flow-patterns.md's "NEXT: Advance the routing slip" holds of every
\* dispatch but those after an ERROR and those of a service that calls next
\* without a verdict; and even these never go back.
THEOREM AdvancesAlways == Spec => []Advances
<1>1. Inv => Advances
  <2> SUFFICES ASSUME Inv, NEW c \in Copy, copy[c].pc = "held",
                      NEW to \in Step, Publishes(copy[c], to)
               PROVE  /\ to >= copy[c].at
                      /\ to = copy[c].at => Style[copy[c].at] = "silent" \/ copy[c].evt.errs > 0
    BY DEF Advances, InHand
  <2> QED
    BY PublishedOn DEF Inv, CopiesInv
<1> QED
  BY Invariance, <1>1, PTL

\* No nack, crash, redelivery or fallback takes a copy of the event back to a
\* step it has been past.
THEOREM NeverBack ==
  Spec => [][\A c \in Copy : copy[c].pc # "free" /\ copy'[c].pc # "free"
                => copy'[c].at >= copy[c].at]_vars
<1>1. Inv /\ [Next]_vars =>
        [\A c \in Copy : copy[c].pc # "free" /\ copy'[c].pc # "free"
            => copy'[c].at >= copy[c].at]_vars
  BY StepOn
<1> QED
  BY Invariance, <1>1, PTL DEF Spec

=============================================================================
