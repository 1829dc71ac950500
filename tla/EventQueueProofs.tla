------------------------- MODULE EventQueueProofs -------------------------
(***************************************************************************)
(* What the event queue guarantees for every capacity and batch.  The      *)
(* bound is inductive by itself: a purge leaves either places for what     *)
(* comes or nothing that it could drop, and a handler that returns         *)
(* something critical returns one event.                                   *)
(***************************************************************************)
EXTENDS EventQueue, FiniteSetTheorems, TLAPS

\* The inductive invariant.
Inv == TypeOK /\ OverflowIsCritical

\* The events that a push adds are as many as it says, at most.
LEMMA NewEvents ==
  ASSUME NEW kind \in Kinds, NEW last \in Nat, NEW n \in Nat
  PROVE  LET new == {[kind |-> kind, stamp |-> last + i] : i \in 1..n}
         IN  new \subseteq Event /\ IsFiniteSet(new) /\ Cardinality(new) <= n /\ Cardinality(new) \in Nat
<1> DEFINE Of(i) == [kind |-> kind, stamp |-> last + i]
           new == {Of(i) : i \in 1..n}
           f == [i \in 1..n |-> Of(i)]
<1>1. IsFiniteSet(1..n) /\ Cardinality(1..n) = n
  BY FS_Interval
<1>2. f \in Surjection(1..n, new)
  BY DEF Surjection
<1>3. IsFiniteSet(new) /\ Cardinality(new) <= n
  BY <1>1, <1>2, FS_Surjection
<1>4. new \subseteq Event
  BY DEF Event
<1> QED BY <1>3, <1>4, FS_CardinalityType

\* Parts of a finite set are finite, and no larger.
LEMMA Part ==
  ASSUME NEW q, IsFiniteSet(q), NEW s \in SUBSET q
  PROVE  IsFiniteSet(s) /\ Cardinality(s) \in Nat /\ Cardinality(q) \in Nat /\ Cardinality(s) <= Cardinality(q)
  BY FS_Subset, FS_CardinalityType

\* The union of two finite sets has no more elements than both together.
LEMMA Together ==
  ASSUME NEW q, NEW s, IsFiniteSet(q), IsFiniteSet(s)
  PROVE  IsFiniteSet(q \cup s) /\ Cardinality(q \cup s) <= Cardinality(q) + Cardinality(s)
<1>1. /\ IsFiniteSet(q \cup s) /\ IsFiniteSet(q \cap s)
      /\ Cardinality(q \cup s) = Cardinality(q) + Cardinality(s) - Cardinality(q \cap s)
  BY FS_Union, FS_Intersection
<1> QED BY <1>1, FS_CardinalityType

\* What a queue that was made ready holds: all that is critical, and of the
\* others none, unless there is place for n.
LEMMA FitOk ==
  ASSUME NEW q \in SUBSET Event, IsFiniteSet(q), NEW n \in Nat \ {0}, NEW p \in Fit(q, n)
  PROVE  /\ p \subseteq q /\ IsFiniteSet(p) /\ Critical(p) = Critical(q)
         /\ \/ Cardinality(p) + n <= Capacity
            \/ Others(p) = {}
            \/ n > 1 /\ Cardinality(p) <= Capacity
<1>0. Capacity \in Nat \ {0}
  BY CapacityAssumption
<1>1. CASE Cardinality(q) + n <= Capacity
  <2>1. p = q
    BY <1>0, <1>1, FS_CardinalityType DEF Fit
  <2> QED BY <1>1, <2>1
<1>2. CASE Cardinality(q) + n > Capacity
  <2> DEFINE keep == Most(Capacity - n, Capacity \div 2)
             places == Most(keep - Cardinality(Critical(q)), 0)
  <2>1. p \in Purge(q, keep)
    BY <1>0, <1>2, FS_CardinalityType DEF Fit
  <2>2. PICK s \in SUBSET Others(q) :
          p = Critical(q) \cup s /\ Cardinality(s) = Least(places, Cardinality(Others(q)))
    BY <2>1 DEF Purge
  <2>3. /\ p \subseteq q /\ Critical(p) = Critical(q) /\ Others(p) = s
    BY <2>2 DEF Critical, Others
  <2>4. Critical(q) \in SUBSET q /\ Others(q) \in SUBSET q /\ s \in SUBSET q
    BY <2>2 DEF Critical, Others
  <2>5. /\ IsFiniteSet(p) /\ IsFiniteSet(s) /\ IsFiniteSet(Critical(q))
        /\ Cardinality(s) \in Nat /\ Cardinality(Critical(q)) \in Nat
        /\ Cardinality(Others(q)) \in Nat /\ Cardinality(p) \in Nat
    BY <2>3, <2>4, Part
  <2>6. Cardinality(p) <= Cardinality(Critical(q)) + Cardinality(s)
    BY <2>2, <2>5, Together
  <2>7. Capacity \div 2 \in Nat /\ Capacity \div 2 <= Capacity /\ (Capacity > 1 => Capacity \div 2 <= Capacity - 1)
        /\ (Capacity = 1 => Capacity \div 2 = 0)
    BY <1>0
  <2>8. keep \in Nat /\ keep <= Capacity /\ (n = 1 => keep = Capacity - 1)
    BY <1>0, <2>7 DEF Most
  <2>9. CASE Cardinality(Critical(q)) >= keep
    <3>1. Cardinality(s) = 0
      BY <2>2, <2>5, <2>8, <2>9 DEF Most, Least
    <3> QED BY <2>3, <2>5, <3>1, FS_EmptySet
  <2>10. CASE Cardinality(Critical(q)) < keep
    <3>1. Cardinality(s) <= keep - Cardinality(Critical(q))
      BY <2>2, <2>5, <2>8, <2>10 DEF Most, Least
    <3>2. Cardinality(p) <= keep
      BY <2>5, <2>6, <2>8, <3>1
    <3> QED BY <1>0, <2>3, <2>5, <2>8, <3>2
  <2> QED BY <2>5, <2>8, <2>9, <2>10
<1> QED BY <1>0, <1>1, <1>2, FS_CardinalityType

\* A push keeps what is critical, and the bound.
LEMMA PushOk ==
  ASSUME NEW q \in SUBSET Event, IsFiniteSet(q), NEW kind \in Kinds, NEW n \in Nat,
         Push(q, kind, n),
         Cardinality(q) + n <= Capacity \/ (Others(q) = {} /\ n <= 1)
  PROVE  /\ queue' \subseteq Event /\ IsFiniteSet(queue') /\ q \subseteq queue'
         /\ OverflowIsCritical'
<1>1. PICK last \in {0} \cup {e.stamp : e \in q} :
        queue' = q \cup {[kind |-> kind, stamp |-> last + i] : i \in 1..n}
  BY DEF Push
<1> DEFINE new == {[kind |-> kind, stamp |-> last + i] : i \in 1..n}
<1>2. last \in Nat
  BY DEF Event
<1>3. new \subseteq Event /\ IsFiniteSet(new) /\ Cardinality(new) <= n /\ Cardinality(new) \in Nat
  BY <1>2, NewEvents
<1> HIDE DEF new
<1>4. queue' = q \cup new
  BY <1>1 DEF new
<1>5. /\ queue' \subseteq Event /\ IsFiniteSet(queue')
      /\ Cardinality(queue') <= Cardinality(q) + Cardinality(new) /\ Cardinality(queue') \in Nat
      /\ Cardinality(q) \in Nat
  BY <1>3, <1>4, Together, FS_CardinalityType
<1>6. CASE Cardinality(q) + n <= Capacity
  <2>1. Cardinality(queue') <= Capacity
    BY <1>3, <1>5, <1>6, CapacityAssumption
  <2> QED BY <1>4, <1>5, <2>1, CapacityAssumption DEF OverflowIsCritical
<1>7. CASE Others(q) = {} /\ n <= 1
  <2>1. Others(queue') \in SUBSET new
    BY <1>4, <1>7 DEF Others
  <2>2. /\ Cardinality(Others(queue')) <= Cardinality(new)
        /\ Cardinality(Others(queue')) \in Nat
    BY <1>3, <2>1, Part
  <2>3. Cardinality(Others(queue')) <= 1
    BY <1>3, <1>7, <2>2
  <2> QED BY <1>4, <1>5, <2>3 DEF OverflowIsCritical
<1> QED BY <1>6, <1>7

\* emit keeps what is critical, and the bound.
LEMMA EmitOk ==
  ASSUME Inv, NEW kind \in Kinds, Emit(kind)
  PROVE  /\ queue' \subseteq Event /\ IsFiniteSet(queue') /\ Critical(queue) \subseteq queue'
         /\ OverflowIsCritical'
<1>1. PICK q \in Fit(queue, 1) : Push(q, kind, 1)
  BY DEF Emit
<1>2. /\ q \subseteq queue /\ IsFiniteSet(q) /\ Critical(q) = Critical(queue)
      /\ Cardinality(q) + 1 <= Capacity \/ Others(q) = {}
  BY <1>1, FitOk DEF Inv, TypeOK
<1>3. /\ queue' \subseteq Event /\ IsFiniteSet(queue') /\ q \subseteq queue'
      /\ OverflowIsCritical'
  BY <1>1, <1>2, PushOk DEF Inv, TypeOK
<1>4. Critical(q) \subseteq q
  BY DEF Critical
<1> QED BY <1>2, <1>3, <1>4

\* emit_many of what a handler returns keeps what is critical, and the bound.
LEMMA EmitManyOk ==
  ASSUME Inv, NEW kind \in Kinds, NEW n \in Nat \ {0}, EmitMany(kind, n),
         kind \in CriticalKinds => n = 1
  PROVE  /\ queue' \subseteq Event /\ IsFiniteSet(queue') /\ Critical(queue) \subseteq queue'
         /\ OverflowIsCritical'
<1> DEFINE Count(q) == IF kind \in CriticalKinds THEN n
                       ELSE Least(n, Most(Capacity - Cardinality(q), 0))
<1>1. PICK q \in Fit(queue, n) : Push(q, kind, Count(q))
  BY DEF EmitMany
<1>2. /\ q \subseteq queue /\ IsFiniteSet(q) /\ Critical(q) = Critical(queue)
      /\ \/ Cardinality(q) + n <= Capacity
         \/ Others(q) = {}
         \/ n > 1 /\ Cardinality(q) <= Capacity
  BY <1>1, FitOk DEF Inv, TypeOK
<1>3. Cardinality(q) \in Nat /\ Capacity \in Nat
  BY <1>2, FS_CardinalityType, CapacityAssumption
<1>4. /\ Count(q) \in Nat
      /\ Cardinality(q) + Count(q) <= Capacity \/ (Others(q) = {} /\ Count(q) <= 1)
  BY <1>2, <1>3 DEF Least, Most
<1> HIDE DEF Count
<1>5. /\ queue' \subseteq Event /\ IsFiniteSet(queue') /\ q \subseteq queue'
      /\ OverflowIsCritical'
  BY <1>1, <1>2, <1>4, PushOk DEF Inv, TypeOK
<1>6. Critical(q) \subseteq q
  BY DEF Critical
<1> QED BY <1>2, <1>5, <1>6

\* What a handler returns is one order, one alert or some signals.
LEMMA ResultsOk ==
  ASSUME NEW kind \in Kinds, NEW r \in Results(kind)
  PROVE  /\ r[1] \in Kinds /\ r[2] \in Nat \ {0}
         /\ r[1] \in CriticalKinds => r[2] = 1
  BY CapacityAssumption DEF Results, Kinds, CriticalKinds

-----------------------------------------------------------------------------
(* The invariant, and what a step does to what is critical *)

\* Every step keeps the invariant, and what is critical in the queue or in the
\* hands of the loop.
LEMMA StepOk ==
  ASSUME Inv, Next
  PROVE  Inv' /\ \A e \in Critical(queue) : e \in queue' \/ taken' = e
<1>1. ASSUME NEW kind \in Kinds, TaskEmits(kind)
      PROVE  Inv' /\ Critical(queue) \subseteq queue'
  BY <1>1, EmitOk DEF TaskEmits, Inv, TypeOK
<1>2. ASSUME Take PROVE Inv' /\ \A e \in Critical(queue) : e \in queue' \/ taken' = e
  <2>1. PICK e \in queue : taken' = e /\ queue' = queue \ {e} /\ running' = running
    BY <1>2 DEF Take
  <2>2. TypeOK' /\ queue' \in SUBSET queue
    BY <2>1, FS_RemoveElement DEF Inv, TypeOK
  <2>3. /\ IsFiniteSet(queue) /\ IsFiniteSet(queue') /\ IsFiniteSet(Others(queue))
        /\ Others(queue') \in SUBSET Others(queue) /\ Others(queue) \in SUBSET queue
    BY <2>2, Part DEF Inv, TypeOK, Others
  <2>4. /\ Cardinality(queue') <= Cardinality(queue)
        /\ Cardinality(Others(queue')) <= Cardinality(Others(queue))
        /\ Cardinality(queue) \in Nat /\ Cardinality(queue') \in Nat
        /\ Cardinality(Others(queue)) \in Nat /\ Cardinality(Others(queue')) \in Nat
    BY <2>2, <2>3, Part
  <2>5. OverflowIsCritical'
    BY <2>4, CapacityAssumption DEF Inv, OverflowIsCritical
  <2> QED BY <2>1, <2>2, <2>5 DEF Inv, Critical
<1>3. ASSUME HandlerEnds PROVE Inv' /\ Critical(queue) \subseteq queue'
  <2>1. taken \in Event /\ taken.kind \in Kinds /\ "error" \in Kinds
    BY <1>3 DEF HandlerEnds, Inv, TypeOK, Event, Kinds
  <2>2. CASE UNCHANGED queue
    BY <1>3, <2>2 DEF HandlerEnds, Inv, TypeOK, OverflowIsCritical, Critical
  <2>3. ASSUME NEW r \in Results(taken.kind), EmitMany(r[1], r[2])
        PROVE  Inv' /\ Critical(queue) \subseteq queue'
    <3>1. r[1] \in Kinds /\ r[2] \in Nat \ {0} /\ (r[1] \in CriticalKinds => r[2] = 1)
      BY <2>1, ResultsOk
    <3>2. /\ queue' \subseteq Event /\ IsFiniteSet(queue') /\ Critical(queue) \subseteq queue'
          /\ OverflowIsCritical'
      BY <2>3, <3>1, EmitManyOk
    <3> QED BY <1>3, <3>2 DEF HandlerEnds, Inv, TypeOK
  <2>4. CASE Emit("error")
    BY <1>3, <2>1, <2>4, EmitOk DEF HandlerEnds, Inv, TypeOK
  <2> QED BY <1>3, <2>2, <2>3, <2>4 DEF HandlerEnds
<1>4. ASSUME LoopFails PROVE Inv' /\ Critical(queue) \subseteq queue'
  <2>1. "error" \in Kinds
    BY DEF Kinds
  <2> QED BY <1>4, <2>1, EmitOk DEF LoopFails, Inv, TypeOK
<1>5. ASSUME Stop PROVE Inv' /\ Critical(queue) \subseteq queue'
  BY <1>5 DEF Stop, Inv, TypeOK, OverflowIsCritical, Critical
<1> QED BY <1>1, <1>2, <1>3, <1>4, <1>5 DEF Next

\* The queue starts empty, and every step keeps the invariant.
THEOREM Invariance == Spec => []Inv
<1>1. Init => Inv
  BY FS_EmptySet, CapacityAssumption DEF Init, Inv, TypeOK, OverflowIsCritical
<1>2. Inv /\ [Next]_vars => Inv'
  <2>1. ASSUME Inv, UNCHANGED vars PROVE Inv'
    BY <2>1 DEF vars, Inv, TypeOK, OverflowIsCritical
  <2> QED BY <2>1, StepOk
<1> QED BY <1>1, <1>2, PTL DEF Spec

\* The queue holds events, and the loop one of them.
THEOREM TypeCorrect == Spec => []TypeOK
<1>1. Inv => TypeOK
  BY DEF Inv
<1> QED BY <1>1, Invariance, PTL

\* For every capacity and batch: above its bound the queue holds at most one
\* event that it could drop (_purge_queue, emit, emit_many).
THEOREM OverflowBounded == Spec => []OverflowIsCritical
<1>1. Inv => OverflowIsCritical
  BY DEF Inv
<1> QED BY <1>1, Invariance, PTL

\* For every capacity and batch: a fill or an order leaves the queue only into
\* the hands of the loop (_CRITICAL_EVENT_TYPES).
THEOREM CriticalNeverDropped == Spec => CriticalKept
<1>1. Inv /\ [Next]_vars => [\A e \in Critical(queue) : e \in queue' \/ taken' = e]_vars
  BY StepOk
<1> QED BY <1>1, Invariance, PTL DEF Spec, CriticalKept

\* The loop starts on a signal only when no fill and no order waits (__lt__ of
\* Event, _get_next_event).
THEOREM OrdersBeforeSignals == Spec => NoSignalBeforeOrder
<1>1. ASSUME Inv, Next, taken' # taken, taken' # None, taken'.kind = "signal"
      PROVE  Critical(queue) = {}
  <2>1. Take
    BY <1>1 DEF Next, TaskEmits, HandlerEnds, LoopFails, Stop
  <2>2. PICK e \in queue : taken' = e /\ \A f \in queue \ {e} : Before(e, f)
    BY <2>1 DEF Take
  <2>3. \A f \in Critical(queue) : f # e /\ f \in queue /\ Priority[f.kind] = 1
    BY <1>1, <2>2 DEF Critical, CriticalKinds, Priority
  <2>4. Priority[e.kind] = 3
    BY <1>1, <2>2 DEF Priority
  <2> QED BY <2>2, <2>3, <2>4 DEF Before
<1>2. Inv /\ [Next]_vars =>
        [taken' # taken /\ taken' # None /\ taken'.kind = "signal" => Critical(queue) = {}]_vars
  BY <1>1
<1> QED BY <1>2, Invariance, PTL DEF Spec, NoSignalBeforeOrder
=============================================================================
