--------------------------- MODULE EventQueue ---------------------------
(***************************************************************************)
(* The event queue of the engine (core/engine.py): a priority queue shared *)
(* by every task, and the one loop that takes an event, runs its handler   *)
(* and queues what the handler returns.  A full queue drops what matters   *)
(* least; fills and orders are never dropped and may exceed its bound.     *)
(*                                                                         *)
(* The queue's lock is never held across an await, so an emission is one   *)
(* step.  A handler is awaited: the tasks emit while it runs.  Events of   *)
(* one priority are ordered by their time, modelled by a stamp above those *)
(* of the events that wait.  Nothing in the program pauses the engine.     *)
(***************************************************************************)
EXTENDS Integers, FiniteSets

CONSTANTS
    None,
    Capacity,   \* _MAX_QUEUE_SIZE
    Batch,      \* the most signals one market event gives
    MaxStamp    \* bound on the stamps

ASSUME CapacityAssumption == Capacity \in Nat \ {0} /\ Batch \in Nat /\ MaxStamp \in Nat

VARIABLES
    queue,      \* _event_queue
    taken,      \* the event in the hands of the loop, or None
    running     \* running

vars == <<queue, taken, running>>

\* _CRITICAL_EVENT_TYPES, and of the others one kind of each priority.
CriticalKinds == {"fill", "order"}
Kinds == CriticalKinds \cup {"error", "signal", "market", "heartbeat"}

\* The priorities of core/event.py, the highest first.
Priority == [fill |-> 1, order |-> 1, error |-> 1, signal |-> 3, market |-> 5, heartbeat |-> 10]

Event == [kind : Kinds, stamp : Nat]

ASSUME NoneAssumption == None \notin Event

\* Variant for a mutation run: the latest first.
BeforeLatest(e, f) ==
    \/ Priority[e.kind] < Priority[f.kind]
    \/ Priority[e.kind] = Priority[f.kind] /\ e.stamp > f.stamp

\* Variant for a mutation run: in the order of their time alone.
BeforeInTime(e, f) == e.stamp < f.stamp

\* __lt__ of Event
Before(e, f) ==
    \/ Priority[e.kind] < Priority[f.kind]
    \/ Priority[e.kind] = Priority[f.kind] /\ e.stamp < f.stamp

Critical(q) == {e \in q : e.kind \in CriticalKinds}
Others(q) == {e \in q : e.kind \notin CriticalKinds}

-----------------------------------------------------------------------------
(* Emission *)

Least(m, n) == IF m <= n THEN m ELSE n
Most(m, n) == IF m <= n THEN n ELSE m

\* Variant for a mutation run: fills and orders are sorted with the rest.
PurgeAll(q, keep) ==
    {kept \in SUBSET q :
        /\ Cardinality(kept) = Least(keep, Cardinality(q))
        /\ \A e \in kept, f \in q \ kept : Before(e, f)}

\* _purge_queue: of the others, those that come first, in the places left.
Purge(q, keep) ==
    {Critical(q) \cup kept : kept \in
        {s \in SUBSET Others(q) :
            /\ Cardinality(s) = Least(Most(keep - Cardinality(Critical(q)), 0),
                                      Cardinality(Others(q)))
            /\ \A e \in s, f \in Others(q) \ s : Before(e, f)}}

\* Variant for a mutation run: one event too many is kept.
FitLoosely(q, n) ==
    IF Cardinality(q) + n > Capacity THEN Purge(q, Capacity) ELSE {q}

\* The queue made ready for n more events.
Fit(q, n) ==
    IF Cardinality(q) + n > Capacity
    THEN Purge(q, Most(Capacity - n, Capacity \div 2))
    ELSE {q}

\* n events of a kind enter q, later than all that is in it.
Push(q, kind, n) ==
    \E last \in {0} \cup {e.stamp : e \in q} :
        /\ \A e \in q : e.stamp <= last
        /\ last + n <= MaxStamp
        /\ queue' = q \cup {[kind |-> kind, stamp |-> last + i] : i \in 1..n}

\* emit: the event enters in any case.
Emit(kind) == \E q \in Fit(queue, 1) : Push(q, kind, 1)

\* emit_many: what finds no place is dropped, unless it is critical.
EmitMany(kind, n) ==
    \E q \in Fit(queue, n) :
        Push(q, kind, IF kind \in CriticalKinds THEN n
                      ELSE Least(n, Most(Capacity - Cardinality(q), 0)))

-----------------------------------------------------------------------------
(* The loop and the tasks *)

\* A scheduler, the fill check, the feed or the heartbeat emits.
TaskEmits(kind) == Emit(kind) /\ UNCHANGED <<taken, running>>

\* _get_next_event
Take ==
    /\ running /\ taken = None
    /\ \E e \in queue :
          /\ \A f \in queue \ {e} : Before(e, f)
          /\ taken' = e /\ queue' = queue \ {e}
    /\ UNCHANGED running

\* What the handler of an event returns: an order for a signal, signals for a
\* market event, an alert after a fill.
Results(kind) ==
    CASE kind = "signal" -> {<<"order", 1>>}
      [] kind = "market" -> {<<"signal", n>> : n \in 1..Batch}
      [] kind = "fill"   -> {<<"error", 1>>}
      [] OTHER           -> {}

\* The handler returns, or raises and an error is emitted.
HandlerEnds ==
    /\ taken # None
    /\ \/ UNCHANGED queue
       \/ \E r \in Results(taken.kind) : EmitMany(r[1], r[2])
       \/ Emit("error")
    /\ taken' = None /\ UNCHANGED running

\* _process_event raises outside of the handler, and the engine ends.
LoopFails ==
    /\ taken # None /\ running
    /\ Emit("error")
    /\ taken' = None /\ running' = FALSE

\* stop, at the end of the process; a handler that runs ends first.
Stop == running /\ running' = FALSE /\ UNCHANGED <<queue, taken>>

Init == queue = {} /\ taken = None /\ running = TRUE

Next ==
    \/ \E kind \in Kinds : TaskEmits(kind)
    \/ Take \/ HandlerEnds \/ LoopFails \/ Stop

Spec == Init /\ [][Next]_vars

\* The event loop schedules the engine, and handlers end.
FairSpec == Spec /\ WF_vars(Take) /\ WF_vars(HandlerEnds)

-----------------------------------------------------------------------------
(* Properties *)

\* The queue holds events that are distinct in time, and the loop one of them.
TypeOK ==
    /\ queue \subseteq Event /\ IsFiniteSet(queue)
    /\ taken \in Event \cup {None}
    /\ running \in BOOLEAN

\* A fill or an order leaves the queue only into the hands of the loop, however
\* full the queue is (comment at _CRITICAL_EVENT_TYPES).
CriticalKept == [][\A e \in Critical(queue) : e \in queue' \/ taken' = e]_vars

\* Above its bound the queue holds at most one event that it could drop.
OverflowIsCritical ==
    Cardinality(queue) > Capacity => Cardinality(Others(queue)) <= 1

\* The loop starts on a signal only when every earlier order was sent and every
\* fill is in the position: the checks of on_signal see their effect.
NoSignalBeforeOrder ==
    [][taken' # taken /\ taken' # None /\ taken'.kind = "signal" => Critical(queue) = {}]_vars

\* A fill or an order that waits is taken some day, whatever is emitted
\* meanwhile, unless the engine ends.
CriticalTaken ==
    \A e \in [kind : CriticalKinds, stamp : 1..MaxStamp] :
        e \in queue ~> taken = e \/ ~running
=============================================================================
