----------------------- MODULE QuoteSubscription -----------------------
(***************************************************************************)
(* The channels of one quote socket (data/feeds/quote_subscription.py):    *)
(* the exchange accepts Cap registrations per session, the channels the    *)
(* trader needs come first and the leases of observed candidates share     *)
(* the rest.                                                               *)
(*                                                                         *)
(* One asyncio lock serialises the operations, and is held while requests  *)
(* are sent.  The answers are handled without it, and carry the channel    *)
(* but no request: the exchange may give one twice, late, or never.        *)
(*                                                                         *)
(* A lease is one channel (market_state_evidence off).  Cap stands for the *)
(* cap less the external reservation, a deadline is a choice of the clock. *)
(***************************************************************************)
EXTENDS Integers, Sequences, FiniteSets

CONSTANTS
    None,
    Channels,
    Cap,        \* registration_cap - external_reserved
    Headroom,   \* operational_headroom
    MaxGen,     \* bound: connections
    MaxRepeats  \* bound: answers given twice

ASSUME SubscriptionAssumption ==
    /\ IsFiniteSet(Channels)
    /\ Cap \in Nat /\ Headroom \in 0..Cap /\ MaxGen \in Nat /\ MaxRepeats \in Nat

VARIABLES
    \* the coordinator
    generation,
    link,           \* "closed", "open", or "stopping": ACK reconciliation is off
    slots,          \* the status of each Registration in _states
    retired,        \* _retired
    operational,    \* _operational
    leases,         \* channels of _leases
    ended,          \* _observation_ended
    job,            \* the _reconcile of the lock's holder, or None
    dirty,          \* _ack_reconcile_dirty
    heard,          \* the answer whose handler waits for send_completed, or None
    \* the socket and the exchange
    wire,           \* requests under way
    answers,        \* answers under way
    exchange,       \* channels registered in this session
    repeats         \* answers given twice so far

demand == <<operational, leases, ended>>
socket == <<wire, answers, exchange, repeats>>
local == <<generation, link, slots, retired, job, dirty, heard>>
vars == <<local, demand, socket>>

Actions == {"subscribe", "unsubscribe"}

Status == {"free", "requested", "acknowledged", "pending_unsubscribe", "unknown", "rejected"}

\* A reconciliation, an answer, and what handle_ack keeps while it waits.
Job == [want : SUBSET Channels, due : SUBSET Channels, stage : {"release", "request"},
        sending : Channels \cup {None}, sent : BOOLEAN]
Answer == [channel : Channels, action : Actions, accepted : BOOLEAN]
Heard == [answer : Answer, gen : Nat, pending : Actions]

ASSUME NoneAssumption ==
    /\ None \notin Channels /\ None \notin Actions
    /\ None \notin Job /\ None \notin Heard

Occupied == {c \in Channels : slots[c] # "free"}

\* The pending request of a Registration.
Pending(c) == CASE slots[c] = "requested" -> "subscribe"
                [] slots[c] = "pending_unsubscribe" -> "unsubscribe"
                [] OTHER -> None

-----------------------------------------------------------------------------
(* _reconcile and _request *)

Least(m, n) == IF m <= n THEN m ELSE n

\* _desired: all that is operational, and the leases that fit in what is spare.
Desired(needed, leased) ==
    LET spare == Cap - Cardinality(needed) - Headroom
        extra == leased \ needed
    IN  {needed \cup s : s \in {t \in SUBSET extra :
            Cardinality(t) = Least(IF spare < 0 THEN 0 ELSE spare, Cardinality(extra))}}

\* The holder of the lock begins _reconcile; without a socket it sends nothing.
Reconcile(needed, leased) ==
    job' \in {[want |-> d, due |-> Occupied', stage |-> "release", sending |-> None, sent |-> FALSE]
                 : d \in Desired(needed, leased)}

Between(stage) == job # None /\ job.stage = stage /\ job.sending = None

\* The release loop looks once at each channel that was there when it began.
ToRelease == {c \in job.due \ job.want : slots[c] = "acknowledged"}

\* Variant for a mutation run: a channel that was released is used again.
ToRequestAgain ==
    LET free == {c \in job.want : slots[c] = "free" /\ ~(ended /\ c \notin operational)}
    IN  IF Cardinality(Occupied) >= Cap THEN {}
        ELSE IF free \cap operational # {} THEN free \cap operational ELSE free

\* A channel that was released in this connection is not used again.
ToRequest ==
    LET free == {c \in job.want \ retired : slots[c] = "free" /\ ~(ended /\ c \notin operational)}
    IN  IF Cardinality(Occupied) >= Cap THEN {}
        ELSE IF free \cap operational # {} THEN free \cap operational ELSE free

\* A step of the lock's holder that leaves all but the slots and the job alone.
Holder(s, j) ==
    /\ slots' = s /\ job' = j
    /\ UNCHANGED <<generation, link, retired, dirty, heard, demand, socket>>

Turn(c, status) == [slots EXCEPT ![c] = status]
Sent == [job EXCEPT !.sending = None, !.sent = FALSE]

\* _request: the slot is taken, and its request pending, before it is sent.
Unsubscribe(c) ==
    /\ Between("release") /\ c \in ToRelease
    /\ \E passed \in SUBSET (job.due \ ToRelease) :
          Holder(Turn(c, "pending_unsubscribe"), [job EXCEPT !.due = @ \ (passed \cup {c}), !.sending = c])

Subscribe(c) ==
    /\ Between("request") /\ c \in ToRequest
    /\ Holder(Turn(c, "requested"), [job EXCEPT !.sending = c])

\* The end of either loop; the lock is free after the second.
NextStage ==
    \/ Between("release") /\ ToRelease = {} /\ Holder(slots, [job EXCEPT !.stage = "request", !.due = {}])
    \/ Between("request") /\ ToRequest = {} /\ Holder(slots, None)

Sending(c) == job # None /\ job.sending = c

\* After the pacing: the request of an observation that has ended is not sent.
Withdraw(c) ==
    /\ Sending(c) /\ ~job.sent
    /\ slots[c] = "requested" /\ ended /\ c \notin operational
    /\ Holder(Turn(c, "free"), Sent)

\* The request is on its way, and _send has not returned.
Transmit(c) ==
    /\ Sending(c) /\ ~job.sent
    /\ wire' = Append(wire, <<c, Pending(c)>>) /\ job' = [job EXCEPT !.sent = TRUE]
    /\ UNCHANGED <<generation, link, slots, retired, dirty, heard, demand, answers, exchange, repeats>>

SendReturns(c) == Sending(c) /\ job.sent /\ Holder(slots, Sent)

\* Variant for a mutation run: a request that failed frees its slot.
SendFailsFree(c) == Sending(c) /\ Holder(Turn(c, "free"), Sent)

\* _send raises or times out: nobody knows whether the request left.
SendFails(c) == Sending(c) /\ Holder(Turn(c, "unknown"), Sent)

-----------------------------------------------------------------------------
(* The operations under the lock *)

LockFree == job = None

\* start, with a new socket.
Start ==
    /\ LockFree /\ link = "closed" /\ generation < MaxGen
    /\ generation' = generation + 1 /\ link' = "open"
    /\ slots' = [c \in Channels |-> "free"] /\ retired' = {}
    /\ Reconcile(operational, leases)
    /\ UNCHANGED <<dirty, heard, demand, socket>>

\* What an operation does to the demand, before it reconciles.
Demands(needed, leased) ==
    /\ operational' = needed /\ leases' = leased
    /\ UNCHANGED <<generation, link, slots, retired, dirty, heard, ended, socket>>
    /\ IF link = "closed" THEN UNCHANGED job ELSE Reconcile(needed, leased)

\* Variant for a mutation run: the list is replaced while requests are sent.
SetOperationalAtOnce(needed) ==
    /\ operational' = needed
    /\ UNCHANGED <<local, leases, ended, socket>>

\* set_operational
SetOperational(needed) == LockFree /\ Demands(needed, leases)

\* enroll, _enroll_order_ready
Enroll(c) == LockFree /\ ~ended /\ c \notin leases /\ Demands(operational, leases \cup {c})

\* Variant for a mutation run: only subscriptions are ever given up.
MaintainSubscriptions(late) ==
    /\ LockFree /\ link # "closed"
    /\ slots' = [c \in Channels |-> IF c \in late /\ Pending(c) = "subscribe" THEN "unknown" ELSE slots[c]]
    /\ Reconcile(operational, leases)
    /\ UNCHANGED <<generation, link, retired, dirty, heard, demand, socket>>

\* maintain: requests without an answer in time; then all is reconciled.
Maintain(late) ==
    /\ LockFree /\ link # "closed"
    /\ slots' = [c \in Channels |-> IF c \in late /\ Pending(c) # None THEN "unknown" ELSE slots[c]]
    /\ Reconcile(operational, leases)
    /\ UNCHANGED <<generation, link, retired, dirty, heard, demand, socket>>

\* _reconcile_after_ack
ReconcileAfterAck ==
    /\ LockFree /\ link = "open" /\ dirty
    /\ dirty' = FALSE
    /\ UNCHANGED <<generation, link, slots, retired, heard, demand, socket>>
    /\ Reconcile(operational, leases)

\* stop, first part: the task behind the answers is cancelled, and with the
\* socket the other tasks; a request that is being sent is unknown.
StopReconciling ==
    /\ link = "open"
    /\ link' = "stopping" /\ dirty' = FALSE
    /\ \/ UNCHANGED <<slots, job>>
       \/ \E c \in Channels : Sending(c) /\ slots' = Turn(c, "unknown") /\ job' = None
    /\ UNCHANGED <<generation, retired, heard, demand, socket>>

\* stop, under the lock, and the socket is closed before another is opened.
Stop ==
    /\ LockFree /\ link = "stopping"
    /\ link' = "closed" /\ slots' = [c \in Channels |-> "free"]
    /\ wire' = <<>> /\ answers' = <<>> /\ exchange' = {}
    /\ UNCHANGED <<generation, retired, job, dirty, heard, demand, repeats>>

-----------------------------------------------------------------------------
(* Outside the lock *)

\* The deadline of a lease passes.
Expire(c) ==
    /\ c \in leases /\ leases' = leases \ {c}
    /\ UNCHANGED <<local, operational, ended, socket>>

\* end_observation
EndObservation ==
    /\ ~ended /\ ended' = TRUE /\ leases' = {}
    /\ UNCHANGED <<local, operational, socket>>

\* Variant for a mutation run: a confirmation answers whatever is pending.
AnsweredLoosely(a) == Pending(a.channel) # None

\* What handle_ack looks at before it waits: a refusal answers what is pending.
Answered(a) == Pending(a.channel) # None /\ (a.accepted => Pending(a.channel) = a.action)

\* The Registration of the answer is settled, and the channels are reconciled.
Settle(a) ==
    IF ~a.accepted
    THEN slots' = Turn(a.channel, "rejected") /\ UNCHANGED <<retired, dirty>>
    ELSE IF a.action = "unsubscribe"
    THEN /\ slots' = Turn(a.channel, "free") /\ retired' = retired \cup {a.channel}
         /\ dirty' = TRUE
    ELSE slots' = Turn(a.channel, "acknowledged") /\ dirty' = TRUE /\ UNCHANGED retired

\* handle_ack of the first answer, which the exchange may give again.
HandleAck ==
    /\ link # "closed" /\ heard = None /\ answers # <<>>
    /\ LET a == Head(answers)
       IN  IF link # "open" \/ ~Answered(a) THEN UNCHANGED <<slots, retired, dirty, heard>>
           ELSE IF Sending(a.channel)
           THEN /\ heard' = [answer |-> a, gen |-> generation, pending |-> Pending(a.channel)]
                /\ UNCHANGED <<slots, retired, dirty>>
           ELSE Settle(a) /\ UNCHANGED heard
    /\ \/ answers' = Tail(answers) /\ UNCHANGED repeats
       \/ /\ repeats < MaxRepeats /\ repeats' = repeats + 1
          /\ answers' = Append(Tail(answers), Head(answers))
    /\ UNCHANGED <<generation, link, job, demand, wire, exchange>>

\* handle_ack after the wait: the Registration is the same, and still pending.
HeardSettles ==
    /\ heard # None /\ ~Sending(heard.answer.channel)
    /\ heard' = None
    /\ IF link = "open" /\ heard.gen = generation /\ Pending(heard.answer.channel) = heard.pending
       THEN Settle(heard.answer) ELSE UNCHANGED <<slots, retired, dirty>>
    /\ UNCHANGED <<generation, link, job, demand, socket>>

\* The exchange takes a request, and answers it.
ExchangeAnswers ==
    /\ wire # <<>> /\ wire' = Tail(wire)
    /\ LET c == Head(wire)[1]
           action == Head(wire)[2]
       IN  \E accepted \in BOOLEAN :
              /\ answers' = Append(answers, [channel |-> c, action |-> action, accepted |-> accepted])
              /\ exchange' = IF ~accepted THEN exchange
                             ELSE IF action = "subscribe" THEN exchange \cup {c} ELSE exchange \ {c}
    /\ UNCHANGED <<local, demand, repeats>>

-----------------------------------------------------------------------------
Init ==
    /\ generation = 0 /\ link = "closed" /\ slots = [c \in Channels |-> "free"] /\ retired = {}
    /\ operational = {} /\ leases = {} /\ ended = FALSE
    /\ job = None /\ dirty = FALSE /\ heard = None
    /\ wire = <<>> /\ answers = <<>> /\ exchange = {} /\ repeats = 0

Steps(c) ==
    Unsubscribe(c) \/ Subscribe(c) \/ Withdraw(c) \/ Transmit(c) \/ SendReturns(c) \/ SendFails(c)

Next ==
    \/ \E c \in Channels : Steps(c) \/ Enroll(c) \/ Expire(c)
    \/ \E cs \in SUBSET Channels : SetOperational(cs) \/ Maintain(cs)
    \/ NextStage \/ Start \/ ReconcileAfterAck \/ StopReconciling \/ Stop
    \/ EndObservation \/ HandleAck \/ HeardSettles \/ ExchangeAnswers

Spec == Init /\ [][Next]_vars

\* Requests end by their timeout.  The lock is fair to those who wait for it: the
\* maintenance, which runs each second and finds a late request, and the stop.
FairSpec ==
    /\ Spec
    /\ WF_vars(NextStage)
    /\ \A c \in Channels :
          /\ WF_vars(Unsubscribe(c) \/ Subscribe(c))
          /\ WF_vars(Withdraw(c) \/ SendReturns(c) \/ SendFails(c))
          /\ SF_vars(Pending(c) # None /\ Maintain({c}))
    /\ SF_vars(Stop)

-----------------------------------------------------------------------------
(* Properties *)

TypeOK ==
    /\ generation \in Nat /\ link \in {"closed", "open", "stopping"}
    /\ slots \in [Channels -> Status] /\ retired \subseteq Channels
    /\ operational \subseteq Channels /\ leases \subseteq Channels /\ ended \in BOOLEAN
    /\ job \in Job \cup {None} /\ dirty \in BOOLEAN /\ heard \in Heard \cup {None}
    /\ wire \in Seq(Channels \X Actions) /\ answers \in Seq(Answer)
    /\ exchange \subseteq Channels /\ repeats \in Nat

\* The session never holds more registrations than the exchange allows, those of
\* requests under way or lost included (docstring of the module).
WithinCap ==
    Cardinality(exchange \cup {wire[i][1] : i \in {j \in 1..Len(wire) : wire[j][2] = "subscribe"}}) <= Cap

\* What the coordinator believes of a channel is so at the exchange: an answer
\* is never taken for that of another request.
BeliefIsTrue ==
    \A c \in Channels :
        /\ slots[c] = "acknowledged" => c \in exchange
        /\ link # "closed" /\ c \in retired => c \notin exchange

\* No channel that the trader needs is given up, although its list may change
\* while a reconciliation waits for the socket.
NeededIsKept ==
    [][\A c \in operational : slots[c] = "acknowledged" => slots'[c] # "pending_unsubscribe"]_vars

\* No request stays pending for ever: it is answered, given up, or its socket
\* closed.
PendingSettles == \A c \in Channels : Pending(c) # None ~> Pending(c) = None
=============================================================================
