--------------------------- MODULE KisRateLimit ---------------------------
(***************************************************************************)
(* The limiter of KIS requests (src/utils/kis_rate_limit.py), shared by    *)
(* every task of the process.  acquire() waits until a request may be      *)
(* sent: after a pause the gateway asked for, within a sliding window, at  *)
(* a least distance from the last one and, for inquiries of the account    *)
(* ledger, one at a time and some time after the last answer.  There is no *)
(* lock: between reading the clock and recording a send nothing is awaited,*)
(* so that each round of acquire's loop is one step.                       *)
(*                                                                         *)
(* Time is counted in ticks; the module's time stamps are kept as the ages *)
(* they have, up to the largest that is compared with.                     *)
(***************************************************************************)
EXTENDS Integers, Sequences, FiniteSets

CONSTANTS
    Tasks, Nobody,
    Tr,                \* Tr[t]: what task t inquires
    Gap,               \* Gap[tr]: LEDGER_TR_INTERVALS, by default LEDGER_MIN_INTERVAL
    LedgerGap,         \* LEDGER_MIN_INTERVAL
    MaxRps, Window,    \* MAX_RPS requests in a second
    MinGap,            \* MIN_GAP
    Poll,              \* how long a task waits for the ledger's answer
    Pause,             \* HOLD_AFTER_REJECT
    LedgerPause,       \* LEDGER_HOLD_AFTER_REJECT
    Timeout,           \* LEDGER_BUSY_TIMEOUT
    Rounds             \* Rounds[t]: bound on the requests of task t

ASSUME LimitAssumption ==
    /\ Nobody \notin Tasks
    /\ {MaxRps, Window, MinGap, Poll, Pause, LedgerGap, Timeout} \subseteq Nat \ {0}
    /\ Rounds \in [Tasks -> Nat]
    /\ MinGap * MaxRps = Window
    /\ Tr \in [Tasks -> DOMAIN Gap \cup {"quote"}] /\ "quote" \notin DOMAIN Gap
    /\ \A tr \in DOMAIN Gap : Gap[tr] \in Nat /\ Gap[tr] >= LedgerGap
    /\ \E tr \in DOMAIN Gap : \A o \in DOMAIN Gap : Gap[o] <= Gap[tr]
    /\ LedgerPause \in Nat /\ LedgerPause >= LedgerGap

VARIABLES
    calls,       \* _calls: ages of the last requests, oldest first
    lastSend,    \* age of last_send
    hold,        \* ticks to hold_until
    ledgerLast,  \* age of ledger_last, which may lie in the future
    busy,        \* age of ledger_busy_since, or Free
    owner,       \* ledger_owner
    task,        \* the tasks that use the limiter
    answered,    \* age of the last answer to the owner of the ledger
    rejected     \* age of the gateway's last refusal of a ledger inquiry

limitVars == <<calls, lastSend, hold, ledgerLast, busy, owner, task, answered, rejected>>

Free == -1

\* Ages beyond these are not told apart.
Oldest == LedgerPause + Gap[CHOOSE tr \in DOMAIN Gap : \A o \in DOMAIN Gap : Gap[o] <= Gap[tr]]

Least(a, b) == IF a <= b THEN a ELSE b

IsLedger(t) == Tr[t] \in DOMAIN Gap

\* left: of the task's sleep; age: of its inquiry in flight; rounds: requests begun.
Task == [phase : {"idle", "waiting", "open", "answer"}, left : Nat,
         age : 0..(Timeout + 1), rounds : Nat]

At(t, phase) == task[t].phase = phase

-----------------------------------------------------------------------------
(* acquire *)

\* The requests within the window: those before it are dropped from the front.
Recent ==
    LET old == {i \in 1..Len(calls) : \A j \in 1..i : calls[j] > Window}
    IN  SubSeq(calls, Cardinality(old) + 1, Len(calls))

\* The checks of the ledger are reached behind those of the pause and the window.
Reaches == hold <= 0 /\ Len(Recent) < MaxRps

\* Variant for a mutation run: the slot's owner is waited for without end.
StaleNever(t) == FALSE

Stale(t) == IsLedger(t) /\ busy > Timeout

\* Variant for a mutation run: the slot's owner is not waited for.
HeldUpNever(t) == FALSE

\* Another ledger inquiry has no answer yet.
HeldUp(t) == IsLedger(t) /\ busy # Free /\ ~Stale(t)

\* How long acquire still waits: the first reason it finds.
Wait(t) ==
    CASE hold > 0 -> hold
      [] hold <= 0 /\ ~Reaches -> Window - Head(Recent)
      [] OTHER ->
           IF HeldUp(t) THEN Poll
           ELSE IF IsLedger(t) /\ ledgerLast < Gap[Tr[t]] THEN Gap[Tr[t]] - ledgerLast
           ELSE IF lastSend < MinGap THEN MinGap - lastSend
           ELSE 0

\* A ledger inquiry without an answer for too long loses its slot, as soon as
\* another one gets so far.
Freed(t) ==
    IF Stale(t) /\ Reaches THEN busy' = Free /\ owner' = Nobody
                           ELSE UNCHANGED <<busy, owner>>

Begin(t) ==
    /\ At(t, "idle") /\ task[t].rounds < Rounds[t]
    /\ task' = [task EXCEPT ![t].phase = "waiting", ![t].rounds = @ + 1]
    /\ UNCHANGED <<calls, lastSend, hold, ledgerLast, busy, owner, answered, rejected>>

\* A round of the loop that ends in a sleep ...
Sleep(t) ==
    /\ At(t, "waiting") /\ task[t].left = 0 /\ Wait(t) > 0
    /\ task' = [task EXCEPT ![t].left = Wait(t)]
    /\ calls' = Recent
    /\ Freed(t)
    /\ UNCHANGED <<lastSend, hold, ledgerLast, answered, rejected>>

\* ... or in a send.  Two readings of the clock are taken never to be exactly
\* Window apart: acquire would then send past the checks behind the window's.
Send(t) ==
    /\ At(t, "waiting") /\ task[t].left = 0 /\ Wait(t) <= 0
    /\ Reaches
    /\ calls' = Append(Recent, 0)
    /\ lastSend' = 0
    /\ task' = [task EXCEPT ![t].phase = "open", ![t].age = 0]
    /\ IF IsLedger(t) THEN ledgerLast' = 0 /\ busy' = 0 /\ owner' = t
                      ELSE UNCHANGED <<ledgerLast, busy, owner>>
    /\ UNCHANGED <<hold, answered, rejected>>

-----------------------------------------------------------------------------
(* The user of a request, _api_get of kis_kr.py *)

\* Variant for a mutation run: the answer's time forgets a refusal.
ReleaseForgetful(t) ==
    IF owner = t
    THEN /\ owner' = Nobody /\ busy' = Free
         /\ ledgerLast' = 0 /\ answered' = 0
    ELSE UNCHANGED <<owner, busy, ledgerLast, answered>>

\* release_ledger: of no effect but for the owner.
Release(t) ==
    IF owner = t
    THEN /\ owner' = Nobody /\ busy' = Free
         /\ ledgerLast' = Least(ledgerLast, 0) /\ answered' = 0
    ELSE UNCHANGED <<owner, busy, ledgerLast, answered>>

\* The response arrives.
Answer(t) ==
    /\ At(t, "open")
    /\ task' = [task EXCEPT ![t].phase = "answer", ![t].age = 0]
    /\ Release(t)
    /\ UNCHANGED <<calls, lastSend, hold, rejected>>

\* Its body is read: an answer, or a refusal for too many requests, or for too
\* many ledger inquiries.
ReadBody(t) ==
    /\ At(t, "answer")
    /\ task' = [task EXCEPT ![t].phase = "idle"]
    /\ \/ UNCHANGED <<hold, ledgerLast, rejected>>
       \/ hold' = Pause /\ UNCHANGED <<ledgerLast, rejected>>
       \/ /\ IsLedger(t)
          /\ ledgerLast' = LedgerGap - LedgerPause /\ rejected' = 0
          /\ UNCHANGED hold
    /\ UNCHANGED <<calls, lastSend, busy, owner, answered>>

\* The connection fails, or the task is cancelled, waiting or sent.
Abandon(t) ==
    /\ At(t, "waiting") \/ At(t, "open")
    /\ task' = [task EXCEPT ![t].phase = "idle", ![t].left = 0, ![t].age = 0]
    /\ Release(t)
    /\ UNCHANGED <<calls, lastSend, hold, rejected>>

-----------------------------------------------------------------------------
\* A tick of the clock.
Tick ==
    /\ calls' = [i \in DOMAIN calls |-> Least(calls[i] + 1, Window + 1)]
    /\ lastSend' = Least(lastSend + 1, MinGap)
    /\ hold' = IF hold > 0 THEN hold - 1 ELSE 0
    /\ ledgerLast' = Least(ledgerLast + 1, Oldest)
    /\ busy' = IF busy = Free THEN Free ELSE Least(busy + 1, Timeout + 1)
    /\ task' = [t \in Tasks |->
                   [task[t] EXCEPT !.left = IF @ > 0 THEN @ - 1 ELSE 0,
                                   !.age = IF At(t, "open") /\ IsLedger(t)
                                           THEN Least(@ + 1, Timeout + 1) ELSE @]]
    /\ answered' = Least(answered + 1, Oldest)
    /\ rejected' = Least(rejected + 1, Oldest)
    /\ UNCHANGED owner

LimitInit ==
    /\ calls = <<>> /\ lastSend = MinGap /\ hold = 0
    /\ ledgerLast = Oldest /\ busy = Free /\ owner = Nobody
    /\ task = [t \in Tasks |-> [phase |-> "idle", left |-> 0, age |-> 0, rounds |-> 0]]
    /\ answered = Oldest /\ rejected = Oldest

TaskStep(t) ==
    \/ Begin(t) \/ Sleep(t) \/ Send(t) \/ Answer(t) \/ ReadBody(t) \/ Abandon(t)

LimitNext == Tick \/ \E t \in Tasks : TaskStep(t)

LimitSpec == LimitInit /\ [][LimitNext]_limitVars

\* Time passes, and the event loop wakes a task whose sleep is over.  Nothing
\* is assumed of the gateway: an answer may never come.
FairLimitSpec ==
    /\ LimitSpec
    /\ WF_limitVars(Tick)
    /\ \A t \in Tasks : WF_limitVars(Sleep(t) \/ Send(t))

-----------------------------------------------------------------------------
(* Properties *)

\* The limiter's variables have their types.
LimitTypeOK ==
    /\ calls \in Seq(0..(Window + 1)) /\ Len(calls) <= MaxRps
    /\ lastSend \in 0..MinGap /\ hold \in 0..Pause
    /\ ledgerLast \in (LedgerGap - LedgerPause)..Oldest
    /\ busy \in Free..(Timeout + 1) /\ owner \in Tasks \cup {Nobody}
    /\ busy = Free <=> owner = Nobody
    /\ task \in [Tasks -> Task]
    /\ answered \in 0..Oldest /\ rejected \in 0..Oldest

\* Ledger inquiries are serialised: of two without an answer, one has been
\* given up for stale (module docstring: the next one waits for the answer).
LedgerSerial ==
    \A t, u \in Tasks :
        /\ t # u /\ IsLedger(t) /\ IsLedger(u) /\ At(t, "open") /\ At(u, "open")
        => task[t].age > Timeout \/ task[u].age > Timeout

LedgerSent == \E t \in Tasks : IsLedger(t) /\ At(t, "waiting") /\ task'[t].phase = "open"

\* The ledger rests after an answer, however slow it came, and longer after a
\* refusal, even when other inquiries are answered meanwhile.
LedgerRests ==
    [][LedgerSent => answered >= LedgerGap /\ rejected >= LedgerPause]_limitVars

\* No request waits for ever: lost answers, refusals and a bounded number of
\* other tasks' requests only delay it.
EveryRequestIsSent == \A t \in Tasks : At(t, "waiting") ~> ~At(t, "waiting")
=============================================================================
