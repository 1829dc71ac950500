------------------------- MODULE ExecutionLedger -------------------------
(***************************************************************************)
(* The durable execution ledger (src/execution/execution_ledger.py): an    *)
(* append-only SQLite history of orders and of the executions observed for *)
(* them, written by one session at a time.                                 *)
(*                                                                         *)
(* A process (the trading bot, or the operator's acknowledge command) holds*)
(* one ExecutionLedger instance: own[p] is its _session_id (0: none) and   *)
(* fault[p] its _fault.  `sessions` and `orders` are the durable state.  A *)
(* session identifier is fresh for every run (uuid4), so it is represented *)
(* by its position in the insertion order of the sessions table.           *)
(*                                                                         *)
(* _run holds the instance's lock around one SQLite transaction and, when  *)
(* its task is cancelled, waits for the thread to finish: an operation is  *)
(* therefore one step, whose cancellation only adds the fault flag.  A call*)
(* a rule refuses (ExecutionLedgerError) leaves everything as it was; it is*)
(* a stuttering step and has no action.  Prices only add refusals and are  *)
(* left out.                                                               *)
(***************************************************************************)
EXTENDS Integers, Sequences

CONSTANTS
    Procs,         \* processes that may use the ledger file
    Keys,          \* order keys ("<session>:<order id>")
    Odnos,         \* broker order numbers
    NoOdno,        \* the empty odno
    Quantity,      \* facts: ordered quantity of each key
    OrderDate,     \* facts: trading day of each key
    MaxSessions    \* bound on the runs that open the ledger

ASSUME FactsAssumption ==
    /\ NoOdno \notin Odnos
    /\ Quantity \in [Keys -> Nat \ {0}]
    /\ MaxSessions \in Nat

VARIABLES
    sessions,      \* durable: the sessions in the order they were opened
    orders,        \* durable: one record per order key
    own,           \* memory of each process: its session, 0 before open
    fault          \* memory of each process: a storage fault was seen

ledgerVars == <<sessions, orders, own, fault>>

-----------------------------------------------------------------------------
(* Data *)

NotTerminal == -1

Outcomes == {"not_sent", "rejected", "unknown", "canceled", "modified"}

Statuses == {"none", "intent", "accepted"} \cup Outcomes

Session == [clean : BOOLEAN, priorUnclean : BOOLEAN, acknowledged : BOOLEAN]

Execution == [from : Nat, to : Nat, applied : BOOLEAN, returned : BOOLEAN]

Order == [session : Nat, odno : Odnos \cup {NoOdno}, status : Statuses,
          observed : Nat, terminal : Nat \cup {NotTerminal},
          executions : SUBSET Execution, acknowledged : BOOLEAN]

\* No row: the key is not in the orders table yet.
Absent == [session |-> 0, odno |-> NoOdno, status |-> "none", observed |-> 0,
           terminal |-> NotTerminal, executions |-> {}, acknowledged |-> FALSE]

\* The row that intent() creates.
NewOrder(s) == [session |-> s, odno |-> NoOdno, status |-> "intent", observed |-> 0,
                terminal |-> NotTerminal, executions |-> {}, acknowledged |-> FALSE]

Present(r) == r.status # "none"

Handed(r) == \A e \in r.executions : e.returned

\* order_unresolved: accepted, but final quantity, application or hand-off
\* are not all confirmed.
Unresolved(r) ==
    /\ r.status \notin {"none", "not_sent", "rejected"}
    /\ \/ r.status \in {"unknown", "modified"}
       \/ r.terminal = NotTerminal
       \/ r.terminal # r.observed
       \/ ~Handed(r)

\* Variant for a mutation run.
SettledHandoffIgnored(r) ==
    \/ r.acknowledged
    \/ r.status \in {"none", "not_sent", "rejected"}
    \/ r.status \in {"accepted", "canceled"} /\ r.terminal # NotTerminal

\* What _can_close demands of each order.
Settled(r) ==
    \/ r.acknowledged
    \/ r.status \in {"none", "not_sent", "rejected"}
    \/ /\ r.status \in {"accepted", "canceled"}
       /\ r.terminal # NotTerminal
       /\ Handed(r)

Vouched(s) == s.acknowledged \/ (s.clean /\ ~s.priorUnclean)

-----------------------------------------------------------------------------
(* The rules of _apply on one record *)

\* Only the latest session may write, and only until it has closed.
Writer(p) ==
    /\ ~fault[p]
    /\ own[p] # 0
    /\ own[p] = Len(sessions)
    /\ ~sessions[own[p]].clean

\* Variant for a mutation run.
OwnsAnyPresent(p, k) == Present(orders[k])

Owns(p, k) == Present(orders[k]) /\ orders[k].session = own[p]

\* Variant for a mutation run.
OdnoTakenNever(k, o) == FALSE

\* The odno already names another order of the same day.
OdnoTaken(k, o) ==
    \E j \in Keys \ {k} : orders[j].odno = o /\ OrderDate[j] = OrderDate[k]

OutcomeAllowed(r, status) ==
    /\ r.status \notin {status, "not_sent", "rejected", "unknown", "modified"}
    /\ status \in {"not_sent", "rejected"} => r.status = "intent"
    /\ status \in {"canceled", "modified"} => r.odno # NoOdno

WithOutcome(r, status) ==
    [r EXCEPT !.status = status,
              !.terminal = IF status \in {"not_sent", "rejected"} THEN 0 ELSE @]

\* Variant for a mutation run.
ObservableTerminalIgnored(r, quantity, full) ==
    /\ r.status \in {"accepted", "canceled"}
    /\ r.odno # NoOdno
    /\ r.observed <= quantity /\ quantity <= full

Observable(r, quantity, full) ==
    /\ r.status \in {"accepted", "canceled"}
    /\ r.odno # NoOdno
    /\ r.observed <= quantity /\ quantity <= full
    /\ r.terminal # NotTerminal => quantity = r.terminal

NewExecutions(r, quantity) ==
    IF quantity > r.observed
    THEN {[from |-> r.observed, to |-> quantity,
           applied |-> FALSE, returned |-> FALSE]}
    ELSE {}

\* Variant for a mutation run.
ObservedCumulativeStale(r, quantity, isFinal) ==
    [r EXCEPT !.executions = @ \cup NewExecutions(r, quantity),
              !.terminal = IF isFinal THEN quantity ELSE @,
              !.observed = IF isFinal THEN quantity ELSE @]

\* _observe: a larger cumulative quantity becomes one new execution.
Observed(r, quantity, isFinal) ==
    [r EXCEPT !.executions = @ \cup NewExecutions(r, quantity),
              !.observed = quantity,
              !.terminal = IF isFinal THEN quantity ELSE @]

\* receipt(portfolio_applied) and receipt(handoff_returned) on one execution.
WithApplied(r, e) ==
    [r EXCEPT !.executions = (@ \ {e}) \cup {[e EXCEPT !.applied = TRUE]}]

WithReturned(r, e) ==
    [r EXCEPT !.executions = (@ \ {e}) \cup {[e EXCEPT !.returned = TRUE]}]

\* Variant for a mutation run.
MayReturnAny(e) == TRUE

MayReturn(e) == e.applied

-----------------------------------------------------------------------------
(* Operations.  Each commits, and its task may be cancelled meanwhile.     *)

\* The task of p may be cancelled while its thread commits.
Outlived(p) == fault' = fault \/ fault' = [fault EXCEPT ![p] = TRUE]

Commit(p, k, record) ==
    /\ orders' = [orders EXCEPT ![k] = record]
    /\ Outlived(p)
    /\ UNCHANGED <<sessions, own>>

InheritsUnclean == \E i \in DOMAIN sessions : ~Vouched(sessions[i])

\* Variant for a mutation run: the session is owned before its commit.
OpenOwnedEarly(p) ==
    /\ own[p] = 0 /\ ~fault[p]
    /\ Len(sessions) < MaxSessions
    /\ own' = [own EXCEPT ![p] = Len(sessions) + 1]
    /\ \/ sessions' = Append(sessions, [clean |-> FALSE, priorUnclean |-> InheritsUnclean,
                                        acknowledged |-> FALSE]) /\ Outlived(p)
       \/ sessions' = sessions /\ fault' = [fault EXCEPT ![p] = TRUE]
    /\ UNCHANGED orders

\* open: a fresh session.  When it creates the file, the directory fsync may
\* fail after the commit: the session exists but the process does not own it.
Open(p) ==
    /\ own[p] = 0 /\ ~fault[p]
    /\ Len(sessions) < MaxSessions
    /\ sessions' = Append(sessions, [clean |-> FALSE, priorUnclean |-> InheritsUnclean,
                                     acknowledged |-> FALSE])
    /\ \/ own' = [own EXCEPT ![p] = Len(sessions) + 1] /\ Outlived(p)
       \/ sessions = <<>> /\ own' = own /\ fault' = [fault EXCEPT ![p] = TRUE]
    /\ UNCHANGED orders

Intent(p, k) ==
    /\ Writer(p) /\ ~Present(orders[k])
    /\ Commit(p, k, NewOrder(own[p]))

Accepted(p, k, o) ==
    /\ Writer(p) /\ Owns(p, k)
    /\ orders[k].odno = NoOdno /\ orders[k].status = "intent"
    /\ ~OdnoTaken(k, o)
    /\ Commit(p, k, [orders[k] EXCEPT !.odno = o, !.status = "accepted"])

Outcome(p, k, status) ==
    /\ Writer(p) /\ Owns(p, k)
    /\ OutcomeAllowed(orders[k], status)
    /\ Commit(p, k, WithOutcome(orders[k], status))

Observe(p, k, quantity, terminal) ==
    /\ Writer(p) /\ Owns(p, k)
    /\ Observable(orders[k], quantity, Quantity[k])
    /\ Commit(p, k, Observed(orders[k], quantity, terminal \/ quantity = Quantity[k]))

ReceiptApplied(p, k, e) ==
    /\ Writer(p) /\ Owns(p, k)
    /\ e \in orders[k].executions
    /\ Commit(p, k, WithApplied(orders[k], e))

ReceiptReturned(p, k, e) ==
    /\ Writer(p) /\ Owns(p, k)
    /\ e \in orders[k].executions /\ MayReturn(e)
    /\ Commit(p, k, WithReturned(orders[k], e))

\* Variant for a mutation run.
AcknowledgedSessionSelf(i, current, s) ==
    [s EXCEPT !.acknowledged = @ \/ ~s.clean \/ s.priorUnclean,
              !.priorUnclean = IF i = current THEN FALSE ELSE @]

\* The past sessions and orders an operator vouches for.
AcknowledgedSession(i, current, s) ==
    [s EXCEPT !.acknowledged = @ \/ (i # current /\ (~s.clean \/ s.priorUnclean)),
              !.priorUnclean = IF i = current THEN FALSE ELSE @]

AcknowledgedOrder(current, r) ==
    [r EXCEPT !.acknowledged = @ \/ (r.session # current /\ Unresolved(r))]

Acknowledge(p) ==
    /\ Writer(p)
    /\ sessions' = [i \in DOMAIN sessions |->
                        AcknowledgedSession(i, own[p], sessions[i])]
    /\ orders' = [k \in Keys |-> AcknowledgedOrder(own[p], orders[k])]
    /\ Outlived(p)
    /\ UNCHANGED own

CanClose(s) ==
    /\ s = Len(sessions) /\ ~sessions[s].priorUnclean
    /\ \A k \in Keys : Settled(orders[k])

Close(p) ==
    /\ Writer(p) /\ CanClose(own[p])
    /\ sessions' = [sessions EXCEPT ![own[p]].clean = TRUE]
    /\ Outlived(p)
    /\ UNCHANGED <<orders, own>>

\* SQLite or the file system fails: the transaction is rolled back.
StorageFault(p) ==
    /\ ~fault[p]
    /\ fault' = [fault EXCEPT ![p] = TRUE]
    /\ UNCHANGED <<sessions, orders, own>>

\* The process ends, orderly or not; its memory is gone.
Exit(p) ==
    /\ own[p] # 0 \/ fault[p]
    /\ own' = [own EXCEPT ![p] = 0]
    /\ fault' = [fault EXCEPT ![p] = FALSE]
    /\ UNCHANGED <<sessions, orders>>

-----------------------------------------------------------------------------
Init ==
    /\ sessions = <<>>
    /\ orders = [k \in Keys |-> Absent]
    /\ own = [p \in Procs |-> 0]
    /\ fault = [p \in Procs |-> FALSE]

OrderStep(p, k) ==
    \/ Intent(p, k)
    \/ \E o \in Odnos : Accepted(p, k, o)
    \/ \E status \in Outcomes : Outcome(p, k, status)
    \/ \E quantity \in 0..Quantity[k], terminal \in BOOLEAN :
           Observe(p, k, quantity, terminal)
    \/ \E e \in orders[k].executions : ReceiptApplied(p, k, e) \/ ReceiptReturned(p, k, e)

Next ==
    \E p \in Procs :
        \/ Open(p) \/ Acknowledge(p) \/ Close(p)
        \/ StorageFault(p) \/ Exit(p)
        \/ \E k \in Keys : OrderStep(p, k)

Spec == Init /\ [][Next]_ledgerVars

-----------------------------------------------------------------------------
(* Properties *)

\* Every variable has its type; a process owns a session that exists.
TypeOK ==
    /\ sessions \in Seq(Session)
    /\ Len(sessions) <= MaxSessions
    /\ orders \in [Keys -> Order]
    /\ own \in [Procs -> 0..Len(sessions)]
    /\ fault \in [Procs -> BOOLEAN]

\* The executions of an order cut its observed cumulative quantity into pieces
\* that neither overlap nor leave a gap: _observe hands every share over once,
\* however often the broker repeats or skips a cumulative report.
Tiles(r) ==
    /\ \A e \in r.executions : e.from < e.to /\ e.to <= r.observed
    /\ \A e, f \in r.executions : e # f => e.to <= f.from \/ f.to <= e.from
    /\ \A u \in 1..r.observed : \E e \in r.executions : e.from < u /\ u <= e.to

SharesHandedOnce == \A k \in Keys : Tiles(orders[k])

\* A session that starts without the prior_unclean hold, or has it lifted by
\* acknowledge, leaves no past behind: every earlier session was vouched for,
\* and every order they left unresolved is acknowledged.
NoUnreportedPast ==
    sessions # <<>> /\ ~sessions[Len(sessions)].priorUnclean =>
        /\ \A i \in 1..(Len(sessions) - 1) : Vouched(sessions[i])
        /\ \A k \in Keys : /\ orders[k].session # Len(sessions)
                           /\ Unresolved(orders[k])
                           => orders[k].acknowledged

\* Once a session closed clean, no order of it or of an earlier session is
\* unresolved without an operator having acknowledged it, whatever later
\* sessions do (_can_close and order_unresolved are separate predicates).
CleanMeansSettled ==
    \A i \in DOMAIN sessions : sessions[i].clean =>
        \A k \in Keys : /\ orders[k].session <= i
                        /\ Unresolved(orders[k])
                        => orders[k].acknowledged

\* Within a trading day a broker order number names one order key.
OdnoNamesOneOrder ==
    \A j, k \in Keys : /\ j # k /\ OrderDate[j] = OrderDate[k]
                       /\ orders[j].odno # NoOdno
                       => orders[j].odno # orders[k].odno

\* Nobody changes an order of a session that is not the latest, except for the
\* operator's acknowledged mark: a fenced process, a later session and a closed
\* one cannot rewrite the record an operator reconciles from.
PastIsFrozen ==
    [][\A k \in Keys :
          /\ Present(orders[k])
          /\ \/ orders[k].session # Len(sessions)
             \/ sessions[Len(sessions)].clean
          => orders'[k] \in {orders[k], [orders[k] EXCEPT !.acknowledged = TRUE]}]_ledgerVars

\* The history of an order only grows: an observed quantity never shrinks, a
\* final one never moves, no execution disappears or loses a receipt, and an
\* acknowledgement is never taken back.
HistoryOnlyGrows ==
    [][\A k \in Keys :
          LET r == orders[k]
              n == orders'[k]
          IN  /\ r.observed <= n.observed
              /\ r.terminal # NotTerminal => n.terminal = r.terminal
              /\ r.odno # NoOdno => n.odno = r.odno
              /\ r.acknowledged => n.acknowledged
              /\ \A e \in r.executions : \E f \in n.executions :
                    /\ f.from = e.from /\ f.to = e.to
                    /\ e.applied => f.applied
                    /\ e.returned => f.returned]_ledgerVars

\* The refinement mapping: the stage of a share is that of its execution.
StageOf(r, u) ==
    IF u > r.observed THEN "unseen"
    ELSE LET e == CHOOSE x \in r.executions : x.from < u /\ u <= x.to
         IN  CASE e.returned -> "returned"
               [] e.applied /\ ~e.returned -> "applied"
               [] OTHER -> "seen"

Delivery ==
    INSTANCE ShareDelivery WITH
        stage <- [k \in Keys |-> [u \in 1..Quantity[k] |-> StageOf(orders[k], u)]],
        final <- [k \in Keys |-> orders[k].terminal # NotTerminal]

\* The ledger implements ShareDelivery: whatever crashes, faults and fencing do,
\* a share is seen, applied and returned once each and in that order.
ImplementsShareDelivery == Delivery!Spec
=============================================================================
