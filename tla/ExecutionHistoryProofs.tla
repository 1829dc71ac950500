---------------------- MODULE ExecutionHistoryProofs ----------------------
(***************************************************************************)
(* What the execution ledger and its history guarantee, for any numbers of *)
(* processes, orders, order numbers, sessions and quantities.              *)
(*                                                                         *)
(* Part 1, the ledger.  Its inductive invariant Consistent has, besides    *)
(* the types, two parts: RecordOk of one order record, kept by each rule   *)
(* of _apply; SessionsOk relates the orders to the sessions.  What a step  *)
(* may never do to an order follows from StepOfOrder, which says who       *)
(* changes an order and how; the ledger implements ShareDelivery.          *)
(*                                                                         *)
(* Part 2, the history.  Each of its steps is a step of the ledger or      *)
(* leaves it alone, so Consistent is at hand.  On top of it:               *)
(*   Locked, Latest   only the holder of the singleton lock has memory of  *)
(*                    the ledger, and its session is the newest            *)
(*   AtRest           without a running bot the history is as at its start *)
(*   Behind           what the cached snapshot may lag by                  *)
(***************************************************************************)
EXTENDS ExecutionHistory, SequenceTheorems, TLAPS

RecordOk(r) ==
    /\ r.status \in {"none", "intent"} => r.odno = NoOdno
    /\ r.odno = NoOdno => r.observed = 0 /\ r.executions = {}
    /\ r.terminal # NotTerminal => r.terminal = r.observed
    /\ Present(r) <=> r.session # 0
    /\ r.status = "none" => r.terminal = NotTerminal /\ ~r.acknowledged
    /\ Tiles(r)

Cleared(r) == Unresolved(r) => r.acknowledged

SessionsOk ==
    /\ \A k \in Keys : orders[k].session <= Len(sessions)
    /\ sessions # <<>> => ~sessions[Len(sessions)].acknowledged
    /\ \A i \in DOMAIN sessions : Vouched(sessions[i]) =>
          \A k \in Keys : orders[k].session = i => Cleared(orders[k])
    /\ sessions # <<>> /\ ~sessions[Len(sessions)].priorUnclean =>
          \A i \in 1..(Len(sessions) - 1) : Vouched(sessions[i])
    /\ CleanMeansSettled

Consistent ==
    /\ TypeOK
    /\ \A k \in Keys : RecordOk(orders[k])
    /\ SessionsOk

-----------------------------------------------------------------------------
(* The rules on one record *)

\* A key without a row (order not recorded) satisfies the rules on one record.
LEMMA AbsentOk == Absent \in Order /\ RecordOk(Absent) /\ ~Unresolved(Absent)
  BY FactsAssumption DEF Absent, Order, Statuses, Outcomes, RecordOk, Present, Tiles,
     NotTerminal, Unresolved, Handed

\* The row that intent() inserts satisfies the rules on one record.
LEMMA NewOrderOk ==
  ASSUME NEW s \in Nat \ {0}
  PROVE  /\ NewOrder(s) \in Order /\ RecordOk(NewOrder(s))
         /\ NewOrder(s).session = s /\ NewOrder(s).odno = NoOdno
  BY DEF NewOrder, Order, Statuses, RecordOk, Present, Tiles, NotTerminal

\* accepted() keeps the rules on one record: it sets the number and the status.
LEMMA AcceptedOk ==
  ASSUME NEW r \in Order, RecordOk(r), r.status = "intent", NEW o \in Odnos
  PROVE  LET n == [r EXCEPT !.odno = o, !.status = "accepted"]
         IN  n \in Order /\ RecordOk(n) /\ n.session = r.session
  BY FactsAssumption DEF Order, Statuses, Outcomes, RecordOk, Present, Tiles, NotTerminal

\* outcome() keeps the rules: a status that settles an order settles it with
\* nothing observed.
LEMMA OutcomeOk ==
  ASSUME NEW r \in Order, RecordOk(r), Present(r),
         NEW status \in Outcomes, OutcomeAllowed(r, status)
  PROVE  /\ WithOutcome(r, status) \in Order
         /\ RecordOk(WithOutcome(r, status))
         /\ WithOutcome(r, status).session = r.session
         /\ WithOutcome(r, status).odno = r.odno
  BY FactsAssumption DEF Order, Statuses, Outcomes, RecordOk, Present, Tiles, NotTerminal,
     OutcomeAllowed, WithOutcome

\* _observe keeps the rules: the new execution continues the pieces, and a final
\* quantity is the observed one.
LEMMA ObservedOk ==
  ASSUME NEW r \in Order, RecordOk(r), NEW full \in Nat,
         NEW quantity \in 0..full, NEW isFinal \in BOOLEAN,
         Observable(r, quantity, full)
  PROVE  /\ Observed(r, quantity, isFinal) \in Order
         /\ RecordOk(Observed(r, quantity, isFinal))
         /\ Observed(r, quantity, isFinal).session = r.session
         /\ Observed(r, quantity, isFinal).odno = r.odno
<1> DEFINE n == Observed(r, quantity, isFinal)
<1>1. /\ n \in Order /\ n.session = r.session /\ n.odno = r.odno /\ n.status = r.status
      /\ n.observed = quantity
      /\ n.executions = r.executions \cup NewExecutions(r, quantity)
      /\ n.terminal = IF isFinal THEN quantity ELSE r.terminal
  <2>1. NewExecutions(r, quantity) \in SUBSET Execution
    BY DEF NewExecutions, Order, Execution
  <2>2. n = [r EXCEPT !.executions = r.executions \cup NewExecutions(r, quantity),
                      !.observed = quantity,
                      !.terminal = IF isFinal THEN quantity ELSE r.terminal]
    BY DEF Observed
  <2>3. r.executions \cup NewExecutions(r, quantity) \in SUBSET Execution
    BY <2>1 DEF Order
  <2> DEFINE more == r.executions \cup NewExecutions(r, quantity)
             last == IF isFinal THEN quantity ELSE r.terminal
  <2>4. quantity \in Nat /\ last \in Nat \cup {NotTerminal}
    BY DEF Order
  <2>5. n = [r EXCEPT !.executions = more, !.observed = quantity, !.terminal = last]
    BY <2>2
  <2> HIDE DEF n, more, last
  <2>6. more \in SUBSET Execution
    BY <2>3 DEF more
  <2>7. /\ n \in Order /\ n.session = r.session /\ n.odno = r.odno /\ n.status = r.status
        /\ n.observed = quantity /\ n.executions = more /\ n.terminal = last
    BY <2>4, <2>5, <2>6 DEF Order
  <2> QED BY <2>7 DEF more, last
<1>2. Tiles(n)
  <2>1. CASE quantity = r.observed
    BY <1>1, <2>1 DEF NewExecutions, RecordOk, Tiles, Order
  <2>2. CASE quantity > r.observed
    <3> DEFINE new == [from |-> r.observed, to |-> quantity,
                       applied |-> FALSE, returned |-> FALSE]
    <3>1. n.executions = r.executions \cup {new}
      BY <1>1, <2>2 DEF NewExecutions
    <3>2. \A e \in r.executions : e.from \in Nat /\ e.to \in Nat /\ e.from < e.to /\ e.to <= r.observed
      BY DEF RecordOk, Tiles, Order, Execution
    <3>3. new.from = r.observed /\ new.to = quantity
      OBVIOUS
    <3>4. r.observed \in Nat
      BY DEF Order
    <3>5. \A e \in n.executions : e.from < e.to /\ e.to <= n.observed
      BY <1>1, <2>2, <3>1, <3>2, <3>3, <3>4
    <3>6. \A e, f \in n.executions : e # f => e.to <= f.from \/ f.to <= e.from
      BY <3>1, <3>2, <3>3, <3>4 DEF RecordOk, Tiles
    <3>7. \A u \in 1..n.observed : \E e \in n.executions : e.from < u /\ u <= e.to
      <4> TAKE u \in 1..n.observed
      <4>1. CASE u <= r.observed
        BY <4>1, <3>1, <3>4 DEF RecordOk, Tiles
      <4>2. CASE u > r.observed
        <5>1. new.from < u /\ u <= new.to /\ new \in n.executions
          BY <4>2, <1>1, <3>1, <3>3, <3>4
        <5> QED BY <5>1
      <4> QED BY <4>1, <4>2, <1>1, <3>4
    <3> QED BY <3>5, <3>6, <3>7 DEF Tiles
  <2> QED BY <2>1, <2>2 DEF Observable, Order
<1> QED
  BY <1>1, <1>2 DEF RecordOk, Observable, Present, NotTerminal, Order

\* Setting a receipt keeps the pieces as they are.
LEMMA ReceiptKeepsTiles ==
  ASSUME NEW r \in Order, Tiles(r), NEW e \in r.executions,
         NEW x \in Execution, x.from = e.from, x.to = e.to,
         NEW n \in Order, n.observed = r.observed,
         n.executions = (r.executions \ {e}) \cup {x}
  PROVE  Tiles(n)
  BY DEF Tiles, Order, Execution

\* receipt(portfolio_applied) keeps the rules on one record.
LEMMA AppliedOk ==
  ASSUME NEW r \in Order, RecordOk(r), NEW e \in r.executions
  PROVE  /\ WithApplied(r, e) \in Order
         /\ RecordOk(WithApplied(r, e))
         /\ WithApplied(r, e).session = r.session
         /\ WithApplied(r, e).odno = r.odno
<1> DEFINE n == WithApplied(r, e)
           x == [e EXCEPT !.applied = TRUE]
<1>1. x \in Execution /\ x.from = e.from /\ x.to = e.to
  BY DEF Order, Execution
<1>2. /\ n \in Order /\ n.session = r.session /\ n.odno = r.odno /\ n.status = r.status
      /\ n.observed = r.observed /\ n.terminal = r.terminal
      /\ n.executions = (r.executions \ {e}) \cup {x}
  BY <1>1 DEF WithApplied, Order
<1>3. Tiles(n)
  BY <1>1, <1>2, ReceiptKeepsTiles DEF RecordOk
<1>4. r.odno # NoOdno
  BY DEF RecordOk
<1> QED BY <1>2, <1>3, <1>4 DEF RecordOk, Present

\* receipt(handoff_returned), of an applied execution, keeps them.
LEMMA ReturnedOk ==
  ASSUME NEW r \in Order, RecordOk(r), NEW e \in r.executions
  PROVE  /\ WithReturned(r, e) \in Order
         /\ RecordOk(WithReturned(r, e))
         /\ WithReturned(r, e).session = r.session
         /\ WithReturned(r, e).odno = r.odno
<1> DEFINE n == WithReturned(r, e)
           x == [e EXCEPT !.returned = TRUE]
<1>1. x \in Execution /\ x.from = e.from /\ x.to = e.to
  BY DEF Order, Execution
<1>2. /\ n \in Order /\ n.session = r.session /\ n.odno = r.odno /\ n.status = r.status
      /\ n.observed = r.observed /\ n.terminal = r.terminal
      /\ n.executions = (r.executions \ {e}) \cup {x}
  BY <1>1 DEF WithReturned, Order
<1>3. Tiles(n)
  BY <1>1, <1>2, ReceiptKeepsTiles DEF RecordOk
<1>4. r.odno # NoOdno
  BY DEF RecordOk
<1> QED BY <1>2, <1>3, <1>4 DEF RecordOk, Present

\* acknowledge() only adds the mark, and leaves no unresolved order of the past
\* without it.
LEMMA AcknowledgedOrderOk ==
  ASSUME NEW r \in Order, RecordOk(r), NEW current \in Nat
  PROVE  LET n == AcknowledgedOrder(current, r)
         IN  /\ n \in Order /\ RecordOk(n)
             /\ n.session = r.session /\ n.odno = r.odno
             /\ r.session # current => Cleared(n)
             /\ Cleared(r) => Cleared(n)
<1> DEFINE n == AcknowledgedOrder(current, r)
<1>1. /\ n = [r EXCEPT !.acknowledged = r.acknowledged \/ (r.session # current /\ Unresolved(r))]
      /\ n \in Order
      /\ n.acknowledged = (r.acknowledged \/ (r.session # current /\ Unresolved(r)))
  BY DEF AcknowledgedOrder, Order
<1>2. /\ n.session = r.session /\ n.odno = r.odno /\ n.status = r.status
      /\ n.observed = r.observed /\ n.terminal = r.terminal /\ n.executions = r.executions
  BY <1>1 DEF Order
<1>3. Unresolved(n) = Unresolved(r)
  BY <1>2 DEF Unresolved, Handed
<1>4. RecordOk(n)
  BY <1>1, <1>2 DEF RecordOk, Present, Tiles, Unresolved
<1> QED BY <1>1, <1>2, <1>3, <1>4 DEF Cleared

\* The two predicates of the code agree where _can_close relies on it.
LEMMA SettledIsCleared ==
  ASSUME NEW r, RecordOk(r), Settled(r)
  PROVE  Cleared(r)
  BY DEF Cleared, Settled, Unresolved, RecordOk

-----------------------------------------------------------------------------
(* The operations *)

\* Whoever may write owns the latest session, which is open.
LEMMA WriterIsLatest ==
  ASSUME Consistent, NEW p \in Procs, Writer(p)
  PROVE  /\ own[p] \in Nat \ {0} /\ own[p] = Len(sessions)
         /\ own[p] \in DOMAIN sessions /\ sessions # <<>>
         /\ sessions \in Seq(Session) /\ Len(sessions) \in Nat
         /\ ~sessions[own[p]].clean /\ ~sessions[own[p]].acknowledged
         /\ ~Vouched(sessions[own[p]])
  BY DEF Consistent, TypeOK, SessionsOk, Writer, Vouched

\* A cancelled task only adds a fault flag.
LEMMA FaultTyped ==
  ASSUME fault \in [Procs -> BOOLEAN], NEW p \in Procs, Outlived(p)
  PROVE  fault' \in [Procs -> BOOLEAN]
  BY DEF Outlived

\* A record written by the latest session leaves the past alone.
LEMMA CommitPreserves ==
  ASSUME Consistent, NEW p \in Procs, Writer(p), NEW k \in Keys,
         NEW n \in Order, RecordOk(n), n.session = own[p], Commit(p, k, n)
  PROVE  Consistent'
<1>1. /\ orders \in [Keys -> Order]
      /\ orders' = [orders EXCEPT ![k] = n]
      /\ sessions' = sessions /\ own' = own
  BY DEF Consistent, TypeOK, Commit
<1>2. \A j \in Keys : orders'[j] = orders[j] \/ orders'[j].session = Len(sessions)
  BY <1>1, WriterIsLatest
<1>3. TypeOK'
  BY <1>1, FaultTyped DEF Consistent, TypeOK, Commit
<1>4. (\A j \in Keys : RecordOk(orders[j]))'
  BY <1>1 DEF Consistent
<1>5. SessionsOk'
  <2>1. (\A j \in Keys : orders[j].session <= Len(sessions))'
    BY <1>1, <1>2, WriterIsLatest DEF Consistent, SessionsOk
  <2>2. (\A i \in DOMAIN sessions : Vouched(sessions[i]) =>
            \A j \in Keys : orders[j].session = i => Cleared(orders[j]))'
    BY <1>1, <1>2, WriterIsLatest DEF Consistent, SessionsOk
  <2>3. CleanMeansSettled'
    <3> SUFFICES ASSUME NEW i \in DOMAIN sessions, sessions[i].clean,
                        NEW j \in Keys, orders'[j].session <= i
                 PROVE  Unresolved(orders'[j]) => orders'[j].acknowledged
      BY <1>1 DEF CleanMeansSettled
    <3>1. i < Len(sessions)
      BY WriterIsLatest
    <3>2. orders'[j] = orders[j]
      BY <1>2, <3>1, WriterIsLatest
    <3> QED BY <3>2 DEF Consistent, SessionsOk, CleanMeansSettled
  <2> QED BY <1>1, <2>1, <2>2, <2>3 DEF Consistent, SessionsOk
<1> QED BY <1>3, <1>4, <1>5 DEF Consistent

\* Every operation on one order preserves the inductive invariant.
LEMMA OrderStepPreserves ==
  ASSUME Consistent, NEW p \in Procs, NEW k \in Keys, OrderStep(p, k)
  PROVE  Consistent'
<1>1. orders[k] \in Order /\ RecordOk(orders[k]) /\ Quantity[k] \in Nat
  BY FactsAssumption DEF Consistent, TypeOK
<1>2. CASE Intent(p, k)
  BY <1>2, NewOrderOk, WriterIsLatest, CommitPreserves DEF Intent
<1>3. ASSUME NEW o \in Odnos, Accepted(p, k, o)
      PROVE  Consistent'
  BY <1>1, <1>3, AcceptedOk, CommitPreserves DEF Accepted, Owns
<1>4. ASSUME NEW status \in Outcomes, Outcome(p, k, status)
      PROVE  Consistent'
  BY <1>1, <1>4, OutcomeOk, CommitPreserves DEF Outcome, Owns
<1>5. ASSUME NEW quantity \in 0..Quantity[k], NEW terminal \in BOOLEAN,
             Observe(p, k, quantity, terminal)
      PROVE  Consistent'
  <2> DEFINE isFinal == terminal \/ quantity = Quantity[k]
  <2>1. isFinal \in BOOLEAN /\ Observable(orders[k], quantity, Quantity[k])
    BY <1>5 DEF Observe
  <2>2. Commit(p, k, Observed(orders[k], quantity, isFinal)) /\ Writer(p) /\ orders[k].session = own[p]
    BY <1>5 DEF Observe, Owns
  <2> HIDE DEF isFinal
  <2> QED BY <1>1, <2>1, <2>2, ObservedOk, CommitPreserves
<1>6. ASSUME NEW e \in orders[k].executions, ReceiptApplied(p, k, e)
      PROVE  Consistent'
  BY <1>1, <1>6, AppliedOk, CommitPreserves DEF ReceiptApplied, Owns
<1>7. ASSUME NEW e \in orders[k].executions, ReceiptReturned(p, k, e)
      PROVE  Consistent'
  BY <1>1, <1>7, ReturnedOk, CommitPreserves DEF ReceiptReturned, Owns
<1> QED BY <1>2, <1>3, <1>4, <1>5, <1>6, <1>7 DEF OrderStep

\* open() preserves it: a session that inherits no unclean past starts over a
\* settled one.
LEMMA OpenPreserves ==
  ASSUME Consistent, NEW p \in Procs, Open(p)
  PROVE  Consistent'
<1> DEFINE n == Len(sessions) + 1
           s == [clean |-> FALSE, priorUnclean |-> InheritsUnclean, acknowledged |-> FALSE]
<1>1. /\ sessions \in Seq(Session) /\ Len(sessions) \in Nat /\ s \in Session
      /\ sessions' = Append(sessions, s) /\ orders' = orders
  BY DEF Consistent, TypeOK, Open, Session, InheritsUnclean
<1>2. /\ sessions' \in Seq(Session) /\ Len(sessions') = n
      /\ DOMAIN sessions' = 1..n
      /\ \A i \in 1..Len(sessions) : sessions'[i] = sessions[i]
      /\ sessions'[n] = s
  BY <1>1
<1>3. TypeOK'
  <2>1. own' \in [Procs -> 0..n] /\ fault' \in [Procs -> BOOLEAN]
    <3>1. own \in [Procs -> 0..n] /\ n \in 0..n
      BY <1>1 DEF Consistent, TypeOK
    <3>2. own' \in [Procs -> 0..n]
      BY <3>1 DEF Open
    <3>3. fault' \in [Procs -> BOOLEAN]
      BY FaultTyped DEF Consistent, TypeOK, Open
    <3> QED BY <3>2, <3>3
  <2>2. n <= MaxSessions
    BY <1>1, FactsAssumption DEF Open
  <2> QED BY <1>1, <1>2, <2>1, <2>2 DEF Consistent, TypeOK
<1>4. SessionsOk'
  <2> DEFINE past == 1..Len(sessions)
  <2>1. (\A k \in Keys : orders[k].session <= Len(sessions))'
    BY <1>1, <1>2 DEF Consistent, SessionsOk, TypeOK, Order
  <2>2. ~s.acknowledged /\ ~s.clean /\ ~Vouched(s)
    BY DEF Vouched
  <2>3. \A i \in DOMAIN sessions' : i \in past \/ i = n
    BY <1>1, <1>2
  <2>4. DOMAIN sessions = past
    BY <1>1
  <2>5. (\A i \in DOMAIN sessions : Vouched(sessions[i]) =>
            \A k \in Keys : orders[k].session = i => Cleared(orders[k]))'
    BY <1>1, <1>2, <2>2, <2>3, <2>4 DEF Consistent, SessionsOk, Vouched, Cleared, Unresolved, Handed
  <2>6. ~s.priorUnclean => \A i \in past : Vouched(sessions[i])
    BY <2>4 DEF InheritsUnclean
  <2>7. CleanMeansSettled'
    BY <1>1, <1>2, <2>2, <2>3, <2>4 DEF Consistent, SessionsOk, CleanMeansSettled, Unresolved, Handed
  <2>8. (sessions # <<>> /\ ~sessions[Len(sessions)].priorUnclean =>
            \A i \in 1..(Len(sessions) - 1) : Vouched(sessions[i]))'
    BY <1>1, <1>2, <2>6 DEF Vouched
  <2> QED BY <1>2, <2>1, <2>2, <2>5, <2>7, <2>8 DEF SessionsOk
<1> QED BY <1>1, <1>3, <1>4 DEF Consistent, RecordOk, Present, Tiles

\* A function over 1..n is a sequence of length n.
LEMMA FunctionIsSeq ==
  ASSUME NEW S, NEW n \in Nat, NEW f \in [1..n -> S]
  PROVE  f \in Seq(S) /\ Len(f) = n
  OBVIOUS

\* acknowledge() leaves every earlier session vouched for.
LEMMA AcknowledgedSessionOk ==
  ASSUME NEW i, NEW c, NEW s \in Session
  PROVE  LET n == AcknowledgedSession(i, c, s)
         IN  /\ n \in Session /\ n.clean = s.clean
             /\ i # c => Vouched(n)
             /\ i = c => n.acknowledged = s.acknowledged
<1> DEFINE a == s.acknowledged \/ (i # c /\ (~s.clean \/ s.priorUnclean))
           q == IF i = c THEN FALSE ELSE s.priorUnclean
           n == AcknowledgedSession(i, c, s)
<1>1. n = [s EXCEPT !.acknowledged = a, !.priorUnclean = q]
  BY DEF AcknowledgedSession
<1>2. a \in BOOLEAN /\ q \in BOOLEAN
  BY DEF Session
<1> HIDE DEF a, q, n
<1>3. n \in Session /\ n.clean = s.clean /\ n.acknowledged = a /\ n.priorUnclean = q
  BY <1>1, <1>2 DEF Session
<1>4. i # c => a \/ (s.clean /\ ~s.priorUnclean)
  BY DEF a
<1>5. i # c => Vouched(n)
  BY <1>3, <1>4 DEF Vouched, q
<1>6. i = c => a = s.acknowledged
  BY DEF a, Session
<1> QED BY <1>3, <1>5, <1>6 DEF n

\* acknowledge() preserves the inductive invariant.
LEMMA AcknowledgePreserves ==
  ASSUME Consistent, NEW p \in Procs, Acknowledge(p)
  PROVE  Consistent'
<1> DEFINE c == own[p]
<1>1. Writer(p) /\ c \in Nat /\ c = Len(sessions) /\ c \in DOMAIN sessions /\ sessions # <<>>
      /\ sessions \in Seq(Session) /\ ~sessions[c].clean /\ ~sessions[c].acknowledged
      /\ orders \in [Keys -> Order] /\ DOMAIN sessions = 1..c
  BY WriterIsLatest DEF Acknowledge, Consistent, TypeOK
<1>2. /\ sessions' = [i \in 1..c |-> AcknowledgedSession(i, c, sessions[i])]
      /\ orders' = [k \in Keys |-> AcknowledgedOrder(c, orders[k])]
      /\ own' = own
  BY <1>1 DEF Acknowledge
<1>3. \A i \in 1..c : /\ sessions[i] \in Session
                      /\ AcknowledgedSession(i, c, sessions[i]) \in Session
                      /\ AcknowledgedSession(i, c, sessions[i]).clean = sessions[i].clean
                      /\ i # c => Vouched(AcknowledgedSession(i, c, sessions[i]))
  <2>1. \A i \in 1..c : sessions[i] \in Session
    BY <1>1, ElementOfSeq
  <2> QED BY <2>1, AcknowledgedSessionOk
<1>4. ~AcknowledgedSession(c, c, sessions[c]).acknowledged
  BY <1>1, ElementOfSeq, AcknowledgedSessionOk
<1>5. sessions' \in Seq(Session) /\ Len(sessions') = c /\ DOMAIN sessions' = 1..c
  <2>1. sessions' \in [1..c -> Session]
    BY <1>2, <1>3
  <2> QED BY <1>1, <2>1, FunctionIsSeq
<1>6. \A k \in Keys : /\ orders'[k] \in Order /\ RecordOk(orders'[k])
                      /\ orders'[k].session = orders[k].session
                      /\ orders[k].session # c => Cleared(orders'[k])
                      /\ Cleared(orders[k]) => Cleared(orders'[k])
  BY <1>1, <1>2, AcknowledgedOrderOk DEF Consistent
<1>7. TypeOK'
  BY <1>1, <1>2, <1>5, <1>6, FaultTyped DEF Acknowledge, Consistent, TypeOK
<1>8. SessionsOk'
  <2>1. (\A k \in Keys : orders[k].session <= Len(sessions))'
    BY <1>1, <1>5, <1>6 DEF Consistent, SessionsOk
  <2>2. ~Vouched(sessions'[c]) /\ ~sessions'[c].clean
    BY <1>1, <1>2, <1>3, <1>4 DEF Vouched
  <2>3. (\A i \in DOMAIN sessions : Vouched(sessions[i]) =>
            \A k \in Keys : orders[k].session = i => Cleared(orders[k]))'
    BY <1>5, <1>6, <2>2
  <2>4. \A i \in 1..(c - 1) : Vouched(sessions'[i])
    <3> TAKE i \in 1..(c - 1)
    <3>0. c \in Nat
      BY <1>1
    <3>1. i \in 1..c /\ i # c
      BY <3>0
    <3>2. sessions'[i] = AcknowledgedSession(i, c, sessions[i])
      BY <1>2, <3>1
    <3> QED BY <1>3, <3>1, <3>2
  <2>5. CleanMeansSettled'
    <3> SUFFICES ASSUME NEW i \in 1..c, sessions'[i].clean,
                        NEW k \in Keys, orders'[k].session <= i
                 PROVE  Cleared(orders'[k])
      BY <1>5 DEF CleanMeansSettled, Cleared
    <3>1. i # c
      BY <2>2
    <3>2. i < c /\ orders[k].session <= i /\ orders[k].session \in Nat
      BY <1>1, <1>6, <3>1 DEF Order
    <3> QED BY <1>1, <1>6, <3>2
  <2> QED BY <1>1, <1>2, <1>4, <1>5, <2>1, <2>3, <2>4, <2>5 DEF SessionsOk
<1> QED BY <1>6, <1>7, <1>8 DEF Consistent

\* close_session() preserves it: _can_close settles every order.
LEMMA ClosePreserves ==
  ASSUME Consistent, NEW p \in Procs, Close(p)
  PROVE  Consistent'
<1> DEFINE c == own[p]
<1>1. /\ Writer(p) /\ c \in Nat /\ c = Len(sessions) /\ c \in DOMAIN sessions
      /\ sessions # <<>> /\ sessions \in Seq(Session) /\ ~sessions[c].acknowledged
      /\ ~sessions[c].priorUnclean /\ DOMAIN sessions = 1..c
      /\ sessions' = [sessions EXCEPT ![c].clean = TRUE] /\ orders' = orders /\ own' = own
  BY WriterIsLatest DEF Close, CanClose, Consistent, TypeOK
<1>2. \A k \in Keys : Cleared(orders[k])
  BY SettledIsCleared DEF Close, CanClose, Consistent
<1>3. /\ sessions' \in Seq(Session) /\ Len(sessions') = c /\ DOMAIN sessions' = 1..c
      /\ \A i \in 1..c : i # c => sessions'[i] = sessions[i]
      /\ ~sessions'[c].acknowledged
  <2>0. sessions[c] \in Session /\ c \in 1..Len(sessions)
    BY <1>1, ElementOfSeq
  <2>1. [sessions[c] EXCEPT !.clean = TRUE] \in Session
    BY <2>0 DEF Session
  <2>2. sessions' = [sessions EXCEPT ![c] = [sessions[c] EXCEPT !.clean = TRUE]]
    BY <1>1
  <2>3. [sessions[c] EXCEPT !.clean = TRUE].acknowledged = sessions[c].acknowledged
    BY <1>1 DEF Session
  <2> QED BY <1>1, <2>1, <2>2, <2>3, ExceptSeq
<1>4. TypeOK'
  BY <1>1, <1>3, FaultTyped DEF Close, Consistent, TypeOK
<1>5. SessionsOk'
  <2>1. \A k \in Keys : Cleared(orders'[k]) /\ orders'[k].session <= Len(sessions')
    BY <1>1, <1>2, <1>3 DEF Consistent, SessionsOk
  <2>2. \A i \in 1..(c - 1) : Vouched(sessions'[i])
    BY <1>1, <1>3 DEF Consistent, SessionsOk, Vouched
  <2>3. CleanMeansSettled'
    BY <2>1 DEF CleanMeansSettled, Cleared
  <2> QED BY <1>3, <2>1, <2>2, <2>3 DEF SessionsOk
<1> QED BY <1>1, <1>4, <1>5 DEF Consistent, RecordOk, Present, Tiles

-----------------------------------------------------------------------------
(* The invariance theorems *)

\* The empty ledger satisfies the inductive invariant.
LEMMA InitConsistent == Init => Consistent
<1> SUFFICES ASSUME Init PROVE Consistent
  OBVIOUS
<1>1. \A k \in Keys : orders[k] = Absent
  BY DEF Init
<1>2. TypeOK
  BY <1>1, AbsentOk, FactsAssumption DEF Init, TypeOK
<1>3. SessionsOk
  BY <1>1 DEF Init, SessionsOk, Absent, CleanMeansSettled
<1> QED BY <1>1, <1>2, <1>3, AbsentOk DEF Consistent

\* Every step of the ledger preserves the inductive invariant.
LEMMA NextConsistent == Consistent /\ [Next]_ledgerVars => Consistent'
<1> SUFFICES ASSUME Consistent, [Next]_ledgerVars PROVE Consistent'
  OBVIOUS
<1>1. CASE UNCHANGED ledgerVars
  BY <1>1 DEF ledgerVars, Consistent, TypeOK, SessionsOk, CleanMeansSettled, RecordOk,
     Present, Tiles, Vouched, Cleared, Unresolved, Handed
<1>2. ASSUME NEW p \in Procs,
             \/ Open(p) \/ Acknowledge(p) \/ Close(p) \/ StorageFault(p) \/ Exit(p)
             \/ \E k \in Keys : OrderStep(p, k)
      PROVE  Consistent'
  <2>1. CASE StorageFault(p) \/ Exit(p)
    <3>1. UNCHANGED <<sessions, orders>>
      BY <2>1 DEF StorageFault, Exit
    <3>2. TypeOK'
      <4>1. own' \in [Procs -> 0..Len(sessions)] /\ fault' \in [Procs -> BOOLEAN]
        <5>1. CASE StorageFault(p)
          BY <5>1 DEF StorageFault, Consistent, TypeOK
        <5>2. CASE Exit(p)
          BY <5>2, LenProperties DEF Exit, Consistent, TypeOK
        <5> QED BY <2>1, <5>1, <5>2
      <4> QED BY <3>1, <4>1 DEF Consistent, TypeOK
    <3> QED BY <3>1, <3>2 DEF Consistent, SessionsOk, CleanMeansSettled, RecordOk,
               Present, Tiles, Vouched, Cleared, Unresolved, Handed
  <2> QED BY <1>2, <2>1, OpenPreserves, AcknowledgePreserves, ClosePreserves, OrderStepPreserves
<1> QED BY <1>1, <1>2 DEF Next

\* The inductive invariant holds in every run of the ledger.
THEOREM LedgerConsistent == Spec => []Consistent
  BY InitConsistent, NextConsistent, PTL DEF Spec

\* Type correctness of the durable state and of each process's memory.
THEOREM LedgerTyped == Spec => []TypeOK
<1>1. Consistent => TypeOK
  BY DEF Consistent
<1> QED BY <1>1, LedgerConsistent, PTL

\* Cumulative reports are cut into executions that hand every share over once.
THEOREM LedgerHandsSharesOnce == Spec => []SharesHandedOnce
<1>1. Consistent => SharesHandedOnce
  BY DEF Consistent, RecordOk, SharesHandedOnce
<1> QED BY <1>1, LedgerConsistent, PTL

\* A clean close means that no order up to then is unresolved and unacknowledged.
THEOREM LedgerCleanMeansSettled == Spec => []CleanMeansSettled
<1>1. Consistent => CleanMeansSettled
  BY DEF Consistent, SessionsOk
<1> QED BY <1>1, LedgerConsistent, PTL

\* A session without the prior_unclean hold leaves no unreported past behind.
THEOREM LedgerNoUnreportedPast == Spec => []NoUnreportedPast
<1>1. Consistent => NoUnreportedPast
  <2> SUFFICES ASSUME Consistent, sessions # <<>>,
                      ~sessions[Len(sessions)].priorUnclean
               PROVE  /\ \A i \in 1..(Len(sessions) - 1) : Vouched(sessions[i])
                      /\ \A k \in Keys : /\ orders[k].session # Len(sessions)
                                         /\ Unresolved(orders[k])
                                         => orders[k].acknowledged
    BY DEF NoUnreportedPast
  <2>1. \A i \in 1..(Len(sessions) - 1) : Vouched(sessions[i])
    BY DEF Consistent, SessionsOk
  <2>2. ASSUME NEW k \in Keys, orders[k].session # Len(sessions), Unresolved(orders[k])
        PROVE  orders[k].acknowledged
    <3>1. orders[k].session \in Nat /\ orders[k].session # 0 /\ Len(sessions) \in Nat
          /\ orders[k].session <= Len(sessions)
      BY <2>2 DEF Consistent, TypeOK, SessionsOk, RecordOk, Present, Unresolved, Order
    <3>2. orders[k].session \in 1..(Len(sessions) - 1)
      BY <2>2, <3>1
    <3>3. orders[k].session \in DOMAIN sessions
      BY <3>1, <3>2 DEF Consistent, TypeOK
    <3> QED BY <2>1, <2>2, <3>2, <3>3 DEF Consistent, SessionsOk, Cleared
  <2> QED BY <2>1, <2>2
<1> QED BY <1>1, LedgerConsistent, PTL

-----------------------------------------------------------------------------
(* What a step does to one order *)

\* What HistoryOnlyGrows demands of one record.
Grows(r, n) ==
    /\ r.observed <= n.observed
    /\ r.terminal # NotTerminal => n.terminal = r.terminal
    /\ r.odno # NoOdno => n.odno = r.odno
    /\ r.acknowledged => n.acknowledged
    /\ \A e \in r.executions : \E f \in n.executions :
          /\ f.from = e.from /\ f.to = e.to
          /\ e.applied => f.applied
          /\ e.returned => f.returned

-----------------------------------------------------------------------------
(* The rules on one record *)

\* A record that keeps its executions grows when its other fields do.
LEMMA SameExecutionsGrow ==
  ASSUME NEW r \in Order, NEW n, n.executions = r.executions,
         r.observed <= n.observed,
         r.terminal # NotTerminal => n.terminal = r.terminal,
         r.odno # NoOdno => n.odno = r.odno,
         r.acknowledged => n.acknowledged
  PROVE  Grows(r, n)
  BY DEF Grows

\* intent() takes nothing from a key without a row.
LEMMA NewOrderGrows ==
  ASSUME NEW r \in Order, RecordOk(r), ~Present(r), NEW s \in Nat
  PROVE  Grows(r, NewOrder(s))
  BY DEF Grows, RecordOk, Present, NewOrder, Order

\* accepted() sets the number of an order that has none.
LEMMA AcceptedGrows ==
  ASSUME NEW r \in Order, r.odno = NoOdno, NEW o \in Odnos
  PROVE  Grows(r, [r EXCEPT !.odno = o, !.status = "accepted"])
<1> DEFINE n == [r EXCEPT !.odno = o, !.status = "accepted"]
<1>1. /\ n.executions = r.executions /\ n.observed = r.observed
      /\ n.terminal = r.terminal /\ n.acknowledged = r.acknowledged
  BY DEF Order
<1>2. r.observed <= n.observed
  BY <1>1 DEF Order
<1> QED BY <1>1, <1>2, SameExecutionsGrow

\* outcome() settles only an order that is not settled yet.
LEMMA OutcomeGrows ==
  ASSUME NEW r \in Order, RecordOk(r), NEW status \in Outcomes, OutcomeAllowed(r, status)
  PROVE  Grows(r, WithOutcome(r, status))
<1> DEFINE n == WithOutcome(r, status)
<1>1. /\ n.executions = r.executions /\ n.observed = r.observed
      /\ n.odno = r.odno /\ n.acknowledged = r.acknowledged
      /\ n.terminal = IF status \in {"not_sent", "rejected"} THEN 0 ELSE r.terminal
  BY DEF WithOutcome, Order
<1>2. r.observed <= n.observed
  BY <1>1 DEF Order
<1>3. status \in {"not_sent", "rejected"} => r.terminal \in {0, NotTerminal}
  BY DEF OutcomeAllowed, RecordOk
<1> QED BY <1>1, <1>2, <1>3, SameExecutionsGrow

\* _observe adds an execution at most, and never moves a final quantity.
LEMMA ObservedGrows ==
  ASSUME NEW r \in Order, RecordOk(r), NEW full \in Nat, NEW quantity \in 0..full,
         NEW isFinal \in BOOLEAN, Observable(r, quantity, full)
  PROVE  Grows(r, Observed(r, quantity, isFinal))
<1> DEFINE n == Observed(r, quantity, isFinal)
<1>1. /\ n.executions = r.executions \cup NewExecutions(r, quantity)
      /\ n.observed = quantity /\ n.odno = r.odno /\ n.acknowledged = r.acknowledged
      /\ n.terminal = IF isFinal THEN quantity ELSE r.terminal
  BY DEF Observed, Order
<1>2. r.terminal # NotTerminal => n.terminal = r.terminal
  BY <1>1 DEF Observable
<1>3. r.observed <= n.observed
  BY <1>1 DEF Observable
<1> QED BY <1>1, <1>2, <1>3 DEF Grows

\* A record whose execution e became x, with no less receipts, has grown.
LEMMA ReceiptGrows ==
  ASSUME NEW r \in Order, NEW e \in r.executions, NEW n, NEW x,
         n.executions = (r.executions \ {e}) \cup {x},
         n.observed = r.observed, n.terminal = r.terminal, n.odno = r.odno,
         n.acknowledged = r.acknowledged,
         x.from = e.from, x.to = e.to, e.applied => x.applied, e.returned => x.returned
  PROVE  Grows(r, n)
<1>1. \A d \in r.executions : \E f \in n.executions :
         /\ f.from = d.from /\ f.to = d.to
         /\ d.applied => f.applied
         /\ d.returned => f.returned
  <2> TAKE d \in r.executions
  <2>1. CASE d = e
    BY <2>1
  <2>2. CASE d # e
    BY <2>2
  <2> QED BY <2>1, <2>2
<1>2. r.observed <= n.observed
  BY DEF Order
<1> QED BY <1>1, <1>2 DEF Grows

\* receipt(portfolio_applied) and receipt(handoff_returned) only add a receipt.
LEMMA ReceiptsGrow ==
  ASSUME NEW r \in Order, NEW e \in r.executions
  PROVE  Grows(r, WithApplied(r, e)) /\ Grows(r, WithReturned(r, e))
<1>0. e \in Execution
  BY DEF Order
<1>1. Grows(r, WithApplied(r, e))
  <2> DEFINE x == [e EXCEPT !.applied = TRUE]
             n == WithApplied(r, e)
  <2>1. x.from = e.from /\ x.to = e.to /\ x.applied /\ x.returned = e.returned
    BY <1>0 DEF Execution
  <2>2. /\ n.executions = (r.executions \ {e}) \cup {x}
        /\ n.observed = r.observed /\ n.terminal = r.terminal /\ n.odno = r.odno
        /\ n.acknowledged = r.acknowledged
    BY DEF WithApplied, Order
  <2> HIDE DEF x, n
  <2> QED BY <2>1, <2>2, ReceiptGrows DEF n
<1>2. Grows(r, WithReturned(r, e))
  <2> DEFINE x == [e EXCEPT !.returned = TRUE]
             n == WithReturned(r, e)
  <2>1. x.from = e.from /\ x.to = e.to /\ x.applied = e.applied /\ x.returned
    BY <1>0 DEF Execution
  <2>2. /\ n.executions = (r.executions \ {e}) \cup {x}
        /\ n.observed = r.observed /\ n.terminal = r.terminal /\ n.odno = r.odno
        /\ n.acknowledged = r.acknowledged
    BY DEF WithReturned, Order
  <2> HIDE DEF x, n
  <2> QED BY <2>1, <2>2, ReceiptGrows DEF n
<1> QED BY <1>1, <1>2

\* acknowledge() only adds the mark.
LEMMA AcknowledgedMark ==
  ASSUME NEW r \in Order, NEW current
  PROVE  /\ AcknowledgedOrder(current, r) \in {r, [r EXCEPT !.acknowledged = TRUE]}
         /\ Grows(r, AcknowledgedOrder(current, r))
<1> DEFINE mark == r.acknowledged \/ (r.session # current /\ Unresolved(r))
           n == AcknowledgedOrder(current, r)
<1>1. n = [r EXCEPT !.acknowledged = mark]
  BY DEF AcknowledgedOrder
<1>2. mark \in BOOLEAN /\ (r.acknowledged => mark)
  BY DEF Order
<1>3. mark = r.acknowledged \/ mark = TRUE
  BY <1>2 DEF Order
<1> HIDE DEF mark, n
<1>4. n \in {r, [r EXCEPT !.acknowledged = TRUE]}
  <2>1. r = [r EXCEPT !.acknowledged = r.acknowledged]
    BY DEF Order
  <2> QED BY <1>1, <1>3, <2>1
<1>5. /\ n.executions = r.executions /\ n.observed = r.observed
      /\ n.terminal = r.terminal /\ n.odno = r.odno /\ n.acknowledged = mark
  BY <1>1 DEF Order
<1>6. r.observed <= n.observed
  BY <1>5 DEF Order
<1>7. Grows(r, n)
  BY <1>2, <1>5, <1>6, SameExecutionsGrow
<1> QED BY <1>4, <1>7 DEF n

-----------------------------------------------------------------------------
(* The steps *)

Mine(p, k) == Owns(p, k) \/ ~Present(orders[k])

\* An operation on one order lets its record grow and is its writer's.
LEMMA OrderStepGrows ==
  ASSUME Consistent, NEW p \in Procs, NEW k \in Keys, OrderStep(p, k)
  PROVE  /\ Writer(p) /\ Mine(p, k)
         /\ \E n : orders' = [orders EXCEPT ![k] = n] /\ Grows(orders[k], n)
<1>1. orders[k] \in Order /\ RecordOk(orders[k]) /\ Quantity[k] \in Nat
  BY FactsAssumption DEF Consistent, TypeOK
<1>2. CASE Intent(p, k)
  <2>1. own[p] \in Nat
    BY <1>2, WriterIsLatest DEF Intent
  <2> QED BY <1>1, <1>2, <2>1, NewOrderGrows DEF Intent, Commit, Mine
<1>3. ASSUME NEW o \in Odnos, Accepted(p, k, o)
      PROVE  /\ Writer(p) /\ Mine(p, k)
             /\ \E n : orders' = [orders EXCEPT ![k] = n] /\ Grows(orders[k], n)
  BY <1>1, <1>3, AcceptedGrows DEF Accepted, Commit, Mine
<1>4. ASSUME NEW status \in Outcomes, Outcome(p, k, status)
      PROVE  /\ Writer(p) /\ Mine(p, k)
             /\ \E n : orders' = [orders EXCEPT ![k] = n] /\ Grows(orders[k], n)
  BY <1>1, <1>4, OutcomeGrows DEF Outcome, Commit, Mine
<1>5. ASSUME NEW quantity \in 0..Quantity[k], NEW terminal \in BOOLEAN,
             Observe(p, k, quantity, terminal)
      PROVE  /\ Writer(p) /\ Mine(p, k)
             /\ \E n : orders' = [orders EXCEPT ![k] = n] /\ Grows(orders[k], n)
  <2> DEFINE isFinal == terminal \/ quantity = Quantity[k]
  <2>1. isFinal \in BOOLEAN /\ Observable(orders[k], quantity, Quantity[k])
    BY <1>5 DEF Observe
  <2>2. /\ orders' = [orders EXCEPT ![k] = Observed(orders[k], quantity, isFinal)]
        /\ Writer(p) /\ Mine(p, k)
    BY <1>5 DEF Observe, Commit, Mine
  <2> HIDE DEF isFinal
  <2> QED BY <1>1, <2>1, <2>2, ObservedGrows
<1>6. ASSUME NEW e \in orders[k].executions,
             ReceiptApplied(p, k, e) \/ ReceiptReturned(p, k, e)
      PROVE  /\ Writer(p) /\ Mine(p, k)
             /\ \E n : orders' = [orders EXCEPT ![k] = n] /\ Grows(orders[k], n)
  BY <1>1, <1>6, ReceiptsGrow DEF ReceiptApplied, ReceiptReturned, Commit, Mine
<1> QED BY <1>2, <1>3, <1>4, <1>5, <1>6 DEF OrderStep

\* An order stays as it is, gets the operator's mark, or is continued by the
\* latest session, which is open and to which the order belongs.
LEMMA StepOfOrder ==
  ASSUME Consistent, [Next]_ledgerVars, NEW k \in Keys
  PROVE  \/ orders'[k] = orders[k]
         \/ \E p \in Procs : orders'[k] = AcknowledgedOrder(own[p], orders[k])
         \/ /\ Grows(orders[k], orders'[k])
            /\ \E p \in Procs : Writer(p) /\ Mine(p, k)
<1>1. CASE UNCHANGED ledgerVars
  BY <1>1 DEF ledgerVars
<1>2. ASSUME NEW p \in Procs,
             Open(p) \/ Close(p) \/ StorageFault(p) \/ Exit(p)
      PROVE  orders'[k] = orders[k]
  BY <1>2 DEF Open, Close, StorageFault, Exit
<1>3. ASSUME NEW p \in Procs, Acknowledge(p)
      PROVE  orders'[k] = AcknowledgedOrder(own[p], orders[k])
  BY <1>3 DEF Acknowledge
<1>4. ASSUME NEW p \in Procs, NEW j \in Keys, OrderStep(p, j)
      PROVE  \/ orders'[k] = orders[k]
             \/ /\ Grows(orders[k], orders'[k])
                /\ Writer(p) /\ Mine(p, k)
  <2>1. PICK n : orders' = [orders EXCEPT ![j] = n] /\ Grows(orders[j], n)
    BY <1>4, OrderStepGrows
  <2>2. Writer(p) /\ Mine(p, j)
    BY <1>4, OrderStepGrows
  <2>3. orders \in [Keys -> Order]
    BY DEF Consistent, TypeOK
  <2>4. CASE j = k
    BY <2>1, <2>2, <2>3, <2>4
  <2>5. CASE j # k
    BY <2>1, <2>3, <2>5
  <2> QED BY <2>4, <2>5
<1> QED BY <1>1, <1>2, <1>3, <1>4 DEF Next

-----------------------------------------------------------------------------
(* Theorems *)

\* What the file has of an order, a step leaves or adds to.
LEMMA OrdersGrow ==
  ASSUME Consistent, [Next]_ledgerVars, NEW k \in Keys
  PROVE  Grows(orders[k], orders'[k])
<1>1. orders[k] \in Order
  BY DEF Consistent, TypeOK
<1>2. CASE orders'[k] = orders[k]
  BY <1>1, <1>2 DEF Grows, Order
<1>3. CASE \E p \in Procs : orders'[k] = AcknowledgedOrder(own[p], orders[k])
  BY <1>1, <1>3, AcknowledgedMark
<1> QED BY <1>2, <1>3, StepOfOrder

\* The history of an order only grows, whoever writes and whatever fails.
THEOREM LedgerHistoryOnlyGrows == Spec => HistoryOnlyGrows
<1>1. Consistent /\ [Next]_ledgerVars =>
        [\A k \in Keys :
            LET r == orders[k]
                n == orders'[k]
            IN  /\ r.observed <= n.observed
                /\ r.terminal # NotTerminal => n.terminal = r.terminal
                /\ r.odno # NoOdno => n.odno = r.odno
                /\ r.acknowledged => n.acknowledged
                /\ \A e \in r.executions : \E f \in n.executions :
                      /\ f.from = e.from /\ f.to = e.to
                      /\ e.applied => f.applied
                      /\ e.returned => f.returned]_ledgerVars
  BY OrdersGrow DEF Grows
<1> QED BY <1>1, LedgerConsistent, PTL DEF Spec, HistoryOnlyGrows

\* Nobody rewrites an order of a session that is over or overtaken.
THEOREM LedgerPastIsFrozen == Spec => PastIsFrozen
<1>1. ASSUME Consistent, [Next]_ledgerVars, NEW k \in Keys, Present(orders[k]),
             \/ orders[k].session # Len(sessions)
             \/ sessions[Len(sessions)].clean
      PROVE  orders'[k] \in {orders[k], [orders[k] EXCEPT !.acknowledged = TRUE]}
  <2>1. orders[k] \in Order
    BY <1>1 DEF Consistent, TypeOK
  <2>2. CASE \E p \in Procs : orders'[k] = AcknowledgedOrder(own[p], orders[k])
    BY <2>1, <2>2, AcknowledgedMark
  <2>3. ~ \E p \in Procs : Writer(p) /\ Mine(p, k)
    BY <1>1, WriterIsLatest DEF Mine, Owns
  <2> QED BY <1>1, <2>2, <2>3, StepOfOrder
<1>2. Consistent /\ [Next]_ledgerVars =>
        [\A k \in Keys :
            /\ Present(orders[k])
            /\ \/ orders[k].session # Len(sessions)
               \/ sessions[Len(sessions)].clean
            => orders'[k] \in {orders[k], [orders[k] EXCEPT !.acknowledged = TRUE]}]_ledgerVars
  BY <1>1
<1> QED BY <1>2, LedgerConsistent, PTL DEF Spec, PastIsFrozen

\* A step that keeps the order numbers keeps them distinct.
LEMMA SameOdnos ==
  ASSUME OdnoNamesOneOrder, \A k \in Keys : orders'[k].odno = orders[k].odno
  PROVE  OdnoNamesOneOrder'
  BY DEF OdnoNamesOneOrder

\* A broker order number names one order of its day.
THEOREM LedgerOdnoNamesOneOrder == Spec => []OdnoNamesOneOrder
<1>1. Init => OdnoNamesOneOrder
  BY DEF Init, OdnoNamesOneOrder, Absent
<1>2. Consistent /\ OdnoNamesOneOrder /\ [Next]_ledgerVars => OdnoNamesOneOrder'
  <2> SUFFICES ASSUME Consistent, OdnoNamesOneOrder, [Next]_ledgerVars
               PROVE  OdnoNamesOneOrder'
    OBVIOUS
  <2>0. orders \in [Keys -> Order] /\ \A k \in Keys : RecordOk(orders[k])
    BY DEF Consistent, TypeOK
  <2>1. CASE UNCHANGED ledgerVars
    BY <2>1, SameOdnos DEF ledgerVars
  <2>2. ASSUME NEW p \in Procs, Open(p) \/ Close(p) \/ StorageFault(p) \/ Exit(p)
        PROVE  OdnoNamesOneOrder'
    BY <2>2, SameOdnos DEF Open, Close, StorageFault, Exit
  <2>3. ASSUME NEW p \in Procs, Acknowledge(p)
        PROVE  OdnoNamesOneOrder'
    <3>1. \A k \in Keys : AcknowledgedOrder(own[p], orders[k]).odno = orders[k].odno
      BY <2>0 DEF AcknowledgedOrder, Order
    <3> QED BY <2>3, <3>1, SameOdnos DEF Acknowledge
  <2>4. ASSUME NEW p \in Procs, NEW k \in Keys, OrderStep(p, k)
        PROVE  OdnoNamesOneOrder'
    <3>1. CASE \E o \in Odnos : Accepted(p, k, o)
      <4>1. PICK o \in Odnos : Accepted(p, k, o)
        BY <3>1
      <4>2. orders'[k].odno = o /\ \A j \in Keys \ {k} : orders'[j] = orders[j]
        BY <2>0, <4>1 DEF Accepted, Commit, Order
      <4>3. \A j \in Keys \ {k} : OrderDate[j] = OrderDate[k] => orders'[j].odno # o
        BY <4>1, <4>2 DEF Accepted, OdnoTaken
      <4> QED BY <4>2, <4>3 DEF OdnoNamesOneOrder
    <3>2. CASE ~ \E o \in Odnos : Accepted(p, k, o)
      <4>1. orders[k] \in Order /\ RecordOk(orders[k])
        BY <2>0
      <4>2. PICK n : orders' = [orders EXCEPT ![k] = n] /\ n.odno = orders[k].odno
        <5>1. CASE Intent(p, k)
          <6>1. /\ orders' = [orders EXCEPT ![k] = NewOrder(own[p])]
                /\ orders[k].status = "none"
            BY <5>1 DEF Intent, Commit, Present
          <6>2. NewOrder(own[p]).odno = NoOdno /\ orders[k].odno = NoOdno
            BY <4>1, <6>1 DEF NewOrder, RecordOk
          <6> QED BY <6>1, <6>2
        <5>2. CASE \E status \in Outcomes : Outcome(p, k, status)
          BY <4>1, <5>2 DEF Outcome, Commit, WithOutcome, Order
        <5>3. CASE \E quantity \in 0..Quantity[k], terminal \in BOOLEAN :
                       Observe(p, k, quantity, terminal)
          BY <4>1, <5>3 DEF Observe, Commit, Observed, Order
        <5>4. CASE \E e \in orders[k].executions :
                       ReceiptApplied(p, k, e) \/ ReceiptReturned(p, k, e)
          BY <4>1, <5>4 DEF ReceiptApplied, ReceiptReturned, Commit, WithApplied,
             WithReturned, Order
        <5> QED BY <2>4, <3>2, <5>1, <5>2, <5>3, <5>4 DEF OrderStep
      <4>3. \A j \in Keys : orders'[j].odno = orders[j].odno
        BY <2>0, <4>2
      <4> QED BY <4>3, SameOdnos
    <3> QED BY <3>1, <3>2
  <2> QED BY <2>1, <2>2, <2>3, <2>4 DEF Next
<1> QED BY <1>1, <1>2, LedgerConsistent, PTL DEF Spec

-----------------------------------------------------------------------------
(* The ledger implements ShareDelivery: its initial state maps to an       *)
(* initial state, and each of its steps to a report, to the advance of one *)
(* execution's shares, or to a step that changes no share.                 *)

\* No order has more shares observed than were ordered.
Within == \A k \in Keys : orders[k].observed <= Quantity[k]

\* The stage that an execution gives its shares.
StageIn(e) ==
    CASE e.returned -> "returned"
      [] e.applied /\ ~e.returned -> "applied"
      [] OTHER -> "seen"

Covers(e, u) == e.from < u /\ u <= e.to

-----------------------------------------------------------------------------
(* The mapping on one record *)

\* The stage of a share is that of the execution which covers it.
LEMMA StageOfCovered ==
  ASSUME NEW r \in Order, Tiles(r), NEW e \in r.executions, NEW u \in Nat, Covers(e, u)
  PROVE  StageOf(r, u) = StageIn(e)
<1>1. r.observed \in Nat /\ \A x \in r.executions : x.from \in Nat /\ x.to \in Nat
  BY DEF Order, Execution
<1>2. ~(u > r.observed)
  BY <1>1 DEF Tiles, Covers
<1>3. \A x \in r.executions : x.from < u /\ u <= x.to => x = e
  BY <1>1 DEF Tiles, Covers
<1>4. e = CHOOSE x \in r.executions : x.from < u /\ u <= x.to
  BY <1>3 DEF Covers
<1> QED BY <1>2, <1>4 DEF StageOf, StageIn

\* A share that was observed has an execution.
LEMMA ObservedIsCovered ==
  ASSUME NEW r \in Order, Tiles(r), NEW u \in Nat \ {0}, u <= r.observed
  PROVE  \E e \in r.executions : Covers(e, u)
<1>1. u \in 1..r.observed
  BY DEF Order
<1> QED BY <1>1 DEF Tiles, Covers

\* A share is unseen exactly when it is above the observed quantity.
LEMMA UnseenIsAbove ==
  ASSUME NEW r \in Order, Tiles(r), NEW u \in Nat \ {0}
  PROVE  StageOf(r, u) = "unseen" <=> u > r.observed
<1>1. CASE u > r.observed
  BY <1>1 DEF StageOf
<1>2. CASE u <= r.observed
  <2>1. PICK e \in r.executions : Covers(e, u)
    BY <1>2, ObservedIsCovered
  <2>2. StageOf(r, u) = StageIn(e)
    BY <2>1, StageOfCovered
  <2> QED BY <1>2, <2>2 DEF StageIn, Order
<1> QED BY <1>1, <1>2 DEF Order

\* A record with the same pieces has its shares in the same stages.
LEMMA SameStages ==
  ASSUME NEW r, NEW n, n.observed = r.observed, n.executions = r.executions, NEW u
  PROVE  StageOf(n, u) = StageOf(r, u)
  BY DEF StageOf

\* A record whose pieces include those of r leaves the shares of r where they are.
LEMMA KeptStage ==
  ASSUME NEW r \in Order, Tiles(r), NEW n \in Order, Tiles(n),
         NEW u \in Nat, NEW d \in r.executions, Covers(d, u), d \in n.executions
  PROVE  StageOf(n, u) = StageOf(r, u)
  BY StageOfCovered

\* The stages after an execution e became x: those of e's shares are x's.
LEMMA ReceiptStages ==
  ASSUME NEW r \in Order, Tiles(r), NEW e \in r.executions,
         NEW n \in Order, Tiles(n), n.observed = r.observed,
         NEW x, x.from = e.from, x.to = e.to,
         n.executions = (r.executions \ {e}) \cup {x}, NEW u \in Nat \ {0}
  PROVE  StageOf(n, u) = IF e.from < u /\ u <= e.to THEN StageIn(x) ELSE StageOf(r, u)
<1>1. CASE Covers(e, u)
  <2>1. x \in n.executions /\ Covers(x, u)
    BY <1>1 DEF Covers
  <2> QED BY <1>1, <2>1, StageOfCovered DEF Covers
<1>2. CASE ~Covers(e, u) /\ u <= r.observed
  <2>1. PICK d \in r.executions : Covers(d, u)
    BY <1>2, ObservedIsCovered
  <2>2. d \in n.executions
    BY <1>2, <2>1
  <2> QED BY <1>2, <2>1, <2>2, KeptStage DEF Covers
<1>3. CASE ~Covers(e, u) /\ u > r.observed
  BY <1>3 DEF StageOf, Covers
<1> QED BY <1>1, <1>2, <1>3 DEF Order

\* The stages after _observe: what the report adds is seen.
LEMMA ObservedStages ==
  ASSUME NEW r \in Order, RecordOk(r), NEW full \in Nat, NEW quantity \in 0..full,
         NEW isFinal \in BOOLEAN, Observable(r, quantity, full), NEW u \in Nat \ {0}
  PROVE  StageOf(Observed(r, quantity, isFinal), u) =
             IF u <= quantity /\ StageOf(r, u) = "unseen" THEN "seen" ELSE StageOf(r, u)
<1> DEFINE n == Observed(r, quantity, isFinal)
<1>1. n \in Order /\ Tiles(n) /\ Tiles(r)
  BY ObservedOk DEF RecordOk
<1>2. /\ n.executions = r.executions \cup NewExecutions(r, quantity)
      /\ n.observed = quantity
  BY DEF Observed, Order
<1>3. r.observed \in Nat /\ r.observed <= quantity /\ quantity \in Nat
  BY DEF Observable, Order
<1> HIDE DEF n
<1>4. CASE u <= r.observed
  <2>1. PICK d \in r.executions : Covers(d, u)
    BY <1>1, <1>4, ObservedIsCovered
  <2>2. StageOf(n, u) = StageOf(r, u)
    BY <1>1, <1>2, <2>1, KeptStage
  <2>3. StageOf(r, u) # "unseen"
    BY <1>1, <1>3, <1>4, UnseenIsAbove
  <2> QED BY <2>2, <2>3 DEF n
<1>5. CASE r.observed < u /\ u <= quantity
  <2> DEFINE new == [from |-> r.observed, to |-> quantity,
                     applied |-> FALSE, returned |-> FALSE]
  <2>1. new \in n.executions
    BY <1>2, <1>3, <1>5 DEF NewExecutions
  <2>2. Covers(new, u)
    BY <1>5 DEF Covers
  <2>3. StageIn(new) = "seen"
    BY DEF StageIn
  <2>4. StageOf(n, u) = "seen"
    BY <1>1, <2>1, <2>2, <2>3, StageOfCovered
  <2>5. StageOf(r, u) = "unseen"
    BY <1>1, <1>3, <1>5, UnseenIsAbove
  <2> QED BY <1>5, <2>4, <2>5 DEF n
<1>6. CASE u > quantity
  <2>1. StageOf(n, u) = "unseen" /\ StageOf(r, u) = "unseen"
    BY <1>2, <1>3, <1>6 DEF StageOf
  <2> QED BY <1>3, <1>6, <2>1 DEF n
<1> QED BY <1>3, <1>4, <1>5, <1>6

-----------------------------------------------------------------------------
(* Steps of an order as steps of ShareDelivery *)

\* The values of ShareDelivery's variables.
ShareStages == [k \in Keys |-> [u \in 1..Quantity[k] |-> StageOf(orders[k], u)]]
Finals == [k \in Keys |-> orders[k].terminal # NotTerminal]

\* A change of one record that adds the shares up to `upto` is a Report.
LEMMA IsReport ==
  ASSUME NEW k \in Keys, orders \in [Keys -> Order], NEW n \in Order,
         orders' = [orders EXCEPT ![k] = n],
         NEW upto \in Nat, NEW isFinal \in BOOLEAN,
         orders[k].terminal # NotTerminal =>
             \A u \in 1..upto : StageOf(orders[k], u) # "unseen",
         upto <= Quantity[k],
         \A u \in 1..Quantity[k] :
             StageOf(n, u) = IF u <= upto /\ StageOf(orders[k], u) = "unseen"
                             THEN "seen" ELSE StageOf(orders[k], u),
         n.terminal # NotTerminal <=> orders[k].terminal # NotTerminal \/ isFinal
  PROVE  Delivery!Report(k, upto, isFinal)
<1> DEFINE to == [u \in 1..Quantity[k] |->
                     IF u <= upto /\ StageOf(orders[k], u) = "unseen"
                     THEN "seen" ELSE StageOf(orders[k], u)]
<1>1. orders'[k] = n /\ \A j \in Keys \ {k} : orders'[j] = orders[j]
  OBVIOUS
<1>2. ShareStages' = [ShareStages EXCEPT ![k] = to]
  <2>1. [u \in 1..Quantity[k] |-> StageOf(n, u)] = to
    OBVIOUS
  <2> HIDE DEF to
  <2> QED BY <1>1, <2>1 DEF ShareStages
<1>3. to = [u \in 1..Quantity[k] |->
              IF u <= upto /\ ShareStages[k][u] = "unseen" THEN "seen" ELSE ShareStages[k][u]]
  BY DEF ShareStages
<1>4. Finals' = [Finals EXCEPT ![k] = Finals[k] \/ isFinal]
  <2>1. (n.terminal # NotTerminal) = (orders[k].terminal # NotTerminal \/ isFinal)
    OBVIOUS
  <2> QED BY <1>1, <2>1 DEF Finals
<1>5. Finals[k] => \A u \in 1..upto : ShareStages[k][u] # "unseen"
  <2>1. Quantity[k] \in Nat
    BY FactsAssumption
  <2>2. \A u \in 1..upto : u \in 1..Quantity[k]
    BY <2>1
  <2> QED BY <2>2 DEF ShareStages, Finals
<1> HIDE DEF to
<1> QED BY <1>2, <1>3, <1>4, <1>5 DEF Delivery!Report, ShareStages, Finals

\* A change of one record that moves the shares of one execution is an Advance.
LEMMA IsAdvance ==
  ASSUME NEW k \in Keys, orders \in [Keys -> Order], NEW n \in Order,
         orders' = [orders EXCEPT ![k] = n],
         NEW low \in Nat, NEW high \in Nat, high <= Quantity[k], NEW was, NEW now,
         \A u \in (low + 1)..high : StageOf(orders[k], u) = was,
         \A u \in 1..Quantity[k] :
             StageOf(n, u) = IF low < u /\ u <= high THEN now ELSE StageOf(orders[k], u),
         n.terminal = orders[k].terminal
  PROVE  Delivery!Advance(k, low, high, was, now)
<1> DEFINE to == [u \in 1..Quantity[k] |->
                     IF low < u /\ u <= high THEN now ELSE StageOf(orders[k], u)]
<1>1. orders'[k] = n /\ \A j \in Keys \ {k} : orders'[j] = orders[j]
  OBVIOUS
<1>2. ShareStages' = [ShareStages EXCEPT ![k] = to]
  <2>1. [u \in 1..Quantity[k] |-> StageOf(n, u)] = to
    OBVIOUS
  <2> HIDE DEF to
  <2> QED BY <1>1, <2>1 DEF ShareStages
<1>3. to = [u \in 1..Quantity[k] |-> IF low < u /\ u <= high THEN now ELSE ShareStages[k][u]]
  BY DEF ShareStages
<1>4. Finals' = Finals
  BY <1>1 DEF Finals
<1>5. \A u \in (low + 1)..high : ShareStages[k][u] = was
  <2>1. Quantity[k] \in Nat
    BY FactsAssumption
  <2>2. \A u \in (low + 1)..high : u \in 1..Quantity[k]
    BY <2>1
  <2> QED BY <2>2 DEF ShareStages
<1> HIDE DEF to
<1> QED BY <1>2, <1>3, <1>4, <1>5 DEF Delivery!Advance, ShareStages, Finals

\* A change that moves no share and settles no order is a stutter.
LEMMA IsStutter ==
  ASSUME \A k \in Keys :
            /\ \A u \in 1..Quantity[k] : StageOf(orders'[k], u) = StageOf(orders[k], u)
            /\ orders'[k].terminal # NotTerminal <=> orders[k].terminal # NotTerminal
  PROVE  UNCHANGED Delivery!vars
  BY DEF Delivery!vars

\* An operation of the ledger leaves the shares of every order but one alone.
LEMMA StutterOfOne ==
  ASSUME NEW k \in Keys, orders \in [Keys -> Order], NEW n \in Order,
         orders' = [orders EXCEPT ![k] = n],
         \A u \in 1..Quantity[k] : StageOf(n, u) = StageOf(orders[k], u),
         n.terminal # NotTerminal <=> orders[k].terminal # NotTerminal
  PROVE  UNCHANGED Delivery!vars
<1>1. orders'[k] = n /\ \A j \in Keys \ {k} : orders'[j] = orders[j]
  OBVIOUS
<1> QED BY <1>1, IsStutter

-----------------------------------------------------------------------------
(* The operations on one order *)

\* _observe is a Report.
LEMMA ObserveMaps ==
  ASSUME Consistent, NEW p \in Procs, NEW k \in Keys,
         NEW quantity \in 0..Quantity[k], NEW terminal \in BOOLEAN,
         Observe(p, k, quantity, terminal)
  PROVE  Delivery!Next
<1> DEFINE r == orders[k]
           isFinal == terminal \/ quantity = Quantity[k]
           n == Observed(r, quantity, isFinal)
<1>1. r \in Order /\ RecordOk(r) /\ Tiles(r) /\ Quantity[k] \in Nat /\ orders \in [Keys -> Order]
  BY FactsAssumption DEF Consistent, TypeOK, RecordOk
<1>2. isFinal \in BOOLEAN /\ Observable(r, quantity, Quantity[k])
      /\ orders' = [orders EXCEPT ![k] = n]
  BY DEF Observe, Commit
<1> HIDE DEF isFinal
<1>3. n \in Order
  BY <1>1, <1>2, ObservedOk
<1>4. \A u \in 1..Quantity[k] :
         StageOf(n, u) = IF u <= quantity /\ StageOf(r, u) = "unseen"
                         THEN "seen" ELSE StageOf(r, u)
  BY <1>1, <1>2, ObservedStages
<1>5. r.terminal # NotTerminal => \A u \in 1..quantity : StageOf(r, u) # "unseen"
  <2> SUFFICES ASSUME r.terminal # NotTerminal, NEW u \in 1..quantity
               PROVE  StageOf(r, u) # "unseen"
    OBVIOUS
  <2>1. quantity = r.observed /\ u \in Nat \ {0}
    BY <1>1, <1>2 DEF Observable, RecordOk
  <2> QED BY <1>1, <2>1, UnseenIsAbove
<1>6. n.terminal # NotTerminal <=> r.terminal # NotTerminal \/ isFinal
  <2>1. n.terminal = IF isFinal THEN quantity ELSE r.terminal
    BY <1>1 DEF Observed, Order
  <2> QED BY <1>1, <2>1 DEF NotTerminal
<1>7. quantity \in Nat /\ quantity <= Quantity[k]
  BY <1>1
<1> HIDE DEF r, n
<1>8. Delivery!Report(k, quantity, isFinal)
  BY <1>1, <1>2, <1>3, <1>4, <1>5, <1>6, <1>7, IsReport DEF r
<1> QED BY <1>2, <1>8 DEF Delivery!Next

\* outcome() settles an order without shares, or only changes its status.
LEMMA OutcomeMaps ==
  ASSUME Consistent, NEW p \in Procs, NEW k \in Keys, NEW status \in Outcomes,
         Outcome(p, k, status)
  PROVE  Delivery!Next \/ UNCHANGED Delivery!vars
<1> DEFINE r == orders[k]
           n == WithOutcome(r, status)
<1>1. r \in Order /\ RecordOk(r) /\ Quantity[k] \in Nat /\ orders \in [Keys -> Order]
  BY FactsAssumption DEF Consistent, TypeOK
<1>2. orders' = [orders EXCEPT ![k] = n] /\ OutcomeAllowed(r, status) /\ Present(r)
  BY DEF Outcome, Commit, Owns
<1>3. n \in Order /\ n.executions = r.executions /\ n.observed = r.observed
      /\ n.terminal = IF status \in {"not_sent", "rejected"} THEN 0 ELSE r.terminal
  BY <1>1, <1>2, OutcomeOk DEF WithOutcome, Order
<1>4. \A u \in 1..Quantity[k] : StageOf(n, u) = StageOf(r, u)
  BY <1>3, SameStages
<1> HIDE DEF r, n
<1>5. CASE status \in {"not_sent", "rejected"}
  <2> DEFINE none == 0
             settled == TRUE
  <2>1. /\ none \in Nat /\ none <= Quantity[k] /\ none \in 0..Quantity[k]
        /\ settled \in BOOLEAN /\ \A u \in 1..none : FALSE
    BY <1>1
  <2>2. n.terminal # NotTerminal <=> r.terminal # NotTerminal \/ settled
    BY <1>3, <1>5 DEF NotTerminal
  <2>3. \A u \in 1..Quantity[k] :
           StageOf(n, u) = IF u <= none /\ StageOf(r, u) = "unseen"
                           THEN "seen" ELSE StageOf(r, u)
    BY <1>1, <1>4
  <2> HIDE DEF none, settled
  <2>4. Delivery!Report(k, none, settled)
    BY <1>1, <1>2, <1>3, <2>1, <2>2, <2>3, IsReport DEF r
  <2> QED BY <2>1, <2>4 DEF Delivery!Next
<1>6. CASE status \notin {"not_sent", "rejected"}
  <2>1. n.terminal = r.terminal
    BY <1>3, <1>6
  <2> QED BY <1>1, <1>2, <1>3, <1>4, <2>1, StutterOfOne DEF r
<1> QED BY <1>5, <1>6

\* A receipt that is new moves its execution's shares, and one that is repeated none.
LEMMA ReceiptMaps ==
  ASSUME Consistent, Within, NEW p \in Procs, NEW k \in Keys,
         NEW e \in orders[k].executions,
         ReceiptApplied(p, k, e) \/ ReceiptReturned(p, k, e)
  PROVE  Delivery!Next \/ UNCHANGED Delivery!vars
<1> DEFINE r == orders[k]
<1>1. r \in Order /\ RecordOk(r) /\ Tiles(r) /\ Quantity[k] \in Nat /\ orders \in [Keys -> Order]
      /\ r.observed \in Nat /\ r.observed <= Quantity[k]
  BY FactsAssumption DEF Consistent, TypeOK, RecordOk, Within, Order
<1>2. e \in r.executions /\ e \in Execution /\ e.from \in Nat /\ e.to \in Nat
      /\ e.applied \in BOOLEAN /\ e.returned \in BOOLEAN
  BY <1>1 DEF Order, Execution
<1>3. e.from \in 0..Quantity[k] /\ e.to \in 0..Quantity[k] /\ e.to <= Quantity[k]
  <2>1. e.from < e.to /\ e.to <= r.observed
    BY <1>1, <1>2 DEF Tiles
  <2> QED BY <1>1, <1>2, <2>1
<1>4. \A u \in (e.from + 1)..e.to : StageOf(r, u) = StageIn(e)
  <2> TAKE u \in (e.from + 1)..e.to
  <2>1. u \in Nat /\ Covers(e, u)
    BY <1>2 DEF Covers
  <2> QED BY <1>1, <1>2, <2>1, StageOfCovered
<1>5. ASSUME NEW n \in Order, Tiles(n), NEW x \in Execution,
             orders' = [orders EXCEPT ![k] = n],
             n.observed = r.observed, n.terminal = r.terminal,
             x.from = e.from, x.to = e.to,
             n.executions = (r.executions \ {e}) \cup {x},
             \/ StageIn(x) = StageIn(e)
             \/ StageIn(e) = "seen" /\ StageIn(x) = "applied"
             \/ StageIn(e) = "applied" /\ StageIn(x) = "returned"
      PROVE  Delivery!Next \/ UNCHANGED Delivery!vars
  <2>1. \A u \in 1..Quantity[k] :
           StageOf(n, u) = IF e.from < u /\ u <= e.to THEN StageIn(x) ELSE StageOf(r, u)
    BY <1>1, <1>2, <1>5, ReceiptStages
  <2>2. CASE StageIn(x) = StageIn(e)
    <3>1. \A u \in 1..Quantity[k] : StageOf(n, u) = StageOf(r, u)
      <4> TAKE u \in 1..Quantity[k]
      <4>1. CASE e.from < u /\ u <= e.to
        <5>1. u \in (e.from + 1)..e.to
          BY <1>1, <1>2, <4>1
        <5> QED BY <1>4, <2>1, <2>2, <4>1, <5>1
      <4> QED BY <2>1, <4>1
    <3> QED BY <1>1, <1>5, <3>1, StutterOfOne
  <2>3. CASE StageIn(x) # StageIn(e)
    <3>1. Delivery!Advance(k, e.from, e.to, StageIn(e), StageIn(x))
      BY <1>1, <1>2, <1>3, <1>4, <1>5, <2>1, IsAdvance
    <3> QED BY <1>3, <1>5, <2>3, <3>1 DEF Delivery!Next
  <2> QED BY <2>2, <2>3
<1>6. CASE ReceiptApplied(p, k, e)
  <2> DEFINE x == [e EXCEPT !.applied = TRUE]
             n == WithApplied(r, e)
  <2>1. x \in Execution /\ x.from = e.from /\ x.to = e.to /\ x.applied /\ x.returned = e.returned
    BY <1>2 DEF Execution
  <2>2. /\ n \in Order /\ Tiles(n) /\ n.observed = r.observed /\ n.terminal = r.terminal
        /\ n.executions = (r.executions \ {e}) \cup {x}
    BY <1>1, <1>2, AppliedOk DEF WithApplied, Order, RecordOk
  <2>3. orders' = [orders EXCEPT ![k] = n]
    BY <1>6 DEF ReceiptApplied, Commit
  <2>4. StageIn(x) = StageIn(e) \/ (StageIn(e) = "seen" /\ StageIn(x) = "applied")
    BY <1>2, <2>1 DEF StageIn
  <2> HIDE DEF r, n, x
  <2> QED BY <1>5, <2>1, <2>2, <2>3, <2>4
<1>7. CASE ReceiptReturned(p, k, e)
  <2> DEFINE x == [e EXCEPT !.returned = TRUE]
             n == WithReturned(r, e)
  <2>1. x \in Execution /\ x.from = e.from /\ x.to = e.to /\ x.applied = e.applied /\ x.returned
    BY <1>2 DEF Execution
  <2>2. /\ n \in Order /\ Tiles(n) /\ n.observed = r.observed /\ n.terminal = r.terminal
        /\ n.executions = (r.executions \ {e}) \cup {x}
    BY <1>1, <1>2, ReturnedOk DEF WithReturned, Order, RecordOk
  <2>3. orders' = [orders EXCEPT ![k] = n] /\ e.applied
    BY <1>7 DEF ReceiptReturned, Commit, MayReturn
  <2>4. StageIn(x) = StageIn(e) \/ (StageIn(e) = "applied" /\ StageIn(x) = "returned")
    BY <1>2, <2>1, <2>3 DEF StageIn
  <2> HIDE DEF r, n, x
  <2> QED BY <1>5, <2>1, <2>2, <2>3, <2>4
<1> QED BY <1>6, <1>7

\* The operations that only touch the row, its number or its status.
LEMMA SilentMaps ==
  ASSUME Consistent, NEW p \in Procs, NEW k \in Keys,
         Intent(p, k) \/ \E o \in Odnos : Accepted(p, k, o)
  PROVE  UNCHANGED Delivery!vars
<1> DEFINE r == orders[k]
<1>1. r \in Order /\ RecordOk(r) /\ orders \in [Keys -> Order]
  BY DEF Consistent, TypeOK
<1>2. CASE Intent(p, k)
  <2> DEFINE n == NewOrder(own[p])
  <2>1. orders' = [orders EXCEPT ![k] = n] /\ r.status = "none" /\ own[p] \in Nat \ {0}
    BY <1>2, WriterIsLatest DEF Intent, Commit, Present
  <2>2. n \in Order /\ n.observed = 0 /\ n.terminal = NotTerminal /\ n.executions = {}
    BY <2>1, NewOrderOk DEF NewOrder
  <2>3. r.observed = 0 /\ r.terminal = NotTerminal /\ r.executions = {}
    BY <1>1, <2>1 DEF RecordOk
  <2>4. \A u \in 1..Quantity[k] : StageOf(n, u) = StageOf(r, u)
    BY <2>2, <2>3, SameStages
  <2> HIDE DEF n
  <2> QED BY <1>1, <2>1, <2>2, <2>3, <2>4, StutterOfOne
<1>3. ASSUME NEW o \in Odnos, Accepted(p, k, o)
      PROVE  UNCHANGED Delivery!vars
  <2> DEFINE n == [r EXCEPT !.odno = o, !.status = "accepted"]
  <2>1. orders' = [orders EXCEPT ![k] = n]
    BY <1>3 DEF Accepted, Commit
  <2>2. n \in Order /\ n.observed = r.observed /\ n.terminal = r.terminal
        /\ n.executions = r.executions
    BY <1>1, <1>3 DEF Order, Statuses
  <2>3. \A u \in 1..Quantity[k] : StageOf(n, u) = StageOf(r, u)
    BY <2>2, SameStages
  <2> HIDE DEF n
  <2> QED BY <1>1, <2>1, <2>2, <2>3, StutterOfOne
<1> QED BY <1>2, <1>3

-----------------------------------------------------------------------------
(* Every step *)

\* The operations that leave every order's shares alone.
LEMMA SessionStepMaps ==
  ASSUME Consistent, NEW p \in Procs,
         Open(p) \/ Acknowledge(p) \/ Close(p) \/ StorageFault(p) \/ Exit(p)
  PROVE  /\ \A k \in Keys : /\ orders'[k].observed = orders[k].observed
                            /\ orders'[k].executions = orders[k].executions
                            /\ orders'[k].terminal = orders[k].terminal
         /\ UNCHANGED Delivery!vars
<1>1. \A k \in Keys : /\ orders'[k].observed = orders[k].observed
                      /\ orders'[k].executions = orders[k].executions
                      /\ orders'[k].terminal = orders[k].terminal
  <2>1. CASE Acknowledge(p)
    <3> TAKE k \in Keys
    <3>1. orders'[k] = AcknowledgedOrder(own[p], orders[k]) /\ orders[k] \in Order
      BY <2>1 DEF Acknowledge, Consistent, TypeOK
    <3> QED BY <3>1 DEF AcknowledgedOrder, Order
  <2>2. CASE ~Acknowledge(p)
    BY <2>2 DEF Open, Close, StorageFault, Exit
  <2> QED BY <2>1, <2>2
<1>2. \A k \in Keys : \A u \in 1..Quantity[k] : StageOf(orders'[k], u) = StageOf(orders[k], u)
  BY <1>1, SameStages
<1> QED BY <1>1, <1>2, IsStutter

\* An operation on one order observes no more than was ordered.
LEMMA OrderStepWithin ==
  ASSUME Consistent, Within, NEW p \in Procs, NEW k \in Keys, OrderStep(p, k)
  PROVE  Within'
<1>1. orders[k] \in Order /\ Quantity[k] \in Nat /\ orders \in [Keys -> Order]
      /\ orders[k].observed <= Quantity[k]
  BY FactsAssumption DEF Consistent, TypeOK, Within
<1>2. ASSUME NEW n, orders' = [orders EXCEPT ![k] = n],
             n.observed = orders[k].observed \/ n.observed \in 0..Quantity[k]
      PROVE  Within'
  BY <1>1, <1>2 DEF Within
<1>3. CASE Intent(p, k)
  <2> DEFINE n == NewOrder(own[p])
  <2>1. orders' = [orders EXCEPT ![k] = n] /\ n.observed = 0
    BY <1>3 DEF Intent, Commit, NewOrder
  <2> HIDE DEF n
  <2>2. n.observed \in 0..Quantity[k]
    BY <1>1, <2>1
  <2> QED BY <1>2, <2>1, <2>2
<1>4. ASSUME NEW o \in Odnos, Accepted(p, k, o) PROVE Within'
  <2> DEFINE n == [orders[k] EXCEPT !.odno = o, !.status = "accepted"]
  <2>1. orders' = [orders EXCEPT ![k] = n] /\ n.observed = orders[k].observed
    BY <1>1, <1>4 DEF Accepted, Commit, Order
  <2> HIDE DEF n
  <2> QED BY <1>2, <2>1
<1>5. ASSUME NEW status \in Outcomes, Outcome(p, k, status) PROVE Within'
  <2> DEFINE n == WithOutcome(orders[k], status)
  <2>1. orders' = [orders EXCEPT ![k] = n] /\ n.observed = orders[k].observed
    BY <1>1, <1>5 DEF Outcome, Commit, WithOutcome, Order
  <2> HIDE DEF n
  <2> QED BY <1>2, <2>1
<1>6. ASSUME NEW quantity \in 0..Quantity[k], NEW terminal \in BOOLEAN,
             Observe(p, k, quantity, terminal)
      PROVE  Within'
  <2> DEFINE n == Observed(orders[k], quantity, terminal \/ quantity = Quantity[k])
  <2>1. orders' = [orders EXCEPT ![k] = n] /\ n.observed = quantity
    BY <1>1, <1>6 DEF Observe, Commit, Observed, Order
  <2> HIDE DEF n
  <2> QED BY <1>2, <2>1
<1>7. ASSUME NEW e \in orders[k].executions, ReceiptApplied(p, k, e) PROVE Within'
  <2> DEFINE n == WithApplied(orders[k], e)
  <2>1. orders' = [orders EXCEPT ![k] = n] /\ n.observed = orders[k].observed
    BY <1>1, <1>7 DEF ReceiptApplied, Commit, WithApplied, Order
  <2> HIDE DEF n
  <2> QED BY <1>2, <2>1
<1>8. ASSUME NEW e \in orders[k].executions, ReceiptReturned(p, k, e) PROVE Within'
  <2> DEFINE n == WithReturned(orders[k], e)
  <2>1. orders' = [orders EXCEPT ![k] = n] /\ n.observed = orders[k].observed
    BY <1>1, <1>8 DEF ReceiptReturned, Commit, WithReturned, Order
  <2> HIDE DEF n
  <2> QED BY <1>2, <2>1
<1> QED BY <1>3, <1>4, <1>5, <1>6, <1>7, <1>8 DEF OrderStep

\* A step leaves no order with more shares observed than were ordered.
LEMMA StepWithin ==
  ASSUME Consistent, Within, [Next]_ledgerVars
  PROVE  Within'
<1>1. CASE UNCHANGED ledgerVars
  BY <1>1 DEF Within, ledgerVars
<1>2. ASSUME NEW p \in Procs,
             Open(p) \/ Acknowledge(p) \/ Close(p) \/ StorageFault(p) \/ Exit(p)
      PROVE  Within'
  <2>1. \A k \in Keys : orders'[k].observed = orders[k].observed
    BY <1>2, SessionStepMaps
  <2> QED BY <2>1 DEF Within
<1> QED BY <1>1, <1>2, OrderStepWithin DEF Next

\* No order has more shares observed than were ordered, in every run.
THEOREM LedgerWithin == Spec => []Within
<1>1. Init => Within
  <2> SUFFICES ASSUME Init, NEW k \in Keys PROVE orders[k].observed <= Quantity[k]
    BY DEF Within
  <2>1. orders[k].observed = 0 /\ Quantity[k] \in Nat
    BY FactsAssumption DEF Init, Absent
  <2> QED BY <2>1
<1>2. Consistent /\ Within /\ [Next]_ledgerVars => Within'
  BY StepWithin
<1> QED BY <1>1, <1>2, LedgerConsistent, PTL DEF Spec

\* Orders without a record are shares that nobody has seen.
LEMMA AbsentIsUnseen ==
  ASSUME \A k \in Keys : orders[k] = Absent
  PROVE  Delivery!Init
<1>1. \A u \in Nat \ {0} : StageOf(Absent, u) = "unseen"
  BY DEF StageOf, Absent
<1>2. \A k \in Keys : \A u \in 1..Quantity[k] : StageOf(orders[k], u) = "unseen"
  BY <1>1, FactsAssumption
<1>3. \A k \in Keys : (orders[k].terminal # NotTerminal) = FALSE
  BY DEF Absent
<1> QED BY <1>2, <1>3 DEF Delivery!Init

\* A step of the ledger is one of ShareDelivery, or a stutter.
LEMMA StepDelivers ==
  ASSUME Consistent, Within, [Next]_ledgerVars
  PROVE  [Delivery!Next]_(Delivery!vars)
<1>1. CASE UNCHANGED ledgerVars
  BY <1>1, IsStutter DEF ledgerVars
<1>2. ASSUME NEW p \in Procs,
             Open(p) \/ Acknowledge(p) \/ Close(p) \/ StorageFault(p) \/ Exit(p)
      PROVE  UNCHANGED Delivery!vars
  BY <1>2, SessionStepMaps
<1>3. ASSUME NEW p \in Procs, NEW k \in Keys, OrderStep(p, k)
      PROVE  Delivery!Next \/ UNCHANGED Delivery!vars
  BY <1>3, SilentMaps, OutcomeMaps, ObserveMaps, ReceiptMaps DEF OrderStep
<1> QED BY <1>1, <1>2, <1>3 DEF Next

\* The ledger implements ShareDelivery: a share is seen, applied and returned
\* once each, in that order, whatever crashes, faults and fencing do.
THEOREM LedgerImplementsShareDelivery == Spec => ImplementsShareDelivery
<1>1. Init => Delivery!Init
  BY AbsentIsUnseen DEF Init
<1>2. Consistent /\ Within /\ [Next]_ledgerVars => [Delivery!Next]_(Delivery!vars)
  BY StepDelivers
<1> QED BY <1>1, <1>2, LedgerConsistent, LedgerWithin, PTL
        DEF Spec, ImplementsShareDelivery, Delivery!Spec

-----------------------------------------------------------------------------
(* Part 2: the history *)

Locked == \A p \in Procs : holder # p => own[p] = 0 /\ ~fault[p]

Latest == \A p \in Procs : own[p] # 0 => own[p] = Len(sessions)

AtRest ==
    holder # Bot => ~opened /\ ~closed /\ ~histFault /\ snap = Unopened /\ writing = Nobody

\* The record of k is committed and its snapshot is awaited.  A fill leaves the
\* session and the status of its order as they were.
Recording(k) ==
    \/ writing = k
    \/ /\ writing = "fill"
       /\ orders[k].session = snap.orders[k].session
       /\ orders[k].status = snap.orders[k].status

Behind ==
    opened /\ ~histFault =>
        /\ ~fault[Bot]
        /\ snap.prior = sessions[own[Bot]].priorUnclean
        /\ \A k \in Keys : snap.orders[k] = orders[k] \/ Recording(k)

Inv ==
    /\ Consistent /\ HistTypeOK
    /\ Locked /\ Latest /\ AtRest
    /\ opened => own[Bot] # 0
    /\ closed => opened
    /\ writing # Nobody => opened
    /\ Behind

-----------------------------------------------------------------------------
(* What a ledger operation of one process leaves alone *)

\* The memory of every process but p is what it was.
Only(p) == \A q \in Procs \ {p} : own'[q] = own[q] /\ fault'[q] = fault[q]

\* A step of the process that holds the lock keeps the lock's promise.
LEMMA LockKept ==
  ASSUME Locked, Latest, NEW p \in Procs, holder = p, Only(p),
         own'[p] # 0 => own'[p] = Len(sessions'),
         holder' = p \/ (own'[p] = 0 /\ ~fault'[p])
  PROVE  Locked' /\ Latest'
  BY DEF Locked, Latest, Only

\* A cancelled task marks its own process only.
LEMMA OutlivedOnly ==
  ASSUME TypeOK, NEW p \in Procs, Outlived(p), own' = own
  PROVE  Only(p)
  BY DEF TypeOK, Outlived, Only

\* An operation on one order rewrites that order and nothing else.
LEMMA OrderStepFrame ==
  ASSUME TypeOK, NEW p \in Procs, NEW k \in Keys, OrderStep(p, k)
  PROVE  /\ Writer(p) /\ sessions' = sessions /\ own' = own /\ Only(p)
         /\ \A j \in Keys \ {k} : orders'[j] = orders[j]
  BY OutlivedOnly DEF OrderStep, Intent, Accepted, Outcome, Observe, ReceiptApplied,
     ReceiptReturned, Commit, TypeOK

\* What the fill check writes: a report, or a receipt.
FillStep(k) ==
    \/ \E quantity \in 0..Quantity[k], terminal \in BOOLEAN : Observe(Bot, k, quantity, terminal)
    \/ \E e \in orders[k].executions : ReceiptApplied(Bot, k, e) \/ ReceiptReturned(Bot, k, e)

\* A report or a receipt keeps the session and the status of its order.
LEMMA FillStepFrame ==
  ASSUME TypeOK, NEW k \in Keys, FillStep(k)
  PROVE  /\ OrderStep(Bot, k)
         /\ orders'[k].session = orders[k].session
         /\ orders'[k].status = orders[k].status
<1>1. orders \in [Keys -> Order]
  BY DEF TypeOK
<1>2. ASSUME NEW quantity, NEW isFinal
      PROVE  LET n == Observed(orders[k], quantity, isFinal)
             IN  n.session = orders[k].session /\ n.status = orders[k].status
  BY <1>1 DEF Observed, Order
<1>3. ASSUME NEW e
      PROVE  /\ WithApplied(orders[k], e).session = orders[k].session
             /\ WithApplied(orders[k], e).status = orders[k].status
             /\ WithReturned(orders[k], e).session = orders[k].session
             /\ WithReturned(orders[k], e).status = orders[k].status
  BY <1>1 DEF WithApplied, WithReturned, Order
<1> QED BY <1>1, <1>2, <1>3 DEF FillStep, OrderStep, Observe, ReceiptApplied, ReceiptReturned, Commit

\* A session opened by p is the newest, or p does not own it.
LEMMA OpenFrame ==
  ASSUME TypeOK, NEW p \in Procs, Open(p)
  PROVE  /\ orders' = orders /\ Only(p)
         /\ \/ own'[p] = Len(sessions') /\ own'[p] # 0
            \/ own'[p] = 0 /\ fault'[p]
         /\ \A i \in DOMAIN sessions : i \in DOMAIN sessions' /\ sessions'[i] = sessions[i]
<1> DEFINE s == [clean |-> FALSE, priorUnclean |-> InheritsUnclean, acknowledged |-> FALSE]
<1>1. sessions \in Seq(Session) /\ s \in Session /\ sessions' = Append(sessions, s)
  BY DEF Open, TypeOK, Session, InheritsUnclean
<1> HIDE DEF s
<1>2. /\ Len(sessions') = Len(sessions) + 1 /\ Len(sessions) \in Nat
      /\ \A i \in DOMAIN sessions : i \in DOMAIN sessions' /\ sessions'[i] = sessions[i]
  BY <1>1
<1>3. own \in [Procs -> 0..Len(sessions)] /\ fault \in [Procs -> BOOLEAN]
  BY DEF TypeOK
<1> QED BY <1>2, <1>3 DEF Open, Outlived, Only

\* Closing marks the session clean and changes nothing else.
LEMMA CloseFrame ==
  ASSUME TypeOK, NEW p \in Procs, Close(p)
  PROVE  /\ Writer(p) /\ orders' = orders /\ own' = own /\ Only(p)
         /\ Len(sessions') = Len(sessions)
         /\ \A i \in DOMAIN sessions : sessions'[i].priorUnclean = sessions[i].priorUnclean
<1>1. sessions' = [sessions EXCEPT ![own[p]].clean = TRUE] /\ sessions \in Seq(Session)
  BY DEF Close, TypeOK
<1>2. \A i \in DOMAIN sessions : sessions[i] \in Session
  BY <1>1
<1>3. /\ Len(sessions') = Len(sessions)
      /\ \A i \in DOMAIN sessions : sessions'[i].priorUnclean = sessions[i].priorUnclean
  BY <1>1, <1>2 DEF Session
<1> QED BY <1>3, OutlivedOnly DEF Close

\* Acknowledging keeps the number of sessions.
LEMMA AcknowledgeFrame ==
  ASSUME TypeOK, NEW p \in Procs, Acknowledge(p)
  PROVE  own' = own /\ Only(p) /\ Len(sessions') = Len(sessions)
  BY OutlivedOnly DEF Acknowledge, TypeOK

\* A storage fault changes no record and no other process's memory.
LEMMA StorageFaultFrame ==
  ASSUME TypeOK, NEW p \in Procs, StorageFault(p)
  PROVE  own' = own /\ Only(p) /\ sessions' = sessions /\ orders' = orders
  BY DEF StorageFault, TypeOK, Only

\* A process that ends takes its own memory along and nothing else.
LEMMA ExitFrame ==
  ASSUME TypeOK, NEW p \in Procs, Exit(p)
  PROVE  /\ own'[p] = 0 /\ ~fault'[p] /\ Only(p)
         /\ sessions' = sessions /\ orders' = orders
  BY DEF Exit, TypeOK, Only

-----------------------------------------------------------------------------
(* The steps of the history *)

\* The two processes, and what is none of them.
LEMMA Names == Bot \in Procs /\ Operator \in Procs /\ Bot # Operator /\ Nobody \notin Procs
               /\ Nobody \notin Keys /\ Nobody # "close" /\ Nobody # "fill"
  BY ProcsAssumption

\* Every step of the history is a step of the ledger or leaves the ledger alone.
LEMMA HistoryIsLedger == [HistNext]_vars => [Next]_ledgerVars
<1> SUFFICES ASSUME [HistNext]_vars PROVE [Next]_ledgerVars
  OBVIOUS
<1>1. CASE UNCHANGED vars
  BY <1>1 DEF vars, ledgerVars
<1>2. ASSUME NEW p \in Procs, Start(p) PROVE [Next]_ledgerVars
  BY <1>2 DEF Start
<1>3. CASE Fail
  BY <1>3 DEF Fail
<1>4. CASE OpenHistory
  BY <1>4, Names DEF OpenHistory, Next
<1>5. ASSUME NEW k \in Keys, Write(k) PROVE [Next]_ledgerVars
  BY <1>5, Names DEF Write, Next
<1>6. ASSUME NEW k \in Keys, WriteFill(k) PROVE [Next]_ledgerVars
  BY <1>6, Names DEF WriteFill, OrderStep, Next
<1>7. CASE CloseHistory
  BY <1>7, Names DEF CloseHistory, Next
<1>8. CASE RefuseWrite \/ RefreshFails
  BY <1>8, Names DEF RefuseWrite, RefreshFails, Next
<1>9. CASE Refresh
  BY <1>9 DEF Refresh
<1>10. CASE BotExits
  BY <1>10, Names DEF BotExits, Next
<1>11. CASE OperatorStep
  BY <1>11, Names DEF OperatorStep, Next
<1>12. CASE OperatorExits
  BY <1>12, Names DEF OperatorExits, Next
<1> QED BY <1>1, <1>2, <1>3, <1>4, <1>5, <1>6, <1>7, <1>8, <1>9, <1>10, <1>11, <1>12 DEF HistNext

\* A snapshot of the ledger has the type of the cache.
LEMMA SnapshotTyped ==
  ASSUME TypeOK, NEW i \in DOMAIN sessions
  PROVE  [prior |-> sessions[i].priorUnclean, orders |-> orders]
            \in [prior : BOOLEAN, orders : [Keys -> Order]]
<1>1. sessions[i] \in Session
  BY DEF TypeOK
<1> QED BY <1>1 DEF TypeOK, Session

\* A session that a process owns is in the table.
LEMMA OwnedExists ==
  ASSUME TypeOK, NEW p \in Procs, own[p] # 0
  PROVE  own[p] \in DOMAIN sessions
  BY DEF TypeOK

\* The start of a process, which takes the lock.
LEMMA StartKeeps ==
  ASSUME Inv, NEW p \in Procs, Start(p), Consistent'
  PROVE  Inv'
<1>1. HistTypeOK'
  BY DEF Inv, HistTypeOK, Start
<1>2. Locked' /\ Latest'
  BY Names DEF Inv, Locked, Latest, Start, ledgerVars
<1>3. ~opened /\ ~closed /\ ~histFault /\ snap = Unopened /\ writing = Nobody
  BY Names DEF Inv, AtRest, Start
<1> QED BY <1>1, <1>2, <1>3 DEF Inv, AtRest, Behind, Start, Unopened, NoOrders

\* A fault that latches, an operation that is refused, a snapshot that fails.
LEMMA FaultsKeep ==
  ASSUME Inv, Fail \/ RefuseWrite \/ RefreshFails, Consistent'
  PROVE  Inv'
<1>1. /\ holder = Bot /\ holder' = Bot /\ histFault' = TRUE
      /\ UNCHANGED <<opened, closed, snap>> /\ writing' \in {writing, Nobody}
  BY DEF Fail, RefuseWrite, RefreshFails, MayWrite, Running
<1>2. own' = own /\ sessions' = sessions /\ Only(Bot)
  BY StorageFaultFrame, Names DEF Inv, Consistent, Fail, RefuseWrite, RefreshFails, ledgerVars, Only
<1>3. Locked' /\ Latest'
  BY <1>1, <1>2, LockKept, Names DEF Inv, Latest
<1>4. HistTypeOK'
  BY <1>1 DEF Inv, HistTypeOK
<1> QED BY <1>1, <1>2, <1>3, <1>4 DEF Inv, AtRest, Behind

\* open() of the history.
LEMMA OpenKeeps ==
  ASSUME Inv, OpenHistory, Consistent'
  PROVE  Inv'
<1>1. /\ holder = Bot /\ holder' = Bot /\ ~opened /\ ~closed /\ writing = Nobody
      /\ closed' = closed /\ writing' = writing /\ TypeOK /\ TypeOK'
  BY DEF OpenHistory, MayOpen, Running, Inv, Consistent
<1>2. CASE Open(Bot) /\ opened' = ~fault'[Bot] /\ histFault' = fault'[Bot]
           /\ snap' = IF fault'[Bot] THEN snap
                      ELSE [prior |-> sessions'[own'[Bot]].priorUnclean, orders |-> orders]
  <2>1. /\ orders' = orders /\ Only(Bot)
        /\ \/ own'[Bot] = Len(sessions') /\ own'[Bot] # 0
           \/ own'[Bot] = 0 /\ fault'[Bot]
    BY <1>1, <1>2, OpenFrame, Names
  <2>2. Locked' /\ Latest'
    BY <1>1, <2>1, LockKept, Names DEF Inv
  <2>3. fault'[Bot] \in BOOLEAN
    BY <1>1, Names DEF TypeOK
  <2>4. ~fault'[Bot] => own'[Bot] \in DOMAIN sessions'
    BY <1>1, <2>1, Names DEF TypeOK
  <2>5. /\ ~fault'[Bot] => sessions'[own'[Bot]] \in Session
        /\ orders' \in [Keys -> Order]
    BY <1>1, <2>4 DEF TypeOK
  <2>6. HistTypeOK'
    BY <1>1, <1>2, <2>1, <2>3, <2>5 DEF Inv, HistTypeOK, Session
  <2>7. Behind'
    BY <1>2, <2>1 DEF Behind
  <2> QED BY <1>1, <1>2, <2>1, <2>2, <2>6, <2>7 DEF Inv, AtRest
<1>3. CASE StorageFault(Bot) /\ histFault' = TRUE /\ UNCHANGED <<opened, snap>>
  <2>1. own' = own /\ Only(Bot) /\ sessions' = sessions
    BY <1>1, <1>3, StorageFaultFrame, Names
  <2>2. Locked' /\ Latest'
    BY <1>1, <2>1, LockKept, Names DEF Inv, Latest
  <2>3. HistTypeOK'
    BY <1>1, <1>3 DEF Inv, HistTypeOK
  <2> QED BY <1>1, <1>3, <2>2, <2>3 DEF Inv, AtRest, Behind
<1> QED BY <1>2, <1>3 DEF OpenHistory

\* The operations that _write commits for order k: an order's own, or a fill.
LEMMA WriteKeeps ==
  ASSUME Inv, NEW k \in Keys, Write(k) \/ WriteFill(k), Consistent'
  PROVE  Inv'
<1>1. /\ holder = Bot /\ holder' = Bot /\ opened /\ ~closed /\ ~histFault /\ writing = Nobody
      /\ UNCHANGED <<opened, closed, snap>> /\ TypeOK /\ TypeOK'
  BY DEF Write, WriteFill, MayWrite, Running, Inv, Consistent
<1>2. /\ OrderStep(Bot, k)
      /\ \/ AfterCommit(k)
         \/ /\ AfterCommit("fill")
            /\ orders'[k].session = orders[k].session /\ orders'[k].status = orders[k].status
  BY <1>1, FillStepFrame DEF Write, WriteFill, FillStep
<1>3. /\ sessions' = sessions /\ own' = own /\ Only(Bot)
      /\ \A j \in Keys \ {k} : orders'[j] = orders[j]
  BY <1>1, <1>2, OrderStepFrame, Names
<1>4. Locked' /\ Latest'
  BY <1>1, <1>3, LockKept, Names DEF Inv, Latest
<1>5. fault'[Bot] \in BOOLEAN
  BY <1>1, Names DEF TypeOK
<1>6. HistTypeOK'
  BY <1>1, <1>2, <1>5 DEF Inv, HistTypeOK, AfterCommit
<1>7. Behind'
  <2> SUFFICES ASSUME ~histFault'
               PROVE  /\ ~fault'[Bot]
                      /\ snap.prior = sessions[own[Bot]].priorUnclean
                      /\ \A j \in Keys : snap.orders[j] = orders'[j] \/ Recording(j)'
    BY <1>1, <1>3 DEF Behind
  <2>1. ~fault'[Bot] /\ writing' \in {k, "fill"}
    BY <1>1, <1>2 DEF AfterCommit
  <2>2. /\ snap.prior = sessions[own[Bot]].priorUnclean
        /\ \A j \in Keys : snap.orders[j] = orders[j]
    <3>1. "fill" # Nobody /\ Nobody \notin Keys
      BY Names
    <3> QED BY <1>1, <3>1 DEF Inv, Behind, Recording
  <2>3. writing' = k \/ (writing' = "fill" /\ orders'[k].session = orders[k].session
                                           /\ orders'[k].status = orders[k].status)
    BY <1>1, <1>2, <2>1 DEF AfterCommit
  <2>4. Recording(k)'
    BY <1>1, <2>2, <2>3 DEF Recording
  <2> QED BY <1>3, <2>1, <2>2, <2>4
<1> QED BY <1>1, <1>3, <1>4, <1>6, <1>7 DEF Inv, AtRest

\* close() of the history.
LEMMA CloseKeeps ==
  ASSUME Inv, CloseHistory, Consistent'
  PROVE  Inv'
<1>1. /\ holder = Bot /\ holder' = Bot /\ opened /\ ~closed /\ ~histFault /\ writing = Nobody
      /\ UNCHANGED <<opened, closed, snap>> /\ AfterCommit("close") /\ TypeOK /\ TypeOK'
  BY DEF CloseHistory, MayWrite, Running, Inv, Consistent
<1>2. /\ orders' = orders /\ own' = own /\ Only(Bot) /\ Len(sessions') = Len(sessions)
      /\ \A i \in DOMAIN sessions : sessions'[i].priorUnclean = sessions[i].priorUnclean
  BY <1>1, CloseFrame, Names DEF CloseHistory
<1>3. Locked' /\ Latest'
  BY <1>1, <1>2, LockKept, Names DEF Inv, Latest
<1>4. fault'[Bot] \in BOOLEAN
  BY <1>1, Names DEF TypeOK
<1>5. HistTypeOK'
  BY <1>1, <1>4 DEF Inv, HistTypeOK, AfterCommit
<1>6. own[Bot] \in DOMAIN sessions
  BY <1>1, OwnedExists, Names DEF Inv
<1>7. /\ snap.prior = sessions[own[Bot]].priorUnclean
      /\ \A j \in Keys : snap.orders[j] = orders[j]
  <2>1. "fill" # Nobody /\ Nobody \notin Keys
    BY Names
  <2> QED BY <1>1, <2>1 DEF Inv, Behind, Recording
<1>8. Behind'
  BY <1>1, <1>2, <1>4, <1>6, <1>7 DEF Behind, AfterCommit
<1> QED BY <1>1, <1>2, <1>3, <1>5, <1>8 DEF Inv, AtRest

\* The snapshot that ends an operation.
LEMMA RefreshKeeps ==
  ASSUME Inv, Refresh, Consistent'
  PROVE  Inv'
<1>1. /\ holder = Bot /\ holder' = Bot /\ opened /\ writing # Nobody /\ own[Bot] # 0
      /\ UNCHANGED <<ledgerVars, opened, histFault>> /\ snap' = Current
      /\ writing' = Nobody /\ closed' = (writing = "close") /\ TypeOK
  BY DEF Refresh, Running, Inv, Consistent
<1>2. Current \in [prior : BOOLEAN, orders : [Keys -> Order]]
  BY <1>1, OwnedExists, SnapshotTyped, Names DEF Current
<1>3. HistTypeOK'
  BY <1>1, <1>2 DEF Inv, HistTypeOK
<1>4. Locked' /\ Latest'
  BY <1>1 DEF Inv, Locked, Latest, ledgerVars
<1>5. Behind'
  BY <1>1 DEF Inv, Behind, Current, ledgerVars
<1> QED BY <1>1, <1>3, <1>4, <1>5 DEF Inv, AtRest, ledgerVars

\* The end of the bot's process, at any point.
LEMMA BotExitKeeps ==
  ASSUME Inv, BotExits, Consistent'
  PROVE  Inv'
<1>1. /\ holder = Bot /\ holder' = Nobody /\ ~opened' /\ ~closed' /\ ~histFault'
      /\ snap' = Unopened /\ writing' = Nobody /\ TypeOK
      /\ opened' \in BOOLEAN /\ closed' \in BOOLEAN /\ histFault' \in BOOLEAN
  BY DEF BotExits, Running, Inv, Consistent
<1>2. own'[Bot] = 0 /\ ~fault'[Bot] /\ Only(Bot) /\ sessions' = sessions
  BY <1>1, ExitFrame, Names DEF BotExits, ledgerVars, Only
<1>3. Locked' /\ Latest'
  BY <1>1, <1>2, LockKept, Names DEF Inv
<1>4. Unopened \in [prior : BOOLEAN, orders : [Keys -> Order]]
  BY AbsentOk DEF Unopened, NoOrders
<1>5. HistTypeOK'
  BY <1>1, <1>4 DEF HistTypeOK
<1> QED BY <1>1, <1>3, <1>5 DEF Inv, AtRest, Behind

\* The operator's command, which runs only while the bot does not.
LEMMA OperatorKeeps ==
  ASSUME Inv, OperatorStep \/ OperatorExits, Consistent'
  PROVE  Inv'
<1>1. /\ holder = Operator /\ UNCHANGED <<opened, closed, histFault, snap, writing>> /\ TypeOK
      /\ holder' \in {Operator, Nobody}
  BY DEF OperatorStep, OperatorExits, Running, Inv, Consistent, histVars
<1>2. /\ ~opened /\ ~closed /\ ~histFault /\ snap = Unopened /\ writing = Nobody
  BY <1>1, Names DEF Inv, AtRest
<1>3. Locked' /\ Latest'
  <2>1. own[Operator] # 0 => own[Operator] = Len(sessions)
    BY Names DEF Inv, Latest
  <2>2. CASE OperatorStep
    <3>1. Only(Operator) /\ (own'[Operator] # 0 => own'[Operator] = Len(sessions'))
      BY <1>1, <2>1, <2>2, OpenFrame, AcknowledgeFrame, CloseFrame, StorageFaultFrame, Names
         DEF OperatorStep
    <3> QED BY <1>1, <2>2, <3>1, LockKept, Names DEF Inv, OperatorStep, histVars
  <2>3. CASE OperatorExits
    <3>1. own'[Operator] = 0 /\ ~fault'[Operator] /\ Only(Operator)
      BY <1>1, <2>3, ExitFrame, Names DEF OperatorExits, ledgerVars, Only
    <3> QED BY <1>1, <3>1, LockKept, Names DEF Inv
  <2> QED BY <2>2, <2>3
<1>4. HistTypeOK'
  BY <1>1, Names DEF Inv, HistTypeOK
<1>5. holder' # Bot
  BY <1>1, Names
<1> QED BY <1>1, <1>2, <1>3, <1>4, <1>5 DEF Inv, AtRest, Behind

-----------------------------------------------------------------------------
(* The invariance theorem *)

\* A process without memory: the history at its start.
LEMMA HistInitInv == HistInit => Inv
<1> SUFFICES ASSUME HistInit PROVE Inv
  OBVIOUS
<1>1. Consistent
  BY InitConsistent DEF HistInit
<1>2. Unopened \in [prior : BOOLEAN, orders : [Keys -> Order]]
  BY AbsentOk DEF Unopened, NoOrders
<1> QED BY <1>1, <1>2, Names DEF HistInit, Init, Inv, HistTypeOK, Locked, Latest, AtRest, Behind

\* Every step of the history preserves the inductive invariant.
LEMMA HistNextInv == Inv /\ [HistNext]_vars => Inv'
<1> SUFFICES ASSUME Inv, [HistNext]_vars PROVE Inv'
  OBVIOUS
<1>1. Consistent'
  BY HistoryIsLedger, NextConsistent DEF Inv
<1>2. CASE UNCHANGED vars
  BY <1>1, <1>2 DEF vars, ledgerVars, histVars, Inv, HistTypeOK, Locked, Latest, AtRest, Behind,
     Recording
<1>3. CASE HistNext
  BY <1>1, <1>3, StartKeeps, FaultsKeep, OpenKeeps, WriteKeeps, CloseKeeps, RefreshKeeps,
     BotExitKeeps, OperatorKeeps DEF HistNext
<1> QED BY <1>2, <1>3

\* The bot's cache, the lock and the operator use the file by its operations
\* alone: what the ledger guarantees is guaranteed of every run of the history.
THEOREM HistoryUsesLedger == HistSpec => Spec
<1>1. HistInit => Init
  BY DEF HistInit
<1> QED BY <1>1, HistoryIsLedger, PTL DEF HistSpec, Spec

\* The history's invariant, and with it the ledger's, holds in every run.
THEOREM HistoryInvariance == HistSpec => []Inv
  BY HistInitInv, HistNextInv, PTL DEF HistSpec

\* The history's memory has its types.
THEOREM HistoryTyped == HistSpec => []HistTypeOK
<1>1. Inv => HistTypeOK
  BY DEF Inv
<1> QED BY <1>1, HistoryInvariance, PTL

\* While the bot runs, its session is the newest: no command fences it.
THEOREM RunningBotIsNewest == HistSpec => []BotIsNeverFenced
<1>1. Inv => BotIsNeverFenced
  BY Names DEF Inv, Latest, BotIsNeverFenced
<1> QED BY <1>1, HistoryInvariance, PTL

\* Between operations and without a fault, the cache is what the file holds.
LEMMA CurrentAtRest ==
  ASSUME Inv, opened, ~histFault, writing = Nobody
  PROVE  snap = Current
<1>1. /\ snap.prior = sessions[own[Bot]].priorUnclean
      /\ \A k \in Keys : snap.orders[k] = orders[k]
  BY Names DEF Inv, Behind, Recording
<1>2. /\ snap \in [prior : BOOLEAN, orders : [Keys -> Order]]
      /\ orders \in [Keys -> Order]
  BY DEF Inv, HistTypeOK, Consistent, TypeOK
<1>3. snap.orders = orders
  BY <1>1, <1>2
<1> QED BY <1>1, <1>2, <1>3 DEF Current

\* The snapshot that the gates read is current.
THEOREM GatesReadTheFile == HistSpec => []SnapshotIsCurrent
<1>1. Inv => SnapshotIsCurrent
  BY CurrentAtRest DEF SnapshotIsCurrent
<1> QED BY <1>1, HistoryInvariance, PTL

\* When hold() lets trading go on, the durable record leaves no doubt behind.
LEMMA NoHoldNoDoubt == Inv => HoldIsSound
<1> SUFFICES ASSUME Inv, Running(Bot), ~Hold(Keys)
             PROVE  /\ \A i \in 1..(own[Bot] - 1) : Vouched(sessions[i])
                    /\ \A k \in Keys :
                          /\ orders[k].session # own[Bot] /\ Unresolved(orders[k])
                                => orders[k].acknowledged
                          /\ orders[k].session = own[Bot] /\ orders[k].status \in {"unknown", "modified"}
                                => writing = k
  BY DEF HoldIsSound
<1>1. /\ opened /\ ~histFault /\ ~snap.prior
      /\ \A k \in Keys : ~Uncertain(snap.orders[k])
  BY DEF Hold
<1>2. own[Bot] = Len(sessions) /\ own[Bot] \in DOMAIN sessions /\ sessions # <<>>
  BY <1>1, OwnedExists, Names DEF Inv, Latest, Consistent, TypeOK
<1>3. /\ ~sessions[Len(sessions)].priorUnclean
      /\ \A k \in Keys : snap.orders[k] = orders[k] \/ Recording(k)
  BY <1>1, <1>2 DEF Inv, Behind
<1>4. \A i \in 1..(own[Bot] - 1) : Vouched(sessions[i])
  BY <1>2, <1>3 DEF Inv, Consistent, SessionsOk
<1>5. ASSUME NEW k \in Keys, orders[k].session # own[Bot], Unresolved(orders[k])
      PROVE  orders[k].acknowledged
  <2>1. /\ orders[k].session \in Nat /\ orders[k].session # 0 /\ Len(sessions) \in Nat
        /\ orders[k].session <= Len(sessions)
    BY <1>5 DEF Inv, Consistent, TypeOK, SessionsOk, RecordOk, Present, Unresolved, Order
  <2>2. orders[k].session \in 1..(own[Bot] - 1) /\ orders[k].session \in DOMAIN sessions
    BY <1>2, <1>5, <2>1 DEF Inv, Consistent, TypeOK
  <2> QED BY <1>4, <1>5, <2>2 DEF Inv, Consistent, SessionsOk, Cleared
<1>6. ASSUME NEW k \in Keys, orders[k].session = own[Bot], orders[k].status \in {"unknown", "modified"}
      PROVE  writing = k
  BY <1>1, <1>3, <1>6 DEF Recording, Uncertain
<1> QED BY <1>4, <1>5, <1>6

\* The gate of every new order is sound.
THEOREM HoldGuardsTrading == HistSpec => []HoldIsSound
  BY NoHoldNoDoubt, HistoryInvariance, PTL

\* A step after a fault of the history ends no session of the bot clean.
LEMMA FaultStepNotClean ==
  ASSUME Inv, HistNext, histFault, NEW i \in DOMAIN sessions, i = own[Bot], ~sessions[i].clean
  PROVE  ~sessions'[i].clean
<1>1. TypeOK /\ own[Bot] # 0 /\ sessions \in Seq(Session)
  BY DEF Inv, Consistent, TypeOK
<1>2. holder = Bot
  BY <1>1, Names DEF Inv, Locked
<1>3. sessions' = sessions
  BY <1>2, Names, ExitFrame, StorageFaultFrame, <1>1
     DEF HistNext, Start, Fail, OpenHistory, MayOpen, Write, WriteFill, CloseHistory, MayWrite,
         RefuseWrite, Refresh, RefreshFails, BotExits, OperatorStep, OperatorExits, Running,
         ledgerVars
<1> QED BY <1>3

\* A run whose history has a fault leaves a hold for the next one.
THEOREM FaultLeavesHold == HistSpec => FaultNeverEndsClean
<1>1. Inv /\ [HistNext]_vars =>
        [\A i \in DOMAIN sessions :
            histFault /\ i = own[Bot] /\ ~sessions[i].clean => ~sessions'[i].clean]_vars
  BY FaultStepNotClean
<1> QED BY <1>1, HistoryInvariance, PTL DEF HistSpec, FaultNeverEndsClean
=============================================================================
