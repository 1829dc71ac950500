------------------------ MODULE FillHandoffProofs ------------------------
(***************************************************************************)
(* What the handoff of fills guarantees for any orders, quantities, fills, *)
(* attempts and disturbances.  Each of its steps is a step of the history, *)
(* whose invariant is at hand.  On top, IHInv:                             *)
(*                                                                         *)
(*   Watched        exchange, last answer and counters of each order       *)
(*   LookingOk      the rows that the fill check looks at                  *)
(*   Called         awaits of an order's calls, and its ledger record      *)
(*   DrainOk        the fill that the drain is at                          *)
(*   Pieces         the fills cut the counted quantity; when they are      *)
(*                  applied and processed                                  *)
(*   LedgerMatches  executions in the ledger, and fills                    *)
(*   Shares         what is counted, acknowledged and held of an order,    *)
(*                  as sums over its fills                                 *)
(*   Clean          nothing is left over by a clean end                    *)
(*   SyncOk         what a synchronisation with a valid token has read     *)
(***************************************************************************)
EXTENDS FillHandoff, ExecutionHistoryProofs, WellFoundedInduction

-----------------------------------------------------------------------------
(* Sums *)

\* The first n summands w add up to t: the partial sums g start at zero and
\* grow.  Such a g is carried from step to step without an induction.
SumIs(w, n, t) ==
    \E g \in [0..n -> Nat] :
        /\ g[0] = 0 /\ g[n] = t
        /\ \A i \in 1..n : g[i] = g[i - 1] + w[i]
        /\ \A i, j \in 0..n : i <= j => g[i] <= g[j]

\* The sum depends on the summands only.
LEMMA SumSame ==
  ASSUME NEW n \in Nat, NEW w, NEW v, NEW t, SumIs(w, n, t), \A i \in 1..n : v[i] = w[i]
  PROVE  SumIs(v, n, t)
  BY DEF SumIs

\* One summand more.
LEMMA SumExtended ==
  ASSUME NEW n \in Nat, NEW w, NEW v, NEW t, SumIs(w, n, t),
         \A i \in 1..n : v[i] = w[i], v[n + 1] \in Nat
  PROVE  SumIs(v, n + 1, t + v[n + 1])
<1>1. PICK g \in [0..n -> Nat] :
          /\ g[0] = 0 /\ g[n] = t
          /\ \A i \in 1..n : g[i] = g[i - 1] + w[i]
          /\ \A i, j \in 0..n : i <= j => g[i] <= g[j]
  BY DEF SumIs
<1> DEFINE h == [i \in 0..(n + 1) |-> IF i = n + 1 THEN t + v[n + 1] ELSE g[i]]
<1>2. t \in Nat /\ t + v[n + 1] \in Nat
  BY <1>1
<1>3. h \in [0..(n + 1) -> Nat] /\ h[0] = 0 /\ h[n + 1] = t + v[n + 1]
  BY <1>1, <1>2
<1>4. ASSUME NEW i \in 1..(n + 1) PROVE h[i] = h[i - 1] + v[i]
  BY <1>1
<1>5. ASSUME NEW i \in 0..(n + 1), NEW j \in 0..(n + 1), i <= j PROVE h[i] <= h[j]
  <2>1. g[n] = t /\ \A m \in 0..n : g[m] \in Nat /\ g[m] <= g[n]
    BY <1>1
  <2> QED BY <1>1, <1>2, <1>5, <2>1
<1> HIDE DEF h
<1> QED BY <1>3, <1>4, <1>5 DEF SumIs

\* One summand drops out.
LEMMA SumDropped ==
  ASSUME NEW n \in Nat, NEW w, NEW v, NEW t, SumIs(w, n, t), NEW d \in 1..n,
         \A i \in 1..n : w[i] \in Nat, v[d] = 0, \A i \in 1..n : i # d => v[i] = w[i]
  PROVE  t \in Nat /\ w[d] <= t /\ SumIs(v, n, t - w[d])
<1>1. PICK g \in [0..n -> Nat] :
          /\ g[0] = 0 /\ g[n] = t
          /\ \A i \in 1..n : g[i] = g[i - 1] + w[i]
          /\ \A i, j \in 0..n : i <= j => g[i] <= g[j]
  BY DEF SumIs
<1>2. /\ d \in 0..n /\ d - 1 \in 0..n /\ n \in 0..n
      /\ g[d] = g[d - 1] + w[d] /\ g[d] \in Nat /\ g[d - 1] \in Nat
      /\ \A i \in 0..n : g[i] \in Nat
      /\ \A i \in 0..n : i >= d => g[d] <= g[i]
      /\ \A i \in 0..n : i < d => g[i] <= g[d - 1]
  BY <1>1
<1>3. t \in Nat /\ w[d] <= t
  BY <1>1, <1>2
<1> DEFINE h == [i \in 0..n |-> IF i < d THEN g[i] ELSE g[i] - w[d]]
<1>4. ASSUME NEW i \in 0..n PROVE h[i] \in Nat /\ (i >= d => w[d] <= g[i])
  BY <1>2, <1>4
<1>5. h \in [0..n -> Nat] /\ h[0] = 0 /\ h[n] = t - w[d]
  BY <1>1, <1>4
<1>6. ASSUME NEW i \in 1..n PROVE h[i] = h[i - 1] + v[i]
  <2>1. g[i] = g[i - 1] + w[i] /\ g[i] \in Nat /\ g[i - 1] \in Nat
    BY <1>1
  <2>0. i \in 0..n /\ i - 1 \in 0..n /\ w[d] \in Nat
    OBVIOUS
  <2>2. CASE i < d
    BY <2>1, <2>0, <2>2
  <2>3. CASE i = d
    BY <2>1, <2>0, <2>3
  <2>4. CASE i > d
    <3>1. v[i] = w[i]
      BY <2>4
    <3>2. h[i] = g[i] - w[d] /\ h[i - 1] = g[i - 1] - w[d]
      BY <2>4, <2>0
    <3>3. w[i] = g[i] - g[i - 1] /\ w[i] \in Int
      BY <1>1
    <3> HIDE DEF h
    <3> QED BY <2>1, <2>0, <3>1, <3>2, <3>3
  <2> QED BY <2>2, <2>3, <2>4
<1>7. ASSUME NEW i \in 0..n, NEW j \in 0..n, i <= j PROVE h[i] <= h[j]
  <2>1. g[i] \in Nat /\ g[j] \in Nat /\ g[i] <= g[j]
    BY <1>1, <1>7
  <2> QED BY <1>2, <1>7, <2>1
<1> HIDE DEF h
<1> QED BY <1>3, <1>5, <1>6, <1>7 DEF SumIs

\* Without a summand above zero the sum is zero ...
LEMMA SumZero ==
  ASSUME NEW n \in Nat, NEW w, NEW t, SumIs(w, n, t), \A i \in 1..n : w[i] = 0
  PROVE  t = 0
<1>1. PICK g \in [0..n -> Nat] :
          /\ g[0] = 0 /\ g[n] = t
          /\ \A i \in 1..n : g[i] = g[i - 1] + w[i]
  BY DEF SumIs
<1> DEFINE T == {i \in 0..n : g[i] # 0}
<1>2. SUFFICES ASSUME T # {} PROVE FALSE
  BY <1>1
<1>3. T \subseteq Nat
  OBVIOUS
<1>4. PICK x \in T : \A y \in T : ~(<<y, x>> \in OpToRel(<, Nat))
  BY <1>2, <1>3, NatLessThanWellFounded, WFMin
<1>5. x \in 1..n /\ x - 1 \in 0..n /\ g[x - 1] # 0
  <2>1. x \in 0..n /\ g[x] # 0
    BY <1>4
  <2>2. x \in 1..n /\ x - 1 \in 0..n
    BY <1>1, <2>1
  <2>3. g[x] = g[x - 1] + w[x] /\ w[x] = 0 /\ g[x - 1] \in Nat
    BY <1>1, <2>2
  <2> QED BY <2>1, <2>2, <2>3
<1>6. x - 1 \in T /\ x - 1 \in Nat /\ x \in Nat /\ x - 1 < x
  BY <1>5
<1> QED BY <1>4, <1>6 DEF OpToRel

\* ... and a sum of zero has none.
LEMMA SumNone ==
  ASSUME NEW n \in Nat, NEW w, NEW t, SumIs(w, n, t), NEW i \in 1..n, w[i] \in Nat
  PROVE  t \in Nat /\ w[i] <= t
<1>1. PICK g \in [0..n -> Nat] :
          /\ g[0] = 0 /\ g[n] = t
          /\ \A j \in 1..n : g[j] = g[j - 1] + w[j]
          /\ \A j, m \in 0..n : j <= m => g[j] <= g[m]
  BY DEF SumIs
<1>2. i \in 0..n /\ i - 1 \in 0..n /\ n \in 0..n /\ g[i] <= g[n] /\ g[i] = g[i - 1] + w[i]
  BY <1>1
<1> QED BY <1>1, <1>2

-----------------------------------------------------------------------------
(* The history behind the handoff *)

\* A call that fails, or a journal that does: the fault latches.
Faults ==
    /\ StorageFault(Bot) \/ UNCHANGED ledgerVars
    /\ histFault' = TRUE
    /\ UNCHANGED <<holder, opened, closed, snap, writing>>

\* What one step does to the history: one of its own steps, or such a fault.
HistoryStep ==
    \/ UNCHANGED vars
    \/ \E k \in Keys : Write(k) \/ WriteFill(k)
    \/ CloseHistory \/ Refresh \/ RefreshFails \/ Fail \/ Faults

\* A latched fault keeps what is known of the history.
LEMMA FaultsLatch ==
  ASSUME Inv, holder = Bot, Faults
  PROVE  Inv'
<1>1. [Next]_ledgerVars
  BY Names DEF Faults, Next
<1>2. Consistent'
  BY <1>1, NextConsistent DEF Inv
<1>3. own' = own /\ sessions' = sessions /\ Only(Bot) /\ TypeOK
  BY StorageFaultFrame, Names DEF Inv, Consistent, Faults, ledgerVars, Only
<1>4. Locked' /\ Latest'
  BY <1>3, LockKept, Names DEF Inv, Latest, Faults
<1>5. HistTypeOK'
  BY DEF Inv, HistTypeOK, Faults
<1> QED BY <1>2, <1>3, <1>4, <1>5 DEF Inv, AtRest, Behind, Faults

\* The history's invariant holds after every such step.
LEMMA HistoryStepInv ==
  ASSUME Inv, holder = Bot, HistoryStep
  PROVE  Inv'
<1>1. CASE Faults
  BY <1>1, FaultsLatch
<1>2. CASE ~Faults
  <2>1. [HistNext]_vars
    BY <1>2 DEF HistoryStep, HistNext
  <2> QED BY <2>1, HistNextInv
<1> QED BY <1>1, <1>2

\* An order's own call that is committed.
LEMMA RecordedIsWrite ==
  ASSUME NEW k \in Keys, NEW c \in {"intent", "accepted", "unknown", "rejected", "canceled"},
         MayWrite, Recorded(k, c), CommitFor(k)
  PROVE  Write(k) /\ OrderStep(Bot, k)
<1>1. OrderStep(Bot, k)
  BY DEF Recorded, OrderStep, Outcomes
<1> QED BY <1>1 DEF Write, CommitFor

\* A report that is committed stays within the ordered quantity.
LEMMA ObserveIsWrite ==
  ASSUME Inv, NEW k \in Keys, NEW n \in Nat, NEW isFinal \in BOOLEAN,
         MayWrite, Observe(Bot, k, n, isFinal), CommitFor("fill")
  PROVE  WriteFill(k) /\ OrderStep(Bot, k)
<1>1. Quantity[k] \in Nat /\ n <= Quantity[k]
  BY FactsAssumption DEF Observe, Observable
<1>2. n \in 0..Quantity[k]
  BY <1>1
<1> QED BY <1>2 DEF WriteFill, CommitFor, OrderStep

\* A receipt that is committed.
LEMMA ReceiptIsWrite ==
  ASSUME NEW k \in Keys, NEW e, MayWrite, ReceiptApplied(Bot, k, e) \/ ReceiptReturned(Bot, k, e),
         CommitFor("fill")
  PROVE  WriteFill(k) /\ OrderStep(Bot, k)
<1>1. e \in orders[k].executions
  BY DEF ReceiptApplied, ReceiptReturned
<1> QED BY <1>1 DEF WriteFill, CommitFor, OrderStep

\* A failing call latches the fault.
LEMMA CallFaults == CallFails => Faults
<1>1. CallFails => StorageFault(Bot) \/ UNCHANGED ledgerVars
  BY DEF CallFails
<1> QED BY <1>1 DEF CallFails, Faults

\* So does a journal whose entry of a named fill is not certain.
LEMMA JournalFaults ==
  ASSUME histFault \in BOOLEAN, NEW f, f.named \in BOOLEAN, JournalFailure(f)
  PROVE  /\ IF f.named THEN Faults ELSE UNCHANGED vars
         /\ UNCHANGED ledgerVars
<1>1. histFault' = (histFault \/ f.named) /\ UNCHANGED <<ledgerVars, holder, opened, closed, snap, writing>>
  BY DEF JournalFailure
<1> QED BY <1>1 DEF Faults, vars, histVars

-----------------------------------------------------------------------------
(* What is known of an order *)

Market == [cum : Nat, live : BOOLEAN]

\* The bot knows that the exchange accepted the order.
Tracked(b) == b.watched \/ b.filled > 0 \/ b.canceled

\* What is counted of an order b, its state x at the exchange, its row y in the
\* last answer and its quantity q.
WatchOk(b, x, y, q) ==
    /\ b.filled <= y.cum /\ y.cum <= x.cum /\ x.cum <= q
    /\ x.live => x.cum < q
    /\ b.place = "none" => ~Tracked(b) /\ b.terminal = NotTerminal /\ ~x.live /\ x.cum = 0
    /\ b.place = "pending" => Tracked(b) /\ ~b.canceled
    /\ Tracked(b) /\ b.place = "off" /\ ~b.canceled => b.filled = q
    /\ Tracked(b) /\ ~b.watched => b.terminal # NotTerminal /\ b.acked = b.terminal
    /\ b.terminal # NotTerminal => /\ ~x.live /\ x.cum = b.terminal /\ b.filled = b.terminal
                                   /\ b.canceled \/ b.filled > 0

SubmitStages == {"intent", "post", "sent", "accepted", "unknown", "rejected"}
CancelStages == {"cancel", "cancelled", "canceled"}

\* The awaits C that submit_order and cancel_order are in for one order, with its
\* ledger record r and the shares h of it in the portfolio.
CallsOk(C, b, x, r, h) ==
    /\ \A c, d \in SubmitStages : c \in C /\ d \in C => c = d
    /\ "intent" \in C => b.place = "none" /\ "saved" \notin C
    /\ "post" \in C => b.place = "none" /\ r.status = "intent"
    /\ "sent" \in C => ~Tracked(b) /\ r.status = "intent" /\ h = 0
    /\ "unknown" \in C => ~Tracked(b)
    /\ "rejected" \in C => ~Tracked(b) /\ ~x.live /\ x.cum = 0
    /\ "accepted" \in C => Tracked(b)
    /\ \A c, d \in CancelStages : c \in C /\ d \in C => c = d
    /\ (\E c \in CancelStages : c \in C) => Tracked(b)
    /\ "cancel" \in C => ~b.canceled
    /\ "cancelled" \in C => ~x.live /\ ~b.canceled

\* The record r of an order in the ledger.
LedgerOk(r, b, x) ==
    /\ ~r.acknowledged /\ r.status \notin {"not_sent", "modified"}
    /\ b.place # "none" => Present(r)
    /\ r.status \in {"accepted", "canceled"} => Tracked(b)
    /\ r.status = "rejected" => ~Tracked(b) /\ ~x.live /\ x.cum = 0
    /\ r.status = "intent" => r.terminal = NotTerminal
    /\ r.status \in {"accepted", "canceled"} /\ r.terminal # NotTerminal =>
          ~x.live /\ x.cum = r.terminal

-----------------------------------------------------------------------------
(* Records: what the steps do to one order *)

\* The exchange executes shares.
LEMMA WatchExecute ==
  ASSUME NEW b \in Watch, NEW x \in Market, NEW y \in Market, NEW q \in Nat,
         WatchOk(b, x, y, q), x.live,
         NEW z \in Market, z.cum \in (x.cum + 1)..q, z.live => z.cum < q
  PROVE  WatchOk(b, z, y, q)
  BY DEF Watch, Market, WatchOk, Tracked, NotTerminal

\* The exchange takes an order, or not.
LEMMA WatchPost ==
  ASSUME NEW b \in Watch, NEW x \in Market, NEW y \in Market, NEW q \in Nat \ {0},
         WatchOk(b, x, y, q), b.place = "none", NEW taken \in BOOLEAN
  PROVE  /\ WatchOk([b EXCEPT !.place = "off"], [x EXCEPT !.live = taken], y, q)
         /\ ~Tracked([b EXCEPT !.place = "off"])
  BY DEF Watch, Market, WatchOk, Tracked, NotTerminal

\* It accepts the order.
LEMMA WatchAccepted ==
  ASSUME NEW b \in Watch, NEW x \in Market, NEW y \in Market, NEW q \in Nat,
         WatchOk(b, x, y, q), ~Tracked(b)
  PROVE  LET n == [b EXCEPT !.place = "pending", !.watched = TRUE]
         IN  WatchOk(n, x, y, q) /\ Tracked(n)
  BY DEF Watch, Market, WatchOk, Tracked, NotTerminal

\* It cancels the order.
LEMMA WatchEnded ==
  ASSUME NEW b \in Watch, NEW x \in Market, NEW y \in Market, NEW q \in Nat,
         WatchOk(b, x, y, q)
  PROVE  WatchOk(b, [x EXCEPT !.live = FALSE], y, q)
  BY DEF Watch, Market, WatchOk, Tracked, NotTerminal

\* It confirms the cancellation.
LEMMA WatchCanceled ==
  ASSUME NEW b \in Watch, NEW x \in Market, NEW y \in Market, NEW q \in Nat,
         WatchOk(b, x, y, q), Tracked(b), ~b.canceled
  PROVE  LET n == [b EXCEPT !.canceled = (b.place = "pending"), !.place = "off"]
         IN  WatchOk(n, x, y, q) /\ Tracked(n)
  BY DEF Watch, Market, WatchOk, Tracked, NotTerminal

\* A new answer is at hand.
LEMMA WatchAnswer ==
  ASSUME NEW b \in Watch, NEW x \in Market, NEW y \in Market, NEW q \in Nat,
         WatchOk(b, x, y, q)
  PROVE  WatchOk(b, x, x, q)
  BY DEF Watch, Market, WatchOk

\* A fully executed order is delisted.
LEMMA WatchDelisted ==
  ASSUME NEW b \in Watch, NEW x \in Market, NEW y \in Market, NEW q \in Nat,
         WatchOk(b, x, y, q), b.place = "pending", b.filled = q
  PROVE  LET n == [b EXCEPT !.place = "off"]
         IN  WatchOk(n, x, y, q) /\ Tracked(n)
  BY DEF Watch, Market, WatchOk, Tracked, NotTerminal

\* The order b once the row y is counted, final or not.
CountedAs(b, y, terminal) ==
    [b EXCEPT !.filled = y.cum, !.terminal = IF terminal THEN y.cum ELSE @]

\* The row is counted.
LEMMA WatchCounted ==
  ASSUME NEW b \in Watch, NEW x \in Market, NEW y \in Market, NEW q \in Nat, NEW terminal \in BOOLEAN,
         WatchOk(b, x, y, q), Tracked(b), b.canceled \/ y.cum > 0,
         terminal => ~x.live /\ x.cum = y.cum
  PROVE  LET n == CountedAs(b, y, terminal)
         IN  n \in Watch /\ WatchOk(n, x, y, q) /\ Tracked(n)
<1> DEFINE n == CountedAs(b, y, terminal)
<1>1. /\ n \in Watch /\ n.filled = y.cum /\ n.terminal = IF terminal THEN y.cum ELSE b.terminal
      /\ n.place = b.place /\ n.watched = b.watched /\ n.canceled = b.canceled /\ n.acked = b.acked
  BY DEF Watch, Market, CountedAs
<1> HIDE DEF n
<1>2. Tracked(n)
  BY <1>1 DEF Watch, Market, WatchOk, Tracked
<1>3. b.terminal # NotTerminal => y.cum = b.filled /\ x.cum = y.cum /\ ~x.live
  BY DEF Watch, Market, WatchOk
<1>4. n.terminal # NotTerminal => /\ ~x.live /\ x.cum = n.terminal /\ n.filled = n.terminal
                                  /\ n.canceled \/ n.filled > 0
  BY <1>1, <1>3 DEF Watch, Market, WatchOk, NotTerminal
<1>5. Tracked(n) /\ ~n.watched => n.terminal # NotTerminal /\ n.acked = n.terminal
  BY <1>1, <1>3 DEF Watch, Market, WatchOk, Tracked, NotTerminal
<1>6. /\ y.cum <= x.cum /\ x.cum <= q /\ (x.live => x.cum < q) /\ b.filled <= y.cum
      /\ y.cum \in Nat /\ x.cum \in Nat /\ b.filled \in Nat
  BY DEF Watch, Market, WatchOk
<1>7. /\ b.place # "none" /\ (b.place = "pending" => ~b.canceled)
      /\ b.place = "off" /\ ~b.canceled => b.filled = q
  BY DEF WatchOk
<1>8. b.place = "off" /\ ~b.canceled => y.cum = q
  BY <1>6, <1>7
<1>9. WatchOk(n, x, y, q)
  BY <1>1, <1>2, <1>4, <1>5, <1>6, <1>7, <1>8 DEF WatchOk
<1> QED BY <1>1, <1>2, <1>9 DEF n

\* An observation is retired.
LEMMA WatchRetired ==
  ASSUME NEW b \in Watch, NEW x \in Market, NEW y \in Market, NEW q \in Nat,
         WatchOk(b, x, y, q)
  PROVE  /\ Retired(b) \in Watch /\ WatchOk(Retired(b), x, y, q)
         /\ Tracked(b) => Tracked(Retired(b))
         /\ Tracked(Retired(b)) => Tracked(b)
         /\ Retired(b) = [b EXCEPT !.watched = Retired(b).watched]
  BY DEF Watch, Market, WatchOk, Tracked, NotTerminal, Retired

\* A fill of n shares is acknowledged.
LEMMA WatchAcknowledged ==
  ASSUME NEW b \in Watch, NEW x \in Market, NEW y \in Market, NEW q \in Nat, NEW n \in Nat,
         WatchOk(b, x, y, q), b.watched, b.acked + n <= b.filled
  PROVE  /\ Acknowledged(b, n) \in Watch /\ WatchOk(Acknowledged(b, n), x, y, q)
         /\ Tracked(Acknowledged(b, n))
         /\ Acknowledged(b, n).acked = b.acked + n /\ Acknowledged(b, n).filled = b.filled
         /\ Acknowledged(b, n).place = b.place /\ Acknowledged(b, n).canceled = b.canceled
         /\ Acknowledged(b, n).terminal = b.terminal
<1> DEFINE c == [b EXCEPT !.acked = b.acked + n]
<1>1. c \in Watch /\ WatchOk(c, x, y, q) /\ Tracked(c) /\ c.acked = b.acked + n /\ c.filled = b.filled
      /\ c.place = b.place /\ c.canceled = b.canceled /\ c.terminal = b.terminal
  BY DEF Watch, Market, WatchOk, Tracked, NotTerminal
<1>2. Acknowledged(b, n) = Retired(c)
  BY DEF Acknowledged
<1> HIDE DEF c
<1>3. /\ Retired(c) \in Watch /\ WatchOk(Retired(c), x, y, q) /\ Tracked(Retired(c))
      /\ Retired(c) = [c EXCEPT !.watched = Retired(c).watched]
  BY <1>1, WatchRetired
<1>4. Retired(c).acked = c.acked /\ Retired(c).filled = c.filled /\ Retired(c).place = c.place
      /\ Retired(c).canceled = c.canceled /\ Retired(c).terminal = c.terminal
  BY <1>1, <1>3 DEF Watch
<1> QED BY <1>1, <1>2, <1>3, <1>4

-----------------------------------------------------------------------------
(* The orders at the exchange and in the broker's counters *)

Watched ==
    /\ exch \in [Keys -> Market] /\ rows \in [Keys -> Market] /\ broker \in [Keys -> Watch]
    /\ \A k \in Keys : WatchOk(broker[k], exch[k], rows[k], Quantity[k])

\* What a cancelled order's row says of its end is true at the exchange.
FinalRow(k) ==
    /\ broker[k].canceled
    /\ ~rows[k].live => ~exch[k].live /\ exch[k].cum = rows[k].cum

\* The rows that the fill check still looks at.
LookingOk ==
    /\ row \in Keys <=> at \in {"observing", "cancelObserving"}
    /\ at = "observing" => Tracked(broker[row]) /\ rows[row].cum > broker[row].filled
    /\ at \in {"cancelRows", "cancelObserving"} =>
          \A k \in Keys : k \in todo \/ k = row => FinalRow(k)

\* The order k is the same for submit_order and cancel_order.
Steady(k) ==
    /\ Tracked(broker'[k]) <=> Tracked(broker[k])
    /\ broker'[k].place = "none" <=> broker[k].place = "none"
    /\ broker'[k].canceled = broker[k].canceled

\* A row is taken over.
LEMMA TakeKeeps ==
  ASSUME Watched, NEW k \in Keys, NEW named \in BOOLEAN, NEW terminal \in BOOLEAN,
         Take(k, named, terminal), UNCHANGED <<exch, rows>>,
         Tracked(broker[k]), broker[k].canceled \/ rows[k].cum > broker[k].filled,
         terminal => ~exch[k].live /\ exch[k].cum = rows[k].cum
  PROVE  /\ Watched' /\ \A j \in Keys : Steady(j)
         /\ \A j \in Keys \ {k} : broker'[j] = broker[j]
         /\ broker'[k].filled = rows[k].cum /\ broker'[k].acked = broker[k].acked
<1> DEFINE b == broker[k]
           c == CountedAs(b, rows[k], terminal)
           n == IF b.canceled /\ terminal THEN Retired(c) ELSE c
<1>1. /\ b \in Watch /\ exch[k] \in Market /\ rows[k] \in Market /\ Quantity[k] \in Nat
      /\ WatchOk(b, exch[k], rows[k], Quantity[k]) /\ broker \in [Keys -> Watch]
  BY FactsAssumption DEF Watched
<1>2. b.filled \in Nat /\ rows[k].cum \in Nat
  BY <1>1 DEF Watch, Market
<1>3. b.canceled \/ rows[k].cum > 0
  BY <1>2
<1>4. /\ c.canceled = b.canceled /\ c.place = b.place /\ c.acked = b.acked
      /\ c.filled = rows[k].cum
  BY <1>1 DEF CountedAs, Watch
<1>5. broker' = [broker EXCEPT ![k] = n]
  <2>1. [broker[k] EXCEPT !.filled = rows[k].cum,
                          !.terminal = IF terminal THEN rows[k].cum ELSE @] = c
    BY DEF CountedAs
  <2> HIDE DEF c
  <2>2. c.canceled = b.canceled
    BY <1>4
  <2> QED BY <2>1, <2>2 DEF Take, Counted
<1>6. c \in Watch /\ WatchOk(c, exch[k], rows[k], Quantity[k]) /\ Tracked(c)
  BY <1>1, <1>3, WatchCounted
<1> HIDE DEF b, c
<1>7. /\ Retired(c) \in Watch /\ WatchOk(Retired(c), exch[k], rows[k], Quantity[k])
      /\ Tracked(Retired(c)) /\ Retired(c) = [c EXCEPT !.watched = Retired(c).watched]
  BY <1>1, <1>6, WatchRetired
<1>8. /\ Retired(c).canceled = c.canceled /\ Retired(c).place = c.place
      /\ Retired(c).acked = c.acked /\ Retired(c).filled = c.filled
  BY <1>6, <1>7 DEF Watch
<1>9. /\ n \in Watch /\ WatchOk(n, exch[k], rows[k], Quantity[k]) /\ Tracked(n)
      /\ n.canceled = b.canceled /\ n.place = b.place /\ n.acked = b.acked
      /\ n.filled = rows[k].cum
  BY <1>4, <1>6, <1>7, <1>8
<1> HIDE DEF n
<1>10. broker'[k] = n /\ \A j \in Keys \ {k} : broker'[j] = broker[j]
  BY <1>1, <1>5
<1>11. Watched'
  BY <1>5, <1>9, <1>10 DEF Watched
<1> QED BY <1>9, <1>10, <1>11 DEF Steady, b

\* The fully executed orders are delisted.
LEMMA DelistedKeeps ==
  ASSUME Watched, broker' = Delisted, exch' = exch, rows' \in {rows, exch}
  PROVE  /\ Watched' /\ \A j \in Keys : Steady(j)
         /\ \A j \in Keys : /\ broker'[j].filled = broker[j].filled
                            /\ broker'[j].acked = broker[j].acked
<1>1. ASSUME NEW k \in Keys
      PROVE  LET b == broker[k]
                 n == IF b.place = "pending" /\ b.filled = Quantity[k]
                      THEN [b EXCEPT !.place = "off"] ELSE b
             IN  /\ broker'[k] = n /\ n \in Watch /\ n.filled = b.filled /\ n.acked = b.acked
                 /\ WatchOk(n, exch[k], rows'[k], Quantity[k])
                 /\ Steady(k)
  <2> DEFINE b == broker[k]
             d == [b EXCEPT !.place = "off"]
             n == IF b.place = "pending" /\ b.filled = Quantity[k] THEN d ELSE b
  <2>1. /\ b \in Watch /\ exch[k] \in Market /\ rows[k] \in Market /\ Quantity[k] \in Nat
        /\ WatchOk(b, exch[k], rows[k], Quantity[k])
    BY FactsAssumption DEF Watched
  <2>2. broker'[k] = n
    BY DEF Delisted, Listed
  <2>3. d \in Watch /\ d.filled = b.filled /\ d.acked = b.acked /\ d.canceled = b.canceled
        /\ d.place = "off"
    BY <2>1 DEF Watch
  <2>4. b.place = "pending" /\ b.filled = Quantity[k] =>
           WatchOk(d, exch[k], rows[k], Quantity[k]) /\ Tracked(d) /\ Tracked(b)
    <3>1. b.place = "pending" => Tracked(b)
      BY <2>1 DEF WatchOk
    <3> QED BY <2>1, <3>1, WatchDelisted
  <2> HIDE DEF b, d
  <2>5. /\ n \in Watch /\ n.filled = b.filled /\ n.acked = b.acked
        /\ WatchOk(n, exch[k], rows[k], Quantity[k]) /\ n.canceled = b.canceled
        /\ n.place = "none" <=> b.place = "none"
        /\ Tracked(n) <=> Tracked(b)
    BY <2>1, <2>3, <2>4
  <2>6. WatchOk(n, exch[k], rows'[k], Quantity[k])
    BY <2>1, <2>5, WatchAnswer
  <2> HIDE DEF n
  <2>7. Steady(k)
    BY <2>2, <2>5 DEF Steady, b
  <2> QED BY <2>2, <2>5, <2>6, <2>7 DEF n, b, d
<1>2. broker' \in [Keys -> Watch]
  BY <1>1 DEF Delisted
<1> QED BY <1>1, <1>2 DEF Watched

\* A delivered fill is acknowledged.
LEMMA AcknowledgedKeeps ==
  ASSUME Watched, UNCHANGED <<exch, rows>>, NEW k \in Keys, NEW n \in Nat,
         broker' = [broker EXCEPT ![k] = Acknowledged(@, n)]
  PROVE  /\ Watched' /\ \A j \in Keys : Steady(j)
         /\ \A j \in Keys : broker'[j].filled = broker[j].filled
         /\ \A j \in Keys \ {k} : broker'[j] = broker[j]
         /\ broker'[k].acked = IF broker[k].watched /\ broker[k].acked + n <= broker[k].filled
                               THEN broker[k].acked + n ELSE broker[k].acked
<1> DEFINE b == broker[k]
           a == Acknowledged(b, n)
<1>1. /\ b \in Watch /\ exch[k] \in Market /\ rows[k] \in Market /\ Quantity[k] \in Nat
      /\ WatchOk(b, exch[k], rows[k], Quantity[k]) /\ broker \in [Keys -> Watch]
  BY FactsAssumption DEF Watched
<1>2. /\ a \in Watch /\ WatchOk(a, exch[k], rows[k], Quantity[k])
      /\ Tracked(a) <=> Tracked(b)
      /\ a.filled = b.filled /\ a.place = b.place /\ a.canceled = b.canceled
      /\ a.acked = IF b.watched /\ b.acked + n <= b.filled THEN b.acked + n ELSE b.acked
  <2>1. CASE b.watched /\ b.acked + n <= b.filled
    <3>1. Tracked(b)
      BY <2>1 DEF Tracked
    <3> HIDE DEF b
    <3> QED BY <1>1, <2>1, <3>1, WatchAcknowledged
  <2>2. CASE ~(b.watched /\ b.acked + n <= b.filled)
    <3>1. a = b
      BY <2>2 DEF Acknowledged
    <3> HIDE DEF a, b
    <3> QED BY <1>1, <2>2, <3>1
  <2> QED BY <2>1, <2>2
<1>3. broker' = [broker EXCEPT ![k] = a]
  OBVIOUS
<1> HIDE DEF a
<1>4. broker'[k] = a /\ \A j \in Keys \ {k} : broker'[j] = broker[j]
  BY <1>1, <1>3
<1>5. Watched'
  BY <1>2, <1>3, <1>4 DEF Watched
<1> QED BY <1>2, <1>4, <1>5 DEF Steady

\* A new answer of the exchange.
LEMMA AnswerKeeps ==
  ASSUME Watched, UNCHANGED <<exch, broker>>, rows' \in {rows, exch}
  PROVE  Watched' /\ \A j \in Keys : Steady(j)
<1>1. ASSUME NEW k \in Keys
      PROVE  WatchOk(broker[k], exch[k], rows'[k], Quantity[k])
  <2>1. /\ broker[k] \in Watch /\ exch[k] \in Market /\ rows[k] \in Market
        /\ Quantity[k] \in Nat /\ WatchOk(broker[k], exch[k], rows[k], Quantity[k])
    BY FactsAssumption DEF Watched
  <2> QED BY <2>1, WatchAnswer
<1> QED BY <1>1 DEF Watched, Steady

\* A row that shows the whole quantity is final.
LEMMA FullRow ==
  ASSUME Watched, NEW k \in Keys, rows[k].cum = Quantity[k]
  PROVE  ~exch[k].live /\ exch[k].cum = rows[k].cum
<1>1. /\ exch[k] \in Market /\ Quantity[k] \in Nat
      /\ WatchOk(broker[k], exch[k], rows[k], Quantity[k])
  BY FactsAssumption DEF Watched
<1> QED BY <1>1 DEF WatchOk, Market

\* The fill that the fill check is at.
NowOk ==
    at \in {"applied", "post", "postUnsure", "settle", "return", "returned"} =>
        now \in DOMAIN fills

\* Whatever the fill check does, its counters stay true to the exchange, and no
\* order changes for those who place and cancel orders.
LEMMA FillCheckWatches ==
  ASSUME Watched, LookingOk, NowOk, todo \subseteq Keys, fills \in Seq(Fill),
         \A i \in DOMAIN fills : Size(fills[i]) \in Nat, FillCheck
  PROVE  /\ Watched' /\ \A j \in Keys : Steady(j)
         /\ UNCHANGED <<exch, calls, held>>
<1>0. UNCHANGED <<exch, calls, held>>
  BY DEF FillCheck, Round, Poll, RowObserved, RowsDone, CancelRowObserved, CancelRowsDone, Hand,
     DrainStep, Receipted, PostProcess, Settle, Return, Row, CancelRow, brokerVars
<1> DEFINE Kept == Watched' /\ \A j \in Keys : Steady(j)
<1>1. CASE Round \/ CancelRowsDone \/ Hand \/ DrainStep \/ PostProcess \/ Return
  <2>1. UNCHANGED <<exch, broker, rows>>
    BY <1>1 DEF Round, CancelRowsDone, Hand, DrainStep, PostProcess, Return, brokerVars, GiveUp
  <2> QED BY <2>1, <1>0, AnswerKeeps
<1>2. CASE Poll
  <2>1. UNCHANGED <<exch, broker>> /\ rows' \in {rows, exch}
    BY <1>2 DEF Poll, brokerVars
  <2> QED BY <2>1, <1>0, AnswerKeeps
<1>3. CASE RowsDone
  BY <1>3, <1>0, DelistedKeeps DEF RowsDone
<1>4. CASE Receipted \/ Settle
  <2>1. fills[now].key \in Keys /\ Size(fills[now]) \in Nat
    <3>1. now \in DOMAIN fills
      BY <1>4 DEF NowOk, Receipted, Settle
    <3>2. fills[now] \in Fill
      BY <3>1
    <3> QED BY <3>1, <3>2 DEF Fill
  <2>2. /\ rows' = rows
        /\ \/ broker' = broker
           \/ broker' = [broker EXCEPT ![fills[now].key] = Acknowledged(@, Size(fills[now]))]
    BY <1>4 DEF Receipted, Settle, Finish, GiveUp
  <2>3. CASE broker' = broker
    BY <2>2, <2>3, <1>0, AnswerKeeps
  <2>4. CASE broker' = [broker EXCEPT ![fills[now].key] = Acknowledged(@, Size(fills[now]))]
    BY <2>1, <2>2, <2>4, <1>0, AcknowledgedKeeps
  <2> QED BY <2>2, <2>3, <2>4
<1>5. ASSUME NEW k \in Keys, Row(k) PROVE Kept
  <2>0. rows' = rows
    BY <1>5 DEF Row
  <2>1. CASE broker' = broker \/ broker' = Delisted
    BY <2>0, <2>1, <1>0, AnswerKeeps, DelistedKeeps
  <2>2. CASE Listed(k) /\ Increment(k) > 0 /\ Take(k, FALSE, rows[k].cum = Quantity[k])
    <3>1. Tracked(broker[k]) /\ rows[k].cum > broker[k].filled
          /\ (rows[k].cum = Quantity[k] => ~exch[k].live /\ exch[k].cum = rows[k].cum)
      BY <2>2, FullRow DEF Listed, Increment, Watched, WatchOk, Watch, Market
    <3> HIDE DEF Kept
    <3>2. (rows[k].cum = Quantity[k]) \in BOOLEAN
      OBVIOUS
    <3> QED BY <2>0, <2>2, <3>1, <3>2, <1>0, TakeKeeps DEF Kept
  <2> QED BY <1>5, <2>1, <2>2 DEF Row
<1>6. CASE RowObserved
  <2>0. rows' = rows /\ row \in Keys /\ Tracked(broker[row]) /\ rows[row].cum > broker[row].filled
    BY <1>6 DEF RowObserved, LookingOk
  <2>1. CASE broker' = Delisted
    BY <2>0, <2>1, <1>0, DelistedKeeps
  <2>2. CASE Take(row, TRUE, rows[row].cum = Quantity[row])
    <3>1. rows[row].cum = Quantity[row] => ~exch[row].live /\ exch[row].cum = rows[row].cum
      BY <2>0, FullRow
    <3>2. (rows[row].cum = Quantity[row]) \in BOOLEAN
      OBVIOUS
    <3> QED BY <2>0, <2>2, <3>1, <3>2, <1>0, TakeKeeps
  <2> QED BY <1>6, <2>1, <2>2 DEF RowObserved
<1>7. ASSUME NEW k \in Keys, CancelRow(k) PROVE Kept
  <2>0. rows' = rows /\ FinalRow(k)
    BY <1>7 DEF CancelRow, LookingOk
  <2>1. CASE broker' = broker
    BY <2>0, <2>1, <1>0, AnswerKeeps
  <2>2. CASE Take(k, FALSE, ~rows[k].live)
    <3>1. (~rows[k].live) \in BOOLEAN /\ Tracked(broker[k])
      BY <2>0 DEF FinalRow, Tracked
    <3> QED BY <2>0, <2>2, <3>1, <1>0, TakeKeeps DEF FinalRow
  <2> QED BY <1>7, <2>1, <2>2 DEF CancelRow
<1>8. CASE CancelRowObserved
  <2>0. rows' = rows /\ row \in Keys /\ FinalRow(row)
    BY <1>8 DEF CancelRowObserved, LookingOk
  <2>1. CASE broker' = broker
    BY <2>0, <2>1, <1>0, AnswerKeeps
  <2>2. CASE Take(row, TRUE, ~rows[row].live)
    <3>1. (~rows[row].live) \in BOOLEAN /\ Tracked(broker[row])
      BY <2>0 DEF FinalRow, Tracked
    <3> QED BY <2>0, <2>2, <3>1, <1>0, TakeKeeps DEF FinalRow
  <2> QED BY <1>8, <2>1, <2>2 DEF CancelRowObserved
<1> QED BY <1>0, <1>1, <1>2, <1>3, <1>4, <1>5, <1>6, <1>7, <1>8 DEF FillCheck

-----------------------------------------------------------------------------
(* submit_order and cancel_order *)

Stages(k) == {c \in Calls : <<k, c>> \in calls}

\* An order whose record is committed (saved) awaits the snapshot, and is sent
\* next if that record is its intent.
SavedOk(C, b, r) ==
    /\ "saved" \in C
    /\ r.status = "intent" => b.place = "none" /\ \A c \in SubmitStages : c \notin C

CallOk(k) ==
    /\ CallsOk(Stages(k), broker[k], exch[k], orders[k], held[k])
    /\ LedgerOk(orders[k], broker[k], exch[k])
    /\ writing = k => SavedOk(Stages(k), broker[k], orders[k])

Called == calls \subseteq Keys \X Calls /\ \A k \in Keys : CallOk(k)

\* A call goes on to its next await, or ends.
LEMMA TurnStages ==
  ASSUME calls \subseteq Keys \X Calls, NEW k \in Keys, NEW from, NEW to \in SUBSET Calls,
         Turn(k, from, to)
  PROVE  /\ from \in Stages(k) /\ Stages(k)' = (Stages(k) \ {from}) \cup to
         /\ calls' \subseteq Keys \X Calls
         /\ \A j \in Keys \ {k} : Stages(j)' = Stages(j)
  BY DEF Turn, Stages

\* A call begins.
LEMMA BegunStages ==
  ASSUME calls \subseteq Keys \X Calls, NEW k \in Keys, NEW c \in Calls,
         calls' = calls \cup {<<k, c>>}
  PROVE  /\ Stages(k)' = Stages(k) \cup {c}
         /\ calls' \subseteq Keys \X Calls
         /\ \A j \in Keys \ {k} : Stages(j)' = Stages(j)
  BY DEF Stages

\* A step that changes at most one order, for which everything is in order.
LEMMA OthersCalled ==
  ASSUME Called, calls' \subseteq Keys \X Calls, NEW k \in Keys, CallOk(k)',
         \A j \in Keys \ {k} : /\ Stages(j)' = Stages(j) /\ broker'[j] = broker[j]
                               /\ exch'[j] = exch[j] /\ orders'[j] = orders[j]
                               /\ held'[j] = held[j] /\ (writing' = j => writing = j)
  PROVE  Called'
<1>1. ASSUME NEW j \in Keys \ {k} PROVE CallOk(j)'
  BY DEF Called, CallOk
<1> QED BY <1>1 DEF Called

\* What the callers do not see changes nothing for them.
LEMMA CallsQuiet ==
  ASSUME NEW C, NEW b, NEW x, NEW r, NEW h, CallsOk(C, b, x, r, h),
         NEW d, NEW y, NEW s, NEW g,
         Tracked(d) <=> Tracked(b), d.place = "none" <=> b.place = "none", d.canceled = b.canceled,
         s.status = r.status, y = x \/ x.live, g = h \/ Tracked(b)
  PROVE  CallsOk(C, d, y, s, g)
  BY DEF CallsOk

\* Nor for the record.
LEMMA LedgerQuiet ==
  ASSUME NEW b, NEW x, NEW r, LedgerOk(r, b, x), NEW d, NEW y, NEW s,
         Tracked(d) <=> Tracked(b), d.place = "none" <=> b.place = "none",
         y = x \/ x.live, s.status = r.status, s.acknowledged = r.acknowledged,
         \/ s.terminal = r.terminal
         \/ /\ r.status \in {"accepted", "canceled"}
            /\ ~y.live /\ y.cum = s.terminal
  PROVE  LedgerOk(s, d, y)
  BY DEF LedgerOk, Present

\* A step in which every order is steady for its callers.
LEMMA QuietCalled ==
  ASSUME Called, calls' = calls, \A k \in Keys : Steady(k),
         \A k \in Keys : exch'[k] = exch[k] \/ exch[k].live,
         \A k \in Keys : held'[k] = held[k] \/ Tracked(broker[k]),
         \A k \in Keys : writing' = k => writing = k,
         \A k \in Keys :
            /\ orders'[k].status = orders[k].status
            /\ orders'[k].acknowledged = orders[k].acknowledged
            /\ \/ orders'[k].terminal = orders[k].terminal
               \/ /\ orders[k].status \in {"accepted", "canceled"}
                  /\ ~exch'[k].live /\ exch'[k].cum = orders'[k].terminal
  PROVE  Called'
<1>1. ASSUME NEW k \in Keys PROVE CallOk(k)'
  <2>1. Stages(k)' = Stages(k)
    BY DEF Stages
  <2>2. CallsOk(Stages(k), broker'[k], exch'[k], orders'[k], held'[k])
    BY CallsQuiet DEF Called, CallOk, Steady
  <2>3. LedgerOk(orders'[k], broker'[k], exch'[k])
    BY LedgerQuiet DEF Called, CallOk, Steady
  <2>4. writing' = k => SavedOk(Stages(k), broker'[k], orders'[k])
    BY DEF Called, CallOk, Steady, SavedOk
  <2> QED BY <2>1, <2>2, <2>3, <2>4 DEF CallOk
<1> QED BY <1>1 DEF Called

\* What is known of one order.
LEMMA OrderFacts ==
  ASSUME Inv, Watched, NEW k \in Keys
  PROVE  /\ broker[k] \in Watch /\ exch[k] \in Market /\ rows[k] \in Market
         /\ Quantity[k] \in Nat \ {0} /\ WatchOk(broker[k], exch[k], rows[k], Quantity[k])
         /\ orders[k] \in Order /\ RecordOk(orders[k])
         /\ broker \in [Keys -> Watch] /\ exch \in [Keys -> Market]
  BY FactsAssumption DEF Inv, Consistent, TypeOK, Watched

\* The step of one order at the exchange and in the broker.
LEMMA OneWatched ==
  ASSUME Watched, rows' = rows, NEW k \in Keys, NEW b \in Watch, NEW x \in Market,
         WatchOk(b, x, rows[k], Quantity[k]),
         broker' = [broker EXCEPT ![k] = b], exch' = [exch EXCEPT ![k] = x]
  PROVE  /\ Watched' /\ broker'[k] = b /\ exch'[k] = x
         /\ \A j \in Keys \ {k} : broker'[j] = broker[j] /\ exch'[j] = exch[j]
  BY DEF Watched

\* A final row stays final, a row of a tracked order one of a tracked order.
LEMMA LookingKept ==
  ASSUME LookingOk, UNCHANGED <<at, row, todo, rows>>,
         todo \subseteq Keys,
         \A k \in Keys : /\ Tracked(broker[k]) => Tracked(broker'[k])
                         /\ broker'[k].filled = broker[k].filled
                         /\ broker[k].canceled => broker'[k].canceled
                         /\ ~exch[k].live => exch'[k] = exch[k] \/ ~broker[k].canceled
  PROVE  LookingOk'
  BY DEF LookingOk, FinalRow

\* The exchange executes shares of an order.
LEMMA ExecuteKeeps ==
  ASSUME Inv, Watched, LookingOk, Called, todo \subseteq Keys, NEW k \in Keys, Execute(k)
  PROVE  Watched' /\ LookingOk' /\ Called'
<1>1. /\ broker[k] \in Watch /\ exch[k] \in Market /\ rows[k] \in Market
      /\ Quantity[k] \in Nat \ {0} /\ WatchOk(broker[k], exch[k], rows[k], Quantity[k])
      /\ broker \in [Keys -> Watch] /\ exch \in [Keys -> Market]
  BY OrderFacts
<1>2. PICK n \in (exch[k].cum + 1)..Quantity[k] :
          exch' = [exch EXCEPT ![k] = [cum |-> n, live |-> n < Quantity[k]]]
  BY DEF Execute
<1> DEFINE x == [cum |-> n, live |-> n < Quantity[k]]
<1>3. x \in Market /\ x.cum \in (exch[k].cum + 1)..Quantity[k] /\ (x.live => x.cum < Quantity[k]) /\ exch[k].live
  <2>1. n \in Nat /\ x.cum = n /\ x.live = (n < Quantity[k])
    BY <1>1 DEF Market
  <2>2. exch[k].live
    BY DEF Execute
  <2>3. x \in Market
    BY <2>1 DEF Market
  <2> HIDE DEF x
  <2> QED BY <1>1, <2>1, <2>2, <2>3
<1>4. /\ UNCHANGED <<broker, rows, calls, held, at, row, todo, orders, writing>>
      /\ exch' = [exch EXCEPT ![k] = x]
  BY <1>2 DEF Execute, loopVars, vars, histVars, ledgerVars
<1> HIDE DEF x
<1>5. WatchOk(broker[k], x, rows[k], Quantity[k])
  BY <1>1, <1>3, WatchExecute
<1>6. broker' = [broker EXCEPT ![k] = broker[k]]
  BY <1>1, <1>4
<1>7. /\ Watched' /\ exch'[k] = x /\ \A j \in Keys \ {k} : exch'[j] = exch[j]
  BY <1>1, <1>3, <1>4, <1>5, <1>6, OneWatched
<1>8. LookingOk'
  BY <1>3, <1>4, <1>7, LookingKept
<1>9. Called'
  BY <1>3, <1>4, <1>7, QuietCalled DEF Steady
<1> QED BY <1>7, <1>8, <1>9

\* An order is to be recorded.
LEMMA SubmitKeeps ==
  ASSUME Inv, Watched, Called, NEW k \in Keys, Submit(k)
  PROVE  Called'
<1>1. /\ calls' = calls \cup {<<k, "intent">>} /\ broker[k].place = "none"
      /\ \A c \in Calls : <<k, c>> \notin calls
      /\ UNCHANGED <<broker, exch, held, orders, writing>>
  BY DEF Submit, vars, histVars, ledgerVars
<1>2. "intent" \in Calls /\ Stages(k) = {}
  BY <1>1 DEF Calls, Stages
<1>3. /\ Stages(k)' = {"intent"} /\ calls' \subseteq Keys \X Calls
      /\ \A j \in Keys \ {k} : Stages(j)' = Stages(j)
  BY <1>1, <1>2, BegunStages DEF Called
<1>4. CallOk(k)'
  <2>1. CallsOk({"intent"}, broker[k], exch[k], orders[k], held[k])
    BY <1>1 DEF CallsOk, SubmitStages, CancelStages
  <2>2. LedgerOk(orders[k], broker[k], exch[k]) /\ writing # k
    BY <1>2 DEF Called, CallOk, SavedOk
  <2> QED BY <1>1, <1>3, <2>1, <2>2 DEF CallOk
<1> QED BY <1>1, <1>3, <1>4, OthersCalled

\* The request of an order goes out, or is blocked.
LEMMA PostKeeps ==
  ASSUME Inv, Watched, LookingOk, Called, todo \subseteq Keys, held \in [Keys -> Nat],
         HeldAtMostExecuted, NEW k \in Keys, Post(k)
  PROVE  Watched' /\ LookingOk' /\ Called'
<1>1. /\ broker[k] \in Watch /\ exch[k] \in Market /\ rows[k] \in Market
      /\ Quantity[k] \in Nat \ {0} /\ WatchOk(broker[k], exch[k], rows[k], Quantity[k])
      /\ broker \in [Keys -> Watch] /\ exch \in [Keys -> Market]
  BY OrderFacts
<1>2. /\ UNCHANGED <<rows, held, at, row, todo, orders, writing>> /\ broker[k].place = "none"
  BY DEF Post, loopVars, vars, histVars, ledgerVars
<1>3. ~Tracked(broker[k]) /\ ~exch[k].live /\ exch[k].cum = 0 /\ held[k] = 0
  <2>1. exch[k].cum = 0 /\ ~Tracked(broker[k]) /\ ~exch[k].live
    BY <1>1, <1>2 DEF WatchOk
  <2> QED BY <2>1 DEF HeldAtMostExecuted
<1>4. /\ CallsOk(Stages(k), broker[k], exch[k], orders[k], held[k])
      /\ LedgerOk(orders[k], broker[k], exch[k])
      /\ writing = k => SavedOk(Stages(k), broker[k], orders[k])
  BY DEF Called, CallOk
<1>5. CASE Turn(k, "post", {"rejected"}) /\ UNCHANGED <<exch, broker>>
  <2>1. {"rejected"} \in SUBSET Calls
    BY DEF Calls
  <2>2. /\ "post" \in Stages(k) /\ Stages(k)' = (Stages(k) \ {"post"}) \cup {"rejected"}
        /\ calls' \subseteq Keys \X Calls
        /\ \A j \in Keys \ {k} : Stages(j)' = Stages(j)
    BY <1>5, <2>1, TurnStages DEF Called
  <2>3. CallsOk((Stages(k) \ {"post"}) \cup {"rejected"}, broker[k], exch[k], orders[k], held[k])
    BY <1>2, <1>3, <1>4, <2>2 DEF CallsOk, SubmitStages, CancelStages
  <2>4. writing = k => FALSE
    BY <1>4, <2>2 DEF CallsOk, SavedOk, SubmitStages
  <2>5. CallOk(k)'
    BY <1>2, <1>4, <1>5, <2>2, <2>3, <2>4 DEF CallOk
  <2>6. Called'
    BY <1>2, <1>5, <2>2, <2>5, OthersCalled
  <2>7. Watched'
    BY <1>2, <1>5 DEF Watched
  <2>8. LookingOk'
    BY <1>2, <1>5, LookingKept
  <2> QED BY <2>6, <2>7, <2>8
<1>6. ASSUME Turn(k, "post", {"sent"}), NEW taken \in BOOLEAN,
             exch' = [exch EXCEPT ![k].live = taken],
             broker' = [broker EXCEPT ![k].place = "off"]
      PROVE  Watched' /\ LookingOk' /\ Called'
  <2> DEFINE b == [broker[k] EXCEPT !.place = "off"]
             x == [exch[k] EXCEPT !.live = taken]
  <2>1. {"sent"} \in SUBSET Calls
    BY DEF Calls
  <2>2. /\ "post" \in Stages(k) /\ Stages(k)' = (Stages(k) \ {"post"}) \cup {"sent"}
        /\ calls' \subseteq Keys \X Calls
        /\ \A j \in Keys \ {k} : Stages(j)' = Stages(j)
    BY <1>6, <2>1, TurnStages DEF Called
  <2>3. /\ b \in Watch /\ b.place = "off" /\ b.filled = broker[k].filled /\ b.canceled = broker[k].canceled
        /\ x \in Market /\ x.cum = exch[k].cum
    BY <1>1 DEF Watch, Market
  <2>4. WatchOk(b, x, rows[k], Quantity[k]) /\ ~Tracked(b)
    BY <1>1, <1>2, WatchPost
  <2>5. broker' = [broker EXCEPT ![k] = b] /\ exch' = [exch EXCEPT ![k] = x]
    BY <1>6
  <2> HIDE DEF b, x
  <2>6. /\ Watched' /\ broker'[k] = b /\ exch'[k] = x
        /\ \A j \in Keys \ {k} : broker'[j] = broker[j] /\ exch'[j] = exch[j]
    BY <1>2, <2>3, <2>4, <2>5, OneWatched
  <2>7. orders[k].status = "intent"
    BY <1>4, <2>2 DEF CallsOk
  <2>8. CallsOk((Stages(k) \ {"post"}) \cup {"sent"}, b, x, orders[k], held[k])
    <3>1. ~Tracked(b) /\ ~Tracked(broker[k]) /\ held[k] = 0 /\ "post" \in Stages(k)
      BY <1>3, <2>2, <2>4
    <3>2. b.canceled = broker[k].canceled
      BY <2>3
    <3>3. \A c \in CancelStages : c \notin Stages(k)
      BY <1>4, <3>1 DEF CallsOk
    <3>4. \A c \in SubmitStages : c \in Stages(k) => c = "post"
      BY <1>4, <2>2 DEF CallsOk, SubmitStages
    <3> QED BY <1>4, <2>7, <3>1, <3>2, <3>3, <3>4 DEF CallsOk, SubmitStages, CancelStages
  <2>9. LedgerOk(orders[k], b, x)
    BY <1>4, <2>4, <2>7 DEF LedgerOk, Present
  <2>10. writing # k
    BY <1>4, <2>2, <2>7 DEF SavedOk, SubmitStages
  <2>11. CallOk(k)'
    BY <1>2, <2>2, <2>6, <2>8, <2>9, <2>10 DEF CallOk
  <2>12. Called'
    BY <1>2, <2>2, <2>6, <2>11, OthersCalled
  <2>13. LookingOk'
    BY <1>2, <1>3, <2>3, <2>6, LookingKept DEF Tracked
  <2> QED BY <2>6, <2>12, <2>13
<1> QED BY <1>5, <1>6 DEF Post

\* The answer to it.
LEMMA PostAnsweredKeeps ==
  ASSUME Inv, Watched, LookingOk, Called, todo \subseteq Keys, NEW k \in Keys, PostAnswered(k)
  PROVE  Watched' /\ LookingOk' /\ Called'
<1>1. /\ broker[k] \in Watch /\ exch[k] \in Market /\ rows[k] \in Market
      /\ Quantity[k] \in Nat \ {0} /\ WatchOk(broker[k], exch[k], rows[k], Quantity[k])
      /\ broker \in [Keys -> Watch] /\ exch \in [Keys -> Market]
  BY OrderFacts
<1>2. UNCHANGED <<exch, rows, held, at, row, todo, orders, writing>>
  BY DEF PostAnswered, loopVars, vars, histVars, ledgerVars
<1>3. /\ CallsOk(Stages(k), broker[k], exch[k], orders[k], held[k])
      /\ LedgerOk(orders[k], broker[k], exch[k])
      /\ writing = k => SavedOk(Stages(k), broker[k], orders[k])
  BY DEF Called, CallOk
<1>4. PICK c \in {"accepted", "rejected", "unknown"} :
         /\ Turn(k, "sent", {c})
         /\ c = "accepted" => broker' = [broker EXCEPT ![k].place = "pending", ![k].watched = TRUE]
         /\ c # "accepted" => broker' = broker
         /\ c = "rejected" => ~exch[k].live /\ exch[k].cum = 0
  BY DEF PostAnswered
<1>5. /\ "sent" \in Stages(k) /\ Stages(k)' = (Stages(k) \ {"sent"}) \cup {c}
      /\ calls' \subseteq Keys \X Calls
      /\ \A j \in Keys \ {k} : Stages(j)' = Stages(j)
  <2>1. {c} \in SUBSET Calls
    BY DEF Calls
  <2> QED BY <1>4, <2>1, TurnStages DEF Called
<1>6. /\ ~Tracked(broker[k]) /\ orders[k].status = "intent" /\ writing # k
      /\ \A d \in CancelStages : d \notin Stages(k)
      /\ \A d \in SubmitStages : d \in Stages(k) => d = "sent"
  BY <1>3, <1>5 DEF CallsOk, SavedOk, SubmitStages
<1> DEFINE b == [broker[k] EXCEPT !.place = "pending", !.watched = TRUE]
           n == IF c = "accepted" THEN b ELSE broker[k]
<1>7. /\ b \in Watch /\ b.place = "pending" /\ b.filled = broker[k].filled
      /\ b.canceled = broker[k].canceled
  BY <1>1 DEF Watch
<1>8. WatchOk(b, exch[k], rows[k], Quantity[k]) /\ Tracked(b)
  BY <1>1, <1>6, WatchAccepted
<1>9. broker' = [broker EXCEPT ![k] = n]
  BY <1>1, <1>4
<1> HIDE DEF b
<1>10. /\ n \in Watch /\ WatchOk(n, exch[k], rows[k], Quantity[k])
       /\ n.filled = broker[k].filled /\ n.canceled = broker[k].canceled
       /\ Tracked(n) <=> c = "accepted"
  BY <1>1, <1>6, <1>7, <1>8
<1>11. c # "accepted" => n = broker[k]
  OBVIOUS
<1> HIDE DEF n
<1>12. exch' = [exch EXCEPT ![k] = exch[k]]
  BY <1>1, <1>2
<1>13. /\ Watched' /\ broker'[k] = n /\ \A j \in Keys \ {k} : broker'[j] = broker[j]
  BY <1>1, <1>2, <1>9, <1>10, <1>12, OneWatched
<1>14. CallsOk((Stages(k) \ {"sent"}) \cup {c}, n, exch[k], orders[k], held[k])
  BY <1>3, <1>4, <1>6, <1>10 DEF CallsOk, SubmitStages, CancelStages
<1>15. LedgerOk(orders[k], n, exch[k])
  BY <1>3, <1>6, <1>10, <1>11 DEF LedgerOk, Present
<1>16. CallOk(k)'
  BY <1>2, <1>5, <1>6, <1>13, <1>14, <1>15 DEF CallOk
<1>17. Called'
  BY <1>2, <1>5, <1>13, <1>16, OthersCalled
<1>18. LookingOk'
  BY <1>2, <1>6, <1>10, <1>13, LookingKept
<1> QED BY <1>13, <1>17, <1>18

\* An order's own call changes its status, never what was observed of it.
LEMMA RecordedFrame ==
  ASSUME Inv, NEW k \in Keys, NEW c \in {"intent", "accepted", "unknown", "rejected", "canceled"},
         Recorded(k, c)
  PROVE  /\ orders'[k].observed = orders[k].observed
         /\ orders'[k].executions = orders[k].executions
         /\ orders'[k].acknowledged = orders[k].acknowledged
         /\ orders'[k].status = c
         /\ c = "intent" => ~Present(orders[k]) /\ orders'[k].terminal = NotTerminal
         /\ c \notin {"intent", "rejected"} => orders'[k].terminal = orders[k].terminal
         /\ c = "accepted" => orders[k].status = "intent"
         /\ c = "canceled" => orders[k].status = "accepted"
         /\ \A j \in Keys \ {k} : orders'[j] = orders[j]
<1> DEFINE r == orders[k]
<1>1. r \in Order /\ RecordOk(r) /\ orders \in [Keys -> Order]
  BY DEF Inv, Consistent, TypeOK
<1>2. CASE c = "intent"
  <2>1. orders' = [orders EXCEPT ![k] = NewOrder(own[Bot])] /\ ~Present(r)
    BY <1>2 DEF Recorded, Intent, Commit
  <2>2. r.observed = 0 /\ r.executions = {} /\ ~r.acknowledged
    BY <1>1, <2>1 DEF RecordOk, Present, Order
  <2>3. r.acknowledged = FALSE
    BY <1>1, <2>2 DEF Order
  <2> QED BY <1>1, <1>2, <2>1, <2>2, <2>3 DEF NewOrder
<1>3. CASE c = "accepted"
  <2>1. PICK o \in Odnos : Accepted(Bot, k, o)
    BY <1>3 DEF Recorded
  <2>2. orders' = [orders EXCEPT ![k] = [r EXCEPT !.odno = o, !.status = "accepted"]] /\ r.status = "intent"
    BY <2>1 DEF Accepted, Commit
  <2> DEFINE n == [r EXCEPT !.odno = o, !.status = "accepted"]
  <2>3. /\ n.observed = r.observed /\ n.executions = r.executions /\ n.status = "accepted"
        /\ n.acknowledged = r.acknowledged /\ n.terminal = r.terminal
    BY <1>1 DEF Order
  <2> HIDE DEF n
  <2> QED BY <1>1, <1>3, <2>2, <2>3 DEF n
<1>4. CASE c \in {"unknown", "rejected", "canceled"}
  <2>1. Outcome(Bot, k, c)
    BY <1>4 DEF Recorded
  <2>2. /\ orders' = [orders EXCEPT ![k] = WithOutcome(r, c)] /\ OutcomeAllowed(r, c)
        /\ Present(r)
    BY <2>1 DEF Outcome, Commit, Owns
  <2>3. LET n == WithOutcome(r, c)
        IN  /\ n.observed = r.observed /\ n.executions = r.executions /\ n.status = c
            /\ n.acknowledged = r.acknowledged /\ (c # "rejected" => n.terminal = r.terminal)
    BY <1>1, <1>4 DEF Order, WithOutcome
  <2>4. c = "canceled" => r.status = "accepted"
    BY <1>1, <2>2 DEF OutcomeAllowed, RecordOk, Present, Order, Statuses, Outcomes
  <2> QED BY <1>1, <1>4, <2>2, <2>3, <2>4
<1> QED BY <1>2, <1>3, <1>4

\* The call that records a stage, committed or failed.
LEMMA RecordCallKeeps ==
  ASSUME Inv, Watched, LookingOk, Called, todo \subseteq Keys, NEW k \in Keys, RecordCall(k)
  PROVE  Watched' /\ LookingOk' /\ Called'
<1>1. UNCHANGED <<exch, broker, held, at, row, todo, rows>>
  BY DEF RecordCall, loopVars
<1>2. Watched' /\ LookingOk'
  BY <1>1, LookingKept DEF Watched
<1>3. /\ CallsOk(Stages(k), broker[k], exch[k], orders[k], held[k])
      /\ LedgerOk(orders[k], broker[k], exch[k])
      /\ WatchOk(broker[k], exch[k], rows[k], Quantity[k])
      /\ calls \subseteq Keys \X Calls
      /\ writing = k => SavedOk(Stages(k), broker[k], orders[k])
  BY DEF Called, CallOk, Watched
<1>4. ASSUME NEW c \in {"intent", "accepted", "unknown", "rejected", "canceled"},
             CallFails, Turn(k, c, {})
      PROVE  Called'
  <2>1. orders' = orders /\ writing' = writing /\ writing = Nobody
    BY <1>4 DEF CallFails, StorageFault, ledgerVars
  <2>2. /\ Stages(k)' = Stages(k) \ {c} /\ calls' \subseteq Keys \X Calls
        /\ \A j \in Keys \ {k} : Stages(j)' = Stages(j)
    <3>1. {} \in SUBSET Calls
      OBVIOUS
    <3> QED BY <1>3, <1>4, <3>1, TurnStages
  <2>3. CallsOk(Stages(k) \ {c}, broker[k], exch[k], orders[k], held[k])
    BY <1>3 DEF CallsOk
  <2>4. CallOk(k)'
    BY <1>1, <1>3, <2>1, <2>2, <2>3, Names DEF CallOk
  <2> QED BY <1>1, <2>1, <2>2, <2>4, OthersCalled
<1>5. ASSUME NEW c \in {"intent", "accepted", "unknown", "rejected", "canceled"},
             MayWrite, Recorded(k, c), CommitFor(k), NEW to \in {{}, {"saved"}},
             to = (IF fault'[Bot] THEN {} ELSE {"saved"}), Turn(k, c, to)
      PROVE  Called'
  <2>1. /\ orders'[k].acknowledged = orders[k].acknowledged
        /\ orders'[k].status = c
        /\ c = "intent" => ~Present(orders[k]) /\ orders'[k].terminal = NotTerminal
        /\ c \notin {"intent", "rejected"} => orders'[k].terminal = orders[k].terminal
        /\ c = "accepted" => orders[k].status = "intent"
        /\ c = "canceled" => orders[k].status = "accepted"
        /\ \A j \in Keys \ {k} : orders'[j] = orders[j]
    BY <1>5, RecordedFrame
  <2>2. /\ c \in Stages(k) /\ Stages(k)' = (Stages(k) \ {c}) \cup to
        /\ calls' \subseteq Keys \X Calls
        /\ \A j \in Keys \ {k} : Stages(j)' = Stages(j)
    <3>1. to \in SUBSET Calls
      BY <1>5 DEF Calls
    <3> QED BY <1>3, <1>5, <3>1, TurnStages
  <2>3. /\ writing = Nobody
        /\ \/ to = {"saved"} /\ writing' = k
           \/ writing' = writing
    BY <1>5 DEF MayWrite, CommitFor, AfterCommit
  <2>4. /\ \A d \in SubmitStages : d \in Stages(k) /\ c \in SubmitStages => d = c
        /\ Tracked(broker[k]) => \A d \in {"intent", "post", "sent", "unknown", "rejected"} : d \notin Stages(k)
        /\ ~Tracked(broker[k]) => "accepted" \notin Stages(k) /\ \A d \in CancelStages : d \notin Stages(k)
        /\ c \in SubmitStages \cup CancelStages
        /\ c \in {"accepted", "canceled"} => Tracked(broker[k])
        /\ c \in {"intent", "unknown", "rejected"} => ~Tracked(broker[k])
        /\ c = "intent" => broker[k].place = "none"
        /\ c = "rejected" => ~exch[k].live /\ exch[k].cum = 0
    BY <1>3, <2>2 DEF CallsOk, SubmitStages, CancelStages, WatchOk
  <2>5. CallsOk((Stages(k) \ {c}) \cup to, broker[k], exch[k], orders'[k], held[k])
    <3>1. \A d \in SubmitStages : d \notin (Stages(k) \ {c}) \cup to \/ (c = "canceled" /\ d = "accepted")
      BY <1>5, <2>4 DEF SubmitStages
    <3>2. \A d \in CancelStages : d \in (Stages(k) \ {c}) \cup to => d \in Stages(k)
      BY <1>5 DEF CancelStages
    <3>3. c = "canceled" => Tracked(broker[k])
      BY <2>4
    <3> HIDE DEF Tracked
    <3> QED BY <1>3, <3>1, <3>2, <3>3 DEF CallsOk, SubmitStages, CancelStages
  <2>6. LedgerOk(orders'[k], broker[k], exch[k])
    BY <1>3, <2>1, <2>4 DEF LedgerOk, Present
  <2>7. writing' = k => SavedOk((Stages(k) \ {c}) \cup to, broker[k], orders'[k])
    <3>1. CASE writing' = writing
      BY <2>3, <3>1, Names
    <3>2. CASE to = {"saved"} /\ writing' = k
      <4>1. c = "intent" => \A d \in SubmitStages : d \notin (Stages(k) \ {c}) \cup to
        BY <2>4, <3>2 DEF SubmitStages
      <4> QED BY <2>1, <2>4, <3>2, <4>1 DEF SavedOk
    <3> QED BY <2>3, <3>1, <3>2
  <2>8. CallOk(k)'
    BY <1>1, <2>2, <2>5, <2>6, <2>7 DEF CallOk
  <2>9. \A j \in Keys \ {k} : writing' = j => writing = j
    BY <2>3
  <2> QED BY <1>1, <2>1, <2>2, <2>8, <2>9, OthersCalled
<1>6. Called'
  <2>1. PICK c \in {"intent", "accepted", "unknown", "rejected", "canceled"} :
          \/ /\ MayWrite /\ Recorded(k, c) /\ CommitFor(k)
             /\ Turn(k, c, IF fault'[Bot] THEN {} ELSE {"saved"})
          \/ CallFails /\ Turn(k, c, {})
    BY DEF RecordCall
  <2>2. (IF fault'[Bot] THEN {} ELSE {"saved"}) \in {{}, {"saved"}}
    OBVIOUS
  <2> QED BY <1>4, <1>5, <2>1, <2>2
<1> QED BY <1>2, <1>6

\* The snapshot after such a call: an order recorded as intended is sent.
LEMMA CallSavedKeeps ==
  ASSUME Inv, Watched, LookingOk, Called, todo \subseteq Keys, CallSaved
  PROVE  Watched' /\ LookingOk' /\ Called'
<1>1. UNCHANGED <<exch, broker, held, at, row, todo, rows>>
  BY DEF CallSaved, loopVars
<1>2. Watched' /\ LookingOk'
  BY <1>1, LookingKept DEF Watched
<1>3. PICK k \in Keys : k = writing
  BY DEF CallSaved
<1>4. PICK to \in {{}, {"post"}} :
         Turn(k, "saved", to) /\ (to = {"post"} => orders[k].status = "intent")
  BY <1>3 DEF CallSaved
<1>5. orders' = orders /\ writing' = Nobody
  BY DEF CallSaved, SnapshotOk, SnapshotFails, Refresh, RefreshFails, StorageFault, ledgerVars
<1>6. /\ CallsOk(Stages(k), broker[k], exch[k], orders[k], held[k])
      /\ LedgerOk(orders[k], broker[k], exch[k])
      /\ SavedOk(Stages(k), broker[k], orders[k])
      /\ WatchOk(broker[k], exch[k], rows[k], Quantity[k])
  BY <1>3 DEF Called, CallOk, Watched
<1>7. /\ Stages(k)' = (Stages(k) \ {"saved"}) \cup to /\ calls' \subseteq Keys \X Calls
      /\ \A j \in Keys \ {k} : Stages(j)' = Stages(j)
  <2>1. to \in SUBSET Calls
    BY DEF Calls
  <2> QED BY <1>4, <2>1, TurnStages DEF Called
<1>8. CallsOk((Stages(k) \ {"saved"}) \cup to, broker[k], exch[k], orders[k], held[k])
  BY <1>4, <1>6 DEF CallsOk, SavedOk, SubmitStages, CancelStages
<1>9. CallOk(k)'
  BY <1>1, <1>5, <1>6, <1>7, <1>8, Names DEF CallOk
<1>10. \A j \in Keys \ {k} : writing' = j => writing = j
  BY <1>5, Names
<1>11. Called'
  BY <1>1, <1>5, <1>7, <1>9, <1>10, OthersCalled
<1> QED BY <1>2, <1>11

\* The bot cancels an order.
LEMMA CancelKeeps ==
  ASSUME Inv, Watched, LookingOk, Called, NEW k \in Keys, Cancel(k)
  PROVE  Called'
<1>1. /\ calls' = calls \cup {<<k, "cancel">>} /\ broker[k].place = "pending"
      /\ \A c \in CancelStages : c \notin Stages(k)
      /\ UNCHANGED <<broker, exch, held, orders, writing>>
  BY DEF Cancel, vars, histVars, ledgerVars, Stages, CancelStages, Listed
<1>2. /\ Stages(k)' = Stages(k) \cup {"cancel"} /\ calls' \subseteq Keys \X Calls
      /\ \A j \in Keys \ {k} : Stages(j)' = Stages(j)
  <2>1. "cancel" \in Calls
    BY DEF Calls
  <2> QED BY <1>1, <2>1, BegunStages DEF Called
<1>3. CallOk(k)'
  <2>1. Tracked(broker[k]) /\ ~broker[k].canceled
    BY <1>1 DEF Watched, WatchOk
  <2>2. /\ CallsOk(Stages(k), broker[k], exch[k], orders[k], held[k])
        /\ LedgerOk(orders[k], broker[k], exch[k])
        /\ writing = k => SavedOk(Stages(k), broker[k], orders[k])
    BY DEF Called, CallOk
  <2>3. CallsOk(Stages(k) \cup {"cancel"}, broker[k], exch[k], orders[k], held[k])
    BY <1>1, <2>1, <2>2 DEF CallsOk, SubmitStages, CancelStages
  <2>4. writing = k => SavedOk(Stages(k) \cup {"cancel"}, broker[k], orders[k])
    BY <2>2 DEF SavedOk, SubmitStages
  <2> QED BY <1>1, <1>2, <2>2, <2>3, <2>4 DEF CallOk
<1> QED BY <1>1, <1>2, <1>3, OthersCalled

\* The cancellation reaches the exchange.
LEMMA CancelReachedKeeps ==
  ASSUME Inv, Watched, LookingOk, Called, todo \subseteq Keys, NEW k \in Keys, CancelReached(k)
  PROVE  Watched' /\ LookingOk' /\ Called'
<1>1. /\ broker[k] \in Watch /\ exch[k] \in Market /\ rows[k] \in Market
      /\ Quantity[k] \in Nat \ {0} /\ WatchOk(broker[k], exch[k], rows[k], Quantity[k])
      /\ broker \in [Keys -> Watch] /\ exch \in [Keys -> Market]
  BY OrderFacts
<1>2. UNCHANGED <<broker, rows, held, at, row, todo, orders, writing>>
  BY DEF CancelReached, loopVars, vars, histVars, ledgerVars
<1>3. /\ CallsOk(Stages(k), broker[k], exch[k], orders[k], held[k])
      /\ LedgerOk(orders[k], broker[k], exch[k])
      /\ writing = k => SavedOk(Stages(k), broker[k], orders[k])
  BY DEF Called, CallOk
<1> DEFINE x == [exch[k] EXCEPT !.live = FALSE]
<1>4. x \in Market /\ ~x.live /\ x.cum = exch[k].cum /\ (~exch[k].live => x = exch[k])
  BY <1>1 DEF Market
<1>5. PICK to \in {{}, {"cancelled"}} :
         /\ Turn(k, "cancel", to)
         /\ exch' = [exch EXCEPT ![k] = x]
  <2>1. ~exch[k].live => exch = [exch EXCEPT ![k] = x]
    BY <1>1, <1>4
  <2> QED BY <2>1 DEF CancelReached
<1> HIDE DEF x
<1>6. /\ "cancel" \in Stages(k) /\ Stages(k)' = (Stages(k) \ {"cancel"}) \cup to
      /\ calls' \subseteq Keys \X Calls
      /\ \A j \in Keys \ {k} : Stages(j)' = Stages(j)
  <2>1. to \in SUBSET Calls
    BY DEF Calls
  <2> QED BY <1>5, <2>1, TurnStages DEF Called
<1>7. WatchOk(broker[k], x, rows[k], Quantity[k])
  BY <1>1, WatchEnded DEF x
<1>8. broker' = [broker EXCEPT ![k] = broker[k]]
  BY <1>1, <1>2
<1>9. /\ Watched' /\ exch'[k] = x /\ \A j \in Keys \ {k} : exch'[j] = exch[j]
  BY <1>1, <1>2, <1>4, <1>5, <1>7, <1>8, OneWatched
<1>10. LookingOk'
  BY <1>2, <1>4, <1>9, LookingKept
<1>11. CallsOk((Stages(k) \ {"cancel"}) \cup to, broker[k], x, orders[k], held[k])
  <2>1. ~broker[k].canceled /\ Tracked(broker[k])
    BY <1>3, <1>6 DEF CallsOk, CancelStages
  <2> QED BY <1>3, <1>4, <1>6, <2>1 DEF CallsOk, SubmitStages, CancelStages
<1>12. LedgerOk(orders[k], broker[k], x)
  BY <1>3, <1>4 DEF LedgerOk
<1>13. writing = k => SavedOk((Stages(k) \ {"cancel"}) \cup to, broker[k], orders[k])
  BY <1>3 DEF SavedOk, SubmitStages
<1>14. CallOk(k)'
  BY <1>2, <1>6, <1>9, <1>11, <1>12, <1>13 DEF CallOk
<1>15. Called'
  BY <1>2, <1>6, <1>9, <1>14, OthersCalled
<1> QED BY <1>9, <1>10, <1>15

\* It is confirmed, or not.
LEMMA CancelAnsweredKeeps ==
  ASSUME Inv, Watched, LookingOk, Called, todo \subseteq Keys, NEW k \in Keys, CancelAnswered(k)
  PROVE  Watched' /\ LookingOk' /\ Called'
<1>1. /\ broker[k] \in Watch /\ exch[k] \in Market /\ rows[k] \in Market
      /\ Quantity[k] \in Nat \ {0} /\ WatchOk(broker[k], exch[k], rows[k], Quantity[k])
      /\ broker \in [Keys -> Watch] /\ exch \in [Keys -> Market]
  BY OrderFacts
<1>2. UNCHANGED <<exch, rows, held, at, row, todo, orders, writing>>
  BY DEF CancelAnswered, loopVars, vars, histVars, ledgerVars
<1>3. /\ CallsOk(Stages(k), broker[k], exch[k], orders[k], held[k])
      /\ LedgerOk(orders[k], broker[k], exch[k])
      /\ writing = k => SavedOk(Stages(k), broker[k], orders[k])
  BY DEF Called, CallOk
<1> DEFINE b == [broker[k] EXCEPT !.canceled = (broker[k].place = "pending"), !.place = "off"]
<1>4. PICK to \in {{}, {"canceled"}} :
         /\ Turn(k, "cancelled", to)
         /\ IF to = {} THEN broker' = broker ELSE broker' = [broker EXCEPT ![k] = b]
  BY DEF CancelAnswered, Listed
<1>5. /\ "cancelled" \in Stages(k) /\ Stages(k)' = (Stages(k) \ {"cancelled"}) \cup to
      /\ calls' \subseteq Keys \X Calls
      /\ \A j \in Keys \ {k} : Stages(j)' = Stages(j)
  <2>1. to \in SUBSET Calls
    BY DEF Calls
  <2> QED BY <1>4, <2>1, TurnStages DEF Called
<1>6. /\ Tracked(broker[k]) /\ ~broker[k].canceled /\ ~exch[k].live
      /\ \A c \in CancelStages : c \in Stages(k) => c = "cancelled"
      /\ broker[k].place # "none"
  BY <1>1, <1>3, <1>5 DEF CallsOk, CancelStages, WatchOk
<1>7. b \in Watch /\ b.place = "off" /\ b.filled = broker[k].filled
  BY <1>1 DEF Watch
<1>8. WatchOk(b, exch[k], rows[k], Quantity[k]) /\ Tracked(b)
  BY <1>1, <1>6, WatchCanceled
<1> DEFINE n == IF to = {} THEN broker[k] ELSE b
<1>9. broker' = [broker EXCEPT ![k] = n]
  BY <1>1, <1>4
<1> HIDE DEF b
<1>10. /\ n \in Watch /\ WatchOk(n, exch[k], rows[k], Quantity[k]) /\ Tracked(n)
       /\ n.filled = broker[k].filled /\ n.place # "none"
  BY <1>1, <1>6, <1>7, <1>8
<1> HIDE DEF n
<1>11. exch' = [exch EXCEPT ![k] = exch[k]]
  BY <1>1, <1>2
<1>12. /\ Watched' /\ broker'[k] = n /\ \A j \in Keys \ {k} : broker'[j] = broker[j]
  BY <1>1, <1>2, <1>9, <1>10, <1>11, OneWatched
<1>13. LookingOk'
  BY <1>2, <1>6, <1>10, <1>12, LookingKept
<1>14. CallsOk((Stages(k) \ {"cancelled"}) \cup to, n, exch[k], orders[k], held[k])
  <2>1. \A c \in {"intent", "post", "sent", "unknown", "rejected", "cancel", "cancelled"} :
           c \notin (Stages(k) \ {"cancelled"}) \cup to
    BY <1>3, <1>4, <1>6 DEF CallsOk, CancelStages, WatchOk
  <2> HIDE DEF Tracked
  <2> QED BY <1>3, <1>6, <1>10, <2>1 DEF CallsOk, SubmitStages, CancelStages
<1>15. LedgerOk(orders[k], n, exch[k])
  BY <1>3, <1>6, <1>10 DEF LedgerOk
<1>16. writing = k => SavedOk((Stages(k) \ {"cancelled"}) \cup to, n, orders[k])
  BY <1>3, <1>6 DEF SavedOk, SubmitStages
<1>17. CallOk(k)'
  BY <1>2, <1>5, <1>12, <1>14, <1>15, <1>16 DEF CallOk
<1>18. Called'
  BY <1>2, <1>5, <1>12, <1>17, OthersCalled
<1> QED BY <1>12, <1>13, <1>18

\* Whoever places, cancels or executes an order.
LEMMA OrdersKept ==
  ASSUME Inv, Watched, LookingOk, Called, todo \subseteq Keys, held \in [Keys -> Nat],
         HeldAtMostExecuted, NEW k \in Keys, Execute(k) \/ OrderCall(k) \/ CallSaved
  PROVE  Watched' /\ LookingOk' /\ Called'
<1>1. CASE Submit(k) \/ Cancel(k)
  <2>1. UNCHANGED <<exch, broker, at, row, todo, rows>>
    BY <1>1 DEF Submit, Cancel, loopVars
  <2>2. Watched' /\ LookingOk'
    BY <2>1, LookingKept DEF Watched
  <2> QED BY <1>1, <2>2, SubmitKeeps, CancelKeeps
<1> QED BY <1>1, ExecuteKeeps, PostKeeps, PostAnsweredKeeps, CancelReachedKeeps, CancelAnsweredKeeps,
           RecordCallKeeps, CallSavedKeeps DEF OrderCall

-----------------------------------------------------------------------------
(* What the fill check writes into the ledger *)

\* A report keeps all but quantity, end and executions of its order.
LEMMA ReportFrame ==
  ASSUME Inv, NEW k \in Keys, NEW n \in Nat, NEW isFinal \in BOOLEAN, Observe(Bot, k, n, isFinal)
  PROVE  /\ orders'[k].status = orders[k].status /\ orders'[k].acknowledged = orders[k].acknowledged
         /\ orders'[k].observed = n
         /\ orders'[k].executions = orders[k].executions \cup NewExecutions(orders[k], n)
         /\ orders'[k].terminal = IF isFinal \/ n = Quantity[k] THEN n ELSE orders[k].terminal
         /\ orders[k].status \in {"accepted", "canceled"}
         /\ \A j \in Keys \ {k} : orders'[j] = orders[j]
<1> DEFINE last == isFinal \/ n = Quantity[k]
           r == orders[k]
<1>1. orders \in [Keys -> Order]
  BY DEF Inv, Consistent, TypeOK
<1>2. /\ orders' = [orders EXCEPT ![k] = Observed(r, n, last)]
      /\ r.status \in {"accepted", "canceled"}
  BY DEF Observe, Commit, Observable
<1>3. LET s == Observed(r, n, last)
      IN  /\ s.status = r.status /\ s.acknowledged = r.acknowledged
          /\ s.observed = n /\ s.executions = r.executions \cup NewExecutions(r, n)
          /\ s.terminal = IF last THEN n ELSE r.terminal
  BY <1>1 DEF Observed, Order
<1> QED BY <1>1, <1>2, <1>3

\* The execution e of an order became x: the same shares, and only returned
\* says whether it is returned now.
Receipt(k, e, returned) ==
    \E x \in Execution :
        /\ x.from = e.from /\ x.to = e.to
        /\ x.returned => e.returned \/ returned
        /\ orders'[k].executions = (orders[k].executions \ {e}) \cup {x}

\* A receipt touches one execution, and moves none of its shares.
LEMMA ReceiptFrame ==
  ASSUME Inv, NEW k \in Keys, NEW e, NEW returned \in BOOLEAN,
         IF returned THEN ReceiptReturned(Bot, k, e) ELSE ReceiptApplied(Bot, k, e)
  PROVE  /\ orders'[k].status = orders[k].status /\ orders'[k].acknowledged = orders[k].acknowledged
         /\ orders'[k].observed = orders[k].observed /\ orders'[k].terminal = orders[k].terminal
         /\ e \in orders[k].executions /\ Receipt(k, e, returned)
         /\ \A j \in Keys \ {k} : orders'[j] = orders[j]
<1> DEFINE r == orders[k]
           n == IF returned THEN WithReturned(r, e) ELSE WithApplied(r, e)
           x == IF returned THEN [e EXCEPT !.returned = TRUE] ELSE [e EXCEPT !.applied = TRUE]
<1>1. orders \in [Keys -> Order]
  BY DEF Inv, Consistent, TypeOK
<1>2. orders' = [orders EXCEPT ![k] = n] /\ e \in r.executions
  BY DEF ReceiptReturned, ReceiptApplied, Commit
<1>3. e \in Execution
  BY <1>1, <1>2 DEF Order
<1>4. x \in Execution /\ x.from = e.from /\ x.to = e.to /\ (x.returned => e.returned \/ returned)
  BY <1>3 DEF Execution
<1>5. /\ n.status = r.status /\ n.acknowledged = r.acknowledged /\ n.observed = r.observed
      /\ n.terminal = r.terminal /\ n.executions = (r.executions \ {e}) \cup {x}
  BY <1>1 DEF WithReturned, WithApplied, Order
<1> HIDE DEF n, x
<1>6. orders'[k] = n /\ \A j \in Keys \ {k} : orders'[j] = orders[j]
  BY <1>1, <1>2
<1> QED BY <1>2, <1>4, <1>5, <1>6 DEF Receipt

\* The fill check reports the row of k, whose end it knows.
Reports(k) ==
    /\ k \in todo /\ row \notin Keys /\ MayWrite /\ CommitFor("fill")
    /\ \E isFinal \in BOOLEAN :
          /\ Observe(Bot, k, rows[k].cum, isFinal)
          /\ isFinal => rows[k].cum = Quantity[k] \/ (at = "cancelRows" /\ ~rows[k].live)
    /\ \A j \in Keys : broker'[j].filled = broker[j].filled
    /\ UNCHANGED <<fills, rows, now>>
    /\ \/ histFault' /\ row' = row /\ at' \in {"hand", "cancelRows"}
       \/ row' = k /\ at' \in {"observing", "cancelObserving"}

\* The fill check stores a receipt of the fill it is at.
Receives(returned) ==
    /\ now \in DOMAIN fills /\ fills[now].named
    /\ MayWrite /\ CommitFor("fill")
    /\ LET f == fills[now]
           e == TheExecution(f)
       IN  IF returned THEN ReceiptReturned(Bot, f.key, e) ELSE ReceiptApplied(Bot, f.key, e)
    /\ at = IF returned THEN "return" ELSE "drain"
    /\ row' = row

\* Nothing is written into the ledger.
Silent == UNCHANGED vars \/ Refresh \/ RefreshFails \/ Fail \/ Faults

\* Such a step keeps the ledger, and a latched fault.
LEMMA SilentLedger ==
  ASSUME Silent
  PROVE  orders' = orders /\ sessions' = sessions /\ own' = own /\ (histFault => histFault')
  BY DEF Silent, Refresh, RefreshFails, Fail, Faults, StorageFault, ledgerVars, vars, histVars

\* A row that is looked at is reported, or left as it is.
LEMMA RowWrites ==
  ASSUME Watched, LookingOk, NEW k \in Keys, Row(k) \/ CancelRow(k)
  PROVE  (Silent /\ row' = row) \/ Reports(k)
<1>0. UNCHANGED <<rows, exch, now>> /\ k \in todo /\ row \notin Keys
  BY DEF Row, CancelRow, LookingOk
<1>1. (rows[k].cum = Quantity[k]) \in BOOLEAN /\ (~rows[k].live) \in BOOLEAN
  OBVIOUS
<1>2. CASE UNCHANGED <<vars, row>> \/ (CallFails /\ row' = row)
  BY <1>2, CallFaults DEF Silent
<1>3. CASE /\ MayWrite /\ Observe(Bot, k, rows[k].cum, rows[k].cum = Quantity[k])
           /\ CommitFor("fill")
           /\ IF fault'[Bot]
              THEN Goto("hand") /\ broker' = Delisted /\ UNCHANGED row
              ELSE Goto("observing") /\ row' = k /\ UNCHANGED broker
           /\ UNCHANGED fills
  <2>1. \A j \in Keys : broker'[j].filled = broker[j].filled
    BY <1>0, <1>3, DelistedKeeps
  <2>2. fault'[Bot] => histFault'
    BY <1>3 DEF CommitFor, AfterCommit
  <2>3. Reports(k)
    BY <1>0, <1>1, <1>3, <2>1, <2>2 DEF Reports, Goto
  <2> QED BY <2>3
<1>4. CASE /\ at = "cancelRows" /\ MayWrite /\ Observe(Bot, k, rows[k].cum, ~rows[k].live)
           /\ CommitFor("fill")
           /\ IF fault'[Bot] THEN UNCHANGED <<at, row>>
                             ELSE Goto("cancelObserving") /\ row' = k
           /\ UNCHANGED <<broker, fills>>
  <2>1. fault'[Bot] => histFault'
    BY <1>4 DEF CommitFor, AfterCommit
  <2>2. Reports(k)
    BY <1>0, <1>1, <1>4, <2>1 DEF Reports, Goto
  <2> QED BY <2>2
<1> QED BY <1>2, <1>3, <1>4 DEF Row, CancelRow

\* A step of the fill check leaves the orders alone or does one of these.
LEMMA FillCheckWrites ==
  ASSUME Inv, Watched, LookingOk, NowOk, todo \subseteq Keys, fills \in Seq(Fill),
         \A i \in DOMAIN fills : Size(fills[i]) \in Nat,
         at = "return" => fills[now].named,
         now \in 1..(Len(fills) + 1), FillCheck
  PROVE  \/ Silent /\ row' \in {row, Nobody}
         \/ \E k \in Keys : Reports(k)
         \/ \E returned \in BOOLEAN : Receives(returned)
<1> DEFINE Goal == \/ Silent /\ row' \in {row, Nobody}
                   \/ \E k \in Keys : Reports(k)
                   \/ \E returned \in BOOLEAN : Receives(returned)
<1>a. CallFails \/ SnapshotFails \/ SnapshotOk => Silent
  BY CallFaults DEF SnapshotFails, SnapshotOk, Silent
<1>b. UNCHANGED vars => Silent
  BY DEF Silent
<1>c. at \in {"post", "postUnsure", "settle"} /\ JournalFailure(fills[now]) => Silent
  <2> SUFFICES ASSUME at \in {"post", "postUnsure", "settle"}, JournalFailure(fills[now]) PROVE Silent
    OBVIOUS
  <2>1. fills[now] \in Fill
    BY DEF NowOk
  <2>2. fills[now].named \in BOOLEAN /\ histFault \in BOOLEAN
    BY <2>1 DEF Fill, Inv, HistTypeOK
  <2> QED BY <2>2, JournalFaults DEF Silent
<1>1. CASE Round \/ Poll \/ RowsDone \/ CancelRowsDone \/ Hand
  BY <1>1, <1>b DEF Round, Poll, RowsDone, CancelRowsDone, Hand
<1>2. CASE RowObserved \/ CancelRowObserved \/ Receipted
  BY <1>2, <1>a DEF RowObserved, CancelRowObserved, Receipted
<1>3. CASE PostProcess \/ Settle
  <2>1. /\ at \in {"post", "postUnsure", "settle"}
        /\ UNCHANGED vars \/ JournalFailure(fills[now])
    BY <1>3 DEF PostProcess, Settle
  <2>2. row' = row
    BY <1>3 DEF PostProcess, Settle
  <2> QED BY <2>1, <2>2, <1>b, <1>c
<1>4. ASSUME NEW k \in Keys, Row(k) \/ CancelRow(k) PROVE Goal
  BY <1>4, RowWrites
<1>5. CASE DrainStep
  <2>1. CASE UNCHANGED vars \/ CallFails
    BY <1>5, <2>1, <1>a, <1>b DEF DrainStep
  <2>2. CASE /\ now <= Len(fills) /\ fills[now].named /\ MayWrite
             /\ ReceiptApplied(Bot, fills[now].key, TheExecution(fills[now]))
             /\ CommitFor("fill")
    <3>1. now \in DOMAIN fills
      BY <2>2
    <3>2. Receives(FALSE)
      BY <1>5, <2>2, <3>1 DEF Receives, DrainStep
    <3> QED BY <3>2
  <2> QED BY <1>5, <2>1, <2>2 DEF DrainStep
<1>6. CASE Return
  <2>1. CASE CallFails
    BY <1>6, <2>1, <1>a DEF Return
  <2>2. CASE /\ MayWrite /\ ReceiptReturned(Bot, fills[now].key, TheExecution(fills[now]))
             /\ CommitFor("fill")
    <3>1. Receives(TRUE)
      BY <1>6, <2>2 DEF Receives, Return, NowOk
    <3> QED BY <3>1
  <2> QED BY <1>6, <2>1, <2>2 DEF Return
<1> QED BY <1>1, <1>2, <1>3, <1>4, <1>5, <1>6 DEF FillCheck

\* What the fill check has in hand while it drains.
HandOk ==
    /\ NowOk
    /\ at = "return" => fills[now].named

\* The types that the steps of the fill check rely on.
CheckTyped ==
    /\ todo \subseteq Keys /\ fills \in Seq(Fill) /\ now \in 1..(Len(fills) + 1)
    /\ \A i \in DOMAIN fills : Size(fills[i]) \in Nat

\* The fill check never keeps an order's call from going on.
LEMMA FillCheckCalls ==
  ASSUME Inv, Watched, LookingOk, Called, CheckTyped, HandOk, FillCheck
  PROVE  Called'
<1>1. /\ Watched' /\ \A j \in Keys : Steady(j)
      /\ UNCHANGED <<exch, calls, held>>
  BY FillCheckWatches DEF CheckTyped, HandOk
<1>2. \A k \in Keys : writing' = k => writing = k
  <2>1. writing' \in {writing, Nobody, "fill"}
    BY DEF FillCheck, Round, Poll, Row, RowObserved, RowsDone, CancelRow, CancelRowObserved,
       CancelRowsDone, Hand, DrainStep, Receipted, PostProcess, Settle, Return, JournalFailure,
       CallFails, CommitFor, AfterCommit, SnapshotOk, SnapshotFails, Refresh, RefreshFails,
       vars, histVars
  <2> QED BY <2>1, Names, ProcsAssumption
<1>3. ASSUME NEW k \in Keys
      PROVE  /\ orders'[k].status = orders[k].status
             /\ orders'[k].acknowledged = orders[k].acknowledged
             /\ \/ orders'[k].terminal = orders[k].terminal
                \/ /\ orders[k].status \in {"accepted", "canceled"}
                   /\ ~exch'[k].live /\ exch'[k].cum = orders'[k].terminal
  <2>1. CASE orders' = orders
    BY <2>1
  <2>2. ASSUME NEW j \in Keys, Reports(j)
        PROVE  /\ orders'[k].status = orders[k].status
               /\ orders'[k].acknowledged = orders[k].acknowledged
               /\ \/ orders'[k].terminal = orders[k].terminal
                  \/ /\ orders[k].status \in {"accepted", "canceled"}
                     /\ ~exch'[k].live /\ exch'[k].cum = orders'[k].terminal
    <3>1. PICK isFinal \in BOOLEAN :
             /\ Observe(Bot, j, rows[j].cum, isFinal)
             /\ isFinal => rows[j].cum = Quantity[j] \/ (at = "cancelRows" /\ ~rows[j].live)
      BY <2>2 DEF Reports
    <3>2. rows[j].cum \in Nat
      BY DEF Watched, Market
    <3>3. /\ orders'[j].status = orders[j].status /\ orders'[j].acknowledged = orders[j].acknowledged
          /\ orders'[j].terminal = IF isFinal \/ rows[j].cum = Quantity[j] THEN rows[j].cum ELSE orders[j].terminal
          /\ orders[j].status \in {"accepted", "canceled"}
          /\ \A i \in Keys \ {j} : orders'[i] = orders[i]
      BY <3>1, <3>2, ReportFrame
    <3>4. isFinal \/ rows[j].cum = Quantity[j] => ~exch[j].live /\ exch[j].cum = rows[j].cum
      <4>1. CASE rows[j].cum = Quantity[j]
        BY <4>1, FullRow
      <4>2. CASE isFinal /\ rows[j].cum # Quantity[j]
        <5>1. ~rows[j].live /\ j \in todo /\ at = "cancelRows"
          BY <2>2, <3>1, <4>2 DEF Reports
        <5> QED BY <5>1 DEF LookingOk, FinalRow
      <4> QED BY <4>1, <4>2
    <3> QED BY <1>1, <3>3, <3>4
  <2>3. ASSUME NEW returned \in BOOLEAN, Receives(returned)
        PROVE  /\ orders'[k].status = orders[k].status
               /\ orders'[k].acknowledged = orders[k].acknowledged
               /\ orders'[k].terminal = orders[k].terminal
    <3>1. fills[now].key \in Keys
      <4>1. fills[now] \in Fill
        BY <2>3 DEF Receives, CheckTyped
      <4> QED BY <4>1 DEF Fill
    <3>2. IF returned THEN ReceiptReturned(Bot, fills[now].key, TheExecution(fills[now]))
                      ELSE ReceiptApplied(Bot, fills[now].key, TheExecution(fills[now]))
      BY <2>3 DEF Receives
    <3> QED BY <3>1, <3>2, ReceiptFrame
  <2> QED BY <2>1, <2>2, <2>3, FillCheckWrites, SilentLedger DEF CheckTyped, HandOk
<1> QED BY <1>1, <1>2, <1>3, QuietCalled

\* The fill check looks at tracked orders, and at final rows of cancelled ones.
LEMMA FillCheckLooks ==
  ASSUME Inv, Watched, LookingOk, CheckTyped, HandOk, FillCheck
  PROVE  LookingOk'
<1>1. /\ Watched' /\ \A j \in Keys : Steady(j)
      /\ UNCHANGED <<exch, calls, held>>
  BY FillCheckWatches DEF CheckTyped, HandOk
<1>2. CASE Round \/ Hand \/ DrainStep \/ Receipted \/ PostProcess \/ Settle \/ Return \/ CancelRowsDone
  <2>1. /\ row' = row /\ at \notin {"observing", "cancelObserving"}
        /\ at' \notin {"observing", "cancelObserving", "cancelRows"}
    BY <1>2 DEF Round, Hand, DrainStep, Receipted, PostProcess, Settle, Return, CancelRowsDone,
       Goto, DrainFrom, Finish, GiveUp, Over
  <2> QED BY <2>1 DEF LookingOk
<1>3. CASE Poll
  <2>1. row' = row /\ at = "poll" /\ at' \in {"rest", "hand", "rows"}
    BY <1>3 DEF Poll, Goto
  <2> QED BY <2>1 DEF LookingOk
<1>4. ASSUME NEW k \in Keys, Row(k) PROVE LookingOk'
  <2>1. at = "rows" /\ row \notin Keys /\ rows' = rows
    BY <1>4 DEF Row, LookingOk
  <2>2. CASE row' = row /\ at' \in {"rows", "hand"}
    BY <2>1, <2>2 DEF LookingOk
  <2>3. CASE row' = k /\ at' = "observing" /\ Listed(k) /\ Increment(k) > 0 /\ broker' = broker
    <3>1. Tracked(broker[k]) /\ rows[k].cum > broker[k].filled
      BY <2>3 DEF Listed, Increment, Watched, WatchOk, Watch, Market
    <3> QED BY <2>1, <2>3, <3>1 DEF LookingOk
  <2> QED BY <1>4, <2>1, <2>2, <2>3 DEF Row, Goto
<1>5. CASE RowObserved
  <2>1. row' \notin Keys /\ at' \in {"rows", "hand"}
    BY <1>5, Names DEF RowObserved, Goto
  <2> QED BY <2>1 DEF LookingOk
<1>6. CASE RowsDone
  <2>1. row' = row /\ at = "rows" /\ row \notin Keys
    BY <1>6 DEF RowsDone, LookingOk
  <2>2. CASE at' = "hand"
    BY <2>1, <2>2 DEF LookingOk
  <2>3. CASE at' = "cancelRows" /\ rows' = exch /\ \A k \in todo' : k \in Keys /\ broker[k].canceled
    BY <1>1, <2>1, <2>3 DEF LookingOk, FinalRow, Steady
  <2> QED BY <1>6, <2>2, <2>3 DEF RowsDone, Goto
<1>7. ASSUME NEW k \in Keys, CancelRow(k) PROVE LookingOk'
  <2>1. /\ at = "cancelRows" /\ row \notin Keys /\ rows' = rows /\ todo' = todo \ {k} /\ k \in todo
        /\ \/ row' = row /\ at' = at
           \/ row' = k /\ at' = "cancelObserving"
    BY <1>7 DEF CancelRow, LookingOk, Goto
  <2> QED BY <1>1, <2>1 DEF LookingOk, FinalRow, Steady
<1>8. CASE CancelRowObserved
  <2>1. /\ at = "cancelObserving" /\ row' \notin Keys /\ rows' = rows /\ todo' = todo
        /\ at' = "cancelRows"
    BY <1>8, Names DEF CancelRowObserved, Goto
  <2> QED BY <1>1, <2>1 DEF LookingOk, FinalRow, Steady
<1> QED BY <1>2, <1>3, <1>4, <1>5, <1>6, <1>7, <1>8 DEF FillCheck

\* One run of the bot, with the session it opened.
OneRun == Len(sessions) = 1 /\ own[Bot] = 1 /\ holder = Bot /\ opened

\* A step of the handoff is a step of the history.
LEMMA HandoffHistory ==
  ASSUME Inv, Watched, LookingOk, CheckTyped, HandOk, HandoffNext \/ UNCHANGED everything
  PROVE  HistoryStep
<1>1. ASSUME NEW k \in Keys, RecordCall(k) PROVE HistoryStep
  BY <1>1, RecordedIsWrite, CallFaults DEF RecordCall, HistoryStep
<1>2. CASE FillCheck
  <2>1. ASSUME NEW k \in Keys, Reports(k) PROVE HistoryStep
    <3>1. PICK isFinal \in BOOLEAN : Observe(Bot, k, rows[k].cum, isFinal)
      BY <2>1 DEF Reports
    <3>2. rows[k].cum \in Nat
      BY DEF Watched, Market
    <3>3. MayWrite /\ CommitFor("fill")
      BY <2>1 DEF Reports
    <3>4. WriteFill(k)
      BY <3>1, <3>2, <3>3, ObserveIsWrite
    <3> QED BY <3>4 DEF HistoryStep
  <2>2. ASSUME NEW returned \in BOOLEAN, Receives(returned) PROVE HistoryStep
    <3>1. fills[now].key \in Keys
      <4>1. fills[now] \in Fill
        BY <2>2 DEF Receives, CheckTyped
      <4> QED BY <4>1 DEF Fill
    <3>2. /\ MayWrite /\ CommitFor("fill")
          /\ \/ ReceiptReturned(Bot, fills[now].key, TheExecution(fills[now]))
             \/ ReceiptApplied(Bot, fills[now].key, TheExecution(fills[now]))
      BY <2>2 DEF Receives
    <3> HIDE DEF TheExecution
    <3>3. WriteFill(fills[now].key)
      BY <3>1, <3>2, ReceiptIsWrite
    <3> QED BY <3>1, <3>3 DEF HistoryStep
  <2>3. CASE Silent
    BY <2>3 DEF Silent, HistoryStep
  <2> QED BY <1>2, <2>1, <2>2, <2>3, FillCheckWrites DEF CheckTyped, HandOk
<1>3. CASE CallSaved \/ CloseRun \/ CloseSaved \/ HistoryFault
  BY <1>3 DEF CallSaved, CloseRun, CloseSaved, HistoryFault, SnapshotOk, SnapshotFails, HistoryStep
<1>4. ASSUME NEW k \in Keys, \/ Execute(k) \/ Submit(k) \/ Post(k) \/ PostAnswered(k)
                             \/ Cancel(k) \/ CancelReached(k) \/ CancelAnswered(k)
      PROVE  HistoryStep
  BY <1>4 DEF HistoryStep, Execute, Submit, Post, PostAnswered, Cancel, CancelReached, CancelAnswered
<1>5. CASE \/ EngineStep \/ (\E i \in DOMAIN fills : JournalEnds(i))
           \/ SyncBegin \/ SyncRead \/ SyncApply \/ UNCHANGED everything
  BY <1>5 DEF HistoryStep, EngineStep, Apply, ConfirmApplied, JournalEnds, SyncBegin, SyncRead, SyncApply,
     everything
<1> QED BY <1>1, <1>2, <1>3, <1>4, <1>5 DEF HandoffNext, OrderCall

\* No step ends the run or opens another session; a session ends by CloseRun.
LEMMA OneRunKept ==
  ASSUME Inv, OneRun, HistoryStep
  PROVE  /\ OneRun' /\ Inv'
         /\ histFault => histFault'
         /\ sessions' = sessions \/ (CloseHistory /\ orders' = orders)
<1>1. Inv'
  BY HistoryStepInv DEF OneRun
<1>2. CASE Silent
  <2>1. UNCHANGED <<holder, opened>>
    BY <1>2 DEF Silent, Refresh, RefreshFails, Fail, Faults, vars, histVars
  <2> QED BY <1>1, <1>2, <2>1, SilentLedger DEF OneRun
<1>3. ASSUME NEW k \in Keys, Write(k) \/ WriteFill(k)
      PROVE  OneRun' /\ ~histFault /\ sessions' = sessions
  <2>1. OrderStep(Bot, k) /\ TypeOK /\ UNCHANGED <<holder, opened>> /\ ~histFault
    BY <1>3, FillStepFrame DEF Write, WriteFill, FillStep, Inv, Consistent, MayWrite
  <2> QED BY <2>1, OrderStepFrame, Names DEF OneRun
<1>4. CASE CloseHistory
  <2>1. /\ Len(sessions') = Len(sessions) /\ own' = own /\ orders' = orders
        /\ UNCHANGED <<holder, opened>> /\ ~histFault
    BY <1>4, CloseFrame, Names DEF CloseHistory, Inv, Consistent, MayWrite
  <2> QED BY <1>1, <1>4, <2>1 DEF OneRun
<1> QED BY <1>1, <1>2, <1>3, <1>4 DEF HistoryStep, Silent

-----------------------------------------------------------------------------
(* The fills *)

\* The fill that the fill check is at.
DrainOk ==
    /\ at \in {"applied", "post", "postUnsure"} =>
          now \in DOMAIN fills /\ fills[now].stage = "handed" /\ fills[now].applied = "yes"
    /\ at \in {"settle", "return", "returned"} => now \in DOMAIN fills /\ fills[now].stage = "posted"
    /\ at \in {"return", "returned"} => fills[now].named /\ Certain(fills[now])

\* A fill goes on: it is handed over, post-processed, ended, its journal entry
\* is written or looked up, the engine takes it or confirms it.
Moves(f, g) ==
    /\ g \in Fill
    /\ g.key = f.key /\ g.from = f.from /\ g.to = f.to /\ g.named = f.named
    /\ \/ /\ f.stage = "new" /\ g.stage = "handed"
          /\ g.posts = f.posts /\ g.applied = f.applied /\ g.journal = f.journal
       \/ /\ f.stage = "handed" /\ f.applied = "yes"
          /\ g.stage \in {"posted", "failed"} /\ g.posts = f.posts + 1 /\ g.applied = f.applied
       \/ /\ f.stage = "posted" /\ g.stage \in {"done", "failed"}
          /\ g.posts = f.posts /\ g.applied = f.applied /\ g.journal = f.journal
       \/ /\ ~Certain(f) /\ g.stage = f.stage /\ g.posts = f.posts /\ g.applied = f.applied
       \/ /\ f.stage # "new" /\ f.applied = "none" /\ g.applied \in {"applying", "no"}
          /\ g.stage = f.stage /\ g.posts = f.posts /\ g.journal = f.journal
       \/ /\ f.applied = "applying" /\ g.applied = "yes"
          /\ g.stage = f.stage /\ g.posts = f.posts /\ g.journal = f.journal

OneMoves(i) == i \in DOMAIN fills /\ \E g : Moves(fills[i], g) /\ fills' = [fills EXCEPT ![i] = g]

\* The row of k is taken over; its increment is named if it was recorded.
Taken(k, named) ==
    /\ rows[k].cum >= broker[k].filled
    /\ fills' = IF rows[k].cum > broker[k].filled THEN Append(fills, NewFill(k, named)) ELSE fills
    /\ broker'[k].filled = rows[k].cum /\ broker'[k].acked = broker[k].acked
    /\ \A j \in Keys \ {k} : broker'[j] = broker[j]
    /\ orders' = orders /\ row' \notin Keys
    /\ IF named THEN row = k ELSE histFault /\ histFault' /\ row \notin Keys

\* A fill with another journal entry, or with a failed post-processing.
Journaled(f, journal, tries) == [f EXCEPT !.journal = journal, !.tries = tries]
FailedPost(f, journal) == [Posted(f, journal) EXCEPT !.stage = "failed"]

\* Another journal entry changes nothing else of a fill.
LEMMA JournalSet ==
  ASSUME NEW f \in Fill, NEW tries \in 0..Attempts,
         NEW journal \in {"pending", "resolving", "unknown", "committed", "unattributed"}
  PROVE  LET g == Journaled(f, journal, tries)
         IN  /\ g \in Fill /\ g.key = f.key /\ g.from = f.from /\ g.to = f.to /\ g.named = f.named
             /\ g.applied = f.applied /\ g.stage = f.stage /\ g.posts = f.posts
  BY DEF Fill, Journaled

\* A fill is post-processed once more.
LEMMA PostedSet ==
  ASSUME NEW f \in Fill, NEW journal \in {"none", "pending"}
  PROVE  /\ LET g == Posted(f, journal)
            IN  /\ g \in Fill /\ g.key = f.key /\ g.from = f.from /\ g.to = f.to /\ g.named = f.named
                /\ g.applied = f.applied /\ g.stage = "posted" /\ g.posts = f.posts + 1
         /\ LET g == FailedPost(f, journal)
            IN  /\ g \in Fill /\ g.key = f.key /\ g.from = f.from /\ g.to = f.to /\ g.named = f.named
                /\ g.applied = f.applied /\ g.stage = "failed" /\ g.posts = f.posts + 1
<1>1. f.posts + 1 \in Nat
  BY DEF Fill
<1> QED BY <1>1 DEF Fill, Posted, FailedPost

\* The fill check moves the fill it is at, or hands over the next one.
LEMMA StageMoves ==
  ASSUME NEW i \in DOMAIN fills, fills \in Seq(Fill),
         NEW stage, \/ fills[i].stage = "new" /\ stage = "handed"
                    \/ fills[i].stage = "posted" /\ stage \in {"done", "failed"},
         fills' = [fills EXCEPT ![i].stage = stage]
  PROVE  OneMoves(i)
<1> DEFINE g == [fills[i] EXCEPT !.stage = stage]
<1>1. fills[i] \in Fill
  OBVIOUS
<1>2. /\ g \in Fill /\ g.key = fills[i].key /\ g.from = fills[i].from /\ g.to = fills[i].to
      /\ g.named = fills[i].named /\ g.stage = stage /\ g.posts = fills[i].posts
      /\ g.applied = fills[i].applied /\ g.journal = fills[i].journal
  BY <1>1 DEF Fill
<1>3. fills' = [fills EXCEPT ![i] = g]
  OBVIOUS
<1> HIDE DEF g
<1>4. Moves(fills[i], g)
  BY <1>2 DEF Moves
<1> QED BY <1>3, <1>4 DEF OneMoves

\* Its post-processing.
LEMMA PostMoves ==
  ASSUME NEW i \in DOMAIN fills, fills \in Seq(Fill), fills[i].stage = "handed", fills[i].applied = "yes",
         NEW journal \in {"none", "pending"},
         \/ fills' = [fills EXCEPT ![i] = Posted(@, journal)]
         \/ fills' = [fills EXCEPT ![i] = FailedPost(@, journal)]
  PROVE  OneMoves(i)
<1>1. fills[i] \in Fill
  OBVIOUS
<1>2. Moves(fills[i], Posted(fills[i], journal)) /\ Moves(fills[i], FailedPost(fills[i], journal))
  BY <1>1, PostedSet DEF Moves
<1> QED BY <1>2 DEF OneMoves

\* Its journal entry.
LEMMA JournalMoves ==
  ASSUME NEW i \in DOMAIN fills, fills \in Seq(Fill), ~Certain(fills[i]), NEW tries \in 0..Attempts,
         NEW journal \in {"pending", "resolving", "unknown", "committed", "unattributed"},
         fills' = [fills EXCEPT ![i] = Journaled(@, journal, tries)]
  PROVE  OneMoves(i)
<1>1. fills[i] \in Fill
  OBVIOUS
<1>2. Moves(fills[i], Journaled(fills[i], journal, tries))
  <2> DEFINE g == Journaled(fills[i], journal, tries)
  <2>1. /\ g \in Fill /\ g.key = fills[i].key /\ g.from = fills[i].from /\ g.to = fills[i].to
        /\ g.named = fills[i].named /\ g.applied = fills[i].applied /\ g.stage = fills[i].stage
        /\ g.posts = fills[i].posts
    BY <1>1, JournalSet, AttemptsAssumption
  <2> HIDE DEF g
  <2> QED BY <2>1 DEF Moves, g
<1> QED BY <1>2 DEF OneMoves

\* An entry that is set without another attempt.
LEMMA WithJournalMoves ==
  ASSUME NEW i \in DOMAIN fills, fills \in Seq(Fill), ~Certain(fills[i]),
         NEW journal \in {"pending", "resolving", "unknown", "committed", "unattributed"},
         fills' = WithJournal(i, journal)
  PROVE  OneMoves(i)
<1>1. fills[i] \in Fill
  OBVIOUS
<1>2. /\ fills[i].tries \in 0..Attempts
      /\ [fills[i] EXCEPT !.journal = journal] = Journaled(fills[i], journal, fills[i].tries)
  BY <1>1 DEF Fill, Journaled
<1>3. fills' = [fills EXCEPT ![i] = [fills[i] EXCEPT !.journal = journal]]
  BY DEF WithJournal
<1> QED BY <1>2, <1>3, JournalMoves

\* The engine takes the fill, refuses it or confirms it.
LEMMA EngineMoves ==
  ASSUME fills \in Seq(Fill), NEW i \in DOMAIN fills, Apply(i) \/ ConfirmApplied(i)
  PROVE  OneMoves(i)
<1>1. PICK applied \in {"applying", "no", "yes"} :
         /\ fills' = [fills EXCEPT ![i].applied = applied]
         /\ IF applied = "yes" THEN fills[i].applied = "applying"
                               ELSE fills[i].applied = "none" /\ fills[i].stage # "new"
  BY DEF Apply, ConfirmApplied
<1> DEFINE g == [fills[i] EXCEPT !.applied = applied]
<1>2. fills[i] \in Fill
  OBVIOUS
<1>3. /\ g \in Fill /\ g.key = fills[i].key /\ g.from = fills[i].from /\ g.to = fills[i].to
      /\ g.named = fills[i].named /\ g.stage = fills[i].stage /\ g.posts = fills[i].posts
      /\ g.applied = applied /\ g.journal = fills[i].journal
  BY <1>2 DEF Fill
<1>4. fills' = [fills EXCEPT ![i] = g]
  BY <1>1
<1> HIDE DEF g
<1>5. Moves(fills[i], g)
  BY <1>1, <1>3 DEF Moves
<1> QED BY <1>4, <1>5 DEF OneMoves

\* A set of positions that is not empty has its least member.
LEMMA LeastIsMember ==
  ASSUME NEW S \in SUBSET Nat, S # {}
  PROVE  Min(S) \in S
<1>1. PICK x \in S : \A y \in S : ~(<<y, x>> \in OpToRel(<, Nat))
  BY NatLessThanWellFounded, WFMin
<1>2. ASSUME NEW y \in S PROVE x <= y
  <2>1. x \in Nat /\ y \in Nat
    BY <1>1
  <2>2. ~(y < x)
    BY <1>1, <2>1 DEF OpToRel
  <2> QED BY <2>1, <2>2
<1> QED BY <1>2 DEF Min

\* The next fill is handed over.
LEMMA HandMoves ==
  ASSUME fills \in Seq(Fill), Hand
  PROVE  fills' = fills \/ \E i \in DOMAIN fills : OneMoves(i)
<1>1. CASE NewOnes = {}
  BY <1>1 DEF Hand
<1>2. CASE NewOnes # {}
  <2>1. NewOnes \subseteq Nat /\ NewOnes \subseteq DOMAIN fills
    BY DEF NewOnes
  <2>2. Min(NewOnes) \in NewOnes
    BY <1>2, <2>1, LeastIsMember
  <2>3. PICK i \in DOMAIN fills : i = Min(NewOnes) /\ fills[i].stage = "new"
    BY <2>1, <2>2 DEF NewOnes
  <2>4. fills' = [fills EXCEPT ![i].stage = "handed"]
    BY <1>2, <2>3 DEF Hand
  <2> QED BY <2>3, <2>4, StageMoves
<1> QED BY <1>1, <1>2

\* A row that is taken over.
LEMMA TakeIsTaken ==
  ASSUME Watched, NEW k \in Keys, NEW named \in BOOLEAN, NEW terminal \in BOOLEAN,
         Take(k, named, terminal), UNCHANGED <<exch, rows, orders>>,
         Tracked(broker[k]), broker[k].canceled \/ rows[k].cum > broker[k].filled,
         terminal => ~exch[k].live /\ exch[k].cum = rows[k].cum,
         row' \notin Keys,
         IF named THEN row = k ELSE histFault /\ histFault' /\ row \notin Keys
  PROVE  Taken(k, named)
<1>1. /\ \A j \in Keys \ {k} : broker'[j] = broker[j]
      /\ broker'[k].filled = rows[k].cum /\ broker'[k].acked = broker[k].acked
  BY TakeKeeps
<1>2. broker[k].filled \in Nat /\ rows[k].cum \in Nat /\ broker[k].filled <= rows[k].cum
  BY DEF Watched, Watch, Market, WatchOk
<1>3. fills' = IF rows[k].cum > broker[k].filled THEN Append(fills, NewFill(k, named)) ELSE fills
  BY <1>2 DEF Take, Increment
<1> QED BY <1>1, <1>2, <1>3 DEF Taken

\* Its journal entry is looked up once more.
LEMMA RetryMoves ==
  ASSUME NEW i \in DOMAIN fills, fills \in Seq(Fill),
         fills[i].journal = "unknown", fills[i].tries < Attempts,
         fills' = [fills EXCEPT ![i] = Retried(@)]
  PROVE  OneMoves(i)
<1> DEFINE g == Retried(fills[i])
<1>1. fills[i] \in Fill
  OBVIOUS
<1>2. fills[i].tries + 1 \in 0..Attempts
  BY <1>1, AttemptsAssumption DEF Fill
<1>3. /\ g \in Fill /\ g.key = fills[i].key /\ g.from = fills[i].from /\ g.to = fills[i].to
      /\ g.named = fills[i].named /\ g.stage = fills[i].stage /\ g.posts = fills[i].posts
      /\ g.applied = fills[i].applied
  BY <1>1, <1>2 DEF Fill, Retried
<1>4. fills' = [fills EXCEPT ![i] = g]
  OBVIOUS
<1> HIDE DEF g
<1>5. Moves(fills[i], g)
  BY <1>3 DEF Moves, Certain
<1> QED BY <1>4, <1>5 DEF OneMoves

\* The row that was reported is taken over, unless the snapshot failed.
LEMMA RowSeen ==
  ASSUME Watched, LookingOk, RowObserved \/ CancelRowObserved
  PROVE  /\ row \in Keys /\ row' \notin Keys
         /\ \/ Taken(row, TRUE)
            \/ /\ histFault' /\ orders' = orders /\ fills' = fills
               /\ \A j \in Keys : broker'[j].filled = broker[j].filled /\ broker'[j].acked = broker[j].acked
<1>1. UNCHANGED <<exch, rows>> /\ row \in Keys /\ row' \notin Keys
  BY Names DEF RowObserved, CancelRowObserved, LookingOk
<1>2. CASE SnapshotFails /\ (broker' = broker \/ broker' = Delisted) /\ fills' = fills
  <2>1. orders' = orders /\ histFault'
    BY <1>2 DEF SnapshotFails, RefreshFails, StorageFault, ledgerVars
  <2>2. \A j \in Keys : broker'[j].filled = broker[j].filled /\ broker'[j].acked = broker[j].acked
    BY <1>1, <1>2, DelistedKeeps
  <2> QED BY <1>1, <1>2, <2>1, <2>2
<1>3. ASSUME SnapshotOk PROVE orders' = orders
  BY <1>3 DEF SnapshotOk, Refresh, ledgerVars
<1>4. CASE at = "observing" /\ SnapshotOk /\ Take(row, TRUE, rows[row].cum = Quantity[row])
  <2>1. Tracked(broker[row]) /\ rows[row].cum > broker[row].filled
    BY <1>4 DEF LookingOk
  <2>2. rows[row].cum = Quantity[row] => ~exch[row].live /\ exch[row].cum = rows[row].cum
    BY <1>1, FullRow
  <2>3. (rows[row].cum = Quantity[row]) \in BOOLEAN
    OBVIOUS
  <2>4. Taken(row, TRUE)
    BY <1>1, <1>3, <1>4, <2>1, <2>2, <2>3, TakeIsTaken
  <2> QED BY <1>1, <2>4
<1>5. CASE at = "cancelObserving" /\ SnapshotOk /\ Take(row, TRUE, ~rows[row].live)
  <2>1. FinalRow(row)
    BY <1>1, <1>5 DEF LookingOk
  <2>2. (~rows[row].live) \in BOOLEAN /\ Tracked(broker[row]) /\ broker[row].canceled
        /\ (~rows[row].live => ~exch[row].live /\ exch[row].cum = rows[row].cum)
    BY <2>1 DEF FinalRow, Tracked
  <2>3. Taken(row, TRUE)
    BY <1>1, <1>3, <1>5, <2>2, TakeIsTaken
  <2> QED BY <1>1, <2>3
<1> QED BY <1>2, <1>4, <1>5 DEF RowObserved, CancelRowObserved

\* A row that is looked at is taken over at once, or nothing is counted.
LEMMA RowTaken ==
  ASSUME Watched, LookingOk, NEW k \in Keys, Row(k) \/ CancelRow(k)
  PROVE  \/ Taken(k, FALSE)
         \/ /\ fills' = fills
            /\ \A j \in Keys : broker'[j].filled = broker[j].filled /\ broker'[j].acked = broker[j].acked
<1>1. UNCHANGED <<exch, rows>> /\ row \notin Keys
  BY DEF Row, CancelRow, LookingOk
<1>2. CASE fills' = fills /\ (broker' = broker \/ broker' = Delisted)
  BY <1>1, <1>2, DelistedKeeps
<1>3. (rows[k].cum = Quantity[k]) \in BOOLEAN /\ (~rows[k].live) \in BOOLEAN
  OBVIOUS
<1>4. ASSUME histFault, UNCHANGED <<vars, row>> PROVE histFault' /\ row' \notin Keys /\ orders' = orders
  BY <1>1, <1>4 DEF vars, histVars, ledgerVars
<1>5. CASE /\ Listed(k) /\ Increment(k) > 0 /\ histFault
           /\ Take(k, FALSE, rows[k].cum = Quantity[k]) /\ UNCHANGED <<vars, at, row>>
  <2>1. Tracked(broker[k]) /\ rows[k].cum > broker[k].filled
        /\ (rows[k].cum = Quantity[k] => ~exch[k].live /\ exch[k].cum = rows[k].cum)
    BY <1>5, FullRow DEF Listed, Increment, Watched, WatchOk, Watch, Market
  <2>2. Taken(k, FALSE)
    BY <1>1, <1>3, <1>4, <1>5, <2>1, TakeIsTaken
  <2> QED BY <2>2
<1>6. CASE /\ at = "cancelRows" /\ k \in todo /\ histFault
           /\ Take(k, FALSE, ~rows[k].live) /\ UNCHANGED <<vars, at, row>>
  <2>1. FinalRow(k)
    BY <1>6 DEF LookingOk
  <2>2. Tracked(broker[k]) /\ broker[k].canceled
        /\ (~rows[k].live => ~exch[k].live /\ exch[k].cum = rows[k].cum)
    BY <2>1 DEF FinalRow, Tracked
  <2>3. Taken(k, FALSE)
    BY <1>1, <1>3, <1>4, <1>6, <2>2, TakeIsTaken
  <2> QED BY <2>3
<1> QED BY <1>2, <1>5, <1>6 DEF Row, CancelRow

\* The fill check takes a row over, or moves at most one fill and counts no share.
LEMMA FillCheckFills ==
  ASSUME Inv, Watched, LookingOk, CheckTyped, DrainOk, FillCheck
  PROVE  \/ \E k \in Keys, named \in BOOLEAN : Taken(k, named)
         \/ /\ \A j \in Keys : broker'[j].filled = broker[j].filled
            /\ fills' = fills \/ \E i \in DOMAIN fills : OneMoves(i)
<1> DEFINE Goal == \/ \E k \in Keys, named \in BOOLEAN : Taken(k, named)
                   \/ /\ \A j \in Keys : broker'[j].filled = broker[j].filled
                      /\ fills' = fills \/ \E i \in DOMAIN fills : OneMoves(i)
<1>0. UNCHANGED exch /\ fills \in Seq(Fill)
  BY DEF FillCheck, Round, Poll, RowObserved, RowsDone, CancelRowObserved, CancelRowsDone, Hand,
     DrainStep, Receipted, PostProcess, Settle, Return, Row, CancelRow, brokerVars, CheckTyped
<1>1. CASE Round \/ Poll \/ CancelRowsDone \/ DrainStep
  BY <1>1 DEF Round, Poll, CancelRowsDone, DrainStep, brokerVars
<1>2. CASE Hand
  <2>1. broker' = broker
    BY <1>2 DEF Hand, brokerVars
  <2> QED BY <1>0, <1>2, <2>1, HandMoves
<1>3. CASE RowsDone
  <2>1. broker' = Delisted /\ fills' = fills /\ rows' \in {rows, exch}
    BY <1>3 DEF RowsDone
  <2> QED BY <1>0, <2>1, DelistedKeeps
<1>4. ASSUME NEW k \in Keys, Row(k) \/ CancelRow(k) PROVE Goal
  BY <1>4, RowTaken
<1>5. CASE RowObserved \/ CancelRowObserved
  BY <1>5, RowSeen
<1>6. ASSUME at \in {"settle", "return", "returned"}, rows' = rows,
             \/ Finish
             \/ GiveUp
      PROVE  Goal
  <2>1. now \in DOMAIN fills /\ fills[now].stage = "posted"
    BY <1>6 DEF DrainOk
  <2>2. fills[now].key \in Keys /\ Size(fills[now]) \in Nat
    <3>1. fills[now] \in Fill
      BY <1>0, <2>1
    <3> QED BY <2>1, <3>1 DEF Fill, CheckTyped
  <2>3. PICK stage \in {"done", "failed"} : fills' = [fills EXCEPT ![now].stage = stage]
    BY <1>6 DEF Finish, GiveUp, Over
  <2>4. OneMoves(now)
    BY <1>0, <2>1, <2>3, StageMoves
  <2>5. \A j \in Keys : broker'[j].filled = broker[j].filled
    BY <1>0, <1>6, <2>2, AcknowledgedKeeps DEF Finish, GiveUp
  <2> QED BY <2>1, <2>4, <2>5
<1>7. CASE Receipted
  BY <1>6, <1>7 DEF Receipted
<1>8. CASE Return
  <2>1. rows' = rows /\ at = "return" /\ (GiveUp \/ UNCHANGED <<fills, broker>>)
    BY <1>8 DEF Return
  <2> QED BY <1>6, <2>1
<1>9. CASE PostProcess
  <2>1. /\ now \in DOMAIN fills /\ fills[now].stage = "handed" /\ fills[now].applied = "yes"
        /\ broker' = broker
    BY <1>9 DEF PostProcess, DrainOk, brokerVars
  <2>2. PICK journal \in {"none", "pending"} :
           \/ fills' = [fills EXCEPT ![now] = Posted(@, journal)]
           \/ fills' = [fills EXCEPT ![now] = FailedPost(@, journal)]
    BY <1>9 DEF PostProcess, FailedPost
  <2>3. OneMoves(now)
    BY <1>0, <2>1, <2>2, PostMoves
  <2> QED BY <2>1, <2>3
<1>10. CASE Settle
  <2>0. now \in DOMAIN fills /\ fills[now] \in Fill /\ rows' = rows /\ at = "settle"
    BY <1>0, <1>10 DEF DrainOk, Settle
  <2>1. CASE Finish \/ GiveUp \/ UNCHANGED <<fills, broker>>
    BY <1>6, <2>0, <2>1
  <2>2. CASE /\ fills[now].journal = "unknown" /\ fills[now].tries < Attempts
             /\ fills' = [fills EXCEPT ![now] = Retried(@)]
             /\ UNCHANGED broker
    <3>1. OneMoves(now)
      BY <1>0, <2>0, <2>2, RetryMoves
    <3> QED BY <2>0, <2>2, <3>1
  <2>3. CASE Uncommitted(fills[now]) /\ fills' = WithJournal(now, "unattributed") /\ UNCHANGED broker
    <3>1. ~Certain(fills[now])
      BY <2>3 DEF Certain, Uncommitted
    <3>2. OneMoves(now)
      BY <1>0, <2>0, <2>3, <3>1, WithJournalMoves
    <3> QED BY <2>0, <2>3, <3>2
  <2> QED BY <1>10, <2>1, <2>2, <2>3 DEF Settle
<1> QED BY <1>1, <1>2, <1>3, <1>4, <1>5, <1>7, <1>8, <1>9, <1>10 DEF FillCheck

\* A fill is what one increment of the exchange's cumulative quantity brought:
\* at most one post-processing, and none before the engine applied it.
PieceOk(f) ==
    /\ f.from < f.to
    /\ f.stage = "new" => f.applied = "none"
    /\ f.posts = IF f.stage \in {"new", "handed"} THEN 0 ELSE 1
    /\ f.posts = 1 => f.applied = "yes"

\* The fills of an order follow each other without a gap, up to what is counted.
Pieces ==
    /\ \A i \in DOMAIN fills : /\ PieceOk(fills[i])
                               /\ fills[i].to <= broker[fills[i].key].filled
                               /\ ~fills[i].named => histFault
    /\ \A i, j \in DOMAIN fills : i < j /\ fills[i].key = fills[j].key => fills[i].to <= fills[j].from
    /\ NoShareLost

\* What a step does to the fills: it takes a row over, or moves at most one fill.
FillsStep ==
    \/ \E k \in Keys, named \in BOOLEAN : Taken(k, named)
    \/ /\ \A j \in Keys : broker'[j].filled = broker[j].filled
       /\ fills' = fills \/ \E i \in DOMAIN fills : OneMoves(i)

\* A fill stays a fill of its shares while it goes on.
LEMMA MovesKeep ==
  ASSUME NEW f \in Fill, NEW g, PieceOk(f), Moves(f, g)
  PROVE  PieceOk(g)
<1> USE DEF Moves, PieceOk, Fill
<1>1. CASE f.stage = "new" /\ g.stage = "handed" /\ g.posts = f.posts /\ g.applied = f.applied
  BY <1>1
<1>2. CASE f.stage = "handed" /\ f.applied = "yes" /\ g.stage \in {"posted", "failed"}
           /\ g.posts = f.posts + 1 /\ g.applied = f.applied
  BY <1>2
<1>3. CASE f.stage = "posted" /\ g.stage \in {"done", "failed"}
           /\ g.posts = f.posts /\ g.applied = f.applied
  BY <1>3
<1>4. CASE g.stage = f.stage /\ g.posts = f.posts /\ g.applied = f.applied
  BY <1>4
<1>5. CASE f.stage # "new" /\ f.applied \in {"none", "applying"} /\ g.stage = f.stage /\ g.posts = f.posts
  BY <1>5
<1> QED BY <1>1, <1>2, <1>3, <1>4, <1>5

\* The fills after one of them went on.
LEMMA Moved ==
  ASSUME fills \in Seq(Fill), NEW i \in DOMAIN fills, OneMoves(i)
  PROVE  /\ fills' \in Seq(Fill) /\ Len(fills') = Len(fills) /\ DOMAIN fills' = DOMAIN fills
         /\ Moves(fills[i], fills'[i])
         /\ \A j \in DOMAIN fills : j # i => fills'[j] = fills[j]
         /\ \A j \in DOMAIN fills : /\ fills'[j].key = fills[j].key /\ fills'[j].from = fills[j].from
                                    /\ fills'[j].to = fills[j].to /\ fills'[j].named = fills[j].named
<1>1. PICK g : Moves(fills[i], g) /\ fills' = [fills EXCEPT ![i] = g]
  BY DEF OneMoves
<1>2. g \in Fill
  BY <1>1 DEF Moves
<1>3. /\ fills' \in Seq(Fill) /\ Len(fills') = Len(fills) /\ DOMAIN fills' = DOMAIN fills
      /\ fills'[i] = g /\ \A j \in DOMAIN fills : j # i => fills'[j] = fills[j]
  BY <1>1, <1>2
<1>4. g.key = fills[i].key /\ g.from = fills[i].from /\ g.to = fills[i].to /\ g.named = fills[i].named
  BY <1>1 DEF Moves
<1> QED BY <1>1, <1>3, <1>4

\* The fills after a row was taken over.
LEMMA Extended ==
  ASSUME Watched, fills \in Seq(Fill), NEW k \in Keys, NEW named \in BOOLEAN, Taken(k, named)
  PROVE  /\ fills' \in Seq(Fill) /\ DOMAIN fills \subseteq DOMAIN fills'
         /\ \A j \in DOMAIN fills : fills'[j] = fills[j]
         /\ broker[k].filled \in Nat /\ rows[k].cum \in Nat /\ broker[k].filled <= rows[k].cum
         /\ \/ rows[k].cum = broker[k].filled /\ fills' = fills
            \/ /\ rows[k].cum > broker[k].filled
               /\ Len(fills') = Len(fills) + 1 /\ DOMAIN fills' = DOMAIN fills \cup {Len(fills) + 1}
               /\ fills'[Len(fills) + 1] = NewFill(k, named) /\ NewFill(k, named) \in Fill
<1>1. broker[k].filled \in Nat /\ rows[k].cum \in Nat /\ broker[k].filled <= rows[k].cum
  BY DEF Watched, Watch, Market, WatchOk
<1>2. NewFill(k, named) \in Fill
  BY <1>1, AttemptsAssumption DEF NewFill, Fill
<1>3. CASE rows[k].cum = broker[k].filled
  BY <1>1, <1>3 DEF Taken
<1>4. CASE rows[k].cum > broker[k].filled
  <2>1. fills' = Append(fills, NewFill(k, named))
    BY <1>4 DEF Taken
  <2> HIDE DEF NewFill
  <2> QED BY <1>1, <1>2, <1>4, <2>1
<1> QED BY <1>1, <1>3, <1>4

\* No step of the fills makes two of them overlap or leaves a gap.
LEMMA PiecesKept ==
  ASSUME Watched, fills \in Seq(Fill), Pieces, FillsStep, histFault => histFault'
  PROVE  fills' \in Seq(Fill) /\ Pieces'
<1>0. \A i \in DOMAIN fills : fills[i] \in Fill
  OBVIOUS
<1>1. CASE /\ \A j \in Keys : broker'[j].filled = broker[j].filled
           /\ fills' = fills
  <2>1. \A i \in DOMAIN fills : fills[i].key \in Keys
    BY <1>0 DEF Fill
  <2>2. NoShareLost'
    <3>1. ASSUME NEW k \in Keys, NEW u \in 1..broker'[k].filled
          PROVE  \E i \in DOMAIN fills' : fills'[i].key = k /\ fills'[i].from < u /\ u <= fills'[i].to
      BY <1>1 DEF Pieces, NoShareLost
    <3> QED BY <3>1 DEF NoShareLost
  <2> QED BY <1>1, <2>1, <2>2 DEF Pieces
<1>2. ASSUME \A j \in Keys : broker'[j].filled = broker[j].filled,
             NEW i \in DOMAIN fills, OneMoves(i)
      PROVE  fills' \in Seq(Fill) /\ Pieces'
  <2>1. /\ fills' \in Seq(Fill) /\ DOMAIN fills' = DOMAIN fills /\ Moves(fills[i], fills'[i])
        /\ \A j \in DOMAIN fills : j # i => fills'[j] = fills[j]
        /\ \A j \in DOMAIN fills : /\ fills'[j].key = fills[j].key /\ fills'[j].from = fills[j].from
                                   /\ fills'[j].to = fills[j].to /\ fills'[j].named = fills[j].named
    BY <1>2, Moved
  <2>2. \A j \in DOMAIN fills : fills[j] \in Fill /\ fills[j].key \in Keys
    BY <1>0 DEF Fill
  <2>3. \A j \in DOMAIN fills : PieceOk(fills'[j])
    BY <2>1, <2>2, MovesKeep DEF Pieces
  <2>4. NoShareLost'
    <3>1. ASSUME NEW k \in Keys, NEW u \in 1..broker'[k].filled
          PROVE  \E j \in DOMAIN fills' : fills'[j].key = k /\ fills'[j].from < u /\ u <= fills'[j].to
      <4>1. PICK j \in DOMAIN fills : fills[j].key = k /\ fills[j].from < u /\ u <= fills[j].to
        BY <1>2 DEF Pieces, NoShareLost
      <4> QED BY <2>1, <4>1
    <3> QED BY <3>1 DEF NoShareLost
  <2> QED BY <1>2, <2>1, <2>2, <2>3, <2>4 DEF Pieces
<1>3. ASSUME NEW k \in Keys, NEW named \in BOOLEAN, Taken(k, named)
      PROVE  fills' \in Seq(Fill) /\ Pieces'
  <2>1. /\ fills' \in Seq(Fill) /\ DOMAIN fills \subseteq DOMAIN fills'
        /\ \A j \in DOMAIN fills : fills'[j] = fills[j] /\ fills[j] \in Fill
        /\ broker[k].filled \in Nat /\ rows[k].cum \in Nat /\ broker[k].filled <= rows[k].cum
    BY <1>3, Extended
  <2>2. /\ broker'[k].filled = rows[k].cum
        /\ \A j \in Keys \ {k} : broker'[j].filled = broker[j].filled
        /\ ~named => histFault'
    BY <1>3 DEF Taken
  <2>3. ASSUME NEW j \in Keys
        PROVE  broker[j].filled \in Nat /\ broker'[j].filled \in Nat
               /\ broker[j].filled <= broker'[j].filled
    <3>1. broker[j].filled \in Nat
      BY DEF Watched, Watch
    <3> QED BY <2>1, <2>2, <3>1
  <2>4. ASSUME NEW i \in DOMAIN fills
        PROVE  /\ PieceOk(fills'[i]) /\ fills'[i].to <= broker'[fills'[i].key].filled
               /\ ~fills'[i].named => histFault'
    <3>1. fills[i].key \in Keys /\ fills[i].to \in Nat /\ fills'[i] = fills[i]
      BY <2>1 DEF Fill
    <3> QED BY <2>3, <3>1 DEF Pieces
  <2>5. CASE rows[k].cum = broker[k].filled /\ fills' = fills
    <3>1. \A j \in Keys : broker'[j].filled = broker[j].filled
      BY <2>2, <2>5
    <3> QED BY <1>1, <2>5, <3>1
  <2>6. CASE /\ rows[k].cum > broker[k].filled
             /\ Len(fills') = Len(fills) + 1 /\ DOMAIN fills' = DOMAIN fills \cup {Len(fills) + 1}
             /\ fills'[Len(fills) + 1] = NewFill(k, named)
    <3> DEFINE n == Len(fills) + 1
    <3>1. /\ fills'[n].key = k /\ fills'[n].from = broker[k].filled /\ fills'[n].to = rows[k].cum
          /\ fills'[n].named = named /\ PieceOk(fills'[n]) /\ n \in DOMAIN fills'
      BY <2>6 DEF NewFill, PieceOk
    <3>2. \A i \in DOMAIN fills' : /\ PieceOk(fills'[i]) /\ fills'[i].to <= broker'[fills'[i].key].filled
                                   /\ ~fills'[i].named => histFault'
      BY <2>1, <2>2, <2>4, <2>6, <3>1
    <3>3. ASSUME NEW i \in DOMAIN fills', NEW j \in DOMAIN fills', i < j, fills'[i].key = fills'[j].key
          PROVE  fills'[i].to <= fills'[j].from
      <4>1. i \in DOMAIN fills
        BY <2>6, <3>3
      <4>2. CASE j \in DOMAIN fills
        BY <2>1, <3>3, <4>1, <4>2 DEF Pieces
      <4>3. CASE j = n
        BY <2>1, <3>1, <3>3, <4>1, <4>3 DEF Pieces
      <4> QED BY <2>6, <4>2, <4>3
    <3>4. ASSUME NEW j \in Keys, NEW u \in 1..broker'[j].filled
          PROVE  \E i \in DOMAIN fills' : fills'[i].key = j /\ fills'[i].from < u /\ u <= fills'[i].to
      <4>1. CASE u \in 1..broker[j].filled
        <5>1. PICK i \in DOMAIN fills : fills[i].key = j /\ fills[i].from < u /\ u <= fills[i].to
          BY <4>1 DEF Pieces, NoShareLost
        <5> QED BY <2>1, <5>1
      <4>2. CASE ~(u \in 1..broker[j].filled)
        <5>1. j = k /\ broker[k].filled < u /\ u <= rows[k].cum
          BY <2>2, <2>3, <4>2
        <5> QED BY <3>1, <5>1
      <4> QED BY <4>1, <4>2
    <3> QED BY <2>1, <3>2, <3>3, <3>4 DEF Pieces, NoShareLost
  <2> QED BY <1>3, <2>5, <2>6, Extended
<1> QED BY <1>1, <1>2, <1>3 DEF FillsStep

\* Placing and cancelling orders counts no share and touches no fill.
LEMMA OrdersFrame ==
  ASSUME Watched, NEW k \in Keys, Execute(k) \/ OrderCall(k) \/ CallSaved
  PROVE  /\ UNCHANGED <<fills, held, loopVars>>
         /\ \A j \in Keys : broker'[j].filled = broker[j].filled /\ broker'[j].acked = broker[j].acked
<1>1. UNCHANGED <<fills, held, loopVars>>
  BY DEF Execute, OrderCall, CallSaved, Submit, Post, PostAnswered, Cancel, CancelReached,
         CancelAnswered, RecordCall
<1>2. broker[k] \in Watch /\ broker \in [Keys -> Watch]
  BY DEF Watched
<1>3. CASE Post(k)
  <2>1. broker' = broker \/ broker' = [broker EXCEPT ![k].place = "off"]
    BY <1>3 DEF Post
  <2> QED BY <1>1, <1>2, <2>1 DEF Watch
<1>4. CASE PostAnswered(k)
  <2>1. broker' = broker \/ broker' = [broker EXCEPT ![k].place = "pending", ![k].watched = TRUE]
    BY <1>4 DEF PostAnswered
  <2> QED BY <1>1, <1>2, <2>1 DEF Watch
<1>5. CASE CancelAnswered(k)
  <2>1. broker' = broker \/ broker' = [broker EXCEPT ![k].canceled = Listed(k), ![k].place = "off"]
    BY <1>5 DEF CancelAnswered
  <2> QED BY <1>1, <1>2, <2>1 DEF Watch
<1>6. CASE Execute(k) \/ Submit(k) \/ Cancel(k) \/ CancelReached(k) \/ RecordCall(k) \/ CallSaved
  <2>1. broker' = broker
    BY <1>6 DEF Execute, Submit, Cancel, CancelReached, RecordCall, CallSaved
  <2> QED BY <1>1, <2>1
<1> QED BY <1>3, <1>4, <1>5, <1>6 DEF OrderCall

\* The end of the run, a fault and the synchronisation leave orders and fills alone.
Ending == CloseRun \/ CloseSaved \/ HistoryFault
Syncing == SyncBegin \/ SyncRead \/ SyncApply

\* The steps of the handoff.
LEMMA Steps ==
  ASSUME [HandoffNext]_everything
  PROVE  \/ (\E k \in Keys : Execute(k) \/ OrderCall(k)) /\ Outdates
         \/ CallSaved /\ Outdates
         \/ FillCheck /\ Outdates
         \/ EngineStep /\ Outdates
         \/ (\E i \in DOMAIN fills : JournalEnds(i)) /\ Outdates
         \/ Ending /\ Outdates
         \/ Syncing \/ UNCHANGED everything
  BY Zenon DEF HandoffNext, Ending, Syncing

\* What they leave alone.
LEMMA EndingFrame ==
  ASSUME Ending
  PROVE  UNCHANGED <<brokerVars, fills, held, loopVars>>
  BY DEF Ending, CloseRun, CloseSaved, HistoryFault

\* Synchronising changes the portfolio at most.
LEMMA SyncingFrame ==
  ASSUME Syncing
  PROVE  UNCHANGED <<vars, brokerVars, fills, loopVars>>
  BY DEF Syncing, SyncBegin, SyncRead, SyncApply

\* The journal's thread writes at most an entry.
LEMMA JournalEndsMoves ==
  ASSUME fills \in Seq(Fill), NEW i \in DOMAIN fills, JournalEnds(i)
  PROVE  /\ OneMoves(i) /\ UNCHANGED <<vars, brokerVars, held, loopVars>>
         /\ fills'[i].stage = fills[i].stage /\ fills'[i].applied = fills[i].applied
         /\ ~Certain(fills[i])
<1>1. PICK journal \in {"pending", "resolving", "unknown", "committed", "unattributed"} :
         fills' = WithJournal(i, journal)
  BY DEF JournalEnds
<1>2. ~Certain(fills[i])
  BY DEF JournalEnds, Certain
<1>3. OneMoves(i)
  BY <1>1, <1>2, WithJournalMoves
<1>4. fills[i] \in Fill
  OBVIOUS
<1>5. fills'[i].stage = fills[i].stage /\ fills'[i].applied = fills[i].applied
  BY <1>1, <1>4 DEF WithJournal, Fill
<1> QED BY <1>2, <1>3, <1>5 DEF JournalEnds

\* The engine changes nothing of a fill but whether it is applied.
LEMMA EngineFrame ==
  ASSUME fills \in Seq(Fill), NEW i \in DOMAIN fills, Apply(i) \/ ConfirmApplied(i)
  PROVE  /\ OneMoves(i) /\ UNCHANGED <<vars, brokerVars, loopVars>>
         /\ fills[i].applied \in {"none", "applying"}
         /\ fills'[i].stage = fills[i].stage /\ fills'[i].journal = fills[i].journal
<1>1. PICK applied : fills' = [fills EXCEPT ![i].applied = applied]
  BY DEF Apply, ConfirmApplied
<1>2. fills[i] \in Fill
  OBVIOUS
<1>3. fills'[i].stage = fills[i].stage /\ fills'[i].journal = fills[i].journal
  BY <1>1, <1>2 DEF Fill
<1>4. OneMoves(i)
  BY EngineMoves
<1> QED BY <1>3, <1>4 DEF Apply, ConfirmApplied

\* Every step takes a row over, or moves at most one fill.
LEMMA FillsMove ==
  ASSUME Inv, Watched, LookingOk, CheckTyped, DrainOk, [HandoffNext]_everything
  PROVE  FillsStep
<1>0. fills \in Seq(Fill)
  BY DEF CheckTyped
<1>1. ASSUME NEW k \in Keys, Execute(k) \/ OrderCall(k) \/ CallSaved PROVE FillsStep
  BY <1>1, OrdersFrame DEF FillsStep
<1>2. CASE CallSaved
  BY <1>2 DEF CallSaved, FillsStep
<1>3. CASE FillCheck
  BY <1>3, FillCheckFills DEF FillsStep
<1>4. CASE EngineStep
  <2>1. PICK i \in DOMAIN fills : Apply(i) \/ ConfirmApplied(i)
    BY <1>4 DEF EngineStep
  <2>2. OneMoves(i) /\ broker' = broker
    BY <1>0, <2>1, EngineFrame DEF brokerVars
  <2> QED BY <2>2 DEF FillsStep
<1>5. CASE \E i \in DOMAIN fills : JournalEnds(i)
  <2>1. PICK i \in DOMAIN fills : JournalEnds(i)
    BY <1>5
  <2>2. OneMoves(i) /\ broker' = broker
    BY <1>0, <2>1, JournalEndsMoves DEF brokerVars
  <2> QED BY <2>2 DEF FillsStep
<1>6. CASE Ending \/ Syncing \/ UNCHANGED everything
  <2>1. broker' = broker /\ fills' = fills
    BY <1>6, EndingFrame, SyncingFrame DEF everything, handoffVars, brokerVars
  <2> QED BY <2>1 DEF FillsStep
<1> QED BY <1>1, <1>2, <1>3, <1>4, <1>5, <1>6, Steps

\* Whoever works on it, the fill that the fill check is at stays what it was found to be.
LEMMA DrainKept ==
  ASSUME Watched, CheckTyped, DrainOk, [HandoffNext]_everything
  PROVE  DrainOk'
<1>0. fills \in Seq(Fill)
  BY DEF CheckTyped
<1>1. ASSUME UNCHANGED <<fills, at, now>> PROVE DrainOk'
  BY <1>1 DEF DrainOk, Certain
<1>2. ASSUME NEW i \in DOMAIN fills, OneMoves(i), UNCHANGED <<at, now>>,
             fills'[i].stage = fills[i].stage,
             fills'[i].applied = fills[i].applied \/ fills[i].applied \in {"none", "applying"},
             fills'[i].journal = fills[i].journal \/ ~Certain(fills[i])
      PROVE  DrainOk'
  <2>1. /\ DOMAIN fills' = DOMAIN fills
        /\ \A j \in DOMAIN fills : j # i => fills'[j] = fills[j]
        /\ \A j \in DOMAIN fills : fills'[j].named = fills[j].named
    BY <1>0, <1>2, Moved
  <2> QED BY <1>2, <2>1 DEF DrainOk, Certain
<1>3. CASE EngineStep
  <2>1. PICK i \in DOMAIN fills : Apply(i) \/ ConfirmApplied(i)
    BY <1>3 DEF EngineStep
  <2> QED BY <1>0, <1>2, <2>1, EngineFrame DEF loopVars
<1>4. CASE \E i \in DOMAIN fills : JournalEnds(i)
  <2>1. PICK i \in DOMAIN fills : JournalEnds(i)
    BY <1>4
  <2> QED BY <1>0, <1>2, <2>1, JournalEndsMoves DEF loopVars
<1>5. CASE Ending \/ Syncing \/ UNCHANGED everything
  BY <1>1, <1>5, EndingFrame, SyncingFrame DEF everything, handoffVars, loopVars
<1>6. ASSUME NEW k \in Keys, Execute(k) \/ OrderCall(k) \/ CallSaved PROVE DrainOk'
  BY <1>1, <1>6, OrdersFrame DEF loopVars
<1>7. CASE CallSaved
  BY <1>1, <1>7 DEF CallSaved, loopVars
<1>8. CASE FillCheck
  <2>1. CASE \/ Round \/ Poll \/ RowObserved \/ RowsDone \/ CancelRowObserved \/ CancelRowsDone \/ Hand
             \/ \E k \in Keys : Row(k) \/ CancelRow(k)
    <3>1. at' \in {"rest", "drain", "poll", "rows", "observing", "cancelRows", "cancelObserving", "hand"}
      BY <2>1 DEF Round, Poll, RowObserved, RowsDone, CancelRowObserved, CancelRowsDone, Hand, Row,
         CancelRow, Goto, DrainFrom
    <3> QED BY <3>1 DEF DrainOk
  <2>2. CASE DrainStep
    <3>1. now \in 1..(Len(fills) + 1) /\ fills' = fills
      BY <2>2 DEF CheckTyped, DrainStep
    <3>2. CASE at' \in {"hand", "poll", "drain"}
      BY <3>2 DEF DrainOk
    <3>3. CASE at' = "settle" /\ now' = now /\ now <= Len(fills) /\ fills[now].stage = "posted"
      BY <1>0, <3>1, <3>3 DEF DrainOk
    <3>4. CASE /\ at' \in {"post", "postUnsure", "applied"} /\ now' = now /\ now <= Len(fills)
               /\ fills[now].stage = "handed" /\ ~Waiting(fills[now])
      BY <1>0, <3>1, <3>4 DEF DrainOk, Waiting
    <3> QED BY <2>2, <3>2, <3>3, <3>4 DEF DrainStep, Goto
  <2>3. CASE Receipted
    <3>1. CASE at' = "drain"
      BY <3>1 DEF DrainOk
    <3>2. CASE at = "applied" /\ at' \in {"post", "postUnsure"} /\ fills' = fills /\ now' = now
      BY <3>2 DEF DrainOk
    <3> QED BY <2>3, <3>1, <3>2 DEF Receipted, Goto, Finish, GiveUp, Over, DrainFrom
  <2>4. CASE PostProcess
    <3>1. CASE at' = "drain"
      BY <3>1 DEF DrainOk
    <3>2. CASE /\ at = "post" /\ at' = "settle" /\ now' = now
               /\ \E journal \in {"none", "pending"} : fills' = [fills EXCEPT ![now] = Posted(@, journal)]
      <4>1. PICK journal \in {"none", "pending"} : fills' = [fills EXCEPT ![now] = Posted(@, journal)]
        BY <3>2
      <4>2. now \in DOMAIN fills
        BY <3>2 DEF DrainOk
      <4>3. fills[now] \in Fill
        BY <1>0, <4>2
      <4>4. now \in DOMAIN fills' /\ fills'[now] = Posted(fills[now], journal)
        BY <1>0, <4>1, <4>2
      <4>5. fills'[now].stage = "posted"
        BY <4>3, <4>4, PostedSet
      <4> QED BY <3>2, <4>4, <4>5 DEF DrainOk
    <3> QED BY <2>4, <3>1, <3>2 DEF PostProcess, Goto, DrainFrom
  <2>5. CASE Settle
    <3>1. CASE at' = "drain"
      BY <3>1 DEF DrainOk
    <3>2. CASE /\ at' = "return" /\ now' = now /\ fills[now].named
               /\ \/ Certain(fills[now]) /\ fills' = fills
                  \/ fills' = WithJournal(now, "unattributed")
      <4>1. now \in DOMAIN fills /\ fills[now].stage = "posted"
        BY <2>5 DEF DrainOk, Settle
      <4>2. fills[now] \in Fill
        BY <1>0, <4>1
      <4>3. CASE fills' = WithJournal(now, "unattributed")
        <5>1. now \in DOMAIN fills' /\ fills'[now] = [fills[now] EXCEPT !.journal = "unattributed"]
          BY <1>0, <4>1, <4>3 DEF WithJournal
        <5>2. fills'[now].stage = "posted" /\ fills'[now].named /\ Certain(fills'[now])
          BY <3>2, <4>1, <4>2, <5>1 DEF Fill, Certain
        <5> QED BY <3>2, <5>1, <5>2 DEF DrainOk, Certain
      <4> QED BY <3>2, <4>1, <4>3 DEF DrainOk, Certain
    <3> QED BY <2>5, <3>1, <3>2 DEF Settle, Goto, Finish, GiveUp, Over, DrainFrom
  <2>6. CASE Return
    <3>1. CASE at' = "drain"
      BY <3>1 DEF DrainOk
    <3>2. CASE at = "return" /\ at' = "returned" /\ fills' = fills /\ now' = now
      BY <3>2 DEF DrainOk, Certain
    <3> QED BY <2>6, <3>1, <3>2 DEF Return, Goto, GiveUp, Over, DrainFrom
  <2> QED BY <1>8, <2>1, <2>2, <2>3, <2>4, <2>5, <2>6 DEF FillCheck
<1> QED BY <1>3, <1>4, <1>5, <1>6, <1>7, <1>8, Steps

SyncState == [step : {"off", "asking", "answered"}, valid : BOOLEAN, shares : [Keys -> Nat]]

\* The types of what has no part of its own in the invariant.
Placed ==
    /\ held \in [Keys -> Nat] /\ at \in Places /\ row \in Keys \cup {Nobody}
    /\ todo \subseteq Keys /\ now \in 1..(Len(fills) + 1) /\ handing \in BOOLEAN
    /\ sync \in SyncState

\* The fills only grow.
LEMMA FillsGrow ==
  ASSUME Watched, fills \in Seq(Fill), FillsStep
  PROVE  fills' \in Seq(Fill) /\ Len(fills') >= Len(fills)
<1>1. ASSUME NEW k \in Keys, NEW named \in BOOLEAN, Taken(k, named)
      PROVE  fills' \in Seq(Fill) /\ Len(fills') >= Len(fills)
  <2>1. /\ fills' \in Seq(Fill)
        /\ fills' = fills \/ Len(fills') = Len(fills) + 1
    BY <1>1, Extended
  <2> QED BY <2>1
<1>2. ASSUME NEW i \in DOMAIN fills, OneMoves(i)
      PROVE  fills' \in Seq(Fill) /\ Len(fills') >= Len(fills)
  <2>1. fills' \in Seq(Fill) /\ Len(fills') = Len(fills)
    BY <1>2, Moved
  <2> QED BY <2>1
<1>3. CASE fills' = fills
  BY <1>3
<1> QED BY <1>1, <1>2, <1>3 DEF FillsStep

\* The fill check goes from place to place, over fills that exist.
LEMMA FillCheckPlaces ==
  ASSUME Placed, DrainOk, fills \in Seq(Fill), fills' \in Seq(Fill), Len(fills') >= Len(fills), FillCheck
  PROVE  /\ at' \in Places /\ row' \in Keys \cup {Nobody} /\ todo' \subseteq Keys
         /\ now' \in 1..(Len(fills') + 1) /\ handing' \in BOOLEAN /\ held' = held
<1>0. Len(fills) \in Nat /\ Len(fills') \in Nat /\ 1 \in 1..(Len(fills') + 1) /\ now \in 1..(Len(fills') + 1)
  BY DEF Placed
<1>1. CASE Poll \/ RowObserved \/ RowsDone \/ CancelRowObserved \/ CancelRowsDone
  BY <1>0, <1>1 DEF Poll, RowObserved, RowsDone, CancelRowObserved, CancelRowsDone, Goto, Placed, Places
<1>2. CASE \E k \in Keys : Row(k) \/ CancelRow(k)
  BY <1>0, <1>2 DEF Row, CancelRow, Goto, Placed, Places
<1>3. CASE Round \/ Hand
  BY <1>0, <1>3 DEF Round, Hand, Goto, DrainFrom, Placed, Places
<1>4. CASE DrainStep
  <2>1. now <= Len(fills) => now + 1 \in 1..(Len(fills') + 1)
    BY <1>0 DEF Placed
  <2>2. now' = now \/ (now <= Len(fills) /\ now' = now + 1)
    BY <1>4 DEF DrainStep
  <2>3. /\ at' \in {at, "hand", "poll", "settle", "post", "postUnsure", "applied"}
        /\ UNCHANGED <<row, todo, handing, held>>
    BY <1>4 DEF DrainStep, Goto
  <2> QED BY <1>0, <2>1, <2>2, <2>3 DEF Placed, Places
<1>5. CASE Receipted \/ PostProcess \/ Settle \/ Return
  <2>1. now \in DOMAIN fills
    BY <1>5 DEF Receipted, PostProcess, Settle, Return, DrainOk
  <2>2. now + 1 \in 1..(Len(fills') + 1)
    BY <1>0, <2>1
  <2>3. now' \in {now, now + 1} /\ at' \in {"drain", "settle", "return", "returned", "post", "postUnsure"}
    BY <1>5 DEF Receipted, PostProcess, Settle, Return, Finish, GiveUp, Over, DrainFrom, Goto
  <2>4. UNCHANGED <<row, todo, handing, held>>
    BY <1>5 DEF Receipted, PostProcess, Settle, Return
  <2> QED BY <1>0, <2>2, <2>3, <2>4 DEF Placed, Places
<1> QED BY <1>1, <1>2, <1>3, <1>4, <1>5 DEF FillCheck

\* Every step keeps the types.
LEMMA PlacedKept ==
  ASSUME Watched, Placed, DrainOk, Pieces, fills \in Seq(Fill), FillsStep, [HandoffNext]_everything
  PROVE  Placed'
<1>0. Len(fills) \in Nat /\ fills' \in Seq(Fill) /\ Len(fills') \in Nat /\ Len(fills') >= Len(fills)
  BY FillsGrow
<1>1. now \in 1..(Len(fills') + 1)
  BY <1>0 DEF Placed
<1>2. Outdates => sync' \in SyncState
  BY DEF Outdates, Placed, SyncState
<1>3. ASSUME UNCHANGED loopVars, held' \in [Keys -> Nat], sync' \in SyncState PROVE Placed'
  BY <1>1, <1>3 DEF Placed, loopVars
<1>4. ASSUME NEW k \in Keys, Execute(k) \/ OrderCall(k), Outdates PROVE Placed'
  BY <1>2, <1>3, <1>4, OrdersFrame DEF Placed
<1>5. CASE CallSaved /\ Outdates
  BY <1>2, <1>3, <1>5 DEF CallSaved, Placed
<1>6. CASE FillCheck /\ Outdates
  BY <1>0, <1>2, <1>6, FillCheckPlaces DEF Placed
<1>7. CASE EngineStep /\ Outdates
  <2>1. PICK i \in DOMAIN fills : Apply(i) \/ ConfirmApplied(i)
    BY <1>7 DEF EngineStep
  <2>2. fills[i] \in Fill /\ PieceOk(fills[i])
    BY DEF Pieces
  <2>3. fills[i].key \in Keys /\ Size(fills[i]) \in Nat
    BY <2>2 DEF Fill, PieceOk, Size
  <2>4. held' \in [Keys -> Nat]
    <3>1. held' = held \/ held' = [held EXCEPT ![fills[i].key] = @ + Size(fills[i])]
      BY <2>1 DEF Apply, ConfirmApplied
    <3> QED BY <2>3, <3>1 DEF Placed
  <2>5. UNCHANGED loopVars
    BY <2>1 DEF Apply, ConfirmApplied
  <2> QED BY <1>2, <1>3, <1>7, <2>4, <2>5
<1>8. CASE (\E i \in DOMAIN fills : JournalEnds(i)) /\ Outdates
  BY <1>2, <1>3, <1>8 DEF JournalEnds, Placed
<1>9. CASE Ending /\ Outdates
  BY <1>2, <1>3, <1>9, EndingFrame DEF Placed
<1>10. CASE Syncing
  <2>1. UNCHANGED loopVars
    BY <1>10, SyncingFrame
  <2>2. [k \in Keys |-> exch[k].cum] \in [Keys -> Nat]
    BY DEF Watched, Market
  <2>3. sync' \in SyncState /\ held' \in [Keys -> Nat]
    <3>1. sync \in SyncState /\ held \in [Keys -> Nat] /\ sync.shares \in [Keys -> Nat]
      BY DEF Placed, SyncState
    <3>2. CASE SyncBegin
      BY <3>1, <3>2 DEF SyncBegin, SyncState
    <3>3. CASE SyncRead
      BY <2>2, <3>1, <3>3 DEF SyncRead, SyncState
    <3>4. CASE SyncApply
      BY <3>1, <3>4 DEF SyncApply, NoSync, SyncState
    <3> QED BY <1>10, <3>2, <3>3, <3>4 DEF Syncing
  <2> QED BY <1>3, <2>1, <2>3
<1>11. CASE UNCHANGED everything
  BY <1>3, <1>11 DEF everything, handoffVars, Placed
<1> QED BY <1>4, <1>5, <1>6, <1>7, <1>8, <1>9, <1>10, <1>11, Steps

-----------------------------------------------------------------------------
(* The ledger against the fills *)

\* While its row is awaited the ledger is ahead of the counters by this row;
\* otherwise, until a fault latches, both know the same.
Matched(k) ==
    IF row = k
    THEN /\ orders[k].observed = rows[k].cum
         /\ rows[k].cum > broker[k].filled =>
               \E e \in orders[k].executions : e.from = broker[k].filled /\ e.to = rows[k].cum
    ELSE histFault \/ orders[k].observed = broker[k].filled

\* A named fill has its execution in the ledger.
NamedOk(f) == f.named => \E e \in orders[f.key].executions : e.from = f.from /\ e.to = f.to

\* What is returned was post-processed, with a journal entry that is certain.
ReturnedIsDone ==
    \A k \in Keys : \A e \in orders[k].executions : e.returned =>
        \E i \in DOMAIN fills : /\ fills[i].key = k /\ fills[i].from = e.from /\ fills[i].to = e.to
                                /\ fills[i].posts = 1 /\ Certain(fills[i])

LedgerMatches ==
    /\ \A k \in Keys : Matched(k)
    /\ \A i \in DOMAIN fills : NamedOk(fills[i])
    /\ ReturnedIsDone

\* Nothing of what was observed changes in the ledger.
SameObserved ==
    \A j \in Keys : orders'[j].observed = orders[j].observed /\ orders'[j].executions = orders[j].executions

\* Only the fill check records what was observed.
LEMMA OthersObserveNothing ==
  ASSUME Inv, Watched, [HandoffNext]_everything, ~FillCheck
  PROVE  SameObserved /\ UNCHANGED <<row, rows>> /\ \A j \in Keys : broker'[j].filled = broker[j].filled
<1>1. ASSUME orders' = orders PROVE SameObserved
  BY <1>1 DEF SameObserved
<1>2. ASSUME NEW k \in Keys, Execute(k) \/ OrderCall(k)
      PROVE  /\ SameObserved /\ UNCHANGED <<row, rows>>
             /\ \A j \in Keys : broker'[j].filled = broker[j].filled
  <2>1. UNCHANGED <<row, rows>> /\ \A j \in Keys : broker'[j].filled = broker[j].filled
    BY <1>2, OrdersFrame DEF loopVars
  <2>2. CASE RecordCall(k)
    <3>1. CASE CallFails
      BY <1>1, <2>1, <3>1 DEF CallFails, StorageFault, ledgerVars
    <3>2. ASSUME NEW c \in {"intent", "accepted", "unknown", "rejected", "canceled"}, Recorded(k, c)
          PROVE  SameObserved
      <4>1. /\ orders'[k].observed = orders[k].observed /\ orders'[k].executions = orders[k].executions
            /\ \A j \in Keys \ {k} : orders'[j] = orders[j]
        BY <3>2, RecordedFrame
      <4> QED BY <4>1 DEF SameObserved
    <3> QED BY <2>1, <2>2, <3>1, <3>2 DEF RecordCall
  <2>3. CASE ~RecordCall(k)
    <3>1. UNCHANGED vars
      BY <1>2, <2>3 DEF Execute, OrderCall, Submit, Post, PostAnswered, Cancel, CancelReached, CancelAnswered
    <3>2. orders' = orders
      BY <3>1 DEF vars, ledgerVars
    <3> QED BY <1>1, <2>1, <3>2
  <2> QED BY <2>2, <2>3
<1>3. CASE CallSaved
  <2>1. orders' = orders
    BY <1>3 DEF CallSaved, SnapshotOk, SnapshotFails, Refresh, RefreshFails, StorageFault, ledgerVars
  <2> QED BY <1>1, <1>3, <2>1 DEF CallSaved, loopVars
<1>4. CASE EngineStep \/ (\E i \in DOMAIN fills : JournalEnds(i)) \/ Syncing \/ UNCHANGED everything
  <2>1. UNCHANGED <<vars, brokerVars, loopVars>>
    BY <1>4, SyncingFrame DEF EngineStep, Apply, ConfirmApplied, JournalEnds, everything, handoffVars
  <2> QED BY <1>1, <2>1 DEF vars, ledgerVars, brokerVars, loopVars
<1>5. CASE Ending
  <2>1. orders' = orders
    BY <1>5 DEF Ending, CloseRun, CloseSaved, HistoryFault, CloseHistory, Close, Refresh, RefreshFails,
       Fail, StorageFault, ledgerVars
  <2> QED BY <1>1, <1>5, <2>1, EndingFrame DEF brokerVars, loopVars
<1> QED BY <1>2, <1>3, <1>4, <1>5, Steps

\* The rows of the fill check are matched as they come.
LEMMA MatchedKept ==
  ASSUME Inv, Watched, LookingOk, CheckTyped, DrainOk, LedgerMatches, histFault => histFault',
         [HandoffNext]_everything
  PROVE  \A k \in Keys : Matched(k)'
<1>1. ASSUME histFault', row' \notin Keys PROVE \A k \in Keys : Matched(k)'
  BY <1>1 DEF Matched
<1>2. ASSUME SameObserved, row' = row, row \in Keys => rows' = rows,
             \A j \in Keys : broker'[j].filled = broker[j].filled
      PROVE  \A k \in Keys : Matched(k)'
  BY <1>2 DEF Matched, LedgerMatches, SameObserved
<1>3. ASSUME orders' = orders, row \notin Keys, row' \notin Keys,
             \A j \in Keys : broker'[j].filled = broker[j].filled
      PROVE  \A k \in Keys : Matched(k)'
  BY <1>3 DEF Matched, LedgerMatches
<1>4. CASE ~FillCheck
  BY <1>2, <1>4, OthersObserveNothing
<1>5. CASE FillCheck /\ row \in Keys
  <2>1. RowObserved \/ CancelRowObserved
    BY <1>5 DEF LookingOk, FillCheck, Round, Poll, RowsDone, CancelRowsDone, Hand, DrainStep, Receipted,
       PostProcess, Settle, Return, Row, CancelRow
  <2>2. CASE histFault' /\ row' \notin Keys
    BY <1>1, <2>2
  <2>3. CASE Taken(row, TRUE) /\ row' \notin Keys
    <3>1. /\ orders' = orders /\ broker'[row].filled = rows[row].cum
          /\ \A j \in Keys \ {row} : broker'[j].filled = broker[j].filled
      BY <2>3 DEF Taken
    <3>2. orders[row].observed = rows[row].cum
      BY <1>5 DEF LedgerMatches, Matched
    <3>3. \A j \in Keys \ {row} : histFault \/ orders[j].observed = broker[j].filled
      BY <1>5 DEF LedgerMatches, Matched
    <3> QED BY <1>5, <2>3, <3>1, <3>2, <3>3 DEF Matched
  <2> QED BY <2>1, <2>2, <2>3, RowSeen
<1>6. CASE FillCheck /\ row \notin Keys
  <2>1. ASSUME NEW k \in Keys, NEW named \in BOOLEAN, Taken(k, named) PROVE \A j \in Keys : Matched(j)'
    BY <1>1, <1>6, <2>1 DEF Taken
  <2>2. ASSUME \A j \in Keys : broker'[j].filled = broker[j].filled,
               Silent, row' \in {row, Nobody}
        PROVE  \A j \in Keys : Matched(j)'
    <3>1. orders' = orders /\ row' \notin Keys
      BY <1>6, <2>2, SilentLedger, Names
    <3> QED BY <1>3, <1>6, <2>2, <3>1
  <2>3. ASSUME NEW k \in Keys, Reports(k) PROVE \A j \in Keys : Matched(j)'
    <3>1. CASE histFault' /\ row' = row
      BY <1>1, <1>6, <3>1
    <3>2. CASE row' = k
      <4>1. PICK isFinal \in BOOLEAN : Observe(Bot, k, rows[k].cum, isFinal)
        BY <2>3 DEF Reports
      <4>2. rows[k].cum \in Nat /\ broker[k].filled \in Nat
        BY DEF Watched, Market, Watch
      <4>3. /\ orders'[k].observed = rows[k].cum
            /\ orders'[k].executions = orders[k].executions \cup NewExecutions(orders[k], rows[k].cum)
            /\ \A j \in Keys \ {k} : orders'[j] = orders[j]
        BY <4>1, <4>2, ReportFrame
      <4>4. orders[k].observed = broker[k].filled
        BY <1>6, <2>3 DEF LedgerMatches, Matched, Reports, MayWrite
      <4>5. rows[k].cum > broker[k].filled =>
               \E e \in orders'[k].executions : e.from = broker[k].filled /\ e.to = rows[k].cum
        <5> SUFFICES ASSUME rows[k].cum > broker[k].filled
                     PROVE  \E e \in orders'[k].executions : e.from = broker[k].filled /\ e.to = rows[k].cum
          OBVIOUS
        <5> DEFINE e == [from |-> orders[k].observed, to |-> rows[k].cum, applied |-> FALSE, returned |-> FALSE]
        <5>1. e \in NewExecutions(orders[k], rows[k].cum)
          BY <4>2, <4>4 DEF NewExecutions
        <5>2. e.from = broker[k].filled /\ e.to = rows[k].cum
          BY <4>4
        <5> HIDE DEF e
        <5> QED BY <4>3, <5>1, <5>2
      <4>6. rows' = rows /\ \A j \in Keys : broker'[j].filled = broker[j].filled
        BY <2>3 DEF Reports
      <4>7. Matched(k)'
        BY <3>2, <4>3, <4>5, <4>6 DEF Matched
      <4>8. ASSUME NEW j \in Keys \ {k} PROVE Matched(j)'
        BY <1>6, <3>2, <4>3, <4>6 DEF Matched, LedgerMatches
      <4> QED BY <4>7, <4>8
    <3> QED BY <2>3, <3>1, <3>2 DEF Reports
  <2>4. ASSUME NEW returned \in BOOLEAN, Receives(returned),
               \A j \in Keys : broker'[j].filled = broker[j].filled
        PROVE  \A j \in Keys : Matched(j)'
    <3>1. fills[now] \in Fill /\ row' = row
      BY <2>4 DEF Receives, CheckTyped
    <3>2. fills[now].key \in Keys
      BY <3>1 DEF Fill
    <3>3. /\ orders'[fills[now].key].observed = orders[fills[now].key].observed
          /\ \A j \in Keys \ {fills[now].key} : orders'[j] = orders[j]
      <4>1. IF returned THEN ReceiptReturned(Bot, fills[now].key, TheExecution(fills[now]))
                        ELSE ReceiptApplied(Bot, fills[now].key, TheExecution(fills[now]))
        BY <2>4 DEF Receives
      <4> QED BY <3>2, <4>1, ReceiptFrame
    <3> QED BY <1>6, <2>4, <3>1, <3>2, <3>3 DEF Matched, LedgerMatches
  <2>5. HandOk
    BY DEF HandOk, NowOk, DrainOk
  <2> QED BY <1>6, <2>1, <2>2, <2>3, <2>4, <2>5, FillCheckFills, FillCheckWrites DEF CheckTyped, HandOk
<1> QED BY <1>4, <1>5, <1>6

\* The execution of a named fill is the one with its shares.
LEMMA TheExecutionIs ==
  ASSUME Inv, NEW f \in Fill, NamedOk(f), f.named
  PROVE  /\ TheExecution(f) \in orders[f.key].executions
         /\ TheExecution(f).from = f.from /\ TheExecution(f).to = f.to
<1>1. PICK e \in orders[f.key].executions : e.from = f.from /\ e.to = f.to
  BY DEF NamedOk
<1>2. TheExecution(f) \in orders[f.key].executions /\ TheExecution(f).from = f.from
  BY <1>1 DEF TheExecution
<1>3. f.key \in Keys
  BY DEF Fill
<1>4. orders[f.key] \in Order /\ Tiles(orders[f.key])
  BY <1>3 DEF Inv, Consistent, TypeOK, RecordOk
<1> DEFINE x == TheExecution(f)
<1>5. e \in Execution /\ x \in Execution
  BY <1>1, <1>2, <1>4 DEF Order
<1> HIDE DEF x
<1>6. x \in orders[f.key].executions /\ x.from = e.from
  BY <1>1, <1>2 DEF x
<1>7. e.from < e.to /\ x.from < x.to /\ (e # x => e.to <= x.from \/ x.to <= e.from)
  BY <1>1, <1>4, <1>6 DEF Tiles
<1>8. e = x
  BY <1>5, <1>6, <1>7 DEF Execution
<1> QED BY <1>1, <1>2, <1>8 DEF x

\* Executions stay, and only Return marks one, that of its fill, as returned.
LEMMA ExecutionsKept ==
  ASSUME Inv, Watched, LookingOk, CheckTyped, DrainOk, LedgerMatches, [HandoffNext]_everything,
         NEW k \in Keys
  PROVE  /\ \A e \in orders[k].executions : \E x \in orders'[k].executions : x.from = e.from /\ x.to = e.to
         /\ \A x \in orders'[k].executions : x.returned =>
               \/ \E e \in orders[k].executions : e.returned /\ x.from = e.from /\ x.to = e.to
               \/ /\ at = "return" /\ now \in DOMAIN fills /\ fills[now].key = k
                  /\ x.from = fills[now].from /\ x.to = fills[now].to
<1>1. CASE orders'[k].executions = orders[k].executions
  BY <1>1
<1>2. CASE ~FillCheck
  BY <1>1, <1>2, OthersObserveNothing DEF SameObserved
<1>3. CASE Silent
  BY <1>1, <1>3, SilentLedger
<1>4. ASSUME NEW j \in Keys, Reports(j), orders'[k].executions # orders[k].executions
      PROVE  /\ orders[k].executions \subseteq orders'[k].executions
             /\ \A x \in orders'[k].executions : x.returned => x \in orders[k].executions
  <2>1. PICK isFinal \in BOOLEAN : Observe(Bot, j, rows[j].cum, isFinal)
    BY <1>4 DEF Reports
  <2>2. rows[j].cum \in Nat
    BY DEF Watched, Market
  <2>3. /\ orders'[j].executions = orders[j].executions \cup NewExecutions(orders[j], rows[j].cum)
        /\ \A i \in Keys \ {j} : orders'[i] = orders[i]
    BY <2>1, <2>2, ReportFrame
  <2>4. \A x \in NewExecutions(orders[j], rows[j].cum) : ~x.returned
    BY DEF NewExecutions
  <2> QED BY <1>4, <2>3, <2>4
<1>5. ASSUME NEW returned \in BOOLEAN, Receives(returned), orders'[k].executions # orders[k].executions
      PROVE  LET e == TheExecution(fills[now])
             IN  /\ now \in DOMAIN fills /\ fills[now].key = k /\ e \in orders[k].executions
                 /\ e.from = fills[now].from /\ e.to = fills[now].to
                 /\ Receipt(k, e, returned) /\ (returned => at = "return")
  <2>1. now \in DOMAIN fills /\ fills[now].named
    BY <1>5 DEF Receives
  <2>2. fills[now] \in Fill /\ NamedOk(fills[now])
    BY <2>1 DEF CheckTyped, LedgerMatches
  <2>3. fills[now].key \in Keys
    BY <2>2 DEF Fill
  <2>4. IF returned THEN ReceiptReturned(Bot, fills[now].key, TheExecution(fills[now]))
                    ELSE ReceiptApplied(Bot, fills[now].key, TheExecution(fills[now]))
    BY <1>5 DEF Receives
  <2>5. /\ Receipt(fills[now].key, TheExecution(fills[now]), returned)
        /\ \A j \in Keys \ {fills[now].key} : orders'[j] = orders[j]
    BY <2>3, <2>4, ReceiptFrame
  <2>6. fills[now].key = k
    BY <1>5, <2>5
  <2> QED BY <1>5, <2>1, <2>2, <2>5, <2>6, TheExecutionIs DEF Receives
<1>6. CASE \E returned \in BOOLEAN : Receives(returned)
  <2>1. PICK returned \in BOOLEAN : Receives(returned)
    BY <1>6
  <2>2. CASE orders'[k].executions # orders[k].executions
    <3> DEFINE e == TheExecution(fills[now])
    <3>1. /\ now \in DOMAIN fills /\ fills[now].key = k /\ e \in orders[k].executions
          /\ e.from = fills[now].from /\ e.to = fills[now].to
          /\ Receipt(k, e, returned) /\ (returned => at = "return")
      BY <1>5, <2>1, <2>2
    <3> HIDE DEF e
    <3>2. PICK y : /\ y.from = e.from /\ y.to = e.to /\ (y.returned => e.returned \/ returned)
                   /\ orders'[k].executions = (orders[k].executions \ {e}) \cup {y}
      BY <3>1 DEF Receipt
    <3> QED BY <3>1, <3>2
  <2> QED BY <1>1, <2>2
<1>7. HandOk
  BY DEF HandOk, NowOk, DrainOk
<1>8. CASE \E j \in Keys : Reports(j)
  BY <1>1, <1>4, <1>8
<1> QED BY <1>2, <1>3, <1>6, <1>7, <1>8, FillCheckWrites DEF CheckTyped, HandOk

\* A fill that was post-processed with a certain journal entry stays so.
LEMMA ProcessedStays ==
  ASSUME Watched, fills \in Seq(Fill), Pieces, FillsStep, NEW i \in DOMAIN fills
  PROVE  /\ i \in DOMAIN fills' /\ fills'[i].key = fills[i].key
         /\ fills'[i].from = fills[i].from /\ fills'[i].to = fills[i].to /\ fills'[i].named = fills[i].named
         /\ fills[i].posts = 1 /\ Certain(fills[i]) => fills'[i].posts = 1 /\ Certain(fills'[i])
<1>1. CASE fills' = fills
  BY <1>1
<1>2. ASSUME NEW k \in Keys, NEW named \in BOOLEAN, Taken(k, named)
      PROVE  i \in DOMAIN fills' /\ fills'[i] = fills[i]
  BY <1>2, Extended
<1>3. ASSUME NEW j \in DOMAIN fills, OneMoves(j)
      PROVE  /\ i \in DOMAIN fills' /\ fills'[i].key = fills[i].key
             /\ fills'[i].from = fills[i].from /\ fills'[i].to = fills[i].to
             /\ fills'[i].named = fills[i].named
             /\ fills[i].posts = 1 /\ Certain(fills[i]) => fills'[i].posts = 1 /\ Certain(fills'[i])
  <2>1. /\ DOMAIN fills' = DOMAIN fills /\ Moves(fills[j], fills'[j])
        /\ i # j => fills'[i] = fills[i]
        /\ fills'[i].key = fills[i].key /\ fills'[i].from = fills[i].from
        /\ fills'[i].to = fills[i].to /\ fills'[i].named = fills[i].named
    BY <1>3, Moved
  <2>2. PieceOk(fills[i])
    BY DEF Pieces
  <2>3. i = j /\ fills[i].posts = 1 /\ Certain(fills[i]) => fills'[i].posts = 1 /\ Certain(fills'[i])
    BY <2>1, <2>2 DEF Moves, PieceOk, Certain
  <2> QED BY <2>1, <2>3
<1> QED BY <1>1, <1>2, <1>3 DEF FillsStep

\* Ledger and fills stay matched.
LEMMA LedgerMatchesKept ==
  ASSUME Inv, Watched, LookingOk, CheckTyped, DrainOk, Pieces, LedgerMatches, FillsStep,
         histFault => histFault', [HandoffNext]_everything
  PROVE  LedgerMatches'
<1>0. \A i \in DOMAIN fills : fills[i] \in Fill /\ fills[i].key \in Keys
  <2>1. \A i \in DOMAIN fills : fills[i] \in Fill
    BY DEF CheckTyped
  <2> QED BY <2>1 DEF Fill
<1>1. ASSUME NEW i \in DOMAIN fills PROVE i \in DOMAIN fills' /\ NamedOk(fills[i])'
  <2>1. /\ i \in DOMAIN fills' /\ fills'[i].key = fills[i].key
        /\ fills'[i].from = fills[i].from /\ fills'[i].to = fills[i].to /\ fills'[i].named = fills[i].named
    BY ProcessedStays DEF CheckTyped
  <2>2. NamedOk(fills[i]) /\ fills[i].key \in Keys
    BY <1>0 DEF LedgerMatches
  <2> QED BY <2>1, <2>2, ExecutionsKept DEF NamedOk
<1>2. ASSUME NEW i \in DOMAIN fills' PROVE NamedOk(fills[i])'
  <2>1. CASE i \in DOMAIN fills
    BY <1>1, <2>1
  <2>2. CASE i \notin DOMAIN fills
    <3>1. DOMAIN fills' # DOMAIN fills
      BY <2>2
    <3>a. fills \in Seq(Fill)
      BY DEF CheckTyped
    <3>2. PICK k \in Keys, named \in BOOLEAN : Taken(k, named)
      BY <3>1, <3>a, Moved DEF FillsStep
    <3>3. rows[k].cum > broker[k].filled /\ fills'[i] = NewFill(k, named)
      BY <1>2, <2>2, <3>a, <3>2, Extended
    <3>4. named => \E e \in orders'[k].executions : e.from = broker[k].filled /\ e.to = rows[k].cum
      <4>1. named => row = k /\ orders' = orders
        BY <3>2 DEF Taken
      <4> QED BY <3>3, <4>1 DEF LedgerMatches, Matched
    <3>5. /\ fills'[i].key = k /\ fills'[i].from = broker[k].filled /\ fills'[i].to = rows[k].cum
          /\ fills'[i].named = named
      BY <3>3 DEF NewFill
    <3> QED BY <3>4, <3>5 DEF NamedOk
  <2> QED BY <2>1, <2>2
<1>3. ASSUME NEW k \in Keys, NEW x \in orders'[k].executions, x.returned
      PROVE  \E i \in DOMAIN fills' : /\ fills'[i].key = k /\ fills'[i].from = x.from /\ fills'[i].to = x.to
                                      /\ fills'[i].posts = 1 /\ Certain(fills'[i])
  <2>1. PICK i \in DOMAIN fills : /\ fills[i].key = k /\ fills[i].from = x.from /\ fills[i].to = x.to
                                  /\ fills[i].posts = 1 /\ Certain(fills[i])
    <3>1. CASE \E e \in orders[k].executions : e.returned /\ x.from = e.from /\ x.to = e.to
      BY <3>1 DEF LedgerMatches, ReturnedIsDone
    <3>2. CASE /\ at = "return" /\ now \in DOMAIN fills /\ fills[now].key = k
               /\ x.from = fills[now].from /\ x.to = fills[now].to
      <4>1. fills[now].stage = "posted" /\ Certain(fills[now]) /\ PieceOk(fills[now])
        BY <3>2 DEF DrainOk, Pieces
      <4> QED BY <3>2, <4>1 DEF PieceOk
    <3> QED BY <1>3, <3>1, <3>2, ExecutionsKept
  <2> QED BY <2>1, ProcessedStays DEF CheckTyped
<1>4. ReturnedIsDone'
  BY <1>3 DEF ReturnedIsDone, Certain
<1>5. \A k \in Keys : Matched(k)'
  BY MatchedKept
<1> QED BY <1>2, <1>4, <1>5 DEF LedgerMatches

\* A synchronised portfolio concerns no call: there is none.
LEMMA SyncApplyCalled ==
  ASSUME Called, SyncApply
  PROVE  Called'
<1>1. UNCHANGED <<vars, exch, broker, calls>>
  BY DEF SyncApply, brokerVars
<1>2. orders' = orders /\ writing' = writing
  BY <1>1 DEF vars, ledgerVars, histVars
<1>3. CASE held' = held
  BY <1>1, <1>2, <1>3 DEF Called, CallOk, Stages
<1>4. CASE held' # held
  <2>1. calls = {}
    BY <1>4 DEF SyncApply, Idle
  <2>2. \A k \in Keys : Stages(k) = {} /\ Stages(k)' = {}
    BY <1>1, <2>1 DEF Stages
  <2>3. ASSUME NEW k \in Keys PROVE CallOk(k)'
    <3>1. CallsOk(Stages(k)', broker'[k], exch'[k], orders'[k], held'[k])
      <4> DEFINE C == Stages(k)'
      <4>1. \A c : c \notin C
        BY <2>2
      <4> HIDE DEF C
      <4> QED BY <4>1 DEF CallsOk, C
    <3>2. CallOk(k)
      BY DEF Called
    <3>3. Stages(k)' = Stages(k)
      BY <2>2
    <3> QED BY <1>1, <1>2, <3>1, <3>2, <3>3 DEF CallOk
  <2> QED BY <1>1, <2>3 DEF Called
<1> QED BY <1>3, <1>4

\* Whatever happens, the counters, the rows looked at and the calls stay in order.
LEMMA CalledKept ==
  ASSUME Inv, Watched, LookingOk, Called, CheckTyped, DrainOk, Pieces, Placed, HeldAtMostExecuted,
         [HandoffNext]_everything
  PROVE  Watched' /\ LookingOk' /\ Called'
<1>0. todo \subseteq Keys /\ held \in [Keys -> Nat]
  BY DEF CheckTyped, Placed
<1>1. ASSUME NEW k \in Keys, Execute(k) \/ OrderCall(k) PROVE Watched' /\ LookingOk' /\ Called'
  BY <1>0, <1>1, OrdersKept
<1>2. CASE CallSaved
  <2>1. writing \in Keys
    BY <1>2 DEF CallSaved
  <2> QED BY <1>0, <1>2, <2>1, OrdersKept
<1>3. CASE FillCheck
  <2>1. HandOk
    BY DEF HandOk, NowOk, DrainOk
  <2> QED BY <1>3, <2>1, FillCheckWatches, FillCheckCalls, FillCheckLooks DEF CheckTyped, HandOk
<1>4. ASSUME UNCHANGED <<exch, broker, calls, at, row, todo, rows>>
      PROVE  Watched' /\ LookingOk'
  BY <1>4 DEF Watched, LookingOk, FinalRow
<1>5. CASE EngineStep
  <2>1. PICK i \in DOMAIN fills : Apply(i) \/ ConfirmApplied(i)
    BY <1>5 DEF EngineStep
  <2>2. UNCHANGED <<vars, brokerVars, loopVars>>
    BY <2>1 DEF Apply, ConfirmApplied
  <2>3. UNCHANGED <<exch, broker, calls, at, row, todo, rows, orders, writing>>
    BY <2>2 DEF brokerVars, loopVars, vars, histVars, ledgerVars
  <2>4. fills[i] \in Fill
    BY DEF CheckTyped
  <2>5. fills[i].key \in Keys /\ fills[i].from \in Nat /\ fills[i].to \in Nat
    BY <2>4 DEF Fill
  <2>6. Tracked(broker[fills[i].key])
    <3>1. broker[fills[i].key].filled \in Nat
      BY <2>5 DEF Watched, Watch
    <3>2. broker[fills[i].key].filled > 0
      BY <2>5, <3>1 DEF Pieces, PieceOk
    <3> QED BY <3>2 DEF Tracked
  <2>7. \A k \in Keys : held'[k] = held[k] \/ Tracked(broker[k])
    BY <1>0, <2>1, <2>5, <2>6 DEF Apply, ConfirmApplied
  <2>8. Called'
    BY <2>3, <2>7, QuietCalled DEF Steady
  <2> QED BY <1>4, <2>3, <2>8
<1>6. CASE (\E i \in DOMAIN fills : JournalEnds(i)) \/ Ending \/ SyncBegin \/ SyncRead \/ UNCHANGED everything
  <2>1. UNCHANGED <<exch, broker, calls, at, row, todo, rows, held>>
    BY <1>6, EndingFrame DEF JournalEnds, SyncBegin, SyncRead, everything, handoffVars, brokerVars, loopVars
  <2>2. orders' = orders /\ \A k \in Keys : writing' = k => writing = k
    <3>1. CASE Ending
      <4>1. orders' = orders
        BY <3>1 DEF Ending, CloseRun, CloseSaved, HistoryFault, CloseHistory, Close, Refresh,
           RefreshFails, Fail, StorageFault, ledgerVars
      <4>2. writing' \in {writing, "close", Nobody}
        BY <3>1 DEF Ending, CloseRun, CloseSaved, HistoryFault, CloseHistory, AfterCommit, Refresh,
           RefreshFails, Fail
      <4> QED BY <4>1, <4>2, Names, ProcsAssumption
    <3>2. CASE UNCHANGED vars
      BY <3>2 DEF vars, histVars, ledgerVars
    <3> QED BY <1>6, <3>1, <3>2 DEF JournalEnds, SyncBegin, SyncRead, everything
  <2>3. Called'
    BY <2>1, <2>2, QuietCalled DEF Steady
  <2> QED BY <1>4, <2>1, <2>3
<1>7. CASE SyncApply
  <2>1. UNCHANGED <<exch, broker, calls, at, row, todo, rows>>
    BY <1>7 DEF SyncApply, brokerVars, loopVars
  <2> QED BY <1>4, <1>7, <2>1, SyncApplyCalled
<1> QED BY <1>1, <1>2, <1>3, <1>5, <1>6, <1>7, Steps DEF Syncing

-----------------------------------------------------------------------------
(* The shares of an order *)

\* The shares of k's fills that the portfolio does not count, or whose handoff
\* is not done.
Owed(k) == [i \in DOMAIN fills |->
    IF fills[i].key = k /\ fills[i].applied \notin {"applying", "yes"} THEN Size(fills[i]) ELSE 0]
Undone(k) == [i \in DOMAIN fills |->
    IF fills[i].key = k /\ fills[i].stage # "done" THEN Size(fills[i]) ELSE 0]

\* What is counted of k and not acknowledged is in its fills that are not done;
\* what is counted and not held is in those that the engine did not take.
Shares(k) ==
    /\ broker[k].acked <= broker[k].filled
    /\ SumIs(Undone(k), Len(fills), broker[k].filled - broker[k].acked)
    /\ IF Tracked(broker[k])
       THEN held[k] <= broker[k].filled /\ SumIs(Owed(k), Len(fills), broker[k].filled - held[k])
       ELSE held[k] <= exch[k].cum

\* The fill check delivers the fill it is at, or leaves counters and weights.
Delivers ==
    /\ Finish /\ now \in DOMAIN fills /\ fills[now].stage = "posted"
    /\ fills' = [fills EXCEPT ![now].stage = "done"] /\ rows' = rows

Rests ==
    /\ \A j \in Keys : broker'[j].acked = broker[j].acked
    /\ \A i \in DOMAIN fills : /\ fills'[i].applied = fills[i].applied
                               /\ fills'[i].stage = "done" <=> fills[i].stage = "done"

\* Only a delivered fill is acknowledged.
LEMMA FillCheckRests ==
  ASSUME Watched, LookingOk, CheckTyped, DrainOk, FillCheck
  PROVE  Delivers \/ Rests \/ \E k \in Keys, named \in BOOLEAN : Taken(k, named)
<1>0. UNCHANGED exch /\ fills \in Seq(Fill) /\ \A i \in DOMAIN fills : fills[i] \in Fill
  <2>1. fills \in Seq(Fill)
    BY DEF CheckTyped
  <2>2. \A i \in DOMAIN fills : fills[i] \in Fill
    BY <2>1
  <2>3. exch' = exch
    BY DEF FillCheck, Round, Poll, RowObserved, RowsDone, CancelRowObserved, CancelRowsDone,
     Hand, DrainStep, Receipted, PostProcess, Settle, Return, Row, CancelRow, brokerVars
  <2> QED BY <2>1, <2>2, <2>3
<1>1. ASSUME fills' = fills, \A j \in Keys : broker'[j].acked = broker[j].acked PROVE Rests
  BY <1>1 DEF Rests
<1>2. ASSUME NEW i \in DOMAIN fills, NEW g, broker' = broker, fills' = [fills EXCEPT ![i] = g],
             g.applied = fills[i].applied, g.stage = "done" <=> fills[i].stage = "done"
      PROVE  Rests
  BY <1>0, <1>2 DEF Rests
<1>3. CASE Round \/ Poll \/ CancelRowsDone \/ DrainStep
  BY <1>1, <1>3 DEF Round, Poll, CancelRowsDone, DrainStep, brokerVars
<1>4. CASE RowsDone
  <2>1. broker' = Delisted /\ fills' = fills /\ rows' \in {rows, exch}
    BY <1>4 DEF RowsDone
  <2> QED BY <1>0, <1>1, <2>1, DelistedKeeps
<1>5. CASE \E k \in Keys : Row(k) \/ CancelRow(k)
  BY <1>1, <1>5, RowTaken
<1>6. CASE RowObserved \/ CancelRowObserved
  BY <1>1, <1>6, RowSeen
<1>7. CASE Hand
  <2>1. broker' = broker
    BY <1>7 DEF Hand, brokerVars
  <2>2. CASE NewOnes = {}
    BY <1>1, <1>7, <2>1, <2>2 DEF Hand
  <2>3. CASE NewOnes # {}
    <3>1. NewOnes \subseteq Nat /\ NewOnes \subseteq DOMAIN fills
      BY <1>0 DEF NewOnes
    <3>2. Min(NewOnes) \in NewOnes
      BY <2>3, <3>1, LeastIsMember
    <3>3. PICK i \in DOMAIN fills : i = Min(NewOnes) /\ fills[i].stage = "new"
      BY <3>1, <3>2 DEF NewOnes
    <3> DEFINE g == [fills[i] EXCEPT !.stage = "handed"]
    <3>4. g.applied = fills[i].applied /\ g.stage = "handed"
      BY <1>0 DEF Fill
    <3>5. fills' = [fills EXCEPT ![i] = g]
      BY <1>7, <2>3, <3>3 DEF Hand
    <3> HIDE DEF g
    <3> QED BY <1>2, <2>1, <3>3, <3>4, <3>5
  <2> QED BY <2>2, <2>3
<1>8. CASE PostProcess
  <2>1. now \in DOMAIN fills /\ fills[now].stage = "handed" /\ broker' = broker
    BY <1>8 DEF PostProcess, DrainOk, brokerVars
  <2>2. PICK journal \in {"none", "pending"} :
           \/ fills' = [fills EXCEPT ![now] = Posted(@, journal)]
           \/ fills' = [fills EXCEPT ![now] = FailedPost(@, journal)]
    BY <1>8 DEF PostProcess, FailedPost
  <2>3. fills[now] \in Fill
    BY <1>0, <2>1
  <2>4. /\ Posted(fills[now], journal).applied = fills[now].applied
        /\ Posted(fills[now], journal).stage = "posted"
        /\ FailedPost(fills[now], journal).applied = fills[now].applied
        /\ FailedPost(fills[now], journal).stage = "failed"
    BY <2>3, PostedSet
  <2> QED BY <1>2, <2>1, <2>2, <2>4
<1>9. ASSUME at \in {"settle", "return", "returned"}, GiveUp PROVE Rests
  <2>1. now \in DOMAIN fills /\ fills[now].stage = "posted" /\ broker' = broker
    BY <1>9 DEF DrainOk, GiveUp
  <2> DEFINE g == [fills[now] EXCEPT !.stage = "failed"]
  <2>2. g.applied = fills[now].applied /\ g.stage = "failed"
    BY <1>0, <2>1 DEF Fill
  <2>3. fills' = [fills EXCEPT ![now] = g]
    BY <1>9 DEF GiveUp, Over
  <2> HIDE DEF g
  <2> QED BY <1>2, <2>1, <2>2, <2>3
<1>10. ASSUME at \in {"settle", "return", "returned"}, Finish, rows' = rows PROVE Delivers
  BY <1>10 DEF Delivers, DrainOk, Finish, Over
<1>11. CASE Receipted \/ Return
  BY <1>1, <1>9, <1>10, <1>11 DEF Receipted, Return
<1>12. CASE Settle
  <2>1. CASE Finish \/ GiveUp \/ UNCHANGED <<fills, broker>>
    BY <1>1, <1>9, <1>10, <1>12, <2>1 DEF Settle
  <2>2. CASE ~(Finish \/ GiveUp \/ UNCHANGED <<fills, broker>>)
    <3>1. /\ now \in DOMAIN fills /\ fills[now].stage = "posted" /\ broker' = broker
          /\ \/ fills' = [fills EXCEPT ![now] = Retried(@)]
             \/ fills' = WithJournal(now, "unattributed")
      BY <1>12, <2>2 DEF Settle, DrainOk
    <3> DEFINE g == [fills[now] EXCEPT !.journal = "unattributed"]
    <3>2. fills[now] \in Fill
      BY <1>0, <3>1
    <3>3. /\ g.applied = fills[now].applied /\ g.stage = fills[now].stage
          /\ Retried(fills[now]).applied = fills[now].applied /\ Retried(fills[now]).stage = fills[now].stage
      BY <3>2 DEF Fill, Retried
    <3>4. fills' = [fills EXCEPT ![now] = g] \/ fills' = [fills EXCEPT ![now] = Retried(fills[now])]
      BY <3>1 DEF WithJournal
    <3> HIDE DEF g
    <3> QED BY <1>2, <3>1, <3>3, <3>4
  <2> QED BY <2>1, <2>2
<1> QED BY <1>3, <1>4, <1>5, <1>6, <1>7, <1>8, <1>11, <1>12 DEF FillCheck

\* Every fill has shares, and weighs its shares or nothing.
LEMMA Weights ==
  ASSUME fills \in Seq(Fill), Pieces, NEW k \in Keys
  PROVE  /\ Len(fills) \in Nat /\ DOMAIN fills = 1..Len(fills)
         /\ \A i \in 1..Len(fills) :
               /\ fills[i] \in Fill /\ fills[i].key \in Keys
               /\ Size(fills[i]) \in Nat /\ Size(fills[i]) > 0
               /\ Undone(k)[i] = IF fills[i].key = k /\ fills[i].stage # "done" THEN Size(fills[i]) ELSE 0
               /\ Owed(k)[i] = IF fills[i].key = k /\ fills[i].applied \notin {"applying", "yes"}
                               THEN Size(fills[i]) ELSE 0
               /\ Undone(k)[i] \in Nat /\ Owed(k)[i] \in Nat
<1>1. Len(fills) \in Nat /\ DOMAIN fills = 1..Len(fills) /\ \A i \in 1..Len(fills) : fills[i] \in Fill
  OBVIOUS
<1>2. ASSUME NEW i \in 1..Len(fills)
      PROVE  fills[i].key \in Keys /\ Size(fills[i]) \in Nat /\ Size(fills[i]) > 0
  <2>1. fills[i] \in Fill /\ fills[i].from < fills[i].to
    BY <1>1 DEF Pieces, PieceOk
  <2> QED BY <2>1 DEF Fill, Size
<1> QED BY <1>1, <1>2 DEF Undone, Owed

\* A step that changes no weight.
LEMMA SharesRest ==
  ASSUME Watched, fills \in Seq(Fill), fills' \in Seq(Fill), Pieces, NEW k \in Keys, Shares(k),
         Len(fills') = Len(fills),
         \A i \in DOMAIN fills :
            /\ fills'[i].key = fills[i].key /\ fills'[i].from = fills[i].from /\ fills'[i].to = fills[i].to
            /\ fills[i].key = k => /\ fills'[i].stage = "done" <=> fills[i].stage = "done"
                                   /\ fills'[i].applied \in {"applying", "yes"} <=>
                                         fills[i].applied \in {"applying", "yes"},
         broker'[k].filled = broker[k].filled, broker'[k].acked = broker[k].acked,
         held[k] \in Nat, held'[k] = held[k], exch'[k].cum \in Nat, exch[k].cum <= exch'[k].cum,
         Tracked(broker[k]) => Tracked(broker'[k]),
         Tracked(broker'[k]) /\ ~Tracked(broker[k]) => held[k] = 0
  PROVE  Shares(k)'
<1>1. Len(fills) \in Nat /\ DOMAIN fills = 1..Len(fills) /\ DOMAIN fills' = 1..Len(fills)
  OBVIOUS
<1>2. \A i \in 1..Len(fills) : Undone(k)'[i] = Undone(k)[i] /\ Owed(k)'[i] = Owed(k)[i]
  BY <1>1 DEF Undone, Owed, Size
<1>3. SumIs(Undone(k)', Len(fills'), broker'[k].filled - broker'[k].acked)
  <2> DEFINE v == Undone(k)'
             w == Undone(k)
  <2>1. \A i \in 1..Len(fills) : v[i] = w[i]
    BY <1>2
  <2>2. SumIs(w, Len(fills), broker[k].filled - broker[k].acked)
    BY DEF Shares
  <2> HIDE DEF v, w
  <2>3. SumIs(v, Len(fills), broker[k].filled - broker[k].acked)
    BY <1>1, <2>1, <2>2, SumSame
  <2> QED BY <2>3 DEF v
<1>4. broker[k].filled \in Nat /\ broker[k].acked \in Nat /\ exch[k].cum \in Nat
  BY DEF Watched, Watch, Market
<1>5. CASE Tracked(broker[k])
  <2> DEFINE v == Owed(k)'
             w == Owed(k)
  <2>1. \A i \in 1..Len(fills) : v[i] = w[i]
    BY <1>2
  <2>2. SumIs(w, Len(fills), broker[k].filled - held[k])
    BY <1>5 DEF Shares
  <2> HIDE DEF v, w
  <2>3. SumIs(v, Len(fills), broker[k].filled - held[k])
    BY <1>1, <2>1, <2>2, SumSame
  <2> QED BY <1>3, <1>5, <2>3 DEF v, Shares
<1>6. CASE ~Tracked(broker[k]) /\ ~Tracked(broker'[k])
  BY <1>3, <1>4, <1>6 DEF Shares
<1>7. CASE ~Tracked(broker[k]) /\ Tracked(broker'[k])
  <2>1. broker[k].filled = 0 /\ held[k] = 0 /\ broker[k].acked = 0
    BY <1>4, <1>7 DEF Tracked, Shares
  <2>2. \A i \in 1..Len(fills) : fills[i].key # k
    <3> SUFFICES ASSUME NEW i \in 1..Len(fills), fills[i].key = k PROVE FALSE
      OBVIOUS
    <3>1. fills[i] \in Fill /\ fills[i].from < fills[i].to /\ fills[i].to <= 0
      BY <1>1, <2>1 DEF Pieces, PieceOk
    <3> QED BY <3>1 DEF Fill
  <2> DEFINE v == Owed(k)'
             w == Undone(k)
  <2>3. \A i \in 1..Len(fills) : v[i] = w[i]
    BY <1>1, <1>2, <2>2 DEF Owed, Undone
  <2>4. SumIs(w, Len(fills), broker[k].filled - broker[k].acked)
    BY DEF Shares
  <2> HIDE DEF v, w
  <2>5. SumIs(v, Len(fills), broker[k].filled - broker[k].acked)
    BY <1>1, <2>3, <2>4, SumSame
  <2> QED BY <1>3, <1>7, <2>1, <2>5 DEF v, Shares
<1> QED BY <1>5, <1>6, <1>7

\* A row that is taken over: what it adds is in its fill.
LEMMA SharesTaken ==
  ASSUME Watched, fills \in Seq(Fill), Pieces, NEW k \in Keys, Shares(k),
         NEW j \in Keys, NEW named \in BOOLEAN, Taken(j, named), UNCHANGED <<exch, held>>,
         held[k] \in Nat,
         Tracked(broker'[k]) <=> Tracked(broker[k])
  PROVE  Shares(k)'
<1>1. Len(fills) \in Nat /\ DOMAIN fills = 1..Len(fills)
  OBVIOUS
<1>2. broker[k].filled \in Nat /\ broker[k].acked \in Nat /\ exch[k].cum \in Nat /\ rows[j].cum \in Nat
  BY DEF Watched, Watch, Market
<1>3. /\ broker'[k].acked = broker[k].acked
      /\ broker'[k].filled = IF k = j THEN rows[j].cum ELSE broker[k].filled
      /\ broker[j].filled <= rows[j].cum
  BY DEF Taken
<1>4. CASE fills' = fills /\ rows[j].cum = broker[j].filled
  <2>1. broker'[k].filled = broker[k].filled
    BY <1>3, <1>4
  <2>2. exch'[k].cum \in Nat /\ exch[k].cum <= exch'[k].cum
    BY <1>2
  <2> QED BY <1>3, <1>4, <2>1, <2>2, SharesRest
<1>5. CASE /\ rows[j].cum > broker[j].filled
           /\ Len(fills') = Len(fills) + 1 /\ DOMAIN fills' = DOMAIN fills \cup {Len(fills) + 1}
           /\ fills'[Len(fills) + 1] = NewFill(j, named)
           /\ \A i \in DOMAIN fills : fills'[i] = fills[i]
  <2> DEFINE n == Len(fills)
             d == IF k = j THEN rows[j].cum - broker[j].filled ELSE 0
             f == NewFill(j, named)
  <2>1. /\ f.key = j /\ f.stage = "new" /\ f.applied = "none"
        /\ Size(f) = rows[j].cum - broker[j].filled
    BY DEF NewFill, Size
  <2> HIDE DEF f
  <2>2. d \in Nat /\ broker'[k].filled = broker[k].filled + d
    BY <1>2, <1>3, <1>5
  <2>a. DOMAIN fills' = 1..(n + 1) /\ fills'[n + 1] = f
    BY <1>1, <1>5 DEF f
  <2>3. /\ \A i \in 1..n : Undone(k)'[i] = Undone(k)[i] /\ Owed(k)'[i] = Owed(k)[i]
        /\ Undone(k)'[n + 1] = d /\ Owed(k)'[n + 1] = d
    BY <1>1, <1>5, <2>1, <2>a DEF Undone, Owed
  <2> HIDE DEF d, n
  <2>b. n \in Nat /\ n = Len(fills) /\ Len(fills') = n + 1
    BY <1>1, <1>5 DEF n
  <2>4. SumIs(Undone(k)', n + 1, (broker[k].filled - broker[k].acked) + d)
    <3> DEFINE v == Undone(k)'
               w == Undone(k)
    <3>1. /\ \A i \in 1..n : v[i] = w[i]
          /\ v[n + 1] = d
      BY <2>3
    <3>2. SumIs(w, n, broker[k].filled - broker[k].acked)
      BY <2>b DEF Shares
    <3> HIDE DEF v, w
    <3>3. SumIs(v, n + 1, (broker[k].filled - broker[k].acked) + v[n + 1])
      BY <2>2, <2>b, <3>1, <3>2, SumExtended
    <3> QED BY <3>1, <3>3 DEF v
  <2>5. Tracked(broker[k]) => SumIs(Owed(k)', n + 1, (broker[k].filled - held[k]) + d)
    <3> SUFFICES ASSUME Tracked(broker[k])
                 PROVE  SumIs(Owed(k)', n + 1, (broker[k].filled - held[k]) + d)
      OBVIOUS
    <3> DEFINE v == Owed(k)'
               w == Owed(k)
    <3>1. /\ \A i \in 1..n : v[i] = w[i]
          /\ v[n + 1] = d
      BY <2>3
    <3>2. SumIs(w, n, broker[k].filled - held[k])
      BY <2>b DEF Shares
    <3> HIDE DEF v, w
    <3>3. SumIs(v, n + 1, (broker[k].filled - held[k]) + v[n + 1])
      BY <2>2, <2>b, <3>1, <3>2, SumExtended
    <3> QED BY <3>1, <3>3 DEF v
  <2>6. /\ broker'[k].filled - broker'[k].acked = (broker[k].filled - broker[k].acked) + d
        /\ broker'[k].filled - held'[k] = (broker[k].filled - held[k]) + d
        /\ broker[k].filled <= broker'[k].filled
    BY <1>2, <1>3, <2>2
  <2>7. /\ broker'[k].acked <= broker'[k].filled
        /\ Tracked(broker[k]) => held'[k] <= broker'[k].filled
    BY <1>2, <1>3, <2>2 DEF Shares
  <2> QED BY <2>b, <2>4, <2>5, <2>6, <2>7 DEF Shares
<1> QED BY <1>4, <1>5, Extended

\* A fill is delivered: its shares are acknowledged, not more and not less.
LEMMA SharesDelivered ==
  ASSUME Watched, fills \in Seq(Fill), Pieces, NEW k \in Keys, Shares(k), Delivers,
         UNCHANGED <<exch, held>>, held[k] \in Nat
  PROVE  Shares(k)'
<1> DEFINE j == fills[now].key
           d == Size(fills[now])
<1>1. /\ Len(fills) \in Nat /\ DOMAIN fills = 1..Len(fills) /\ now \in 1..Len(fills)
      /\ fills[now] \in Fill /\ j \in Keys /\ d \in Nat /\ d > 0 /\ fills[now].stage = "posted"
  BY Weights DEF Delivers
<1>2. fills' = [fills EXCEPT ![now] = [fills[now] EXCEPT !.stage = "done"]]
  BY DEF Delivers
<1>3. /\ fills' \in Seq(Fill) /\ Len(fills') = Len(fills) /\ DOMAIN fills' = 1..Len(fills)
      /\ \A i \in 1..Len(fills) : i # now => fills'[i] = fills[i]
      /\ fills'[now].key = j /\ fills'[now].from = fills[now].from /\ fills'[now].to = fills[now].to
      /\ fills'[now].stage = "done" /\ fills'[now].applied = fills[now].applied
  <2> DEFINE g == [fills[now] EXCEPT !.stage = "done"]
  <2>1. /\ g \in Fill /\ g.key = j /\ g.from = fills[now].from /\ g.to = fills[now].to
        /\ g.stage = "done" /\ g.applied = fills[now].applied
    BY <1>1 DEF Fill
  <2> HIDE DEF g
  <2> QED BY <1>1, <1>2, <2>1 DEF g
<1>4. broker' = [broker EXCEPT ![j] = Acknowledged(@, d)]
  BY DEF Delivers, Finish
<1> HIDE DEF j, d
<1>5. /\ \A i \in Keys : Steady(i) /\ broker'[i].filled = broker[i].filled
      /\ \A i \in Keys \ {j} : broker'[i] = broker[i]
      /\ broker'[j].acked = IF broker[j].watched /\ broker[j].acked + d <= broker[j].filled
                            THEN broker[j].acked + d ELSE broker[j].acked
  BY <1>1, <1>4, AcknowledgedKeeps DEF Delivers
<1>6. broker[k].filled \in Nat /\ broker[k].acked \in Nat /\ exch[k].cum \in Nat
  BY DEF Watched, Watch, Market
<1>7. CASE k # j
  <2>1. \A i \in DOMAIN fills :
            /\ fills'[i].key = fills[i].key /\ fills'[i].from = fills[i].from /\ fills'[i].to = fills[i].to
            /\ fills[i].key = k => /\ fills'[i].stage = "done" <=> fills[i].stage = "done"
                                   /\ fills'[i].applied \in {"applying", "yes"} <=>
                                         fills[i].applied \in {"applying", "yes"}
    BY <1>1, <1>3, <1>7 DEF j
  <2>2. exch'[k].cum \in Nat /\ exch[k].cum <= exch'[k].cum /\ broker'[k] = broker[k]
    BY <1>5, <1>6, <1>7
  <2> QED BY <1>3, <2>1, <2>2, SharesRest
<1>8. CASE k = j
  <2>1. /\ \A i \in 1..Len(fills) : Undone(k)[i] \in Nat
        /\ Undone(k)[now] = d /\ Undone(k)'[now] = 0
        /\ \A i \in 1..Len(fills) : i # now => Undone(k)'[i] = Undone(k)[i]
        /\ \A i \in 1..Len(fills) : Owed(k)'[i] = Owed(k)[i]
    <3>1. \A i \in 1..Len(fills) : Undone(k)[i] \in Nat
      BY Weights
    <3> QED BY <1>1, <1>3, <1>8, <3>1 DEF Undone, Owed, Size, j, d
  <2>2. /\ d <= broker[k].filled - broker[k].acked
        /\ SumIs(Undone(k)', Len(fills), (broker[k].filled - broker[k].acked) - d)
    <3> DEFINE v == Undone(k)'
               w == Undone(k)
    <3>1. /\ \A i \in 1..Len(fills) : w[i] \in Nat
          /\ w[now] = d /\ v[now] = 0
          /\ \A i \in 1..Len(fills) : i # now => v[i] = w[i]
      BY <2>1
    <3>2. SumIs(w, Len(fills), broker[k].filled - broker[k].acked)
      BY DEF Shares
    <3> HIDE DEF v, w
    <3> DEFINE t == broker[k].filled - broker[k].acked
    <3> HIDE DEF t
    <3>3. SumIs(w, Len(fills), t)
      BY <3>2 DEF t
    <3>4. w[now] <= t /\ SumIs(v, Len(fills), t - w[now])
      BY <1>1, <3>1, <3>3, SumDropped
    <3> QED BY <3>1, <3>4 DEF v, t
  <2>3. broker[k].watched
    <3>1. fills[now].from < fills[now].to /\ fills[now].to <= broker[k].filled /\ fills[now].from \in Nat
          /\ fills[now].to \in Nat
      BY <1>1, <1>8 DEF Pieces, PieceOk, Fill, j
    <3>2. Tracked(broker[k])
      BY <1>6, <3>1 DEF Tracked
    <3>3. ~broker[k].watched => broker[k].acked = broker[k].filled
      BY <3>2 DEF Watched, WatchOk
    <3> QED BY <1>1, <1>6, <2>2, <3>3
  <2>4. broker'[k].acked = broker[k].acked + d /\ broker'[k].filled = broker[k].filled
    BY <1>1, <1>5, <1>6, <1>8, <2>2, <2>3
  <2>5. /\ broker'[k].acked <= broker'[k].filled
        /\ broker'[k].filled - broker'[k].acked = (broker[k].filled - broker[k].acked) - d
    BY <1>1, <1>6, <2>2, <2>4
  <2>6. Tracked(broker[k]) => SumIs(Owed(k)', Len(fills), broker[k].filled - held[k])
    <3> SUFFICES ASSUME Tracked(broker[k]) PROVE SumIs(Owed(k)', Len(fills), broker[k].filled - held[k])
      OBVIOUS
    <3> DEFINE v == Owed(k)'
               w == Owed(k)
    <3>1. \A i \in 1..Len(fills) : v[i] = w[i]
      BY <2>1
    <3>2. SumIs(w, Len(fills), broker[k].filled - held[k])
      BY DEF Shares
    <3> HIDE DEF v, w
    <3> QED BY <1>1, <3>1, <3>2, SumSame DEF v
  <2>7. Tracked(broker'[k]) <=> Tracked(broker[k])
    BY <1>5 DEF Steady
  <2> QED BY <1>3, <2>2, <2>4, <2>5, <2>6, <2>7 DEF Shares
<1> QED BY <1>7, <1>8

\* The engine takes a fill into the portfolio.
LEMMA SharesApplied ==
  ASSUME Watched, fills \in Seq(Fill), Pieces, NEW k \in Keys, Shares(k), held \in [Keys -> Nat],
         NEW i \in DOMAIN fills, Apply(i) \/ ConfirmApplied(i)
  PROVE  Shares(k)'
<1> DEFINE j == fills[i].key
           d == Size(fills[i])
<1>1. /\ Len(fills) \in Nat /\ DOMAIN fills = 1..Len(fills) /\ i \in 1..Len(fills)
      /\ fills[i] \in Fill /\ j \in Keys /\ d \in Nat /\ d > 0
  BY Weights
<1>2. OneMoves(i) /\ UNCHANGED <<exch, broker>> /\ fills'[i].stage = fills[i].stage
  BY EngineFrame DEF brokerVars
<1>3. /\ fills' \in Seq(Fill) /\ Len(fills') = Len(fills) /\ DOMAIN fills' = 1..Len(fills)
      /\ \A m \in 1..Len(fills) : m # i => fills'[m] = fills[m]
      /\ \A m \in 1..Len(fills) : /\ fills'[m].key = fills[m].key /\ fills'[m].from = fills[m].from
                                  /\ fills'[m].to = fills[m].to
  BY <1>1, <1>2, Moved
<1>4. broker[k].filled \in Nat /\ broker[k].acked \in Nat /\ exch[k].cum \in Nat /\ held[k] \in Nat
  <2>1. broker[k] \in Watch /\ exch[k] \in Market
    BY DEF Watched
  <2> QED BY <2>1 DEF Watch, Market
<1>5. /\ exch'[k].cum \in Nat /\ exch[k].cum <= exch'[k].cum /\ broker'[k] = broker[k]
      /\ \A m \in DOMAIN fills : fills'[m].stage = "done" <=> fills[m].stage = "done"
  <2>1. exch'[k].cum = exch[k].cum /\ broker'[k] = broker[k]
    BY <1>2
  <2>2. ASSUME NEW m \in DOMAIN fills PROVE fills'[m].stage = fills[m].stage
    BY <1>1, <1>2, <1>3
  <2> QED BY <1>4, <2>1, <2>2
<1>6. CASE /\ fills' = [fills EXCEPT ![i].applied = "applying"] /\ fills[i].applied = "none"
           /\ held' = [held EXCEPT ![fills[i].key] = @ + Size(fills[i])] /\ j = k
  <2>1. fills'[i].applied = "applying"
    <3>1. fills'[i] = [fills[i] EXCEPT !.applied = "applying"]
      BY <1>6
    <3> QED BY <1>1, <3>1 DEF Fill
  <2>2. held'[k] = held[k] + d
    BY <1>1, <1>6
  <2>3. /\ \A m \in 1..Len(fills) : Owed(k)[m] \in Nat
        /\ Owed(k)[i] = d /\ Owed(k)'[i] = 0
        /\ \A m \in 1..Len(fills) : m # i => Owed(k)'[m] = Owed(k)[m]
        /\ \A m \in 1..Len(fills) : Undone(k)'[m] = Undone(k)[m]
    <3>1. \A m \in 1..Len(fills) : Owed(k)[m] \in Nat
      BY Weights
    <3> QED BY <1>1, <1>3, <1>5, <1>6, <2>1, <3>1 DEF Undone, Owed, Size, d
  <2>4. Tracked(broker[k])
    <3>1. fills[i].from < fills[i].to /\ fills[i].to <= broker[k].filled /\ fills[i].from \in Nat
          /\ fills[i].to \in Nat
      BY <1>1, <1>6 DEF Pieces, PieceOk, Fill
    <3> QED BY <1>4, <3>1 DEF Tracked
  <2> HIDE DEF d, j
  <2>5. /\ d <= broker[k].filled - held[k]
        /\ SumIs(Owed(k)', Len(fills), (broker[k].filled - held[k]) - d)
    <3> DEFINE v == Owed(k)'
               w == Owed(k)
               t == broker[k].filled - held[k]
    <3>1. /\ \A m \in 1..Len(fills) : w[m] \in Nat
          /\ w[i] = d /\ v[i] = 0
          /\ \A m \in 1..Len(fills) : m # i => v[m] = w[m]
      BY <2>3
    <3>2. SumIs(w, Len(fills), t)
      BY <2>4 DEF Shares
    <3> HIDE DEF v, w, t
    <3>3. w[i] <= t /\ SumIs(v, Len(fills), t - w[i])
      BY <1>1, <3>1, <3>2, SumDropped
    <3> QED BY <3>1, <3>3 DEF v, t
  <2>6. SumIs(Undone(k)', Len(fills), broker[k].filled - broker[k].acked)
    <3> DEFINE v == Undone(k)'
               w == Undone(k)
    <3>1. \A m \in 1..Len(fills) : v[m] = w[m]
      BY <2>3
    <3>2. SumIs(w, Len(fills), broker[k].filled - broker[k].acked)
      BY DEF Shares
    <3> HIDE DEF v, w
    <3> QED BY <1>1, <3>1, <3>2, SumSame DEF v
  <2>7. /\ held'[k] <= broker[k].filled
        /\ broker[k].filled - held'[k] = (broker[k].filled - held[k]) - d
    BY <1>1, <1>4, <2>2, <2>5
  <2> QED BY <1>3, <1>5, <2>4, <2>5, <2>6, <2>7 DEF Shares
<1>7. CASE /\ held'[k] = held[k]
           /\ j = k => (fills'[i].applied \in {"applying", "yes"} <=> fills[i].applied \in {"applying", "yes"})
  <2>1. \A m \in DOMAIN fills :
            /\ fills'[m].key = fills[m].key /\ fills'[m].from = fills[m].from /\ fills'[m].to = fills[m].to
            /\ fills[m].key = k => /\ fills'[m].stage = "done" <=> fills[m].stage = "done"
                                   /\ fills'[m].applied \in {"applying", "yes"} <=>
                                         fills[m].applied \in {"applying", "yes"}
    BY <1>1, <1>3, <1>5, <1>7
  <2> QED BY <1>3, <1>4, <1>5, <1>7, <2>1, SharesRest
<1>8. /\ held' = held \/ held' = [held EXCEPT ![fills[i].key] = @ + Size(fills[i])]
      /\ \/ /\ held' = [held EXCEPT ![fills[i].key] = @ + Size(fills[i])]
            /\ fills' = [fills EXCEPT ![i].applied = "applying"] /\ fills[i].applied = "none"
         \/ /\ held' = held
            /\ fills'[i].applied \in {"applying", "yes"} <=> fills[i].applied \in {"applying", "yes"}
  <2>1. \A applied : fills' = [fills EXCEPT ![i].applied = applied] => fills'[i].applied = applied
    <3> TAKE applied
    <3> HAVE fills' = [fills EXCEPT ![i].applied = applied]
    <3>1. fills'[i] = [fills[i] EXCEPT !.applied = applied]
      OBVIOUS
    <3> QED BY <1>1, <3>1 DEF Fill
  <2>2. CASE Apply(i)
    BY <2>1, <2>2 DEF Apply
  <2>3. CASE ConfirmApplied(i)
    BY <2>1, <2>3 DEF ConfirmApplied
  <2> QED BY <2>2, <2>3
<1>9. k # j /\ held' = [held EXCEPT ![fills[i].key] = @ + Size(fills[i])] => held'[k] = held[k]
  BY <1>1
<1> QED BY <1>6, <1>7, <1>8, <1>9

\* The exchange takes no execution back.
LEMMA ExchangeGrows ==
  ASSUME Watched, [HandoffNext]_everything, NEW j \in Keys
  PROVE  exch'[j].cum \in Nat /\ exch[j].cum <= exch'[j].cum
<1>1. \A k \in Keys : exch[k] \in Market /\ exch[k].cum \in Nat /\ Quantity[k] \in Nat
  <2>1. \A k \in Keys : exch[k] \in Market
    BY DEF Watched
  <2> QED BY <2>1, FactsAssumption DEF Market
<1>2. ASSUME UNCHANGED exch PROVE exch'[j].cum \in Nat /\ exch[j].cum <= exch'[j].cum
  BY <1>1, <1>2
<1>3. ASSUME NEW k \in Keys, NEW x, exch' = [exch EXCEPT ![k] = x],
             x.cum \in Nat, exch[k].cum <= x.cum
      PROVE  exch'[j].cum \in Nat /\ exch[j].cum <= exch'[j].cum
  BY <1>1, <1>3 DEF Watched
<1>4. ASSUME NEW k \in Keys, Execute(k) PROVE exch'[j].cum \in Nat /\ exch[j].cum <= exch'[j].cum
  <2>1. PICK n \in (exch[k].cum + 1)..Quantity[k] :
           exch' = [exch EXCEPT ![k] = [cum |-> n, live |-> n < Quantity[k]]]
    BY <1>4 DEF Execute
  <2> DEFINE x == [cum |-> n, live |-> n < Quantity[k]]
  <2>2. exch' = [exch EXCEPT ![k] = x] /\ x.cum = n
    BY <2>1
  <2> HIDE DEF x
  <2>3. exch[k].cum \in Nat /\ Quantity[k] \in Nat
    BY <1>1
  <2>4. n \in Nat /\ exch[k].cum <= n
    BY <2>3
  <2> QED BY <1>3, <2>2, <2>4
<1>5. ASSUME NEW k \in Keys, OrderCall(k) PROVE exch'[j].cum \in Nat /\ exch[j].cum <= exch'[j].cum
  <2>1. exch' = exch \/ \E live \in BOOLEAN : exch' = [exch EXCEPT ![k].live = live]
    BY <1>5 DEF OrderCall, Submit, Post, PostAnswered, Cancel, CancelReached, CancelAnswered, RecordCall
  <2>2. ASSUME NEW live \in BOOLEAN, exch' = [exch EXCEPT ![k].live = live]
        PROVE  exch'[j].cum \in Nat /\ exch[j].cum <= exch'[j].cum
    <3> DEFINE x == [exch[k] EXCEPT !.live = live]
    <3>1. x.cum = exch[k].cum
      BY <1>1 DEF Market
    <3>2. exch' = [exch EXCEPT ![k] = x]
      BY <2>2
    <3> HIDE DEF x
    <3> QED BY <1>1, <1>3, <3>1, <3>2
  <2> QED BY <1>2, <2>1, <2>2
<1>6. CASE CallSaved \/ Ending \/ Syncing \/ EngineStep \/ (\E i \in DOMAIN fills : JournalEnds(i))
           \/ UNCHANGED everything
  <2>1. exch' = exch
    BY <1>6, EndingFrame, SyncingFrame DEF CallSaved, EngineStep, Apply, ConfirmApplied, JournalEnds,
       everything, handoffVars, brokerVars
  <2> QED BY <1>2, <2>1
<1>7. CASE FillCheck
  <2>1. exch' = exch
    BY <1>7 DEF FillCheck, Round, Poll, RowObserved, RowsDone, CancelRowObserved, CancelRowsDone, Hand,
       DrainStep, Receipted, PostProcess, Settle, Return, Row, CancelRow, brokerVars
  <2> QED BY <1>2, <2>1
<1> QED BY <1>4, <1>5, <1>6, <1>7, Steps

\* An order becomes tracked when its acceptance is known, and stays tracked.
LEMMA OrdersTracked ==
  ASSUME Watched, Called, NEW k \in Keys, Execute(k) \/ OrderCall(k) \/ CallSaved, NEW j \in Keys
  PROVE  /\ Tracked(broker[j]) => Tracked(broker'[j])
         /\ Tracked(broker'[j]) /\ ~Tracked(broker[j]) => held[j] = 0
<1>1. broker \in [Keys -> Watch] /\ broker[k] \in Watch
  BY DEF Watched
<1>2. CASE broker' = broker
  BY <1>2
<1>3. ASSUME NEW b, broker' = [broker EXCEPT ![k] = b], Tracked(broker[k]) => Tracked(b),
             Tracked(b) /\ ~Tracked(broker[k]) => held[k] = 0
      PROVE  /\ Tracked(broker[j]) => Tracked(broker'[j])
             /\ Tracked(broker'[j]) /\ ~Tracked(broker[j]) => held[j] = 0
  BY <1>1, <1>3
<1>4. CASE Post(k) /\ broker' # broker
  <2> DEFINE b == [broker[k] EXCEPT !.place = "off"]
  <2>1. Tracked(b) <=> Tracked(broker[k])
    BY <1>1 DEF Tracked, Watch
  <2>2. broker' = [broker EXCEPT ![k] = b]
    BY <1>4 DEF Post
  <2> HIDE DEF b
  <2> QED BY <1>3, <2>1, <2>2
<1>5. CASE PostAnswered(k) /\ broker' # broker
  <2> DEFINE b == [broker[k] EXCEPT !.place = "pending", !.watched = TRUE]
  <2>1. Tracked(b)
    BY <1>1 DEF Tracked, Watch
  <2>2. broker' = [broker EXCEPT ![k] = b] /\ <<k, "sent">> \in calls
    BY <1>5 DEF PostAnswered, Turn
  <2>3. held[k] = 0
    BY <2>2 DEF Called, CallOk, CallsOk, Stages, Calls
  <2> HIDE DEF b
  <2> QED BY <1>3, <2>1, <2>2, <2>3
<1>6. CASE CancelAnswered(k) /\ broker' # broker
  <2> DEFINE b == [broker[k] EXCEPT !.canceled = Listed(k), !.place = "off"]
  <2>1. broker' = [broker EXCEPT ![k] = b] /\ <<k, "cancelled">> \in calls
    BY <1>6 DEF CancelAnswered, Turn
  <2>2. Tracked(broker[k]) /\ ~broker[k].canceled
    BY <2>1 DEF Called, CallOk, CallsOk, Stages, Calls, CancelStages
  <2>3. b.watched = broker[k].watched /\ b.filled = broker[k].filled
    BY <1>1 DEF Watch
  <2> HIDE DEF b
  <2>4. Tracked(b)
    BY <2>2, <2>3 DEF Tracked
  <2> QED BY <1>3, <2>1, <2>2, <2>4
<1> QED BY <1>2, <1>4, <1>5, <1>6 DEF Execute, OrderCall, CallSaved, Submit, Cancel, CancelReached, RecordCall

-----------------------------------------------------------------------------
(* The reconciliation token *)

\* While the token is valid nothing is under way, and what the sync read of a
\* tracked order is what the portfolio holds of it.
SyncOk ==
    /\ \A k \in Keys : sync.shares[k] <= exch[k].cum
    /\ sync.step # "off" /\ sync.valid => Idle
    /\ sync.step = "answered" /\ sync.valid =>
          \A k \in Keys : Tracked(broker[k]) => sync.shares[k] = held[k]

\* When the engine took all fills of a tracked order, its counted shares are held.
LEMMA NothingOwed ==
  ASSUME Watched, fills \in Seq(Fill), Pieces, held \in [Keys -> Nat], NEW k \in Keys, Shares(k),
         Tracked(broker[k]),
         \A i \in DOMAIN fills : fills[i].key = k => fills[i].applied \in {"applying", "yes"}
  PROVE  held[k] = broker[k].filled
<1>1. broker[k].filled \in Nat /\ held[k] \in Nat
  BY DEF Watched, Watch
<1>2. Len(fills) \in Nat /\ \A i \in 1..Len(fills) : Owed(k)[i] = 0
  <2>1. DOMAIN fills = 1..Len(fills)
    OBVIOUS
  <2> QED BY <2>1, Weights
<1> DEFINE w == Owed(k)
           t == broker[k].filled - held[k]
<1>3. SumIs(w, Len(fills), t) /\ \A i \in 1..Len(fills) : w[i] = 0
  BY <1>2 DEF Shares
<1> HIDE DEF w, t
<1>4. t = 0
  BY <1>2, <1>3, SumZero
<1> QED BY <1>1, <1>4 DEF t

\* When nothing is under way all shares of a tracked order are in the portfolio.
LEMMA IdleSettles ==
  ASSUME Watched, fills \in Seq(Fill), Pieces, held \in [Keys -> Nat], NEW k \in Keys, Shares(k),
         Idle, Tracked(broker[k])
  PROVE  held[k] = broker[k].filled /\ broker[k].filled = exch[k].cum
<1>1. /\ broker[k] \in Watch /\ exch[k] \in Market /\ rows[k] \in Market
      /\ WatchOk(broker[k], exch[k], rows[k], Quantity[k]) /\ Quantity[k] \in Nat
  BY FactsAssumption DEF Watched
<1>2. broker[k].filled \in Nat /\ exch[k].cum \in Nat /\ rows[k].cum \in Nat
  BY <1>1 DEF Watch, Market
<1>5. held[k] = broker[k].filled
  BY NothingOwed DEF Idle
<1>6. broker[k].place # "pending" /\ (broker[k].canceled => ~broker[k].watched)
  BY DEF Idle, Listed, UnresolvedCancel
<1>7. broker[k].place # "none"
  BY <1>1 DEF WatchOk
<1>8. broker[k].place = "off"
  BY <1>1, <1>6, <1>7 DEF Watch
<1>9. broker[k].filled = exch[k].cum
  BY <1>1, <1>2, <1>6, <1>8 DEF WatchOk
<1> QED BY <1>1, <1>2, <1>5, <1>9

\* Whatever is held of an order, the exchange executed it.
LEMMA SharesBound ==
  ASSUME Watched, held \in [Keys -> Nat], \A k \in Keys : Shares(k)
  PROVE  HeldAtMostExecuted
<1> SUFFICES ASSUME NEW k \in Keys PROVE held[k] <= exch[k].cum
  BY DEF HeldAtMostExecuted
<1>1. broker[k] \in Watch /\ exch[k] \in Market /\ rows[k] \in Market
      /\ WatchOk(broker[k], exch[k], rows[k], Quantity[k]) /\ held[k] \in Nat
  BY DEF Watched
<1>2. broker[k].filled \in Nat /\ exch[k].cum \in Nat /\ rows[k].cum \in Nat
  BY <1>1 DEF Watch, Market
<1>3. broker[k].filled <= exch[k].cum
  BY <1>1, <1>2 DEF WatchOk
<1>4. held[k] <= broker[k].filled \/ held[k] <= exch[k].cum
  BY DEF Shares
<1> QED BY <1>1, <1>2, <1>3, <1>4

\* Every step keeps the books of every order.
LEMMA SharesKept ==
  ASSUME Inv, Watched, LookingOk, Called, CheckTyped, DrainOk, Pieces, Placed, SyncOk,
         \A k \in Keys : Shares(k), fills' \in Seq(Fill), [HandoffNext]_everything
  PROVE  \A k \in Keys : Shares(k)'
<1> SUFFICES ASSUME NEW k \in Keys PROVE Shares(k)'
  OBVIOUS
<1>0. /\ fills \in Seq(Fill) /\ held \in [Keys -> Nat] /\ held[k] \in Nat /\ Shares(k)
      /\ exch[k].cum \in Nat
  <2>1. exch[k] \in Market
    BY DEF Watched
  <2> QED BY <2>1 DEF CheckTyped, Placed, Market
<1>1. ASSUME UNCHANGED <<exch, broker, fills, held>> PROVE Shares(k)'
  BY <1>0, <1>1, SharesRest
<1>2. ASSUME NEW j \in Keys, Execute(j) \/ OrderCall(j) PROVE Shares(k)'
  <2>1. exch'[k].cum \in Nat /\ exch[k].cum <= exch'[k].cum
    <3>1. [HandoffNext]_everything
      OBVIOUS
    <3> QED BY <3>1, ExchangeGrows
  <2>2. /\ UNCHANGED <<fills, held>>
        /\ broker'[k].filled = broker[k].filled /\ broker'[k].acked = broker[k].acked
    BY <1>2, OrdersFrame
  <2>3. /\ Tracked(broker[k]) => Tracked(broker'[k])
        /\ Tracked(broker'[k]) /\ ~Tracked(broker[k]) => held[k] = 0
    BY <1>2, OrdersTracked
  <2> QED BY <1>0, <2>1, <2>2, <2>3, SharesRest
<1>3. CASE CallSaved
  BY <1>1, <1>3 DEF CallSaved
<1>4. CASE FillCheck
  <2>1. \A j \in Keys : Steady(j)
    BY <1>4, FillCheckWatches DEF CheckTyped, DrainOk, NowOk
  <2>2. UNCHANGED <<exch, held>>
    BY <1>4, FillCheckWatches DEF CheckTyped, DrainOk, NowOk
  <2>3. Tracked(broker'[k]) <=> Tracked(broker[k])
    BY <2>1 DEF Steady
  <2>4. ASSUME NEW j \in Keys, NEW named \in BOOLEAN, Taken(j, named) PROVE Shares(k)'
    BY <1>0, <2>2, <2>3, <2>4, SharesTaken
  <2>5. CASE Delivers
    BY <1>0, <2>2, <2>5, SharesDelivered
  <2>6. CASE Rests /\ ~\E j \in Keys, named \in BOOLEAN : Taken(j, named)
    <3>1. /\ \A j \in Keys : broker'[j].filled = broker[j].filled
          /\ fills' = fills \/ \E i \in DOMAIN fills : OneMoves(i)
      BY <1>4, <2>6, FillCheckFills
    <3>2. /\ Len(fills') = Len(fills)
          /\ \A i \in DOMAIN fills :
               fills'[i].key = fills[i].key /\ fills'[i].from = fills[i].from /\ fills'[i].to = fills[i].to
      <4>1. CASE fills' = fills
        BY <4>1
      <4>2. ASSUME NEW i \in DOMAIN fills, OneMoves(i)
              PROVE  /\ Len(fills') = Len(fills)
                     /\ \A m \in DOMAIN fills : /\ fills'[m].key = fills[m].key
                                               /\ fills'[m].from = fills[m].from /\ fills'[m].to = fills[m].to
        BY <1>0, <4>2, Moved
      <4> QED BY <3>1, <4>1, <4>2
    <3>3. /\ broker'[k].acked = broker[k].acked
          /\ \A i \in DOMAIN fills : /\ fills'[i].applied = fills[i].applied
                                     /\ fills'[i].stage = "done" <=> fills[i].stage = "done"
      BY <2>6 DEF Rests
    <3> QED BY <1>0, <2>2, <2>3, <3>1, <3>2, <3>3, SharesRest
  <2> QED BY <1>4, <2>4, <2>5, <2>6, FillCheckRests
<1>5. CASE EngineStep
  <2>1. PICK i \in DOMAIN fills : Apply(i) \/ ConfirmApplied(i)
    BY <1>5 DEF EngineStep
  <2> QED BY <1>0, <2>1, SharesApplied
<1>6. CASE \E i \in DOMAIN fills : JournalEnds(i)
  <2>1. PICK i \in DOMAIN fills : JournalEnds(i)
    BY <1>6
  <2>2. /\ OneMoves(i) /\ UNCHANGED <<exch, broker, held>>
        /\ fills'[i].stage = fills[i].stage /\ fills'[i].applied = fills[i].applied
    BY <1>0, <2>1, JournalEndsMoves DEF brokerVars
  <2>3. /\ Len(fills') = Len(fills)
        /\ \A j \in DOMAIN fills : /\ fills'[j].key = fills[j].key /\ fills'[j].from = fills[j].from
                                   /\ fills'[j].to = fills[j].to
                                   /\ fills'[j].stage = fills[j].stage /\ fills'[j].applied = fills[j].applied
    BY <1>0, <2>2, Moved
  <2> QED BY <1>0, <2>2, <2>3, SharesRest
<1>7. CASE Ending \/ SyncBegin \/ SyncRead \/ UNCHANGED everything
  <2>1. UNCHANGED <<exch, broker, fills, held>>
    BY <1>7, EndingFrame DEF SyncBegin, SyncRead, everything, handoffVars, brokerVars
  <2> QED BY <1>1, <2>1
<1>8. CASE SyncApply
  <2>1. UNCHANGED <<exch, broker, fills>>
    BY <1>8 DEF SyncApply, brokerVars
  <2>2. CASE held' = held
    BY <1>1, <2>1, <2>2
  <2>3. CASE held' # held
    <3>1. sync.step = "answered" /\ sync.valid /\ held' = sync.shares
      BY <1>8, <2>3 DEF SyncApply
    <3>2. sync.shares[k] <= exch[k].cum /\ (Tracked(broker[k]) => sync.shares[k] = held[k])
      BY <3>1 DEF SyncOk
    <3>3. CASE Tracked(broker[k])
      <4>1. held'[k] = held[k]
        BY <3>1, <3>2, <3>3
      <4> QED BY <1>0, <2>1, <4>1, SharesRest
    <3>4. CASE ~Tracked(broker[k])
      <4>1. held'[k] <= exch'[k].cum /\ ~Tracked(broker'[k])
        BY <2>1, <3>1, <3>2, <3>4
      <4>2. Undone(k)' = Undone(k)
        BY <2>1 DEF Undone, Size
      <4>3. /\ broker[k].acked <= broker[k].filled
            /\ SumIs(Undone(k), Len(fills), broker[k].filled - broker[k].acked)
        BY <1>0 DEF Shares
      <4> HIDE DEF Undone
      <4> QED BY <2>1, <4>1, <4>2, <4>3 DEF Shares
    <3> QED BY <3>3, <3>4
  <2> QED BY <2>2, <2>3
<1> QED BY <1>2, <1>3, <1>4, <1>5, <1>6, <1>7, <1>8, Steps DEF Syncing

\* Once nothing is under way, what begins to be is a new generation.
LEMMA IdleStays ==
  ASSUME fills \in Seq(Fill), Pieces, DrainOk, Idle, Generations' = Generations,
         \/ \E k \in Keys : Execute(k) \/ OrderCall(k)
         \/ CallSaved \/ FillCheck \/ EngineStep \/ Ending
         \/ \E i \in DOMAIN fills : JournalEnds(i)
  PROVE  Idle' /\ broker' = broker /\ held' = held
<1>1. calls' = calls /\ Checking' = Checking /\ handing' = handing /\ held' = held
  BY DEF Generations
<1>2. /\ calls = {} /\ calls' = {} /\ ~Checking /\ ~Checking' /\ ~handing /\ ~handing'
      /\ \A k \in Keys : ~Listed(k)
      /\ ~UnresolvedCancel
      /\ \A i \in DOMAIN fills : fills[i].applied = "yes" /\ ~LiveHandoff(fills[i])
  <2>1. ~Checking /\ ~handing /\ calls = {}
    BY DEF Idle
  <2>2. ~Checking' /\ ~handing' /\ calls' = {}
    BY <1>1, <2>1
  <2> QED BY <2>1, <2>2 DEF Idle
<1>3. ASSUME broker' = broker,
             \/ fills' = fills
             \/ /\ DOMAIN fills' = DOMAIN fills
                /\ \A i \in DOMAIN fills : /\ fills'[i].applied = fills[i].applied
                                           /\ fills'[i].stage = fills[i].stage
      PROVE  Idle' /\ broker' = broker /\ held' = held
  <2>1. \A k \in Keys : ~Listed(k)'
    BY <1>2, <1>3 DEF Listed
  <2>2. ~UnresolvedCancel'
    BY <1>2, <1>3 DEF UnresolvedCancel
  <2>3. \A i \in DOMAIN fills' : fills'[i].applied = "yes" /\ ~LiveHandoff(fills'[i])
    BY <1>2, <1>3 DEF LiveHandoff
  <2>4. calls' = {} /\ ~Checking' /\ ~handing'
    BY <1>2
  <2> HIDE DEF Checking, Listed, UnresolvedCancel, LiveHandoff
  <2> QED BY <1>1, <1>3, <2>1, <2>2, <2>3, <2>4 DEF Idle
<1>4. ASSUME NEW k \in Keys, Execute(k) \/ OrderCall(k) PROVE broker' = broker /\ fills' = fills
  <2>1. ~Submit(k)
    BY <1>2 DEF Submit
  <2>2. \A from, to : ~Turn(k, from, to)
    BY <1>2 DEF Turn
  <2>3. ~Cancel(k)
    BY <1>2 DEF Cancel
  <2> QED BY <1>4, <2>1, <2>2, <2>3
          DEF Execute, OrderCall, Post, PostAnswered, CancelReached, CancelAnswered, RecordCall
<1>5. CASE CallSaved
  <2>1. \A k, from, to : ~Turn(k, from, to)
    BY <1>2 DEF Turn
  <2> QED BY <1>5, <2>1 DEF CallSaved
<1>6. CASE FillCheck
  <2>1. CASE Round \/ Poll \/ DrainStep
    <3>1. broker' = broker /\ fills' = fills
      BY <2>1 DEF Round, Poll, DrainStep, brokerVars
    <3> QED BY <1>3, <3>1
  <2>2. CASE Hand
    <3>1. NewOnes = {}
      BY <1>2 DEF NewOnes, Pieces, PieceOk
    <3>2. broker' = broker /\ fills' = fills
      BY <2>2, <3>1 DEF Hand, brokerVars
    <3> QED BY <1>3, <3>2
  <2>3. ~(RowObserved \/ RowsDone \/ CancelRowObserved \/ CancelRowsDone)
    BY <1>2 DEF RowObserved, RowsDone, CancelRowObserved, CancelRowsDone, Checking
  <2>4. ~\E k \in Keys : Row(k) \/ CancelRow(k)
    BY <1>2 DEF Row, CancelRow, Checking
  <2>5. ~(Receipted \/ PostProcess \/ Settle \/ Return)
    BY <1>2 DEF Receipted, PostProcess, Settle, Return, DrainOk, LiveHandoff
  <2> QED BY <1>6, <2>1, <2>2, <2>3, <2>4, <2>5 DEF FillCheck
<1>7. ~EngineStep
  BY <1>2 DEF EngineStep, Apply, ConfirmApplied
<1>8. CASE \E i \in DOMAIN fills : JournalEnds(i)
  <2>1. PICK i \in DOMAIN fills : JournalEnds(i)
    BY <1>8
  <2>2. /\ OneMoves(i) /\ broker' = broker
        /\ fills'[i].stage = fills[i].stage /\ fills'[i].applied = fills[i].applied
    BY <2>1, JournalEndsMoves DEF brokerVars
  <2>3. DOMAIN fills' = DOMAIN fills /\ \A j \in DOMAIN fills : j # i => fills'[j] = fills[j]
    BY <2>2, Moved
  <2> QED BY <1>3, <2>2, <2>3
<1>9. CASE Ending
  <2>1. broker' = broker /\ fills' = fills
    BY <1>9, EndingFrame DEF brokerVars
  <2> QED BY <1>3, <2>1
<1> QED BY <1>3, <1>4, <1>5, <1>6, <1>7, <1>8, <1>9

\* The token stays worth what SyncOk says.
LEMMA SyncKept ==
  ASSUME Watched, CheckTyped, DrainOk, Pieces, Placed, SyncOk, \A k \in Keys : Shares(k),
         [HandoffNext]_everything
  PROVE  SyncOk'
<1>0. fills \in Seq(Fill) /\ held \in [Keys -> Nat] /\ sync \in SyncState
  BY DEF CheckTyped, Placed
<1>1. \A k \in Keys : exch[k].cum \in Nat /\ exch'[k].cum \in Nat /\ exch[k].cum <= exch'[k].cum
  <2>1. ASSUME NEW k \in Keys PROVE exch'[k].cum \in Nat /\ exch[k].cum <= exch'[k].cum
    BY ExchangeGrows
  <2>2. \A k \in Keys : exch[k] \in Market
    BY DEF Watched
  <2> QED BY <2>1, <2>2 DEF Market
<1>2. \A k \in Keys : sync.shares[k] \in Nat /\ sync.shares[k] <= exch[k].cum
  BY <1>0 DEF SyncOk, SyncState
<1>3. ASSUME Outdates,
             \/ \E k \in Keys : Execute(k) \/ OrderCall(k)
             \/ CallSaved \/ FillCheck \/ EngineStep \/ Ending
             \/ \E i \in DOMAIN fills : JournalEnds(i)
      PROVE  SyncOk'
  <2>1. sync'.shares = sync.shares /\ sync'.step = sync.step
    BY <1>0, <1>3 DEF Outdates, SyncState
  <2>2. \A k \in Keys : sync'.shares[k] <= exch'[k].cum
    BY <1>1, <1>2, <2>1
  <2>3. CASE sync'.valid
    <3>1. sync' = sync /\ Generations' = Generations
      BY <1>0, <1>3, <2>3 DEF Outdates, SyncState
    <3>2. CASE sync.step = "off"
      BY <2>2, <3>1, <3>2 DEF SyncOk
    <3>3. CASE sync.step # "off"
      <4>1. Idle
        BY <2>3, <3>1, <3>3 DEF SyncOk
      <4>2. Idle' /\ broker' = broker /\ held' = held
        BY <1>0, <1>3, <3>1, <4>1, IdleStays
      <4> HIDE DEF Idle
      <4> QED BY <2>2, <3>1, <4>2 DEF SyncOk
    <3> QED BY <3>2, <3>3
  <2>4. CASE ~sync'.valid
    BY <2>2, <2>4 DEF SyncOk
  <2> QED BY <2>3, <2>4
<1>4. CASE SyncBegin
  <2>1. /\ UNCHANGED <<exch, broker, calls, fills, held, at, handing>> /\ Idle
        /\ sync'.step = "asking" /\ sync'.shares = sync.shares
    BY <1>0, <1>4 DEF SyncBegin, brokerVars, loopVars, SyncState
  <2>2. Idle'
    BY <2>1 DEF Idle, Checking, Listed, UnresolvedCancel, LiveHandoff
  <2> HIDE DEF Idle
  <2> QED BY <1>2, <2>1, <2>2 DEF SyncOk
<1>5. CASE SyncRead
  <2>1. /\ UNCHANGED <<exch, broker, calls, fills, held, at, handing>> /\ sync.step = "asking"
        /\ sync'.step = "answered" /\ sync'.valid = sync.valid
        /\ sync'.shares = [k \in Keys |-> exch[k].cum]
    BY <1>0, <1>5 DEF SyncRead, brokerVars, loopVars, SyncState
  <2>2. \A k \in Keys : sync'.shares[k] = exch'[k].cum /\ sync'.shares[k] <= exch'[k].cum
    BY <1>1, <2>1
  <2>3. CASE sync.valid
    <3>1. Idle
      BY <2>1, <2>3 DEF SyncOk
    <3>2. Idle'
      BY <2>1, <3>1 DEF Idle, Checking, Listed, UnresolvedCancel, LiveHandoff
    <3>3. ASSUME NEW k \in Keys, Tracked(broker'[k]) PROVE sync'.shares[k] = held'[k]
      <4>1. Tracked(broker[k])
        BY <2>1, <3>3
      <4>2. held[k] = broker[k].filled /\ broker[k].filled = exch[k].cum
        BY <1>0, <3>1, <4>1, IdleSettles
      <4> QED BY <2>1, <2>2, <4>2
    <3> HIDE DEF Idle, Tracked
    <3> QED BY <2>2, <3>2, <3>3 DEF SyncOk
  <2>4. CASE ~sync.valid
    BY <2>1, <2>2, <2>4 DEF SyncOk
  <2> QED BY <2>3, <2>4
<1>6. CASE SyncApply
  <2>1. sync' = NoSync
    BY <1>6 DEF SyncApply
  <2> QED BY <1>1, <2>1 DEF SyncOk, NoSync
<1>7. CASE UNCHANGED everything
  BY <1>7 DEF everything, handoffVars, brokerVars, loopVars, SyncOk, Idle, Checking, Listed,
     UnresolvedCancel, LiveHandoff
<1> QED BY <1>3, <1>4, <1>5, <1>6, <1>7, Steps DEF Syncing

-----------------------------------------------------------------------------
(* The clean end *)

\* After a clean end every fill is processed and every order final.
Clean ==
    sessions[1].clean =>
        /\ \A i \in DOMAIN fills : fills[i].applied = "yes" /\ fills[i].posts = 1
        /\ \A k \in Keys : ~exch[k].live /\ broker[k].filled = exch[k].cum /\ orders[k].status # "intent"

\* An order with a fill is tracked.
LEMMA FillsAreTracked ==
  ASSUME Watched, fills \in Seq(Fill), Pieces, NEW i \in DOMAIN fills
  PROVE  fills[i] \in Fill /\ fills[i].key \in Keys /\ Tracked(broker[fills[i].key])
<1>1. fills[i] \in Fill
  OBVIOUS
<1>2. fills[i].key \in Keys /\ fills[i].from \in Nat /\ fills[i].to \in Nat
  BY <1>1 DEF Fill
<1>3. broker[fills[i].key].filled \in Nat
  BY <1>2 DEF Watched, Watch
<1>4. fills[i].from < fills[i].to /\ fills[i].to <= broker[fills[i].key].filled
  BY DEF Pieces, PieceOk
<1>5. broker[fills[i].key].filled > 0
  BY <1>2, <1>3, <1>4
<1> QED BY <1>1, <1>2, <1>5 DEF Tracked

\* The ledger lets a session close only when nothing is left to do.
LEMMA CloseMeansClean ==
  ASSUME Inv, OneRun, Watched, LookingOk, Called, fills \in Seq(Fill), Pieces, LedgerMatches,
         CloseRun
  PROVE  Clean'
<1>1. /\ ~histFault /\ ~Checking /\ \A k \in Keys : Settled(orders[k])
      /\ UNCHANGED <<orders, exch, broker, fills>>
  BY DEF CloseRun, CloseHistory, MayWrite, Close, CanClose, brokerVars
<1>2. row \notin Keys
  BY <1>1 DEF LookingOk, Checking
<1>3. \A k \in Keys : orders[k].observed = broker[k].filled
  BY <1>1, <1>2 DEF LedgerMatches, Matched
<1>4. ASSUME NEW k \in Keys
      PROVE  /\ ~exch[k].live /\ broker[k].filled = exch[k].cum /\ orders[k].status # "intent"
             /\ Tracked(broker[k]) => Handed(orders[k])
  <2>1. /\ LedgerOk(orders[k], broker[k], exch[k]) /\ RecordOk(orders[k]) /\ Settled(orders[k])
        /\ WatchOk(broker[k], exch[k], rows[k], Quantity[k])
        /\ broker[k] \in Watch /\ exch[k] \in Market /\ rows[k] \in Market
    BY <1>1 DEF Called, CallOk, Inv, Consistent, Watched
  <2>2. broker[k].filled \in Nat /\ exch[k].cum \in Nat /\ rows[k].cum \in Nat
        /\ broker[k].filled <= rows[k].cum /\ rows[k].cum <= exch[k].cum
    BY <2>1 DEF Watch, Market, WatchOk
  <2>3. CASE orders[k].status = "none"
    <3>1. broker[k].place = "none"
      BY <2>1, <2>3 DEF LedgerOk, Present
    <3>2. ~exch[k].live /\ exch[k].cum = 0 /\ ~Tracked(broker[k])
      BY <2>1, <3>1 DEF WatchOk
    <3> QED BY <2>2, <2>3, <3>2
  <2>4. CASE orders[k].status = "rejected"
    <3>1. ~exch[k].live /\ exch[k].cum = 0 /\ ~Tracked(broker[k])
      BY <2>1, <2>4 DEF LedgerOk
    <3> QED BY <2>2, <2>4, <3>1
  <2>5. CASE orders[k].status \in {"accepted", "canceled"} /\ orders[k].terminal # NotTerminal
             /\ Handed(orders[k])
    <3>1. ~exch[k].live /\ exch[k].cum = orders[k].terminal
      BY <2>1, <2>5 DEF LedgerOk
    <3>2. orders[k].terminal = orders[k].observed
      BY <2>1, <2>5 DEF RecordOk
    <3> QED BY <1>3, <2>5, <3>1, <3>2
  <2> QED BY <2>1, <2>3, <2>4, <2>5 DEF Settled, LedgerOk
<1>5. ASSUME NEW i \in DOMAIN fills PROVE fills[i].applied = "yes" /\ fills[i].posts = 1
  <2> DEFINE k == fills[i].key
  <2>1. fills[i] \in Fill /\ k \in Keys /\ Tracked(broker[k]) /\ PieceOk(fills[i])
    BY FillsAreTracked DEF Pieces
  <2>2. fills[i].named
    BY <1>1 DEF Pieces
  <2>3. PICK e \in orders[k].executions : e.from = fills[i].from /\ e.to = fills[i].to
    BY <2>2 DEF LedgerMatches, NamedOk
  <2>4. e.returned
    BY <1>4, <2>1, <2>3 DEF Handed
  <2>5. PICK j \in DOMAIN fills : /\ fills[j].key = k /\ fills[j].from = e.from /\ fills[j].to = e.to
                                  /\ fills[j].posts = 1
    BY <2>1, <2>4 DEF LedgerMatches, ReturnedIsDone
  <2>6. i = j
    <3>1. i \in Nat /\ j \in Nat /\ fills[i].from \in Nat /\ fills[i].to \in Nat
          /\ fills[i].from < fills[i].to
      BY <2>1 DEF Fill, PieceOk
    <3>2. i < j => fills[i].to <= fills[j].from
      BY <2>5 DEF Pieces
    <3>3. j < i => fills[j].to <= fills[i].from
      BY <2>5 DEF Pieces
    <3> HIDE DEF k
    <3> QED BY <2>3, <2>5, <3>1, <3>2, <3>3
  <2> QED BY <2>1, <2>5, <2>6 DEF PieceOk
<1> QED BY <1>1, <1>4, <1>5 DEF Clean

\* A session that is clean has no writer.
LEMMA CleanIsSilent ==
  ASSUME OneRun, sessions[1].clean, HistoryStep
  PROVE  orders' = orders /\ sessions' = sessions
<1>1. ~Writer(Bot)
  BY DEF OneRun, Writer
<1>2. ~CloseHistory
  BY <1>1 DEF CloseHistory, Close
<1>3. \A k \in Keys : ~Write(k) /\ ~WriteFill(k)
  BY <1>1 DEF Write, WriteFill, OrderStep, Intent, Accepted, Outcome, Observe, ReceiptApplied, ReceiptReturned
<1> QED BY <1>2, <1>3, SilentLedger DEF HistoryStep, Silent

\* Only the end of the run ends the session.
LEMMA SessionStays ==
  ASSUME Inv, Watched, LookingOk, CheckTyped, DrainOk, [HandoffNext]_everything, ~CloseRun
  PROVE  sessions' = sessions
<1>1. ASSUME UNCHANGED vars PROVE sessions' = sessions
  BY <1>1 DEF vars, ledgerVars
<1>2. CASE FillCheck
  <2>1. ASSUME NEW k \in Keys, Reports(k) PROVE sessions' = sessions
    BY <2>1 DEF Reports, Observe, Commit
  <2>2. ASSUME NEW returned \in BOOLEAN, Receives(returned) PROVE sessions' = sessions
    BY <2>2 DEF Receives, ReceiptApplied, ReceiptReturned, Commit
  <2>3. HandOk
    BY DEF HandOk, NowOk, DrainOk
  <2> QED BY <1>2, <2>1, <2>2, <2>3, SilentLedger, FillCheckWrites DEF CheckTyped, HandOk
<1>3. ASSUME NEW k \in Keys, RecordCall(k) PROVE sessions' = sessions
  BY <1>3 DEF RecordCall, Recorded, Intent, Accepted, Outcome, Commit, CallFails, StorageFault, ledgerVars
<1>4. CASE CallSaved \/ CloseSaved \/ HistoryFault
  BY <1>4 DEF CallSaved, CloseSaved, HistoryFault, SnapshotOk, SnapshotFails, Refresh, RefreshFails, Fail,
     StorageFault, ledgerVars
<1>5. ASSUME NEW k \in Keys, Execute(k) \/ OrderCall(k), ~RecordCall(k) PROVE UNCHANGED vars
  BY <1>5 DEF Execute, OrderCall, Submit, Post, PostAnswered, Cancel, CancelReached, CancelAnswered
<1>6. CASE EngineStep \/ (\E i \in DOMAIN fills : JournalEnds(i)) \/ Syncing \/ UNCHANGED everything
  BY <1>1, <1>6, SyncingFrame DEF EngineStep, Apply, ConfirmApplied, JournalEnds, everything
<1> QED BY <1>1, <1>2, <1>3, <1>4, <1>5, <1>6, Steps DEF Ending

\* With every order final, and none about to be sent, the exchange is at rest.
LEMMA ExchangeRests ==
  ASSUME Watched, Called, [HandoffNext]_everything,
         \A k \in Keys : ~exch[k].live /\ orders[k].status # "intent"
  PROVE  \A k \in Keys : ~exch'[k].live /\ exch'[k].cum = exch[k].cum
<1>1. exch \in [Keys -> Market]
  BY DEF Watched
<1>2. ASSUME exch' = exch PROVE \A k \in Keys : ~exch'[k].live /\ exch'[k].cum = exch[k].cum
  BY <1>2
<1>3. ASSUME NEW k \in Keys, OrderCall(k) PROVE exch' = exch
  <2>1. "post" \notin Stages(k)
    BY DEF Called, CallOk, CallsOk
  <2>2. \A to : ~Turn(k, "post", to)
    BY <2>1 DEF Turn, Stages, Calls
  <2>3. ~Post(k)
    BY <2>2 DEF Post
  <2> QED BY <1>3, <2>3 DEF OrderCall, Submit, PostAnswered, Cancel, CancelReached, CancelAnswered, RecordCall
<1>4. \A k \in Keys : ~Execute(k)
  BY DEF Execute
<1>5. CASE FillCheck
  BY <1>2, <1>5 DEF FillCheck, Round, Poll, RowObserved, RowsDone, CancelRowObserved, CancelRowsDone, Hand,
     DrainStep, Receipted, PostProcess, Settle, Return, Row, CancelRow, brokerVars
<1>6. CASE CallSaved \/ EngineStep \/ (\E i \in DOMAIN fills : JournalEnds(i)) \/ Ending \/ Syncing
           \/ UNCHANGED everything
  <2>1. exch' = exch
    BY <1>6, EndingFrame, SyncingFrame DEF CallSaved, EngineStep, Apply, ConfirmApplied, JournalEnds,
       everything, handoffVars, brokerVars
  <2> QED BY <1>2, <2>1
<1> QED BY <1>2, <1>3, <1>4, <1>5, <1>6, Steps

\* What is clean stays so: nothing is sent, executed or counted any more.
LEMMA CleanKept ==
  ASSUME Inv, OneRun, Watched, LookingOk, Called, CheckTyped, DrainOk, fills \in Seq(Fill), Pieces,
         LedgerMatches, Clean, HistoryStep, FillsStep, [HandoffNext]_everything
  PROVE  Clean'
<1>1. CASE CloseRun
  BY <1>1, CloseMeansClean
<1>2. CASE ~CloseRun /\ ~sessions[1].clean
  <2>1. sessions' = sessions
    BY <1>2, SessionStays
  <2> QED BY <1>2, <2>1 DEF Clean
<1>3. CASE ~CloseRun /\ sessions[1].clean
  <2>1. orders' = orders /\ sessions' = sessions
    BY <1>3, CleanIsSilent
  <2>2. \A k \in Keys : /\ ~exch[k].live /\ broker[k].filled = exch[k].cum /\ orders[k].status # "intent"
                        /\ rows[k].cum \in Nat /\ exch[k].cum \in Nat
                        /\ broker[k].filled <= rows[k].cum /\ rows[k].cum <= exch[k].cum
    BY <1>3 DEF Clean, Watched, WatchOk, Market
  <2>3. \A i \in DOMAIN fills : fills[i].applied = "yes" /\ fills[i].posts = 1 /\ PieceOk(fills[i])
    BY <1>3 DEF Clean, Pieces
  <2>4. \A k \in Keys : ~exch'[k].live /\ exch'[k].cum = exch[k].cum
    BY <2>2, ExchangeRests
  <2>5. /\ \A k \in Keys : broker'[k].filled = broker[k].filled
        /\ fills' = fills \/ \E i \in DOMAIN fills : OneMoves(i)
    <3>1. ASSUME NEW k \in Keys, NEW named \in BOOLEAN, Taken(k, named)
          PROVE  fills' = fills /\ \A j \in Keys : broker'[j].filled = broker[j].filled
      <4>1. rows[k].cum = broker[k].filled
        BY <2>2
      <4> QED BY <2>2, <3>1, <4>1 DEF Taken
    <3> QED BY <3>1 DEF FillsStep
  <2>6. \A i \in DOMAIN fills' : fills'[i].applied = "yes" /\ fills'[i].posts = 1
    <3>1. CASE fills' = fills
      BY <2>3, <3>1
    <3>2. ASSUME NEW i \in DOMAIN fills, OneMoves(i)
          PROVE  \A j \in DOMAIN fills' : fills'[j].applied = "yes" /\ fills'[j].posts = 1
      <4>1. /\ DOMAIN fills' = DOMAIN fills /\ Moves(fills[i], fills'[i])
            /\ \A j \in DOMAIN fills : j # i => fills'[j] = fills[j]
        BY <3>2, Moved
      <4>2. fills[i].stage # "handed" /\ fills[i].applied = "yes" /\ fills[i].posts = 1
        BY <2>3 DEF PieceOk
      <4>3. fills'[i].applied = "yes" /\ fills'[i].posts = 1
        BY <4>1, <4>2 DEF Moves
      <4> QED BY <2>3, <4>1, <4>3
    <3> QED BY <2>5, <3>1, <3>2
  <2> QED BY <2>1, <2>2, <2>4, <2>5, <2>6 DEF Clean
<1> QED BY <1>1, <1>2, <1>3

-----------------------------------------------------------------------------
(* The inductive invariant *)

IHInv ==
    /\ Inv /\ OneRun
    /\ Watched /\ LookingOk /\ Called
    /\ fills \in Seq(Fill) /\ Placed /\ DrainOk
    /\ Pieces /\ LedgerMatches /\ \A k \in Keys : Shares(k)
    /\ Clean /\ SyncOk

\* The bot after connect().
LEMMA HandoffStarts == HandoffInit => IHInv
<1> SUFFICES ASSUME HandoffInit PROVE IHInv
  OBVIOUS
<1>0. Bot \in Procs /\ Nobody \notin Procs \cup Keys \cup {"close", "fill"} /\ Bot # Nobody
  BY ProcsAssumption
<1>1. /\ Len(sessions) = 1 /\ DOMAIN sessions = {1} /\ sessions \in Seq(Session)
      /\ ~sessions[1].clean /\ sessions[1].priorUnclean = FALSE /\ ~sessions[1].acknowledged
  BY DEF HandoffInit, Session
<1>2. /\ orders \in [Keys -> Order]
      /\ \A k \in Keys : orders[k] = Absent
      /\ own \in [Procs -> 0..1] /\ own[Bot] = 1 /\ fault \in [Procs -> BOOLEAN] /\ ~fault[Bot]
      /\ \A p \in Procs \ {Bot} : own[p] = 0 /\ ~fault[p]
  BY <1>0, AbsentOk DEF HandoffInit, NoOrders
<1>3. Inv
  <2>1. TypeOK
    <3>1. MaxSessions \in Nat /\ 1 <= MaxSessions
      BY FactsAssumption, RunAssumption
    <3> QED BY <1>1, <1>2, <3>1 DEF TypeOK
  <2>2. SessionsOk
    <3>1. Absent.session = 0
      BY DEF Absent
    <3>2. \A k \in Keys : orders[k].session <= Len(sessions)
      BY <1>1, <1>2, <3>1
    <3>3. ~sessions[Len(sessions)].acknowledged
      BY <1>1
    <3>4. \A k \in Keys : Cleared(orders[k]) /\ ~Unresolved(orders[k])
      BY <1>2, AbsentOk DEF Cleared
    <3>5. \A i \in 1..(Len(sessions) - 1) : FALSE
      BY <1>1
    <3>6. CleanMeansSettled
      BY <3>4 DEF CleanMeansSettled
    <3> QED BY <3>2, <3>3, <3>4, <3>5, <3>6 DEF SessionsOk
  <2>3. Consistent
    BY <1>2, <2>1, <2>2, AbsentOk DEF Consistent
  <2>4. HistTypeOK
    BY <1>0, <1>2 DEF HandoffInit, HistTypeOK, Unopened, NoOrders
  <2>5. Locked /\ Latest /\ AtRest
    BY <1>0, <1>1, <1>2 DEF HandoffInit, Locked, Latest, AtRest
  <2>6. Behind
    <3>1. snap.prior = FALSE /\ \A k \in Keys : snap.orders[k] = Absent
      BY DEF HandoffInit, Unopened, NoOrders
    <3> QED BY <1>1, <1>2, <3>1 DEF Behind
  <2> QED BY <1>0, <1>2, <2>3, <2>4, <2>5, <2>6 DEF HandoffInit, Inv
<1>4. OneRun
  BY <1>1, <1>2 DEF HandoffInit, OneRun
<1> DEFINE b0 == [place |-> "none", filled |-> 0, watched |-> FALSE,
                  canceled |-> FALSE, terminal |-> NotTerminal, acked |-> 0]
           x0 == [cum |-> 0, live |-> FALSE]
<1>5. /\ b0 \in Watch /\ x0 \in Market /\ ~Tracked(b0)
      /\ b0.filled = 0 /\ b0.acked = 0 /\ x0.cum = 0 /\ ~x0.live
      /\ \A q \in Nat : WatchOk(b0, x0, x0, q)
      /\ CallsOk({}, b0, x0, Absent, 0) /\ LedgerOk(Absent, b0, x0)
  BY DEF Watch, Market, Tracked, WatchOk, CallsOk, LedgerOk, Absent, Present, NotTerminal
<1>6. /\ \A k \in Keys : broker[k] = b0 /\ exch[k] = x0 /\ rows[k] = x0 /\ held[k] = 0
      /\ broker = [k \in Keys |-> b0] /\ exch = [k \in Keys |-> x0] /\ rows = [k \in Keys |-> x0]
      /\ held = [k \in Keys |-> 0]
  BY DEF HandoffInit
<1> HIDE DEF b0, x0
<1>7. /\ calls = {} /\ fills = <<>> /\ at = "rest" /\ now = 1 /\ row = Nobody /\ todo = {}
      /\ handing = FALSE /\ sync = NoSync /\ writing = Nobody
  BY DEF HandoffInit
<1>8. Watched
  BY <1>5, <1>6, FactsAssumption DEF Watched
<1>9. LookingOk
  BY <1>0, <1>7 DEF LookingOk
<1>10. Called
  <2>1. \A k \in Keys : Stages(k) = {}
    BY <1>7 DEF Stages
  <2>2. \A k \in Keys : writing # k
    BY <1>0, <1>7
  <2> QED BY <1>2, <1>5, <1>6, <1>7, <2>1, <2>2 DEF Called, CallOk
<1>11. fills \in Seq(Fill) /\ DOMAIN fills = {} /\ Len(fills) = 0
  BY <1>7
<1>12. Placed
  <2>1. sync \in SyncState
    BY <1>7 DEF SyncState, NoSync
  <2>2. held \in [Keys -> Nat] /\ now \in 1..(Len(fills) + 1)
    BY <1>6, <1>7, <1>11
  <2> QED BY <1>7, <2>1, <2>2 DEF Placed, Places
<1>13. DrainOk
  BY <1>7 DEF DrainOk
<1>14. Pieces
  BY <1>5, <1>6, <1>11 DEF Pieces, NoShareLost
<1>15. LedgerMatches
  <2>1. \A k \in Keys : Matched(k)
    BY <1>0, <1>2, <1>5, <1>6, <1>7 DEF Matched, Absent
  <2>2. ReturnedIsDone
    BY <1>2 DEF ReturnedIsDone, Absent
  <2> QED BY <1>11, <2>1, <2>2 DEF LedgerMatches
<1>16. ASSUME NEW k \in Keys PROVE Shares(k)
  <2>1. ASSUME NEW w PROVE SumIs(w, 0, 0)
    <3> DEFINE g == [i \in 0..0 |-> 0]
    <3>1. g \in [0..0 -> Nat] /\ g[0] = 0 /\ \A i \in 0..0 : g[i] = 0
      OBVIOUS
    <3> HIDE DEF g
    <3> QED BY <3>1 DEF SumIs
  <2>2. SumIs(Undone(k), 0, 0)
    BY <2>1
  <2> QED BY <1>5, <1>6, <1>11, <2>2 DEF Shares
<1>17. Clean
  BY <1>1 DEF Clean
<1>18. SyncOk
  BY <1>5, <1>6, <1>7 DEF SyncOk, NoSync
<1> QED BY <1>3, <1>4, <1>8, <1>9, <1>10, <1>11, <1>12, <1>13, <1>14, <1>15, <1>16, <1>17, <1>18 DEF IHInv

\* What the lemmas about the fill check ask for.
LEMMA HandoffChecks ==
  ASSUME IHInv
  PROVE  CheckTyped /\ HandOk /\ HeldAtMostExecuted
<1>1. \A i \in DOMAIN fills : Size(fills[i]) \in Nat
  <2>1. \A k \in Keys : \A i \in 1..Len(fills) : Size(fills[i]) \in Nat
    BY Weights DEF IHInv
  <2>2. DOMAIN fills = 1..Len(fills) /\ \A i \in DOMAIN fills : fills[i].key \in Keys
    BY FillsAreTracked DEF IHInv
  <2> QED BY <2>1, <2>2
<1>2. CheckTyped
  BY <1>1 DEF IHInv, CheckTyped, Placed
<1>3. HandOk
  BY DEF IHInv, HandOk, NowOk, DrainOk
<1>4. HeldAtMostExecuted
  BY SharesBound DEF IHInv, Placed
<1> QED BY <1>2, <1>3, <1>4

\* Every step of every actor keeps it.
LEMMA HandoffKeeps ==
  ASSUME IHInv, [HandoffNext]_everything
  PROVE  IHInv'
<1>1. CheckTyped /\ HandOk /\ HeldAtMostExecuted
  BY HandoffChecks
<1>2. HistoryStep
  BY <1>1, HandoffHistory DEF IHInv
<1>3. OneRun' /\ Inv' /\ (histFault => histFault')
  BY <1>2, OneRunKept DEF IHInv
<1>4. Watched' /\ LookingOk' /\ Called'
  BY <1>1, CalledKept DEF IHInv
<1>5. FillsStep
  BY <1>1, FillsMove DEF IHInv
<1>6. fills' \in Seq(Fill) /\ Pieces'
  BY <1>3, <1>5, PiecesKept DEF IHInv
<1>7. Placed' /\ DrainOk'
  BY <1>1, <1>5, PlacedKept, DrainKept DEF IHInv
<1>8. LedgerMatches'
  BY <1>1, <1>3, <1>5, LedgerMatchesKept DEF IHInv
<1>9. \A k \in Keys : Shares(k)'
  BY <1>1, <1>6, SharesKept DEF IHInv
<1>10. Clean'
  BY <1>1, <1>2, <1>5, CleanKept DEF IHInv
<1>11. SyncOk'
  BY <1>1, SyncKept DEF IHInv
<1> QED BY <1>3, <1>4, <1>6, <1>7, <1>8, <1>9, <1>10, <1>11 DEF IHInv

\* The invariant holds in every state of the handoff.
THEOREM HandoffInvariance == HandoffSpec => []IHInv
<1>1. IHInv /\ [HandoffNext]_everything => IHInv'
  BY HandoffKeeps
<1> QED BY <1>1, HandoffStarts, PTL DEF HandoffSpec

\* What a step does to the history is a step of the ledger.
LEMMA HandoffIsLedger ==
  ASSUME HistoryStep
  PROVE  [Next]_ledgerVars
<1>1. CASE Faults
  BY <1>1, Names DEF Faults, Next
<1>2. CASE ~Faults
  <2>1. [HistNext]_vars
    BY <1>2 DEF HistoryStep, HistNext
  <2> QED BY <2>1, HistoryIsLedger
<1> QED BY <1>1, <1>2

\* So is each step of the handoff.
LEMMA HandoffLedgerStep ==
  ASSUME IHInv, [HandoffNext]_everything
  PROVE  HistoryStep /\ [Next]_ledgerVars
  BY HandoffChecks, HandoffHistory, HandoffIsLedger DEF IHInv

\* No order has more shares observed than were ordered.
LEMMA HandoffWithin == HandoffSpec => []Within
<1>1. HandoffInit => Within
  <2> SUFFICES ASSUME HandoffInit, NEW k \in Keys PROVE orders[k].observed <= Quantity[k]
    BY DEF Within
  <2>1. orders[k] = Absent /\ Quantity[k] \in Nat
    BY FactsAssumption DEF HandoffInit, NoOrders
  <2> QED BY <2>1 DEF Absent
<1>2. IHInv /\ Within /\ [HandoffNext]_everything => Within'
  BY HandoffLedgerStep, StepWithin DEF IHInv, Inv
<1> QED BY <1>1, <1>2, HandoffInvariance, PTL DEF HandoffSpec

\* The handoff uses the file by the operations of its history alone, or latches
\* its fault.
THEOREM HandoffUsesHistory == HandoffSpec => [][HistoryStep]_vars
<1>1. IHInv /\ [HandoffNext]_everything => [HistoryStep]_vars
  BY HandoffLedgerStep
<1> QED BY <1>1, HandoffInvariance, PTL DEF HandoffSpec

\* From the exchange's answers to the last receipt, with journal, engine,
\* retries and cancelled awaits, the whole handoff implements ShareDelivery: each
\* share is seen, applied and returned once, in that order.
THEOREM HandoffDelivers == HandoffSpec => ImplementsShareDelivery
<1>1. HandoffInit => Delivery!Init
  BY AbsentIsUnseen DEF HandoffInit, NoOrders
<1>2. IHInv /\ Within /\ [HandoffNext]_everything => [Delivery!Next]_(Delivery!vars)
  BY HandoffLedgerStep, StepDelivers DEF IHInv, Inv
<1> QED BY <1>1, <1>2, HandoffWithin, HandoffInvariance, PTL
        DEF HandoffSpec, ImplementsShareDelivery, Delivery!Spec

\* No step of the handoff takes a reported share, a receipt, a final quantity or
\* an order number back.
THEOREM HandoffOnlyGrows == HandoffSpec => HistoryOnlyGrows
<1>1. IHInv /\ [HandoffNext]_everything =>
        [\A k \in Keys :
            LET r == orders[k]
                n == orders'[k]
            IN  /\ r.observed <= n.observed
                /\ r.terminal # NotTerminal => n.terminal = r.terminal
                /\ r.odno # NoOdno => n.odno = r.odno
                /\ r.acknowledged => n.acknowledged
                /\ \A e \in r.executions : \E f \in n.executions :
                      /\ f.from = e.from /\ f.to = e.to
                      /\ e.applied => f.applied
                      /\ e.returned => f.returned]_ledgerVars
  BY HandoffLedgerStep, OrdersGrow DEF IHInv, Inv, Grows
<1> QED BY <1>1, HandoffInvariance, PTL DEF HandoffSpec, HistoryOnlyGrows

\* Only a buy that is sent leaves its first place, and only past the check of
\* the cancelled orders.
LEMMA SentPastCheck ==
  ASSUME IHInv, [HandoffNext]_everything, NEW k \in Keys,
         broker[k].place = "none", broker'[k].place = "off"
  PROVE  ~UnresolvedCancel
<1>1. broker \in [Keys -> Watch]
  BY DEF IHInv, Watched
<1>2. broker' # broker
  OBVIOUS
<1>3. ASSUME NEW i \in Keys, OrderCall(i) PROVE ~UnresolvedCancel
  <2>1. CASE Post(i)
    BY <1>2, <2>1 DEF Post
  <2>2. ~PostAnswered(i)
    <3>1. SUFFICES ASSUME PostAnswered(i) PROVE FALSE
      OBVIOUS
    <3>2. broker' = [broker EXCEPT ![i].place = "pending", ![i].watched = TRUE]
      BY <1>2, <3>1 DEF PostAnswered
    <3> QED BY <1>1, <3>2 DEF Watch
  <2>3. ~CancelAnswered(i)
    <3>1. SUFFICES ASSUME CancelAnswered(i) PROVE FALSE
      OBVIOUS
    <3>2. /\ broker' = [broker EXCEPT ![i].canceled = Listed(i), ![i].place = "off"]
          /\ <<i, "cancelled">> \in calls
      BY <1>2, <3>1 DEF CancelAnswered, Turn
    <3>3. i = k
      BY <1>1, <3>2
    <3>4. "cancelled" \in Stages(k)
      BY <3>2, <3>3 DEF Stages, Calls
    <3>5. Tracked(broker[k])
      BY <3>4 DEF IHInv, Called, CallOk, CallsOk, CancelStages
    <3> QED BY <3>5 DEF IHInv, Watched, WatchOk
  <2> QED BY <1>2, <1>3, <2>1, <2>2, <2>3 DEF OrderCall, Submit, Cancel, CancelReached, RecordCall
<1>4. ~FillCheck
  <2>1. CheckTyped /\ NowOk
    BY HandoffChecks DEF HandOk
  <2>2. FillCheck => Steady(k)
    BY <2>1, FillCheckWatches DEF IHInv, CheckTyped
  <2> QED BY <2>2 DEF Steady
<1>5. ~(\/ CallSaved \/ EngineStep \/ (\E i \in DOMAIN fills : JournalEnds(i)) \/ Ending \/ Syncing
        \/ UNCHANGED everything \/ \E i \in Keys : Execute(i))
  BY <1>2, EndingFrame, SyncingFrame DEF CallSaved, EngineStep, Apply, ConfirmApplied, JournalEnds, Execute,
     everything, handoffVars, brokerVars
<1> QED BY <1>3, <1>4, <1>5, Steps

\* A cancelled order that is no longer watched is final, and all its shares are held.
LEMMA RetiredIsSettled ==
  ASSUME IHInv, NEW k \in Keys, broker[k].canceled, ~broker[k].watched
  PROVE  ~exch[k].live /\ held[k] = exch[k].cum
<1>1. /\ broker[k] \in Watch /\ WatchOk(broker[k], exch[k], rows[k], Quantity[k]) /\ Tracked(broker[k])
  BY DEF IHInv, Watched, Tracked
<1>2. /\ ~exch[k].live /\ exch[k].cum = broker[k].filled /\ broker[k].acked = broker[k].filled
      /\ broker[k].filled \in Nat
  BY <1>1 DEF WatchOk, Watch
<1>3. ASSUME NEW i \in DOMAIN fills, fills[i].key = k PROVE fills[i].applied = "yes"
  <2>1. /\ Len(fills) \in Nat /\ i \in 1..Len(fills)
        /\ fills[i] \in Fill /\ Size(fills[i]) \in Nat /\ Size(fills[i]) > 0 /\ Undone(k)[i] \in Nat
        /\ Undone(k)[i] = IF fills[i].key = k /\ fills[i].stage # "done" THEN Size(fills[i]) ELSE 0
    BY Weights DEF IHInv
  <2> DEFINE w == Undone(k)
  <2>2. SumIs(w, Len(fills), 0)
    BY <1>2 DEF IHInv, Shares
  <2>3. w[i] \in Nat
    BY <2>1
  <2> HIDE DEF w
  <2>4. w[i] <= 0
    BY <2>1, <2>2, <2>3, SumNone
  <2>5. fills[i].stage = "done"
    BY <1>3, <2>1, <2>4 DEF w
  <2> QED BY <2>5 DEF IHInv, Pieces, PieceOk
<1>4. held[k] = broker[k].filled
  BY <1>1, <1>3, NothingOwed DEF IHInv, Placed
<1> QED BY <1>2, <1>4

-----------------------------------------------------------------------------
(* What holds of every run *)

\* The portfolio never holds more of an order than the exchange executed,
\* whatever is cancelled, synchronised or reported late.
THEOREM SharesCountedOnce == HandoffSpec => []HeldAtMostExecuted
<1>1. IHInv => HeldAtMostExecuted
  BY HandoffChecks
<1> QED BY <1>1, HandoffInvariance, PTL

\* The variables of the handoff have their types.
THEOREM HandoffTyped == HandoffSpec => []HandoffTypeOK
<1>1. IHInv => HandoffTypeOK
  BY DEF IHInv, HandoffTypeOK, Watched, Market, Called, Placed, SyncState
<1> QED BY <1>1, HandoffInvariance, PTL

\* When the token lets the balances be taken over, the orders that the bot
\* knows of are settled: the gates of _reconciliation_token suffice.
THEOREM TokenMeansSettled == HandoffSpec => []IdleMeansSettled
<1>1. ASSUME IHInv PROVE IdleMeansSettled
  <2> SUFFICES ASSUME Idle, NEW k \in Keys,
                      broker[k].watched \/ broker[k].filled > 0 \/ broker[k].canceled
               PROVE  held[k] = exch[k].cum
    BY DEF IdleMeansSettled
  <2>1. Tracked(broker[k])
    BY DEF Tracked
  <2> QED BY <1>1, <2>1, IdleSettles DEF IHInv, Placed
<1> QED BY <1>1, HandoffInvariance, PTL

\* A fill is post-processed once, after it was applied, and before its receipt
\* says so, across the retries of a slow journal and the failures of the ledger.
THEOREM PostProcessedOnce == HandoffSpec => []ProcessedOnce
<1>1. ASSUME IHInv PROVE ProcessedOnce
  BY <1>1 DEF IHInv, Pieces, PieceOk, LedgerMatches, ReturnedIsDone, Certain, ProcessedOnce
<1> QED BY <1>1, HandoffInvariance, PTL

\* The increments of an order's fills leave no share of its quantity out.
THEOREM IncrementsLoseNothing == HandoffSpec => []NoShareLost
<1>1. IHInv => NoShareLost
  BY DEF IHInv, Pieces
<1> QED BY <1>1, HandoffInvariance, PTL

\* A session that ended clean ended over a settled portfolio, although the
\* ledger that closes it knows neither portfolio nor exchange.
THEOREM CleanEndIsSettled == HandoffSpec => []CleanEndMeansDelivered
<1>1. ASSUME IHInv PROVE CleanEndMeansDelivered
  <2> SUFFICES ASSUME sessions[1].clean
               PROVE  /\ \A i \in DOMAIN fills : fills[i].applied = "yes" /\ fills[i].posts = 1
                      /\ \A k \in Keys : ~exch[k].live /\ held[k] = exch[k].cum
    BY DEF CleanEndMeansDelivered
  <2>1. /\ \A i \in DOMAIN fills : fills[i].applied = "yes" /\ fills[i].posts = 1
        /\ \A k \in Keys : ~exch[k].live /\ broker[k].filled = exch[k].cum
    BY <1>1 DEF IHInv, Clean
  <2>2. ASSUME NEW k \in Keys PROVE held[k] = exch[k].cum
    <3>1. CASE Tracked(broker[k])
      <4>1. held[k] = broker[k].filled
        BY <1>1, <2>1, <3>1, NothingOwed DEF IHInv, Placed
      <4> QED BY <2>1, <4>1
    <3>2. CASE ~Tracked(broker[k])
      <4>1. broker[k].filled \in Nat /\ held[k] \in Nat
        BY <1>1 DEF IHInv, Watched, Watch, Placed
      <4>2. broker[k].filled = 0
        BY <3>2, <4>1 DEF Tracked
      <4>3. held[k] <= exch[k].cum
        BY <1>1, HandoffChecks DEF HeldAtMostExecuted
      <4> QED BY <2>1, <4>1, <4>2, <4>3
    <3> QED BY <3>1, <3>2
  <2> QED BY <2>1, <2>2
<1> QED BY <1>1, HandoffInvariance, PTL

\* A buy leaves only when every cancelled order is final at the exchange and all
\* it executed is in the portfolio: no fill of it is still on its way.
THEOREM NoBuyPastCancel == HandoffSpec => NoBuyOverUnresolvedCancel
<1>1. ASSUME IHInv, [HandoffNext]_everything
      PROVE  [\A k, j \in Keys :
                 /\ broker[k].place = "none" /\ broker'[k].place = "off"
                 /\ broker[j].canceled
                 => ~exch[j].live /\ held[j] = exch[j].cum]_everything
  <2>1. SUFFICES ASSUME NEW k \in Keys, NEW j \in Keys, broker[k].place = "none",
                        broker'[k].place = "off", broker[j].canceled
                 PROVE  ~exch[j].live /\ held[j] = exch[j].cum
    OBVIOUS
  <2>2. ~broker[j].watched
    BY <1>1, <2>1, SentPastCheck DEF UnresolvedCancel
  <2> QED BY <1>1, <2>1, <2>2, RetiredIsSettled
<1> QED BY <1>1, HandoffInvariance, PTL DEF HandoffSpec, NoBuyOverUnresolvedCancel
=============================================================================
