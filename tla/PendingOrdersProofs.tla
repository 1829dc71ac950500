----------------------- MODULE PendingOrdersProofs -----------------------
(***************************************************************************)
(* That a stage is not sold twice, for any numbers of orders, shares and   *)
(* lost answers: NoFallbackOverLive.  The invariant says that the broker's *)
(* table misses no live order but the one whose answer is under way, so    *)
(* that the table and the exchange's own answer are as good for a          *)
(* fallback, and that nothing else is born while it is being sent.         *)
(***************************************************************************)
EXTENDS PendingOrders, TLAPS

Sides == {"none", "buy", "sell"}

Order == [at : {"none", "new", "live", "gone"}, side : Sides, part : BOOLEAN,
          qty : Nat, done : Nat, seen : Nat, applied : Nat, drained : Nat, table : BOOLEAN,
          canceled : BOOLEAN, matched : BOOLEAN, gen : Nat]

Entry == [on : {"no", "listed", "ghost"}, id : Nat, side : Sides, part : BOOLEAN,
          intent : BOOLEAN, qty : Nat, count : Nat, kept : Nat]

Exit == [gen : Nat, mark : Nat, waited : BOOLEAN, unknown : Nat]

Places == {"idle", "order", "sent", "posted", "cancel", "inquire", "exemptCancel",
           "buyCancel", "buyInquire"}

Engine == [at : Places, id : Nat, fallback : BOOLEAN, intent : BOOLEAN, count : Nat]

Types ==
    /\ orders \in [Orders -> Order] /\ entry \in Entry /\ engine \in Engine
    /\ exit \in Exit /\ held \in Nat

\* What the table knows of the exchange.
Known ==
    \A i \in Orders : Live(i) =>
        /\ orders[i].done < orders[i].qty
        /\ orders[i].table \/ (engine.at = "posted" /\ engine.id = i)

\* A listed pending is for some shares.
Listed == entry.on = "listed" => entry.qty > 0

\* The order that the engine is about to send; of a partial sell that it sends
\* again no other sell is left.
Alone ==
    /\ engine.at = "order" => ~engine.intent
    /\ engine.at \in {"order", "sent", "posted"} => engine.id \in Orders
    /\ engine.at \in {"order", "sent"} =>
          /\ orders[engine.id].at = "new"
          /\ orders[engine.id].done = 0 /\ orders[engine.id].qty > 0
    /\ engine.at = "sent" /\ engine.intent => \A j \in Orders : Live(j) => ~IsSell(j)
    /\ engine.at = "inquire" => held > 0

PInv == Types /\ Known /\ Listed /\ Alone

\* The records of Init and of the ends.
LEMMA Blanks ==
  /\ Blank \in Order /\ Blank.at = "none" /\ NoEntry \in Entry /\ NoEntry.on = "no"
  /\ NoExit \in Exit /\ Idle \in Engine /\ Idle.at = "idle" /\ ~Idle.intent
  BY DEF Blank, Order, NoEntry, Entry, NoExit, Exit, Idle, Engine, Places, Sides

\* Of the orders os none is newly live, ...
NoneBorn(os) ==
    \A i \in Orders :
        os[i].at = "live" => /\ Live(i) /\ os[i].side = orders[i].side
                             /\ os[i].done < os[i].qty
                             /\ orders[i].table => os[i].table

\* ... and none that waits is touched.
Waiting(os) ==
    \A i \in Orders :
        orders[i].at = "new" => /\ os[i].at = "new" /\ os[i].done = orders[i].done
                                /\ os[i].qty = orders[i].qty

Calm(os) == NoneBorn(os) /\ Waiting(os)

\* A step that leaves the engine where it is, and gives birth to no order.
LEMMA EngineStays ==
  ASSUME PInv, engine' = engine, Types', Listed', Calm(orders'),
         engine.at = "inquire" => held' = held
  PROVE  PInv'
<1>1. Known'
  BY DEF PInv, Known, Calm, NoneBorn, Live
<1>2. Alone'
  <2>1. /\ engine.at = "order" => ~engine.intent
        /\ engine.at \in {"order", "sent", "posted"} => engine.id \in Orders
        /\ engine.at = "inquire" => held' > 0
    BY DEF PInv, Alone
  <2>2. engine.at \in {"order", "sent"} =>
          /\ orders'[engine.id].at = "new"
          /\ orders'[engine.id].done = 0 /\ orders'[engine.id].qty > 0
    BY DEF PInv, Alone, Calm, Waiting
  <2>3. engine.at = "sent" /\ engine.intent => \A j \in Orders : Live(j)' => ~IsSell(j)'
    BY DEF PInv, Alone, Calm, NoneBorn, Live, IsSell
  <2> QED BY <2>1, <2>2, <2>3 DEF Alone
<1> QED BY <1>1, <1>2 DEF PInv

\* A step that ends what the engine does to an order, or begins it.
LEMMA EngineRests ==
  ASSUME PInv, engine.at # "posted", engine'.at \notin {"order", "sent", "posted", "inquire"},
         Types', Listed', NoneBorn(orders')
  PROVE  PInv'
<1>1. Known'
  BY DEF PInv, Known, NoneBorn, Live
<1> QED BY <1>1 DEF PInv, Alone

\* The same for one order, put in the place of an order.
LEMMA OneOrder ==
  ASSUME PInv, NEW i \in Orders, NEW o \in Order, orders' = [orders EXCEPT ![i] = o],
         o.at = "live" => /\ Live(i) /\ o.side = orders[i].side /\ o.done < o.qty
                          /\ orders[i].table => o.table,
         orders[i].at = "new" => o.at = "new" /\ o.done = orders[i].done /\ o.qty = orders[i].qty
  PROVE  orders' \in [Orders -> Order] /\ Calm(orders')
<1>1. orders \in [Orders -> Order]
  BY DEF PInv, Types
<1>2. orders' \in [Orders -> Order] /\ orders'[i] = o /\ \A j \in Orders \ {i} : orders'[j] = orders[j]
  BY <1>1
<1>3. ASSUME NEW j \in Orders \ {i}
      PROVE  orders[j].at = "live" => orders[j].done < orders[j].qty
  BY DEF PInv, Known, Live
<1>4. ASSUME NEW j \in Orders
      PROVE  /\ orders'[j].at = "live" => /\ Live(j) /\ orders'[j].side = orders[j].side
                                          /\ orders'[j].done < orders'[j].qty
                                          /\ orders[j].table => orders'[j].table
             /\ orders[j].at = "new" => /\ orders'[j].at = "new" /\ orders'[j].done = orders[j].done
                                        /\ orders'[j].qty = orders[j].qty
  <2>1. CASE j = i
    BY <1>2, <2>1
  <2>2. CASE j # i
    <3>1. orders'[j] = orders[j]
      BY <1>2, <2>2
    <3> QED BY <1>3, <2>2, <3>1 DEF Live
  <2> QED BY <2>1, <2>2
<1> QED BY <1>2, <1>4 DEF Calm, NoneBorn, Waiting

-----------------------------------------------------------------------------
(* The exchange and the fill check *)

\* A share that the exchange executes leaves its order in the table it was in.
LEMMA ExecuteKeeps ==
  ASSUME PInv, NEW i \in Orders, Execute(i)
  PROVE  PInv'
<1> DEFINE d == orders[i].done + 1
           at == IF d = orders[i].qty THEN "gone" ELSE "live"
           o == [orders[i] EXCEPT !.done = d, !.at = at]
<1>1. orders[i] \in Order /\ orders[i].done < orders[i].qty
  BY DEF PInv, Types, Known, Execute
<1>2. /\ o \in Order /\ o.done = d /\ o.at = at /\ o.side = orders[i].side
      /\ o.qty = orders[i].qty /\ o.table = orders[i].table
  <2>1. d \in Nat /\ at \in {"gone", "live"}
    BY <1>1 DEF Order
  <2> HIDE DEF d, at
  <2> QED BY <1>1, <2>1 DEF Order
<1>3. orders' = [orders EXCEPT ![i] = o]
  BY DEF Execute
<1>4. orders[i].at = "live"
  BY DEF Execute, Live
<1>5. o.at = "live" => o.done < o.qty
  BY <1>1, <1>2 DEF Order
<1> HIDE DEF o
<1>6. orders' \in [Orders -> Order] /\ Calm(orders')
  BY <1>2, <1>3, <1>4, <1>5, OneOrder DEF Live
<1> QED BY <1>6, EngineStays DEF Execute, PInv, Types, Listed

\* An order that the exchange ends is live no more.
LEMMA EndsThereKeeps ==
  ASSUME PInv, NEW i \in Orders, EndsThere(i)
  PROVE  PInv'
<1> DEFINE o == [orders[i] EXCEPT !.at = "gone"]
<1>1. o \in Order /\ o.at = "gone"
  BY DEF PInv, Types, Order
<1>2. orders' = [orders EXCEPT ![i] = o] /\ orders[i].at = "live"
  BY DEF EndsThere, Live
<1> HIDE DEF o
<1>3. orders' \in [Orders -> Order] /\ Calm(orders')
  BY <1>1, <1>2, OneOrder
<1> QED BY <1>3, EngineStays DEF EndsThere, PInv, Types, Listed

\* A poll only marks shares as seen.
LEMMA PollKeeps ==
  ASSUME PInv, NEW i \in Orders, Poll(i)
  PROVE  PInv'
<1> DEFINE o == [orders[i] EXCEPT !.seen = orders[i].done, !.gen = exit.gen,
                                  !.table = @ /\ orders[i].done < orders[i].qty]
<1>1. orders[i] \in Order /\ exit.gen \in Nat
  BY DEF PInv, Types, Exit
<1>2. /\ o \in Order /\ o.at = orders[i].at /\ o.done = orders[i].done /\ o.qty = orders[i].qty
      /\ o.side = orders[i].side
      /\ o.table = (orders[i].table /\ orders[i].done < orders[i].qty)
  BY <1>1 DEF Order
<1>3. orders' = [orders EXCEPT ![i] = o]
  BY DEF Poll
<1>4. orders[i].at = "live" => orders[i].done < orders[i].qty
  BY DEF PInv, Known, Live
<1> HIDE DEF o
<1>5. orders' \in [Orders -> Order] /\ Calm(orders')
  BY <1>2, <1>3, <1>4, OneOrder DEF Live
<1> QED BY <1>5, EngineStays DEF Poll, PInv, Types, Listed

\* An order that may be swept keeps its place at the exchange, or is gone.
LEMMA SweptOk ==
  ASSUME NEW o \in Order
  PROVE  Swept(o) \in Order /\ (Swept(o) = o \/ (o.at = "gone" /\ Swept(o) = Blank))
  BY Blanks DEF Swept

\* The poll retires only an order that is not live.
LEMMA RetireKeeps ==
  ASSUME PInv, NEW i \in Orders, Retire(i)
  PROVE  PInv'
<1> DEFINE q == [orders[i] EXCEPT !.canceled = FALSE]
           o == Swept(q)
<1>1. orders[i] \in Order
  BY DEF PInv, Types
<1>2. /\ q \in Order /\ q.at = orders[i].at /\ q.done = orders[i].done /\ q.qty = orders[i].qty
      /\ q.side = orders[i].side /\ q.table = orders[i].table
  BY <1>1 DEF Order
<1>3. orders' = [orders EXCEPT ![i] = o]
  BY DEF Retire
<1>4. orders[i].at = "live" => orders[i].done < orders[i].qty
  BY DEF PInv, Known, Live
<1> HIDE DEF q
<1>5. o \in Order /\ (o = q \/ (q.at = "gone" /\ o = Blank))
  BY <1>2, SweptOk
<1> HIDE DEF o
<1>6. orders' \in [Orders -> Order] /\ Calm(orders')
  BY <1>2, <1>3, <1>4, <1>5, Blanks, OneOrder DEF Live
<1> QED BY <1>6, EngineStays DEF Retire, PInv, Types, Listed

\* What the drain counts is counted in the order's own record.
LEMMA DrainKeeps ==
  ASSUME PInv, NEW i \in Orders, Drain(i)
  PROVE  PInv'
<1> DEFINE q == [orders[i] EXCEPT !.drained = orders[i].applied, !.gen = 0, !.matched = FALSE]
           o == Swept(q)
<1>1. orders[i] \in Order
  BY DEF PInv, Types
<1>2. /\ q \in Order /\ q.at = orders[i].at /\ q.done = orders[i].done /\ q.qty = orders[i].qty
      /\ q.side = orders[i].side /\ q.table = orders[i].table
  BY <1>1 DEF Order
<1>3. orders' = [orders EXCEPT ![i] = o]
  BY DEF Drain
<1>4. orders[i].at = "live" => orders[i].done < orders[i].qty
  BY DEF PInv, Known, Live
<1> HIDE DEF q
<1>5. o \in Order /\ (o = q \/ (q.at = "gone" /\ o = Blank))
  BY <1>2, SweptOk
<1> HIDE DEF o
<1>6. orders' \in [Orders -> Order] /\ Calm(orders')
  BY <1>2, <1>3, <1>4, <1>5, Blanks, OneOrder DEF Live
<1>7. exit' \in Exit
  <2>1. exit \in Exit /\ exit.mark \in Nat
    BY DEF PInv, Types, Exit
  <2>2. [NoExit EXCEPT !.mark = exit.mark] \in Exit
    BY <2>1, Blanks DEF Exit
  <2> QED BY <2>1, <2>2 DEF Drain
<1> QED BY <1>6, <1>7, EngineStays DEF Drain, PInv, Types, Listed

-----------------------------------------------------------------------------
(* Signals, orders and fills *)

\* A fill that is applied may end the pending order, and leaves the table alone.
LEMMA OnFillKeeps ==
  ASSUME PInv, NEW i \in Orders, OnFill(i)
  PROVE  PInv'
<1> DEFINE n == orders[i].seen - orders[i].applied
           matched == entry.id = i /\ entry.side = orders[i].side
           o == [orders[i] EXCEPT !.applied = orders[i].seen, !.matched = matched]
<1>1. /\ orders[i] \in Order /\ n \in Nat /\ n > 0 /\ matched \in BOOLEAN
      /\ entry \in Entry /\ entry.qty \in Nat /\ held \in Nat
  BY DEF OnFill, PInv, Types, Order, Entry
<1>2. /\ o \in Order /\ o.at = orders[i].at /\ o.done = orders[i].done /\ o.qty = orders[i].qty
      /\ o.side = orders[i].side /\ o.table = orders[i].table
  <2> HIDE DEF matched
  <2> QED BY <1>1 DEF Order
<1>3. orders' = [orders EXCEPT ![i] = o]
  BY DEF OnFill
<1>4. orders[i].at = "live" => orders[i].done < orders[i].qty
  BY DEF PInv, Known, Live
<1> HIDE DEF o
<1>5. orders' \in [Orders -> Order] /\ Calm(orders')
  BY <1>2, <1>3, <1>4, OneOrder DEF Live
<1>6. held' \in Nat /\ engine' = engine /\ exit' = exit /\ engine.at # "inquire"
  <2>1. held' = IF orders[i].side = "buy" THEN held + n ELSE IF held > n THEN held - n ELSE 0
    BY DEF OnFill
  <2> HIDE DEF n
  <2> QED BY <1>1, <2>1 DEF OnFill
<1>7. entry' \in Entry /\ Listed'
  <2>1. \/ entry' = entry \/ entry' = NoEntry
        \/ ~(entry.qty <= n) /\ entry' = [entry EXCEPT !.qty = @ - n]
    BY DEF OnFill
  <2> HIDE DEF n
  <2>2. CASE entry' = entry
    BY <1>1, <2>2 DEF PInv, Listed
  <2>3. CASE entry' = NoEntry
    BY <2>3, Blanks DEF Listed
  <2>4. CASE ~(entry.qty <= n) /\ entry' = [entry EXCEPT !.qty = @ - n]
    <3>1. entry.qty - n \in Nat /\ entry.qty - n > 0
      BY <1>1, <2>4
    <3> QED BY <1>1, <2>4, <3>1 DEF Entry, Listed
  <2> QED BY <2>1, <2>2, <2>3, <2>4
<1> QED BY <1>5, <1>6, <1>7, EngineStays DEF PInv, Types

\* A new order in a free number: nothing else changes, and the new one waits.
LEMMA BornWaits ==
  ASSUME NEW os \in [Orders -> Order], NEW i \in Orders, NEW side \in Sides, NEW part \in BOOLEAN,
         NEW qty \in Nat
  PROVE  /\ [os EXCEPT ![i] = NewOrder(side, part, qty)] \in [Orders -> Order]
         /\ \A j \in Orders \ {i} : [os EXCEPT ![i] = NewOrder(side, part, qty)][j] = os[j]
         /\ LET o == [os EXCEPT ![i] = NewOrder(side, part, qty)][i]
            IN  o.at = "new" /\ o.done = 0 /\ o.qty = qty
<1> DEFINE o == NewOrder(side, part, qty)
<1>1. o \in Order /\ o.at = "new" /\ o.done = 0 /\ o.qty = qty
  BY DEF NewOrder, Blank, Order, Sides
<1> HIDE DEF o
<1>2. /\ [os EXCEPT ![i] = o] \in [Orders -> Order] /\ [os EXCEPT ![i] = o][i] = o
      /\ \A j \in Orders \ {i} : [os EXCEPT ![i] = o][j] = os[j]
  BY <1>1
<1> QED BY <1>1, <1>2 DEF o

\* A signal lists an order that waits, and an intent that is not a fallback's.
LEMMA OnSignalKeeps ==
  ASSUME PInv, NEW kind \in {"buy", "part", "full"}, OnSignal(kind)
  PROVE  PInv'
<1>1. CASE kind \in signals /\ UNCHANGED <<orders, entry, engine>>
  <2>1. UNCHANGED <<orders, entry, engine, exit, held>>
    BY <1>1 DEF OnSignal
  <2> QED BY <2>1 DEF PInv, Types, Known, Listed, Alone, Live, IsSell
<1>2. CASE ~(kind \in signals /\ UNCHANGED <<orders, entry, engine>>)
  <2>1. PICK i \in Orders :
            /\ orders' = [orders EXCEPT ![i] = NewOrder(Side(kind), kind = "part", Quantity(kind))]
            /\ entry' = [on |-> "listed", id |-> i, side |-> Side(kind), part |-> kind = "part",
                         intent |-> kind = "part" /\ Part < held, qty |-> Quantity(kind),
                         count |-> 0, kept |-> 0]
            /\ engine' = [Idle EXCEPT !.at = "order", !.id = i]
            /\ NextFree(i)
    BY <1>2 DEF OnSignal
  <2>2. Admissible(kind) /\ held' = held /\ exit' = exit /\ engine.at = "idle"
    BY <1>2 DEF OnSignal, Ready
  <2>3. /\ Quantity(kind) \in Nat /\ Quantity(kind) > 0 /\ Side(kind) \in Sides
        /\ Orders \subseteq Nat
    <3>1. held \in Nat /\ (kind # "buy" => held > 0)
      BY <2>2 DEF Admissible, PInv, Types
    <3> QED BY <3>1, PendingAssumption DEF Quantity, Side, Sides
  <2>4. orders \in [Orders -> Order]
    BY DEF PInv, Types
  <2>5. /\ orders' \in [Orders -> Order] /\ \A j \in Orders \ {i} : orders'[j] = orders[j]
        /\ orders'[i].at = "new" /\ orders'[i].done = 0 /\ orders'[i].qty > 0
    <3> DEFINE q == Quantity(kind)
               part == kind = "part"
               side == Side(kind)
    <3>1. part \in BOOLEAN /\ q \in Nat /\ q > 0 /\ side \in Sides
      BY <2>3
    <3>2. orders' = [orders EXCEPT ![i] = NewOrder(side, part, q)]
      BY <2>1
    <3> HIDE DEF q, part, side
    <3> QED BY <2>4, <3>1, <3>2, BornWaits
  <2>6. entry' \in Entry /\ Listed'
    BY <2>1, <2>3 DEF Entry, Listed, Sides
  <2>7. engine' \in Engine /\ engine'.at = "order" /\ engine'.id = i /\ ~engine'.intent
    BY <2>1, <2>3 DEF Idle, Engine, Places
  <2>8. Known'
    BY <2>2, <2>5 DEF PInv, Known, Live
  <2>9. Alone'
    BY <2>5, <2>7 DEF Alone
  <2> QED BY <2>2, <2>5, <2>6, <2>7, <2>8, <2>9 DEF PInv, Types
<1> QED BY <1>1, <1>2

\* on_order drops an order, or gives it to the broker.
LEMMA OnOrderKeeps ==
  ASSUME PInv, OnOrder
  PROVE  PInv'
<1>1. /\ engine \in Engine /\ engine.at = "order" /\ engine.id \in Orders /\ ~engine.intent
      /\ orders[engine.id].at = "new" /\ orders[engine.id].done = 0 /\ orders[engine.id].qty > 0
      /\ orders \in [Orders -> Order] /\ held' = held /\ exit' = exit
  BY DEF OnOrder, PInv, Types, Alone
<1>2. CASE engine' = [engine EXCEPT !.at = "sent"] /\ UNCHANGED <<orders, entry>>
  <2>1. engine' \in Engine /\ engine'.at = "sent" /\ engine'.id = engine.id /\ ~engine'.intent
    BY <1>1, <1>2 DEF Engine, Places
  <2>2. Known'
    BY <1>1, <1>2, <2>1 DEF PInv, Known, Live
  <2>3. Alone'
    BY <1>1, <1>2, <2>1 DEF Alone
  <2> QED BY <1>1, <1>2, <2>1, <2>2, <2>3 DEF PInv, Types, Listed
<1>3. CASE /\ entry' \in {entry, NoEntry} /\ engine' = Idle
           /\ orders' = [orders EXCEPT ![engine.id] = Blank]
  <2>1. /\ orders' \in [Orders -> Order] /\ orders'[engine.id] = Blank
        /\ \A j \in Orders \ {engine.id} : orders'[j] = orders[j]
    BY <1>1, <1>3, Blanks
  <2>2. NoneBorn(orders')
    BY <2>1, Blanks DEF NoneBorn, Live, PInv, Known
  <2>3. Types' /\ Listed'
    BY <1>1, <1>3, <2>1, Blanks DEF PInv, Types, Listed
  <2> QED BY <1>1, <1>3, <2>2, <2>3, Blanks, EngineRests
<1> QED BY <1>2, <1>3 DEF OnOrder

\* A pending whose fallback was refused is a pending.
LEMMA RefusedOk ==
  ASSUME PInv, NEW n \in Nat
  PROVE  /\ FallbackRefused(n) \in Entry
         /\ FallbackRefused(n).on = "listed" => FallbackRefused(n).qty > 0
<1>1. entry \in Entry
  BY DEF PInv, Types
<1>2. FallbackRefused(n) = NoEntry \/ FallbackRefused(n) = [entry EXCEPT !.count = n + 1]
  BY DEF FallbackRefused
<1>3. [entry EXCEPT !.count = n + 1] \in Entry
  BY <1>1 DEF Entry
<1>4. [entry EXCEPT !.count = n + 1].on = entry.on /\ [entry EXCEPT !.count = n + 1].qty = entry.qty
  BY <1>1 DEF Entry
<1> QED BY <1>2, <1>3, <1>4, Blanks DEF PInv, Listed

\* Only from "sent" is an order born: its answer is then under way.
LEMMA PostKeeps ==
  ASSUME PInv, Post
  PROVE  PInv'
<1>1. /\ engine \in Engine /\ engine.at = "sent" /\ engine.id \in Orders
      /\ orders[engine.id].at = "new" /\ orders[engine.id].done = 0 /\ orders[engine.id].qty > 0
      /\ orders \in [Orders -> Order] /\ held' = held /\ exit' = exit
  BY DEF Post, PInv, Types, Alone
<1>2. CASE /\ orders' = [orders EXCEPT ![engine.id] = Blank] /\ engine' = Idle
           /\ entry' \in {NoEntry, FallbackRefused(engine.count)}
  <2>1. /\ orders' \in [Orders -> Order] /\ orders'[engine.id] = Blank
        /\ \A j \in Orders \ {engine.id} : orders'[j] = orders[j]
    BY <1>1, <1>2, Blanks
  <2>2. NoneBorn(orders')
    BY <2>1, Blanks DEF NoneBorn, Live, PInv, Known
  <2>3. engine.count \in Nat
    BY <1>1 DEF Engine
  <2>4. entry' \in Entry /\ Listed'
    BY <1>2, <2>3, RefusedOk, Blanks DEF Listed
  <2>5. Types'
    BY <1>1, <1>2, <2>1, <2>4, Blanks DEF PInv, Types
  <2> QED BY <1>1, <1>2, <2>2, <2>4, <2>5, Blanks, EngineRests
<1>3. CASE /\ orders' = [orders EXCEPT ![engine.id].at = "live"] /\ UNCHANGED entry
           /\ engine' = [engine EXCEPT !.at = "posted"]
  <2> DEFINE o == [orders[engine.id] EXCEPT !.at = "live"]
  <2>1. /\ o \in Order /\ o.at = "live" /\ o.done = orders[engine.id].done
        /\ o.qty = orders[engine.id].qty
    BY <1>1 DEF Order
  <2>2. orders' = [orders EXCEPT ![engine.id] = o]
    BY <1>3
  <2> HIDE DEF o
  <2>3. /\ orders' \in [Orders -> Order] /\ orders'[engine.id] = o
        /\ \A j \in Orders \ {engine.id} : orders'[j] = orders[j]
    BY <1>1, <2>1, <2>2
  <2>4. engine' \in Engine /\ engine'.at = "posted" /\ engine'.id = engine.id
    BY <1>1, <1>3 DEF Engine, Places
  <2>5. Known'
    <3>1. ASSUME NEW j \in Orders, Live(j)'
          PROVE  orders'[j].done < orders'[j].qty /\ (orders'[j].table \/ engine'.id = j)
      <4>1. CASE j = engine.id
        BY <1>1, <2>1, <2>3, <2>4, <4>1
      <4>2. CASE j # engine.id
        BY <1>1, <2>3, <3>1, <4>2 DEF PInv, Known, Live
      <4> QED BY <4>1, <4>2
    <3> QED BY <2>4, <3>1 DEF Known
  <2>6. Alone'
    BY <1>1, <2>4 DEF Alone
  <2> QED BY <1>1, <1>3, <2>3, <2>4, <2>5, <2>6 DEF PInv, Types, Listed
<1> QED BY <1>2, <1>3 DEF Post

\* The answer of the order that was posted puts it in the table.
LEMMA AnsweredKeeps ==
  ASSUME PInv, Answered
  PROVE  PInv'
<1>1. /\ engine \in Engine /\ engine.at = "posted" /\ engine.id \in Orders
      /\ orders \in [Orders -> Order] /\ held' = held /\ exit' = exit /\ engine' = Idle
      /\ entry \in Entry /\ engine.id \in Nat /\ engine.count \in Nat
  BY DEF Answered, PInv, Types, Alone, Engine
<1> DEFINE o == [orders[engine.id] EXCEPT !.table = TRUE]
<1>2. /\ o \in Order /\ o.at = orders[engine.id].at /\ o.done = orders[engine.id].done
      /\ o.qty = orders[engine.id].qty /\ o.table
  <2> DEFINE p == orders[engine.id]
  <2>1. p \in Order
    BY <1>1
  <2> HIDE DEF p
  <2>2. [p EXCEPT !.table = TRUE] \in Order
    BY <2>1 DEF Order
  <2>3. /\ [p EXCEPT !.table = TRUE].at = p.at /\ [p EXCEPT !.table = TRUE].done = p.done
        /\ [p EXCEPT !.table = TRUE].qty = p.qty /\ [p EXCEPT !.table = TRUE].table
    BY <2>1 DEF Order
  <2> QED BY <2>2, <2>3 DEF p
<1>3. orders' = [orders EXCEPT ![engine.id] = o]
  BY DEF Answered
<1> HIDE DEF o
<1>4. /\ orders' \in [Orders -> Order] /\ orders'[engine.id] = o
      /\ \A j \in Orders \ {engine.id} : orders'[j] = orders[j]
  BY <1>1, <1>2, <1>3
<1>5. Known'
  <2>1. ASSUME NEW j \in Orders, Live(j)'
        PROVE  orders'[j].done < orders'[j].qty /\ orders'[j].table
    <3>1. CASE j = engine.id
      BY <1>2, <1>4, <2>1, <3>1 DEF PInv, Known, Live
    <3>2. CASE j # engine.id
      BY <1>4, <2>1, <3>2 DEF PInv, Known, Live
    <3> QED BY <3>1, <3>2
  <2> QED BY <2>1 DEF Known
<1>6. Alone'
  BY <1>1, Blanks DEF Alone
<1>7. entry' \in Entry /\ Listed'
  <2>1. CASE entry' = entry
    BY <1>1, <2>1 DEF PInv, Listed
  <2>2. CASE entry' = AfterFallback
    <3> DEFINE on == IF entry.on = "listed" THEN entry.on ELSE "ghost"
               n == engine.count + 1
    <3>1. on \in {"listed", "ghost"} /\ (on = "listed" => entry.on = "listed") /\ n \in Nat
      BY <1>1
    <3>2. entry' = [entry EXCEPT !.on = on, !.id = engine.id, !.side = "sell", !.count = n]
      BY <2>2 DEF AfterFallback
    <3> HIDE DEF on, n
    <3>3. entry' \in Entry /\ entry'.on = on /\ entry'.qty = entry.qty
      BY <1>1, <3>1, <3>2 DEF Entry, Sides
    <3> QED BY <3>1, <3>3 DEF PInv, Listed
  <2> QED BY <2>1, <2>2 DEF Answered
<1> QED BY <1>1, <1>4, <1>5, <1>6, <1>7, Blanks DEF PInv, Types

-----------------------------------------------------------------------------
(* Stale orders *)

\* Whatever of a cancellation was acknowledged, nothing is born by it.
LEMMA CancelOk ==
  ASSUME PInv, NEW c \in CancelOutcomes
  PROVE  c.os \in [Orders -> Order] /\ Calm(c.os)
<1>1. PICK a \in SUBSET {i \in Orders : Live(i) /\ orders[i].table},
           l \in SUBSET {i \in Orders : Live(i) /\ orders[i].table} :
          c = [ack |-> a, os |-> Cancelled(a, l)]
  BY DEF CancelOutcomes
<1>2. orders \in [Orders -> Order]
  BY DEF PInv, Types
<1>3. c.os = [i \in Orders |->
                IF i \in a THEN [orders[i] EXCEPT !.at = "gone", !.table = FALSE, !.canceled = TRUE]
                ELSE IF i \in l THEN [orders[i] EXCEPT !.at = "gone"] ELSE orders[i]]
  BY <1>1 DEF Cancelled
<1>4. ASSUME NEW i \in Orders
      PROVE  c.os[i] \in Order /\ (c.os[i] = orders[i] \/ (c.os[i].at = "gone" /\ Live(i)))
  <2>1. /\ [orders[i] EXCEPT !.at = "gone", !.table = FALSE, !.canceled = TRUE] \in Order
        /\ [orders[i] EXCEPT !.at = "gone", !.table = FALSE, !.canceled = TRUE].at = "gone"
    BY <1>2 DEF Order
  <2>2. [orders[i] EXCEPT !.at = "gone"] \in Order /\ [orders[i] EXCEPT !.at = "gone"].at = "gone"
    BY <1>2 DEF Order
  <2>3. CASE i \in a
    BY <1>1, <1>3, <2>1, <2>3
  <2>4. CASE i \notin a /\ i \in l
    BY <1>1, <1>3, <2>2, <2>4
  <2>5. CASE i \notin a /\ i \notin l
    BY <1>2, <1>3, <2>5
  <2> QED BY <2>3, <2>4, <2>5
<1>5. c.os \in [Orders -> Order]
  BY <1>3, <1>4
<1> QED BY <1>4, <1>5 DEF Calm, NoneBorn, Waiting, PInv, Known, Live

\* The places where the engine looks at stale orders.
LEMMA StaleStarts ==
  ASSUME PInv, StaleSell \/ StaleBuy
  PROVE  PInv'
<1>1. /\ engine.at = "idle" /\ UNCHANGED <<orders, held, exit>>
      /\ entry \in Entry /\ engine \in Engine
  BY DEF StaleSell, StaleBuy, Ready, PInv, Types
<1>2. \/ entry' = entry \/ entry' = NoEntry \/ entry' = [entry EXCEPT !.kept = 0]
  BY DEF StaleSell, StaleBuy, ClearPending
<1>3. entry' \in Entry /\ Listed'
  BY <1>1, <1>2, Blanks DEF PInv, Listed, Entry
<1>4. engine' \in Engine /\ engine'.at \in {"idle", "exemptCancel", "cancel", "buyCancel"}
  <2>1. entry.id \in Nat /\ entry.count \in Nat
    BY <1>1 DEF Entry
  <2>2. \/ engine' = engine
        \/ engine' = [Idle EXCEPT !.at = "exemptCancel", !.id = entry.id]
        \/ engine' = [Idle EXCEPT !.at = "cancel", !.id = entry.id]
        \/ engine' = [Idle EXCEPT !.at = "buyCancel", !.count = entry.count]
    BY DEF StaleSell, StaleBuy, ClearPending
  <2>3. /\ [Idle EXCEPT !.at = "exemptCancel", !.id = entry.id] \in Engine
        /\ [Idle EXCEPT !.at = "cancel", !.id = entry.id] \in Engine
        /\ [Idle EXCEPT !.at = "buyCancel", !.count = entry.count] \in Engine
    BY <2>1 DEF Idle, Engine, Places
  <2>4. /\ [Idle EXCEPT !.at = "exemptCancel", !.id = entry.id].at = "exemptCancel"
        /\ [Idle EXCEPT !.at = "cancel", !.id = entry.id].at = "cancel"
        /\ [Idle EXCEPT !.at = "buyCancel", !.count = entry.count].at = "buyCancel"
    BY DEF Idle
  <2> QED BY <1>1, <2>2, <2>3, <2>4
<1>5. NoneBorn(orders')
  BY <1>1 DEF NoneBorn, PInv, Known, Live
<1>6. Types'
  BY <1>1, <1>3, <1>4 DEF PInv, Types
<1> QED BY <1>1, <1>3, <1>4, <1>5, <1>6, EngineRests

\* The cancel of a buy that has to leave gives birth to nothing.
LEMMA ExemptCancelKeeps ==
  ASSUME PInv, ExemptCancel
  PROVE  PInv'
<1>1. PICK c \in CancelOutcomes : orders' = c.os
  BY DEF ExemptCancel
<1>2. /\ engine.at = "exemptCancel" /\ engine' = Idle /\ entry' \in {entry, NoEntry}
      /\ UNCHANGED <<held, exit>>
  BY DEF ExemptCancel
<1>3. orders' \in [Orders -> Order] /\ NoneBorn(orders')
  BY <1>1, CancelOk DEF Calm
<1>4. Types' /\ Listed'
  BY <1>2, <1>3, Blanks DEF PInv, Types, Listed
<1> QED BY <1>2, <1>3, <1>4, Blanks, EngineRests

\* The engine sends the rest of a stale sell: a partial one without another left.
LEMMA ResubmitKeeps ==
  ASSUME PInv, NEW os \in [Orders -> Order], NoneBorn(os), engine.at # "posted",
         SameSellPending, held > 0,
         entry.intent => \A j \in Orders : os[j].at = "live" => os[j].side # "sell",
         Resubmit(os), UNCHANGED <<held, exit>>
  PROVE  PInv'
<1>1. /\ entry \in Entry /\ held \in Nat /\ entry.qty \in Nat /\ entry.qty > 0
      /\ entry.part \in BOOLEAN /\ entry.intent \in BOOLEAN /\ entry.count \in Nat
  BY DEF PInv, Types, Entry, SameSellPending, Listed
<1>2. [entry EXCEPT !.kept = 0] \in Entry /\ [entry EXCEPT !.kept = 0].qty = entry.qty
  BY <1>1 DEF Entry
<1>3. CASE orders' = os /\ engine' = Idle /\ entry' \in {[entry EXCEPT !.kept = 0], FallbackRefused(entry.count)}
  <2>1. entry' \in Entry /\ Listed'
    BY <1>1, <1>2, <1>3, RefusedOk DEF Listed
  <2>2. Types'
    BY <1>3, <2>1, Blanks DEF PInv, Types
  <2> QED BY <1>3, <2>1, <2>2, Blanks, EngineRests
<1>4. CASE \E i \in Orders :
               /\ orders' = [os EXCEPT ![i] = NewOrder("sell", entry.part,
                                                IF entry.qty < held THEN entry.qty ELSE held)]
               /\ engine' = [at |-> "sent", id |-> i, fallback |-> TRUE, intent |-> entry.intent,
                              count |-> entry.count]
               /\ entry' = [entry EXCEPT !.kept = 0]
  <2> DEFINE q == IF entry.qty < held THEN entry.qty ELSE held
  <2>1. PICK i \in Orders :
               /\ orders' = [os EXCEPT ![i] = NewOrder("sell", entry.part, q)]
               /\ engine' = [at |-> "sent", id |-> i, fallback |-> TRUE, intent |-> entry.intent,
                              count |-> entry.count]
    BY <1>4
  <2>2. q \in Nat /\ q > 0 /\ "sell" \in Sides
    BY <1>1 DEF Sides
  <2> HIDE DEF q
  <2>3. /\ orders' \in [Orders -> Order] /\ \A j \in Orders \ {i} : orders'[j] = os[j]
        /\ orders'[i].at = "new" /\ orders'[i].done = 0 /\ orders'[i].qty = q
    BY <1>1, <2>1, <2>2, BornWaits
  <2>4. /\ engine' \in Engine /\ engine'.at = "sent" /\ engine'.id = i
        /\ engine'.intent = entry.intent
    BY <1>1, <2>1, PendingAssumption DEF Engine, Places
  <2>5. Known'
    BY <2>3 DEF NoneBorn, PInv, Known, Live
  <2>6. Alone'
    <3>1. engine'.intent => \A j \in Orders : Live(j)' => ~IsSell(j)'
      BY <2>3, <2>4 DEF Live, IsSell
    <3> QED BY <2>2, <2>3, <2>4, <3>1 DEF Alone
  <2>7. entry' \in Entry /\ Listed'
    BY <1>1, <1>2, <1>4 DEF Listed
  <2> QED BY <2>3, <2>4, <2>5, <2>6, <2>7 DEF PInv, Types
<1> QED BY <1>3, <1>4 DEF Resubmit

\* The cancel of a stale sell, whatever it answers.
LEMMA FallbackCancelKeeps ==
  ASSUME PInv, FallbackCancel
  PROVE  PInv'
<1>1. PICK c \in CancelOutcomes :
          LET gone == ~Tracked(c.os, {"sell"})
              Stay(e) == engine' = Idle /\ orders' = c.os /\ entry' = e
          IN  IF ~SameSellPending THEN Stay(entry)
              ELSE IF entry.part /\ Unresolved(c.os) THEN Stay([entry EXCEPT !.kept = 1])
              ELSE IF held = 0 THEN Stay(NoEntry)
              ELSE IF ~entry.intent \/ (gone /\ (c.ack # {} \/ entry.kept > 0)) THEN Resubmit(c.os)
              ELSE IF entry.kept = 0 THEN Stay(IF exempt THEN entry ELSE [entry EXCEPT !.kept = 1])
              ELSE engine' = [engine EXCEPT !.at = "inquire"] /\ orders' = c.os /\ UNCHANGED entry
  BY DEF FallbackCancel
<1>2. /\ engine.at = "cancel" /\ UNCHANGED <<held, exit>>
      /\ entry \in Entry /\ engine \in Engine /\ held \in Nat
  BY DEF FallbackCancel, PInv, Types
<1>3. c.os \in [Orders -> Order] /\ Calm(c.os)
  BY CancelOk
<1>4. \A j \in Orders : c.os[j].at = "live" => c.os[j].table
  BY <1>2, <1>3 DEF Calm, NoneBorn, PInv, Known
<1>5. CASE /\ engine' = Idle /\ orders' = c.os
           /\ entry' \in {entry, NoEntry, [entry EXCEPT !.kept = 1]}
  <2>1. entry' \in Entry /\ Listed'
    <3>1. [entry EXCEPT !.kept = 1] \in Entry /\ [entry EXCEPT !.kept = 1].qty = entry.qty
      BY <1>2 DEF Entry
    <3>2. [entry EXCEPT !.kept = 1].on = entry.on
      BY <1>2 DEF Entry
    <3> QED BY <1>2, <1>5, <3>1, <3>2, Blanks DEF PInv, Listed
  <2>2. Types'
    BY <1>2, <1>3, <1>5, <2>1, Blanks DEF PInv, Types
  <2> QED BY <1>2, <1>3, <1>5, <2>1, <2>2, Blanks, EngineRests DEF Calm
<1>6. CASE /\ SameSellPending /\ held # 0 /\ Resubmit(c.os)
           /\ ~entry.intent \/ ~Tracked(c.os, {"sell"})
  <2>1. entry.intent => \A j \in Orders : c.os[j].at = "live" => c.os[j].side # "sell"
    BY <1>4, <1>6 DEF Tracked
  <2>2. held > 0
    BY <1>2, <1>6
  <2> QED BY <1>2, <1>3, <1>6, <2>1, <2>2, ResubmitKeeps DEF Calm
<1>7. CASE /\ engine' = [engine EXCEPT !.at = "inquire"] /\ orders' = c.os /\ UNCHANGED entry
           /\ held # 0
  <2>1. engine' \in Engine /\ engine'.at = "inquire"
    BY <1>2, <1>7 DEF Engine, Places
  <2>2. Known'
    BY <1>2, <1>3, <1>7 DEF Calm, NoneBorn, PInv, Known, Live
  <2>3. held' > 0
    BY <1>2, <1>7
  <2> QED BY <1>2, <1>3, <1>7, <2>1, <2>2, <2>3 DEF PInv, Types, Listed, Alone
<1> QED BY <1>1, <1>5, <1>6, <1>7

\* The inquiry that follows it, whatever it answers.
LEMMA FallbackInquiryKeeps ==
  ASSUME PInv, FallbackInquiry
  PROVE  PInv'
<1>1. /\ engine.at = "inquire" /\ UNCHANGED <<held, exit>> /\ held > 0
      /\ entry \in Entry /\ orders \in [Orders -> Order]
  BY DEF FallbackInquiry, PInv, Types, Alone
<1>2. NoneBorn(orders)
  BY DEF NoneBorn, PInv, Known, Live
<1>3. CASE ~LiveThere("sell") /\ SameSellPending /\ Resubmit(orders)
  <2>1. \A j \in Orders : orders[j].at = "live" => orders[j].side # "sell"
    BY <1>3 DEF LiveThere, Live
  <2> QED BY <1>1, <1>2, <1>3, <2>1, ResubmitKeeps
<1>4. CASE /\ engine' = Idle /\ UNCHANGED orders
           /\ entry' \in {entry, NoEntry, [entry EXCEPT !.kept = 1], [entry EXCEPT !.kept = @ + 1]}
  <2>1. entry' \in Entry /\ Listed'
    <3>1. entry.kept + 1 \in Nat
      BY <1>1 DEF Entry
    <3>2. ASSUME NEW n \in Nat
          PROVE  /\ [entry EXCEPT !.kept = n] \in Entry /\ [entry EXCEPT !.kept = n].qty = entry.qty
                 /\ [entry EXCEPT !.kept = n].on = entry.on
      BY <1>1 DEF Entry
    <3>3. \/ entry' \in {entry, NoEntry}
          \/ \E n \in Nat : entry' = [entry EXCEPT !.kept = n]
      BY <1>4, <3>1
    <3> QED BY <1>1, <3>2, <3>3, Blanks DEF PInv, Listed
  <2>2. Types'
    BY <1>1, <1>4, <2>1, Blanks DEF PInv, Types
  <2> QED BY <1>1, <1>2, <1>4, <2>1, <2>2, Blanks, EngineRests
<1> QED BY <1>3, <1>4 DEF FallbackInquiry

\* The cancel of a stale buy, whatever it answers.
LEMMA BuyCancelKeeps ==
  ASSUME PInv, BuyCancel
  PROVE  PInv'
<1>1. PICK c \in CancelOutcomes : orders' = c.os
  BY DEF BuyCancel
<1>2. /\ engine.at = "buyCancel" /\ UNCHANGED <<held, exit>>
      /\ entry \in Entry /\ engine \in Engine
      /\ engine' \in {Idle, [engine EXCEPT !.at = "buyInquire"]}
      /\ entry' \in {entry, NoEntry, [entry EXCEPT !.count = 1]}
  BY DEF BuyCancel, ClearPending, PInv, Types
<1>3. orders' \in [Orders -> Order] /\ NoneBorn(orders')
  BY <1>1, CancelOk DEF Calm
<1>4. engine' \in Engine /\ engine'.at \in {"idle", "buyInquire"}
  BY <1>2, Blanks DEF Engine, Places
<1>5. entry' \in Entry /\ Listed'
  <2>1. [entry EXCEPT !.count = 1] \in Entry /\ [entry EXCEPT !.count = 1].qty = entry.qty
    BY <1>2 DEF Entry
  <2>2. [entry EXCEPT !.count = 1].on = entry.on
    BY <1>2 DEF Entry
  <2> QED BY <1>2, <2>1, <2>2, Blanks DEF PInv, Listed
<1>6. Types'
  BY <1>2, <1>3, <1>4, <1>5 DEF PInv, Types
<1> QED BY <1>2, <1>3, <1>4, <1>5, <1>6, EngineRests

\* The inquiry that follows that.
LEMMA BuyInquiryKeeps ==
  ASSUME PInv, BuyInquiry
  PROVE  PInv'
<1>1. /\ engine.at = "buyInquire" /\ engine' = Idle /\ UNCHANGED <<orders, held, exit>>
      /\ entry \in Entry /\ engine.count \in Nat
  BY DEF BuyInquiry, PInv, Types, Engine
<1>2. entry' \in {entry, NoEntry} \/ \E n \in Nat : entry' = [entry EXCEPT !.count = n]
  <2>1. engine.count + 1 \in Nat
    BY <1>1
  <2> QED BY <2>1 DEF BuyInquiry, ClearPending
<1>3. ASSUME NEW n \in Nat
      PROVE  /\ [entry EXCEPT !.count = n] \in Entry /\ [entry EXCEPT !.count = n].qty = entry.qty
             /\ [entry EXCEPT !.count = n].on = entry.on
  BY <1>1 DEF Entry
<1>4. entry' \in Entry /\ Listed'
  BY <1>1, <1>2, <1>3, Blanks DEF PInv, Listed
<1>5. NoneBorn(orders')
  BY <1>1 DEF NoneBorn, PInv, Known, Live
<1>6. Types'
  BY <1>1, <1>4, Blanks DEF PInv, Types
<1> QED BY <1>1, <1>4, <1>5, <1>6, Blanks, EngineRests

-----------------------------------------------------------------------------
(* The scheduler *)

\* What the scheduler does leaves the engine where it is.
LEMMA SchedulerKeeps ==
  ASSUME PInv, UNCHANGED <<engine, held>>, entry' \in {entry, NoEntry}, exit' \in Exit,
         orders' \in [Orders -> Order], Calm(orders')
  PROVE  PInv'
<1>1. Types' /\ Listed'
  BY Blanks DEF PInv, Types, Listed
<1> QED BY <1>1, EngineStays

\* Orders that stay as they are stay calm.
LEMMA OrdersCalm ==
  ASSUME PInv
  PROVE  orders \in [Orders -> Order] /\ Calm(orders) /\ exit \in Exit
  BY DEF PInv, Types, Known, Calm, NoneBorn, Waiting, Live

\* The check of the exits writes only the scheduler's own records.
LEMMA ExitCheckKeeps ==
  ASSUME PInv, ExitCheck
  PROVE  PInv'
<1>1. UNCHANGED <<engine, held, orders>> /\ entry' \in {entry, NoEntry}
  BY DEF ExitCheck
<1>2. exit' \in Exit
  <2>1. exit \in Exit /\ exit.mark \in Nat
    BY OrdersCalm DEF Exit
  <2>2. exit' = exit \/ \E g \in 1..9, mark \in Nat : exit' = [NoExit EXCEPT !.gen = g, !.mark = mark]
    <3>1. CASE UNCHANGED <<exit, stage, signals>>
      BY <3>1
    <3>2. ASSUME NEW g \in 1..9, NEW mark \in {g, 0, exit.mark},
                 exit' = [NoExit EXCEPT !.gen = g, !.mark = mark]
          PROVE  \E h \in 1..9, m \in Nat : exit' = [NoExit EXCEPT !.gen = h, !.mark = m]
      <4>1. mark \in Nat
        BY <2>1, <3>2
      <4> QED BY <3>2, <4>1
    <3>3. \/ UNCHANGED <<exit, stage, signals>>
          \/ \E g \in 1..9 : \E mark \in {g, 0, exit.mark} :
                exit' = [NoExit EXCEPT !.gen = g, !.mark = mark]
      BY Zenon DEF ExitCheck
    <3> QED BY <3>1, <3>2, <3>3
  <2>3. ASSUME NEW g \in 1..9, NEW mark \in Nat
        PROVE  [NoExit EXCEPT !.gen = g, !.mark = mark] \in Exit
    <3>1. g \in Nat
      OBVIOUS
    <3> QED BY <3>1 DEF NoExit, Exit
  <2> QED BY <2>1, <2>2, <2>3
<1> QED BY <1>1, <1>2, OrdersCalm, SchedulerKeeps

\* The cleaner of the scheduler cancels, and gives birth to nothing.
LEMMA CleanerKeeps ==
  ASSUME PInv, CleanerCancel \/ CleanerInquiry
  PROVE  PInv'
<1>1. UNCHANGED <<engine, held>>
  BY DEF CleanerCancel, CleanerInquiry
<1>2. \/ \E c \in CancelOutcomes : orders' = c.os
      \/ orders' = orders
  BY DEF CleanerCancel, CleanerInquiry, Release, ReleaseOverCancel
<1>3. orders' \in [Orders -> Order] /\ Calm(orders')
  <2>1. CASE orders' = orders
    BY <2>1, OrdersCalm
  <2>2. CASE \E c \in CancelOutcomes : orders' = c.os
    BY <2>2, CancelOk
  <2> QED BY <1>2, <2>1, <2>2
<1>4. entry' \in {entry, NoEntry}
  BY DEF CleanerCancel, CleanerInquiry, Release, ReleaseOverCancel, ClearPending
<1>5. \/ exit' \in {exit, NoExit} \/ exit' = [exit EXCEPT !.waited = TRUE]
      \/ \E n \in Nat : exit' = [exit EXCEPT !.unknown = n]
  <2>1. exit.unknown + 1 \in Nat /\ 0 \in Nat
    BY OrdersCalm DEF Exit
  <2> QED BY <2>1 DEF CleanerCancel, CleanerInquiry, Release, ReleaseOverCancel
<1>6. exit' \in Exit
  <2>1. [exit EXCEPT !.waited = TRUE] \in Exit
    BY OrdersCalm DEF Exit
  <2>2. ASSUME NEW n \in Nat PROVE [exit EXCEPT !.unknown = n] \in Exit
    BY OrdersCalm DEF Exit
  <2> QED BY <1>5, <2>1, <2>2, Blanks, OrdersCalm
<1> QED BY <1>1, <1>3, <1>4, <1>6, SchedulerKeeps

-----------------------------------------------------------------------------
(* All steps *)

\* The invariant holds at first.
LEMMA InitPending == Init => PInv
<1> SUFFICES ASSUME Init PROVE PInv
  OBVIOUS
<1>1. Types
  BY PendingAssumption, Blanks DEF Init, Types
<1>2. Known /\ Listed /\ Alone
  BY Blanks DEF Init, Known, Listed, Alone, Live
<1> QED BY <1>1, <1>2 DEF PInv

\* Every step keeps it.
LEMMA NextPending == PInv /\ [Next]_vars => PInv'
<1> SUFFICES ASSUME PInv, [Next]_vars PROVE PInv'
  OBVIOUS
<1>1. CASE UNCHANGED vars
  BY <1>1 DEF vars, PInv, Types, Known, Listed, Alone, Live, IsSell
<1>2. ASSUME NEW i \in Orders, Execute(i) \/ EndsThere(i) \/ FillCheck(i) \/ OnFill(i) PROVE PInv'
  BY <1>2, ExecuteKeeps, EndsThereKeeps, PollKeeps, RetireKeeps, DrainKeeps, OnFillKeeps DEF FillCheck
<1>3. ASSUME NEW kind \in {"buy", "part", "full"}, OnSignal(kind) PROVE PInv'
  BY <1>3, OnSignalKeeps
<1>4. CASE EngineStep
  BY <1>4, OnOrderKeeps, PostKeeps, AnsweredKeeps, ExemptCancelKeeps, FallbackCancelKeeps,
     FallbackInquiryKeeps, BuyCancelKeeps, BuyInquiryKeeps DEF EngineStep
<1>5. CASE StaleSell \/ StaleBuy
  BY <1>5, StaleStarts
<1>6. CASE ExitCheck
  BY <1>6, ExitCheckKeeps
<1>7. CASE CleanerCancel \/ CleanerInquiry
  BY <1>7, CleanerKeeps
<1>8. CASE CleanerStarts \/ BecomesExempt
  BY <1>8, OrdersCalm, SchedulerKeeps DEF CleanerStarts, BecomesExempt
<1> QED BY <1>1, <1>2, <1>3, <1>4, <1>5, <1>6, <1>7, <1>8 DEF Next

\* The invariant of the pendings holds in every run.
THEOREM PendingInvariance == Spec => []PInv
  BY InitPending, NextPending, PTL DEF Spec

\* A partial sell whose rest is sent at the market reaches the exchange only when
\* no other sell of the symbol may execute there: whatever cancellation or inquiry
\* was lost, however the cleaner, the fills and the exchange come in between.
THEOREM FallbackIsAlone == Spec => NoFallbackOverLive
<1>1. ASSUME PInv, [Next]_vars
      PROVE  [\A i \in Orders : Posted(i) /\ engine.intent =>
                \A j \in Orders : Live(j) => ~IsSell(j)]_vars
  BY <1>1 DEF PInv, Alone, Posted
<1>2. PInv /\ [Next]_vars => [\A i \in Orders : Posted(i) /\ engine.intent =>
                                \A j \in Orders : Live(j) => ~IsSell(j)]_vars
  BY <1>1
<1> QED BY <1>2, PendingInvariance, PTL DEF Spec, NoFallbackOverLive
=============================================================================
