-------------------------- MODULE PendingOrders --------------------------
(***************************************************************************)
(* The orders of one symbol that are under way, as four parts of the bot   *)
(* remember them:                                                          *)
(*   entry    the pending maps of the engine's RiskManager (core/engine.py)*)
(*   exit     the scheduler's exit pending (schedulers/kr_scheduler.py)    *)
(*   stage    the ExitManager's pending stage of partial sells             *)
(*   orders   the broker's table and its fill observations (kis_kr.py)     *)
(*                                                                         *)
(* The engine handles one event at a time: a signal, the order it made, a  *)
(* fill.  An order that is not filled in time goes stale: the engine       *)
(* cancels it and sends the rest of a sell at the market.  The scheduler's *)
(* cleaner, a task of its own, releases exit pendings that are overdue.    *)
(* Both await the broker, so that they interleave with each other, with    *)
(* the fill check and with the exchange.                                   *)
(*                                                                         *)
(* Time limits may be reached at any moment, except that the cleaner's     *)
(* three minutes do not pass before the signal of its pending was handled. *)
(* Inquiries may fail; the ones that are answered are true.  Orders whose  *)
(* acceptance is unknown are in OrderSubmission.                           *)
(***************************************************************************)
EXTENDS Integers, FiniteSets, FiniteSetsExt

CONSTANTS
    Orders,         \* numbers for orders, used again when an order is over
    Initial,        \* shares held at the start
    Lot,            \* shares of a buy
    Part,           \* shares of a partial sell
    MaxFallbacks,   \* _MAX_FALLBACK
    MaxUnknown,     \* _MAX_EXIT_UNKNOWN
    MaxBuyKeep,     \* _MAX_BUY_KEEP
    OtherSignals,   \* kinds of signals that do not come from the exit check
    Mishaps         \* what may go wrong, of MishapKinds

MishapKinds == {"cancelFails", "inquiryFails", "exempt"}

ASSUME PendingAssumption ==
    /\ Orders \subseteq Nat \ {0} /\ Initial \in Nat /\ {Lot, Part} \subseteq Nat \ {0}
    /\ {MaxFallbacks, MaxUnknown, MaxBuyKeep} \subseteq Nat \ {0}
    /\ OtherSignals \subseteq {"buy", "full"} /\ Mishaps \subseteq MishapKinds

VARIABLES
    orders,     \* each order: at the exchange, in the broker's table, its fills
    owned,      \* shares at the exchange
    held,       \* shares in the portfolio
    entry,      \* the engine's pending maps
    exit,       \* the exit pending, its mark and the cleaner's memory of it
    stage,      \* the pending stage of the ExitManager
    owners,     \* _canceled_exit_stage_owners
    signals,    \* signals of the exit check in the event queue
    engine,     \* where the handler of the engine is
    cleaner,    \* where the cleaner is
    exempt      \* the symbol must never be sold automatically

vars == <<orders, owned, held, entry, exit, stage, owners, signals, engine, cleaner, exempt>>

\* No order: a number that is free.
Blank == [at |-> "none", side |-> "none", part |-> FALSE, qty |-> 0, done |-> 0, seen |-> 0,
          applied |-> 0, drained |-> 0, table |-> FALSE, canceled |-> FALSE,
          matched |-> FALSE, gen |-> 0]

NoEntry == [on |-> "no", id |-> 0, side |-> "none", part |-> FALSE, intent |-> FALSE,
            qty |-> 0, count |-> 0, kept |-> 0]

\* mark is the registration time that the mark of a partial sell carries.
NoExit == [gen |-> 0, mark |-> 0, waited |-> FALSE, unknown |-> 0]

NoStage == [gen |-> 0, target |-> 0, filled |-> 0]

Idle == [at |-> "idle", id |-> 0, fallback |-> FALSE, intent |-> FALSE, count |-> 0]
CleanerIdle == [at |-> "idle", gen |-> 0]

Live(i) == orders[i].at = "live"
IsSell(i) == orders[i].side = "sell"

\* has_unresolved_cancel, of a table os
Unresolved(os) == \E i \in Orders : os[i].canceled

\* get_open_orders has an active order of one of these sides.
Tracked(os, sides) == \E i \in Orders : os[i].table /\ os[i].side \in sides

\* What the exchange answers to an inquiry for its open orders.
LiveThere(side) == \E i \in Orders : Live(i) /\ orders[i].side = side

\* The shares of live sells cannot be sold again.
Sellable ==
    owned - FoldSet(LAMBDA i, n : n + orders[i].qty - orders[i].done, 0,
                    {i \in Orders : Live(i) /\ IsSell(i)})

\* An order is over when the exchange, the table and the handoff are done with it.
Swept(o) == IF o.at = "gone" /\ ~o.table /\ ~o.canceled /\ o.drained = o.done THEN Blank ELSE o

\* The first number that nothing remembers.
Free(i) ==
    /\ orders[i] = Blank /\ i \notin {entry.id, engine.id} \cup DOMAIN owners

NextFree(i) == Free(i) /\ \A j \in Orders : Free(j) => i <= j

\* A registration time that nothing remembers.
NextGen(g) ==
    LET used == {exit.gen, exit.mark, cleaner.gen} \cup {orders[i].gen : i \in Orders}
    IN  g \in (1..Cardinality(Orders) + 4) \ used /\ \A h \in 1..(g - 1) : h \in used

NextStageGen(g) ==
    LET used == {stage.gen} \cup {owners[i] : i \in DOMAIN owners}
    IN  g \in (1..Cardinality(Orders) + 2) \ used /\ \A h \in 1..(g - 1) : h \in used

-----------------------------------------------------------------------------
(* The exchange and the fill check *)

\* A share of a live order is executed.
Execute(i) ==
    /\ Live(i)
    /\ LET o == orders[i] IN
       /\ orders' = [orders EXCEPT ![i].done = @ + 1,
                         ![i].at = IF o.done + 1 = o.qty THEN "gone" ELSE "live"]
       /\ owned' = IF o.side = "buy" THEN owned + 1 ELSE owned - 1
    /\ UNCHANGED <<held, entry, exit, stage, owners, signals, engine, cleaner, exempt>>

\* An order ends at the exchange: by hand, or at the end of the day.
EndsThere(i) ==
    /\ Live(i) /\ orders[i].table
    /\ orders' = [orders EXCEPT ![i].at = "gone"]
    /\ UNCHANGED <<owned, held, entry, exit, stage, owners, signals, engine, cleaner, exempt>>

\* check_fills finds new shares and emits them; a filled order leaves the table.
Poll(i) ==
    /\ orders[i].table \/ orders[i].canceled
    /\ orders[i].seen < orders[i].done
    /\ orders' = [orders EXCEPT ![i].seen = orders[i].done, ![i].gen = exit.gen,
                      ![i].table = @ /\ orders[i].done < orders[i].qty]
    /\ UNCHANGED <<owned, held, entry, exit, stage, owners, signals, engine, cleaner, exempt>>

\* A cancelled order is resolved when its last fill was acknowledged.
Retire(i) ==
    /\ orders[i].canceled /\ orders[i].drained = orders[i].done
    /\ orders' = [orders EXCEPT ![i] = Swept([@ EXCEPT !.canceled = FALSE])]
    /\ owners' = [j \in DOMAIN owners \ {i} |-> owners[j]]
    /\ UNCHANGED <<owned, held, entry, exit, stage, signals, engine, cleaner, exempt>>

\* The fill is one of the order that owns the exit pending.
Owns(i) == orders[i].matched /\ entry.id \in {0, i} /\ exit.gen = orders[i].gen

\* ExitManager.on_fill: the stage is reached when its shares are sold, and
\* forgotten with the position.
StageAfter(i, n) ==
    IF held = 0 THEN NoStage
    ELSE IF stage.target = 0 \/ ~(Owns(i) \/ (i \in DOMAIN owners /\ owners[i] = stage.gen))
         THEN stage
    ELSE IF stage.filled + n < stage.target THEN [stage EXCEPT !.filled = @ + n]
    ELSE NoStage

\* _complete_fill_handoff: the mark of the exit pending outlives it.
Drain(i) ==
    /\ orders[i].drained < orders[i].applied
    /\ orders' = [orders EXCEPT ![i] = Swept([@ EXCEPT !.drained = orders[i].applied,
                                                       !.gen = 0, !.matched = FALSE])]
    /\ IF IsSell(i)
       THEN /\ exit' = IF Owns(i) THEN [NoExit EXCEPT !.mark = exit.mark] ELSE exit
            /\ stage' = StageAfter(i, orders[i].applied - orders[i].drained)
       ELSE UNCHANGED <<exit, stage>>
    /\ UNCHANGED <<owned, held, entry, owners, signals, engine, cleaner, exempt>>

\* cancel_all_for_symbol: of the orders in the table those in ack are cancelled,
\* and the answer for those in lost does not come; the others stay as they are.
Cancelled(ack, lost) ==
    [i \in Orders |->
        IF i \in ack THEN [orders[i] EXCEPT !.at = "gone", !.table = FALSE, !.canceled = TRUE]
        ELSE IF i \in lost THEN [orders[i] EXCEPT !.at = "gone"] ELSE orders[i]]

\* The outcomes of a cancellation of all: what was acknowledged, and the table.
CancelOutcomes ==
    LET targets == {i \in Orders : Live(i) /\ orders[i].table}
        acks == IF "cancelFails" \in Mishaps THEN SUBSET targets ELSE {targets}
    IN  UNION {{[ack |-> a, os |-> Cancelled(a, l)] : l \in SUBSET (targets \ a)} : a \in acks}

-----------------------------------------------------------------------------
(* The engine: signals, orders and fills *)

\* Fills and orders are handled before signals and heartbeats (EventQueue).
Ready == engine.at = "idle" /\ \A i \in Orders : orders[i].applied = orders[i].seen

\* clear_pending
ClearPending == entry' = NoEntry

Side(kind) == IF kind = "buy" THEN "buy" ELSE "sell"

\* What on_signal checks before it makes an order.
Admissible(kind) ==
    /\ entry.on # "listed"
    /\ kind = "buy" => held = 0
    /\ kind # "buy" => held > 0 /\ ~exempt
    /\ kind # "full" => ~Unresolved(orders)

Quantity(kind) ==
    IF kind = "buy" THEN Lot ELSE IF kind = "part" /\ Part <= held THEN Part ELSE held

NewOrder(side, part, qty) == [Blank EXCEPT !.at = "new", !.side = side, !.part = part, !.qty = qty]

\* on_signal drops the signal, or registers its order as pending and emits it.
\* A strategy or another task may ask for a buy or a full sell at any time.
OnSignal(kind) ==
    /\ Ready /\ kind \in signals \cup OtherSignals
    /\ signals' = signals \ {kind}
    /\ \/ kind \in signals /\ UNCHANGED <<orders, entry, engine>>
       \/ /\ Admissible(kind)
          /\ \E i \in Orders :
                /\ NextFree(i)
                /\ orders' = [orders EXCEPT ![i] = NewOrder(Side(kind), kind = "part", Quantity(kind))]
                /\ entry' = [on |-> "listed", id |-> i, side |-> Side(kind), part |-> kind = "part",
                             intent |-> kind = "part" /\ Part < held, qty |-> Quantity(kind),
                             count |-> 0, kept |-> 0]
                /\ engine' = [Idle EXCEPT !.at = "order", !.id = i]
    /\ UNCHANGED <<owned, held, exit, stage, owners, cleaner, exempt>>

\* on_order gives the order to the broker, or drops it with its pending.
OnOrder ==
    /\ engine.at = "order"
    /\ LET o == orders[engine.id]
           late == o.side = "sell" /\ exempt
           over == Unresolved(orders) /\ (o.side = "buy" \/ entry.part)
       IN  IF late \/ over
           THEN /\ entry' = IF late \/ entry.id = engine.id THEN NoEntry ELSE entry
                /\ orders' = [orders EXCEPT ![engine.id] = Blank]
                /\ engine' = Idle
           ELSE engine' = [engine EXCEPT !.at = "sent"] /\ UNCHANGED <<orders, entry>>
    /\ UNCHANGED <<owned, held, exit, stage, owners, signals, cleaner, exempt>>

\* A fallback that the broker refused: after the last one the pending is cleared.
FallbackRefused(count) ==
    IF count + 1 >= MaxFallbacks \/ entry.on = "no" THEN NoEntry
    ELSE [entry EXCEPT !.count = count + 1]

\* submit_order up to the POST: refused, or taken by the exchange.  A fallback that
\* raises before it gives its pending up.
Post ==
    /\ engine.at = "sent"
    /\ LET o == orders[engine.id]
           held_back == Unresolved(orders) /\ (o.side = "buy" \/ o.part)
       IN  \/ /\ orders' = [orders EXCEPT ![engine.id] = Blank]
              /\ entry' \in {NoEntry} \cup (IF engine.fallback THEN {FallbackRefused(engine.count)} ELSE {})
              /\ engine' = Idle
           \/ /\ ~held_back /\ (o.side = "sell" => o.qty <= Sellable)
              /\ orders' = [orders EXCEPT ![engine.id].at = "live"]
              /\ engine' = [engine EXCEPT !.at = "posted"]
              /\ UNCHANGED entry
    /\ UNCHANGED <<owned, held, exit, stage, owners, signals, cleaner, exempt>>

\* The fallback's maps are written whether the pending is still listed or not.
AfterFallback ==
    [entry EXCEPT !.on = IF @ = "listed" THEN @ ELSE "ghost", !.id = engine.id, !.side = "sell",
                  !.count = engine.count + 1]

\* The answer of the exchange: the order is in the broker's table.
Answered ==
    /\ engine.at = "posted"
    /\ orders' = [orders EXCEPT ![engine.id].table = TRUE]
    /\ entry' = IF engine.fallback THEN AfterFallback ELSE entry
    /\ engine' = Idle
    /\ UNCHANGED <<owned, held, exit, stage, owners, signals, cleaner, exempt>>

\* on_fill: shares reach the position, and the pending of their order shrinks; a
\* kept stale buy that gets any is not waited for any more.
OnFill(i) ==
    /\ engine.at \in {"idle", "order"} /\ orders[i].applied < orders[i].seen
    /\ LET n == orders[i].seen - orders[i].applied
           matched == entry.id = i /\ entry.side = orders[i].side
       IN  /\ orders' = [orders EXCEPT ![i].applied = orders[i].seen, ![i].matched = matched]
           /\ held' = IF orders[i].side = "buy" THEN held + n ELSE IF held > n THEN held - n ELSE 0
           /\ entry' = IF ~matched THEN entry
                       ELSE IF entry.qty <= n \/ (entry.side = "buy" /\ entry.count > 0) THEN NoEntry
                       ELSE [entry EXCEPT !.qty = @ - n]
    /\ UNCHANGED <<owned, exit, stage, owners, signals, engine, cleaner, exempt>>

-----------------------------------------------------------------------------
(* The engine: stale orders *)

\* A pending that is overdue, met by a signal of any symbol or a heartbeat.
StaleSell ==
    /\ Ready /\ entry.side = "sell"
    /\ IF exempt THEN engine' = [Idle EXCEPT !.at = "exemptCancel", !.id = entry.id]
                      /\ entry' = [entry EXCEPT !.kept = 0]
       ELSE IF entry.count >= MaxFallbacks THEN ClearPending /\ UNCHANGED engine
       ELSE engine' = [Idle EXCEPT !.at = "cancel", !.id = entry.id] /\ UNCHANGED entry
    /\ UNCHANGED <<orders, owned, held, exit, stage, owners, signals, cleaner, exempt>>

\* A symbol that must not be sold: cancel, and try again while any order is left.
ExemptCancel ==
    /\ engine.at = "exemptCancel"
    /\ \E c \in CancelOutcomes :
          /\ orders' = c.os
          /\ entry' = IF Tracked(c.os, {"buy", "sell"}) THEN entry ELSE NoEntry
    /\ engine' = Idle
    /\ UNCHANGED <<owned, held, exit, stage, owners, signals, cleaner, exempt>>

\* _is_same_sell_pending
SameSellPending == entry.on = "listed" /\ entry.side = "sell" /\ entry.id = engine.id

\* The rest of the pending is sold at the market, the table being os.
Resubmit(os) ==
    IF exempt THEN engine' = Idle /\ orders' = os /\ entry' = [entry EXCEPT !.kept = 0]
    ELSE \/ \E i \in Orders :
               /\ NextFree(i)
               /\ orders' = [os EXCEPT ![i] = NewOrder("sell", entry.part,
                                                IF entry.qty < held THEN entry.qty ELSE held)]
               /\ engine' = [at |-> "sent", id |-> i, fallback |-> TRUE, intent |-> entry.intent,
                              count |-> entry.count]
               /\ entry' = [entry EXCEPT !.kept = 0]
         \/ /\ \A i \in Orders : ~Free(i)
            /\ orders' = os /\ engine' = Idle /\ entry' = FallbackRefused(entry.count)

\* _fallback_stale_sell after its cancellation: a partial sell is sent again only
\* when no other may still execute (_keep_stale_sell_after_failed_cancel).
FallbackCancel ==
    /\ engine.at = "cancel"
    /\ \E c \in CancelOutcomes :
          LET gone == ~Tracked(c.os, {"sell"})
              Stay(e) == engine' = Idle /\ orders' = c.os /\ entry' = e
          IN  IF ~SameSellPending THEN Stay(entry)
              ELSE IF entry.part /\ Unresolved(c.os) THEN Stay([entry EXCEPT !.kept = 1])
              ELSE IF held = 0 THEN Stay(NoEntry)
              ELSE IF ~entry.intent \/ (gone /\ (c.ack # {} \/ entry.kept > 0)) THEN Resubmit(c.os)
              ELSE IF entry.kept = 0 THEN Stay(IF exempt THEN entry ELSE [entry EXCEPT !.kept = 1])
              ELSE engine' = [engine EXCEPT !.at = "inquire"] /\ orders' = c.os /\ UNCHANGED entry
    /\ UNCHANGED <<owned, held, exit, stage, owners, signals, cleaner, exempt>>

\* Variant for a mutation run: a lost inquiry counts as "no order is live".
FallbackInquiryTrusting ==
    /\ engine.at = "inquire"
    /\ IF ~exempt /\ (~LiveThere("sell") \/ "inquiryFails" \in Mishaps) /\ SameSellPending
       THEN Resubmit(orders) ELSE engine' = Idle /\ UNCHANGED <<orders, entry>>
    /\ UNCHANGED <<owned, held, exit, stage, owners, signals, cleaner, exempt>>

\* Its inquiry: a live order is waited for, a lost inquiry only so often.
FallbackInquiry ==
    /\ engine.at = "inquire"
    /\ \/ /\ ~exempt /\ ~LiveThere("sell")
          /\ IF SameSellPending THEN Resubmit(orders)
             ELSE engine' = Idle /\ UNCHANGED <<orders, entry>>
       \/ /\ exempt \/ LiveThere("sell")
          /\ entry' = IF exempt \/ entry.on = "no" THEN entry ELSE [entry EXCEPT !.kept = 1]
          /\ engine' = Idle /\ UNCHANGED orders
       \/ /\ "inquiryFails" \in Mishaps /\ ~exempt
          /\ entry' = IF entry.on = "no" \/ entry.kept > MaxUnknown THEN NoEntry
                      ELSE [entry EXCEPT !.kept = @ + 1]
          /\ engine' = Idle /\ UNCHANGED orders
    /\ UNCHANGED <<owned, held, exit, stage, owners, signals, cleaner, exempt>>

\* A buy that is not filled within ten minutes.
StaleBuy ==
    /\ Ready /\ entry.side = "buy"
    /\ engine' = [Idle EXCEPT !.at = "buyCancel", !.count = entry.count]
    /\ UNCHANGED <<orders, owned, held, entry, exit, stage, owners, signals, cleaner, exempt>>

\* It is kept as pending while its cancellation may have failed.
BuyCancel ==
    /\ engine.at = "buyCancel"
    /\ \E c \in CancelOutcomes :
          /\ orders' = c.os
          /\ IF c.ack # {} \/ held > 0 \/ ~Tracked(c.os, {"buy"})
             THEN ClearPending /\ engine' = Idle
             ELSE IF engine.count = 0
             THEN /\ entry' = IF entry.on = "no" THEN entry ELSE [entry EXCEPT !.count = 1]
                  /\ engine' = Idle
             ELSE engine' = [engine EXCEPT !.at = "buyInquire"] /\ UNCHANGED entry
    /\ UNCHANGED <<owned, held, exit, stage, owners, signals, cleaner, exempt>>

BuyInquiry ==
    /\ engine.at = "buyInquire"
    /\ \/ ~LiveThere("buy") /\ ClearPending
       \/ /\ LiveThere("buy")
          /\ entry' = IF entry.on = "no" THEN entry ELSE [entry EXCEPT !.count = 1]
       \/ /\ "inquiryFails" \in Mishaps
          /\ entry' = IF entry.on = "no" \/ engine.count >= MaxBuyKeep THEN NoEntry
                      ELSE [entry EXCEPT !.count = engine.count + 1]
    /\ engine' = Idle
    /\ UNCHANGED <<orders, owned, held, exit, stage, owners, signals, cleaner, exempt>>

-----------------------------------------------------------------------------
(* The scheduler: exit checks and the cleaner *)

\* maybe_expire_pending and the last limit of _check_partial_exit.
StageMayExpire ==
    /\ stage.target > 0
    /\ "inquiryFails" \in Mishaps \/ (~Unresolved(orders) /\ ~LiveThere("sell"))

\* _check_exit_signal: a kept buy that became a position is released; a position
\* without a pending may give a partial or a full exit; the exits at the end of
\* the day come before the stage may expire, and leave an old mark as it is.
ExitCheck ==
    /\ exit.gen = 0 /\ ~exempt
    /\ LET kept == entry.side = "buy" /\ entry.count > 0 /\ held > 0
           e == IF kept THEN NoEntry ELSE entry
       IN  /\ entry' = e
           /\ \/ UNCHANGED <<exit, stage, signals>>
              \/ /\ e.on # "listed" /\ held > 0
                 /\ \E expired \in {FALSE, StageMayExpire}, part \in BOOLEAN, g, sg \in 1..9 :
                       /\ part => held > Part /\ ~Unresolved(orders) /\ (expired \/ stage.target = 0)
                       /\ NextGen(g)
                       /\ \E mark \in IF part THEN {g} ELSE {0} \cup (IF expired THEN {} ELSE {exit.mark}) :
                             exit' = [NoExit EXCEPT !.gen = g, !.mark = mark]
                       /\ NextStageGen(sg)
                       /\ stage' = IF part THEN [gen |-> sg, target |-> Part, filled |-> 0]
                                   ELSE IF expired THEN NoStage ELSE stage
                       /\ signals' = signals \cup {IF part THEN "part" ELSE "full"}
    /\ UNCHANGED <<orders, owned, held, owners, engine, cleaner, exempt>>

\* Its three minutes do not pass before its signal and its order were handled.
Overdue ==
    /\ exit.gen # 0 /\ signals \cap {"part", "full"} = {}
    /\ engine.at \in {"order", "sent", "posted"} => engine.fallback \/ ~IsSell(engine.id)

\* _cleanup_stale_pending takes up an overdue exit pending.
CleanerStarts ==
    /\ cleaner.at = "idle" /\ Overdue
    /\ cleaner' = [at |-> "cancel", gen |-> exit.gen]
    /\ UNCHANGED <<orders, owned, held, entry, exit, stage, owners, signals, engine, exempt>>

\* The end of its round: the pendings are released and the stage is rolled back,
\* unless a sell of an exempt symbol is left or the pending was replaced.
Release(os) ==
    /\ cleaner' = CleanerIdle /\ orders' = os /\ UNCHANGED owners
    /\ IF exit.gen # cleaner.gen \/ (exempt /\ Tracked(os, {"buy", "sell"}))
       THEN UNCHANGED <<exit, entry, stage>>
       ELSE exit' = NoExit /\ ClearPending /\ stage' = NoStage

\* A cancelled order may still have fills: the pendings are released, but the
\* stage is left to the order.
ReleaseOverCancel(os) ==
    /\ cleaner' = CleanerIdle /\ orders' = os
    /\ exit' = NoExit /\ ClearPending /\ UNCHANGED stage
    /\ owners' = IF entry.id # 0 /\ stage.target > 0
                 THEN [i \in DOMAIN owners \cup {entry.id} |->
                          IF i = entry.id THEN stage.gen ELSE owners[i]]
                 ELSE owners

\* _keep_exit_pending_after_failed_cancel, after the cancellation: the pendings are
\* released over a cancelled order if the mark is that of the round, although the
\* registration itself may be over or replaced.
CleanerCancel ==
    /\ cleaner.at = "cancel"
    /\ \E c \in CancelOutcomes :
          IF exit.mark # cleaner.gen THEN Release(c.os)
          ELSE IF Unresolved(c.os) THEN ReleaseOverCancel(c.os)
          ELSE IF exit.gen # cleaner.gen \/ ~Tracked(c.os, {"sell"}) THEN Release(c.os)
          ELSE IF exit.waited
          THEN /\ cleaner' = [cleaner EXCEPT !.at = "inquire"] /\ orders' = c.os
               /\ UNCHANGED <<exit, entry, stage, owners>>
          ELSE IF exempt THEN Release(c.os)
          ELSE /\ exit' = [exit EXCEPT !.waited = TRUE]
               /\ cleaner' = CleanerIdle /\ orders' = c.os /\ UNCHANGED <<entry, stage, owners>>
    /\ UNCHANGED <<owned, held, signals, engine, exempt>>

\* Variant for a mutation run: no inquiry that is lost ends the wait.
CleanerInquiryPatient ==
    /\ cleaner.at = "inquire"
    /\ IF exit.gen # cleaner.gen \/ exempt
       THEN Release(orders)
       ELSE \/ ~LiveThere("sell") /\ Release(orders)
            \/ /\ LiveThere("sell") \/ "inquiryFails" \in Mishaps
               /\ cleaner' = CleanerIdle /\ UNCHANGED <<orders, exit, entry, stage, owners>>
    /\ UNCHANGED <<owned, held, signals, engine, exempt>>

\* Its inquiry, when it has waited once already.
CleanerInquiry ==
    /\ cleaner.at = "inquire"
    /\ IF exit.gen # cleaner.gen \/ exempt
       THEN Release(orders)
       ELSE \/ ~LiveThere("sell") /\ Release(orders)
            \/ /\ LiveThere("sell") /\ exit' = [exit EXCEPT !.unknown = 0]
               /\ cleaner' = CleanerIdle /\ UNCHANGED <<orders, entry, stage, owners>>
            \/ /\ "inquiryFails" \in Mishaps
               /\ IF exit.unknown + 1 >= MaxUnknown
                  THEN exit' = NoExit /\ ClearPending
                  ELSE exit' = [exit EXCEPT !.unknown = @ + 1] /\ UNCHANGED entry
               /\ cleaner' = CleanerIdle /\ UNCHANGED <<orders, stage, owners>>
    /\ UNCHANGED <<owned, held, signals, engine, exempt>>

\* add_exit_exempt while the bot runs
BecomesExempt ==
    /\ "exempt" \in Mishaps /\ ~exempt
    /\ exempt' = TRUE
    /\ UNCHANGED <<orders, owned, held, entry, exit, stage, owners, signals, engine, cleaner>>

-----------------------------------------------------------------------------
Init ==
    /\ orders = [i \in Orders |-> Blank]
    /\ owned = Initial /\ held = Initial
    /\ entry = NoEntry /\ exit = NoExit /\ stage = NoStage /\ owners = <<>>
    /\ signals = {} /\ engine = Idle /\ cleaner = CleanerIdle /\ exempt = FALSE

FillCheck(i) == Poll(i) \/ Retire(i) \/ Drain(i)

EngineStep ==
    \/ OnOrder \/ Post \/ Answered \/ ExemptCancel \/ FallbackCancel \/ FallbackInquiry
    \/ BuyCancel \/ BuyInquiry

Next ==
    \/ \E i \in Orders : Execute(i) \/ EndsThere(i) \/ FillCheck(i) \/ OnFill(i)
    \/ \E kind \in {"buy", "part", "full"} : OnSignal(kind)
    \/ EngineStep \/ StaleSell \/ StaleBuy
    \/ ExitCheck \/ CleanerStarts \/ CleanerCancel \/ CleanerInquiry
    \/ BecomesExempt

Spec == Init /\ [][Next]_vars

\* The tasks go on, signals of other symbols keep coming, and the exchange ends
\* every order some day.  Signals of the queue are taken in their order
\* (EventQueue).  Three minutes that are over stay over: the cleaner is not put
\* off by orders that come and go.
Fairness ==
    /\ \A i \in Orders :
          /\ WF_vars(FillCheck(i)) /\ WF_vars(OnFill(i)) /\ WF_vars(Execute(i) \/ EndsThere(i))
    /\ \A kind \in {"part", "full"} : SF_vars(OnSignal(kind))
    /\ WF_vars(EngineStep) /\ WF_vars(StaleSell) /\ WF_vars(StaleBuy)
    /\ SF_vars(CleanerStarts) /\ WF_vars(CleanerCancel \/ CleanerInquiry)

FairSpec == Spec /\ Fairness

-----------------------------------------------------------------------------
(* Properties *)

Posted(i) == engine.at = "sent" /\ engine.id = i /\ engine'.at = "posted"

\* A fallback of a partial sell reaches the exchange only when no other sell of
\* the symbol may still execute there: the stage is not sold twice.
NoFallbackOverLive ==
    [][\A i \in Orders : Posted(i) /\ engine.intent =>
          \A j \in Orders : Live(j) => ~IsSell(j)]_vars

\* Every pending of a symbol, which blocks its stop loss, is released some day,
\* whatever cancellations and inquiries fail.
PendingEnds ==
    /\ entry.on = "listed" ~> exempt \/ entry.on # "listed"
    /\ exit.gen # 0 ~> exempt \/ exit.gen = 0

\* A partial sell reaches the exchange only when no other sell of the symbol is
\* live (comment on the mark in _check_exit_signal).
NoPartialOverLive ==
    [][\A i \in Orders : Posted(i) /\ orders[i].part =>
          \A j \in Orders : Live(j) => ~IsSell(j)]_vars
=============================================================================
