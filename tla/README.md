# A verification project for qwq-ai-trader

TLA+ modules of the order and fill path of the trading bot and of the shared
resources around it (event queue, request limiter, quote socket, budget of the
language models), the TLC runs that check them on small instances, and TLAPS
proofs.
`PROJECT.json` lists every component, run, property, hazard and the source
lines each definition stands for. Paths below are relative to the repository
root; `kis_kr.py` is `src/execution/broker/kis_kr.py`, and so on.

## 1. The system and its parts

One Python process (`scripts/run_trader.py`) runs an asyncio event loop:
strategies emit signals, the engine turns them into orders, the broker sends
them to the Korean exchange through the KIS REST interface, a scheduler task
polls for executions and hands them back to the engine, and another task
overwrites the portfolio with the broker's balances every 30 s. State that must
outlive the process is in an SQLite file and a JSON file.

| Part | State | Operations | What makes it correct |
|---|---|---|---|
| **Execution ledger** `execution/execution_ledger.py` | sessions and orders of one account in a file, shared by processes; a fault per process | open, intent, accepted, outcome, observe, receipt, acknowledge, close | a session that lost the file changes nothing; shares go out once; a clean end leaves nothing open; every unclean end is reported until acknowledged |
| **Execution history** `execution/execution_history.py` | cached snapshot, `fault`, opened, closed | open, one method per ledger operation, hold, pending_handoffs, close | the gates read a current snapshot or hold; a fault never ends clean |
| **Process lock and acknowledgement script** `utils/trader_lock.py`, `scripts/ops/acknowledge_execution_ledger.py` | an flock | start, acknowledge, exit | the operator never takes the session of a running bot |
| **Order submission** `kis_kr.py` submit_order, `_api_post`, disconnect | coroutine per order; `keys`; `_execution_closing` | the steps between its awaits | intent before POST, one POST per intent, holds asked again before each POST |
| **Unknown-order book** `risk/order_unknown.py` | entries of one day, in memory and in a file | record, roll, hold at restart | an order that may be live holds the next ones |
| **Fill observation** `kis_kr.py` check_fills, cancel_order | `_pending_orders`, `filled_quantity`, `_FillObservation` | poll, per-row observe, cancel, retire | every executed share becomes one fill |
| **Fill handoff** `kr_scheduler.py` run_fill_check, `_drain_fill_handoffs`; `engine.py` on_fill | handoff records, journal receipts | hand, drain, post-process, settle, return, acknowledge | applied and processed once, acknowledged when certain |
| **Portfolio sync** `kr_scheduler.py` `_sync_portfolio` | reconciliation token | begin, read, apply | never overwrites a fill on its way |
| **Request limiter** `utils/kis_rate_limit.py` | call window, owner of the ledger slot | acquire, release, rejections | one ledger call at a time; a late answer frees no one else's slot |
| **Event queue** `core/engine.py` emit, run; `core/event.py` | a heap, and the one loop that empties it | emit, emit_many, purge, take, handle | fills and orders are never dropped and come before every signal |
| **Pending orders and fallback** `core/engine.py` RiskManager, `kr_scheduler.py` exit pendings, `exit_manager.py` pending stage | three memories of one order under way, in three parts, besides the broker's table | signal, order, fill, stale sell and buy, cleaner, exit check | no stage is sold twice; no pending blocks a symbol for ever |
| Order modification `kis_kr.py` modify_order | lineage of order numbers | modify, transfer of observation | (nothing calls it) |
| Exit manager `strategies/exit_manager.py` | stages of a position, file | partial exits, stops | a stage runs once |
| US broker and scheduler | as KR, without the ledger | as KR | as KR |
| **LLM budget** `utils/llm_budget*.py` | SQLite reservations and a file lock for each, shared by processes | reserve, settle, abandon, status, reconcile | what is charged stays within the limit; orphans stay counted |
| **Quote subscription** `data/feeds/quote_subscription.py`, `kis_websocket.py` | per-channel Registration, generation, demand | enroll, set_operational, maintain, handle_ack, start, stop | the cap of the exchange holds; an ACK belongs to the request it is taken for |
| Token manager | shared token file | renew | one renewal per expiry |
| Strategies, signals, agents, experts, analytics, evolution, dashboard, storage, providers | scores, reports, caches | - | data computations outside the order protocol |

Interaction along one order: `submit_order` writes the intent to the history,
POSTs, writes the answer; `check_fills` writes each cumulative report and
returns fills; `run_fill_check` gives them one by one to the engine, writes the
receipt `portfolio_applied`, post-processes, waits for the journal's receipt,
writes `handoff_returned` and acknowledges to the broker; only then is the
reconciliation token available again to `_sync_portfolio`, and the session may
be closed clean. The behaviours that are hard: coroutines that interleave at
every await, cancellation while a worker thread commits, answers of the
exchange that are lost, repeated or stale, a process that dies anywhere, a
second process on the same file, a journal that answers late or never, two tasks
that release the same pending, a lock whose freedom means that a process died.
They are listed with their lines under "hazards". Parts in bold are modelled.

## 2. Modules

```
ShareDelivery           abstract: every reported share handed over once
   ^ refined by
ExecutionLedger         the file, its sessions and orders
   |
   v
ExecutionHistory        + the bot's cache, the lock, the operator
   |            \        ExecutionHistoryProofs: ledger, refinement, history
   v             v
OrderSubmission  FillHandoff         OrderSubmissionProofs, FillHandoffProofs:
(+ the book,     (+ exchange,        each refines ShareDelivery too
 the exchange)    fill check, engine,
                  journal, portfolio sync)

EventQueue   PendingOrders   KisRateLimit   LlmBudget   QuoteSubscription
   each with its callers, tasks and the exchange or server it talks to, and
   each with a module of proofs of that name: EventQueueProofs, PendingOrdersProofs, ...
```

* **ExecutionLedger**. `sessions` is the file's dictionary of sessions in its
  insertion order, `orders[k]` the record of one order key; `own[p]` and
  `fault[p]` are the memory of process `p`. Each operation is `Writer` or
  `Owns` (the checks at the head of `_apply`), the operation's own checks, its
  assignment, and `Commit`: the transaction ends well, or raises after the
  commit (fsync, cancelled await), which latches `fault`. `StorageFault` is a
  transaction that raised before it. An execution is the half-open range
  `from..to` of shares that `_observe` derived from a cumulative report,
  with its two receipts.
* **ShareDelivery** says what an order promises of its shares: reported in
  order, and each one advances from new to applied to returned.
  `ImplementsShareDelivery` is that specification under the mapping
  `StageOf`.
* **ExecutionHistory** adds the cache. `_write` is two steps, the ledger call
  and the snapshot; `writing` names the task between them. `hold`,
  `pending_handoffs` and `session_recorded` are the operators `Hold`,
  `PendingHandoffs`, `SessionRecorded` over the cached snapshot.
* **OrderSubmission** gives each order its coroutine `pc[k]`. `alive[k]` is
  the exchange's truth. `Gate` is what `submit_order` and `_api_post` both
  demand; refusals that depend on nothing modelled (kill switch, market hours,
  hashkey) may come at any time. `book` and `bookFile` are the entries of the
  day, without symbols: all orders of the model have one symbol. `kind` says of
  each order whether it is a buy, a partial or a protective sell. `UsesHistory`
  is the specification of ExecutionHistory: each step of the submission is a step
  the history allows, or leaves it alone.
* **FillHandoff** has one order symbol, buys only. `broker[k]` is an order's
  place in `_pending_orders`, its counters and its fill observation;
  `fills` keeps each `Fill` with its event and its handoff; `at`, `now`, `row`,
  `todo` are the program counter of `run_fill_check`; `calls` the order
  activity under way. `sync.valid` is the comparison of tokens: it becomes
  false as soon as one of the `Generations` moves.

* **KisRateLimit** stands alone. Time is counted in ticks and each time stamp of
  the module is kept as its age (`ledgerLast` may be negative: a refusal moves
  it into the future), so that the state space is finite. Each round of
  `acquire`'s loop awaits nothing before it sends or sleeps, and is one step,
  `Sleep` or `Send`; `Wait` is its elif chain. `Tick` may come at any time: a
  sleep may be overslept, an answer may take any time or never come.
  `answered` and `rejected` are history variables for the properties.

* **EventQueue**. The queue is a set of events of six kinds, a kind for each
  priority and the critical ones; the heap's order is `Before`, with a stamp for the
  time. `Purge` and `Fit` are the two halves of the code at saturation; the single
  emission and the batch differ as in the code (a single event always enters).
  The loop's handler is awaited: emissions may come between `Take` and
  `HandlerEnds`.
* **PendingOrders** has one symbol. `entry` is the symbol's row in the pending maps of
  the engine's RiskManager, `exit` the scheduler's exit pending with the mark of a
  partial sell and the cleaner's memory of it, `stage` the ExitManager's pending
  stage, `orders[i]` an order at the exchange, in the broker's table and in its
  fill observation. `engine.at` and `cleaner.at` are the program counters of the
  two tasks that await the broker; `gen` fields are registration times, which the code
  compares after an await. A `ghost` entry is one whose maps were written again after
  its pending was released. The mark of a partial sell is a registration time of its own,
  because a fill that ends an exit pending (kr_scheduler.py:3170-3173) and the exits at the end of the day
  (1056, 1088) leave it: a round of the cleaner that finds a cancelled order compares its
  pending with the mark alone (915-933) and may release one that was registered since, unlike its
  other ends (832, 942), whose comments ask for the comparison. `CleanerCancel` does the same;
  no property fails by it, because the release only lifts a block. Numbers of orders and registration times are used again
  when nothing remembers them.
* **LlmBudget**. `rows` is the table of reservations with their certificates,
  `owner[t]` the process that holds the file lock of a reservation, `probing[p]` the
  lock that a `status()` of another process holds for a moment. `charge[t]` is
  the provider's truth. A transaction is one step, because `BEGIN IMMEDIATE`
  excludes the others; a failed COMMIT may have been written.
* **QuoteSubscription**. `slots[c]` is the Registration of a channel, `job` the
  `_reconcile` of the lock's holder (`job # None` is `_lock` held), `heard` the answer
  whose handler waits for `send_completed`. `wire`, `answers` and `exchange` are
  the requests and answers under way and the server's registrations. `stop` is two
  steps: the reconciliation task is cancelled before the lock is taken.

`MC*.tla` give the constants their small values; no definition of a module is
replaced in a `.cfg`.

## 3. The runs

| Run | Instance | What it shows |
|---|---|---|
| LedgerFencing | 2 processes, orders of 2 shares and of 1 on one day, 2 broker numbers, 2 sessions | fencing, clean ends, reporting of unclean ones, order numbers; cumulative reports in every cutting; refinement of ShareDelivery |
| Submissions | 2 orders, either two buys over 2 days or a partial and a protective sell; 3 sessions | cache, fault, lock and hold of the history under its real user; no send without intent, twice, past the book, over a buy lost in a crash or after a clean end |
| FillsOfOneOrder | 1 order of 2 shares, 1 journal attempt, under fairness | the path of a fill from exchange to acknowledgement, with cancellation and sync; no observation is dropped before its shares are delivered; every handoff ends |
| FillsOfTwoOrders | orders of 2 and 1 shares, no journal attempt, no disturbances | no buy goes out over another's unresolved cancellation |
| LedgerCalls | 2 ledger inquiries (one with the longer gap) and a quote, 4 requests in all, window of 2, under fairness | one ledger call at a time up to the stale release, rests after answers and refusals; lost answers never block the limiter |
| PendingOrders | 2 orders at a time, 2 shares held, buys, partial and full sells, all mishaps | the engine's fallback never sells a stage over a live sell |
| PendingEnds | the same without buys from elsewhere, 1 fallback, under fairness | every pending is released |
| EventQueue | capacity 2, batches of 2, 5 stamps, under fairness | nothing critical is dropped, overtaken by a signal, or starved |
| LlmBudget | 3 reservations of 1 or 2 units, limit 2, 2 processes, 2 months | charges within the limit; only the owner or, once it is gone, the operator resolves a reservation |
| QuoteSubscription | 2 channels for 1 registration, 2 connections, 1 repeated answer, under fairness | cap, truth of the coordinator's belief, needed channels kept, requests settled |
| BuyPastUnknown | two buys, 1 session | the first disagreement below |
| PartialOverLive | as PendingOrders, nothing fails | the second |

Why the bounds are enough: fencing, inheriting `prior_unclean` and
acknowledging are about a session and its predecessor (2), a crash of the bot
about the one before as well (3);
duplicate order numbers, one buy against another's unknown answer and one
cancelled order against a new buy need two orders; a cumulative report
that skips or regresses needs an order of two shares, and a fill in flight
while a second arrives needs two on the way to the portfolio. The journal's
attempts (`JOURNAL_RESOLVE_ATTEMPTS` = 2 in the code) are 0 and 1 in the runs: the
second lookup repeats the first. `MaxDay` bounds the calendar, `MaxSessions`
the starts of a process. `Disturbances` names what a run of FillHandoff leaves
to chance besides the path of the fills: faults of the history, the portfolio
synchronisation, the end of the run. FillsOfOneOrder has all of them;
FillsOfTwoOrders has none, because a fault holds every later buy anyway and the
synchronisation neither sends orders nor touches observations. The limiter's
intervals keep in ticks the order they have in the code (poll, window, pause,
`LEDGER_MIN_INTERVAL`, hold after refusal, balance interval, stale timeout); a window
of 2 is full as soon as two requests follow each other at `MIN_GAP`. In
PendingOrders two orders are one and its fallback, or a full sell over it; one
share of two is the smallest partial sell. The code's limits `_MAX_FALLBACK` = 2,
`_MAX_EXIT_UNKNOWN` = 2, `_MAX_BUY_KEEP` = 15 are 2 (1 in PendingEnds), 1 and 1: the
rounds between the first and the last repeat each other. An event queue of two overflows by a
single event and by a batch, and has half its capacity left. Three
reservations are one that blocks, one in flight and one that asks; two
channels for one registration are the smallest that compete. A later connection differs
from the first only in what it finds left over (2).

The deadlock check is off in the runs of EventQueue (stopped, and all stamps used)
and PendingOrders (nothing held and nothing under way). Elsewhere it is on: a
process can always end or start, and a broker can always be asked again.

### Disagreements between comments and code

* **BuyPastUnknown**. The comment before the last checks of `_api_post`
  (kis_kr.py:619-621) says that a buy which waited is not sent when another buy
  became unknown meanwhile. `submit_order` awaits the ledger's write of
  `unknown` (kis_kr.py:883) before `_record_unknown` (885) enters it in the
  book; a second buy that reaches its check in between is sent. The window is
  one ledger write; afterwards both the ledger and the book hold
  (`BookHoldsBuys`).
* **PartialOverLive**. kr_scheduler.py:1113-1114 and 1135 say that a partial
  sell is not issued again over a live order. `_fallback_stale_sell` checks that
  its pending is still the same after each of its awaits but the last one,
  `submit_order` (engine.py:2573). While the answer to the fallback is awaited,
  its order is at the exchange and not yet in the broker's table; the cleaner,
  whose three minutes end about when the second fallback starts, sees no order
  of the symbol, clears the pending and rolls the stage back; the exit check
  registers the same partial exit anew, and the answer then writes the order
  number and the fallback count into the maps of the new pending, or of
  none (2574-2579). Both sells are within the shares held, so that the exchange takes both.
  `NoFallbackOverLive` shows that the fallback itself keeps the rule.

### Fairness

`FairLimitSpec` (LedgerCalls) assumes that time passes and that the event loop
wakes a task whose sleep is over; of the gateway nothing. `acquire` has no queue,
so that the property is about a bounded number of competing requests.

`FairHandoffSpec` (FillsOfOneOrder) assumes weak fairness of the fill
check, of the engine's processing, of the snapshot that follows a commit, and of
the journal's thread: the event loop runs every ready task, an `asyncio.to_thread`
snapshot returns, the engine is not paused, and the journal's lookup has a time
limit of 5 s. Nothing is assumed of the exchange, of orders, of cancellations or
of the synchronisation. A fill that the engine refuses for good (`portfolio_applied`
stays false) is excepted: the code keeps its handoff for ever and defers every
synchronisation, which is its intention (the position needs a human).

`FairSpec` of EventQueue assumes that the loop takes events and that handlers
return; each await of theirs has a time limit. Emissions are free. The stamps
are bounded, so that finitely many events compete.

`FairSpec` of PendingOrders (PendingEnds) assumes weak fairness of the fill check, of
each event the engine has, of the two inquiring tasks, and that the exchange
ends or executes each order some day (day orders). It assumes strong fairness of two
things: a signal of the exit check is taken although fills come first (the
queue is finite and CriticalTaken shows that nothing critical stays), and the cleaner starts although the
registration it looks at comes and goes (three minutes that are over stay over).
Full sells from other tasks without end are not among the signals of this run:
they may keep the pending of the symbol occupied, each with an order of its own.

`FairSpec` of QuoteSubscription assumes that requests end by their time limit and
that `asyncio.Lock`, which serves its waiters in order, lets the maintenance (each
second) and the stop in. Nothing is assumed of the server.

## 4. The proofs

Everything below is proved for every value of the constants that the `ASSUME`s of the
modules allow. The inductive invariants of FillHandoffProofs, PendingOrdersProofs and
the sums of LlmBudgetProofs held in TLC on the instances of the runs before they were
proved.

The first part of `ExecutionHistoryProofs` proves, for any finite or infinite set of keys, processes
and numbers, any sizes of orders and any `MaxSessions`, from the assumptions
declared in `ExecutionLedger`:

* `LedgerTyped`: `Spec => []TypeOK`
* `LedgerHandsSharesOnce`: `Spec => []SharesHandedOnce`
* `LedgerCleanMeansSettled`: `Spec => []CleanMeansSettled`
* `LedgerNoUnreportedPast`: `Spec => []NoUnreportedPast`

They follow from one inductive invariant, `Consistent` (`LedgerConsistent`),
with three parts. `RecordOk` speaks of one order record: its executions tile its
observed quantity, a final quantity is the observed one, nothing is observed
without a broker number. `SessionsOk` relates orders to sessions: a record
belongs to a session that exists; in a session that is vouched for (clean or
acknowledged) every order is resolved or acknowledged; a last session without
`priorUnclean` has only such sessions before it. `TypeOK` is the third.
`CleanMeansSettled` and `NoUnreportedPast` are not inductive alone: `Open` lets
a session start without the flag when every earlier one is vouched for, so what
that says of their orders must be known, and an order of a settled session stays settled only because the writer's
session is the last one and not clean. The proof has a lemma for each rule on a
record (`AcceptedOk`, `OutcomeOk`, `ObservedOk`, ...) and a step for each
operation.

What a step may never do follows in the same module from `Consistent` and the
lemma `StepOfOrder` (a step leaves an order alone, adds the operator's mark, or is
the latest open session's and lets the record grow):

* `LedgerHistoryOnlyGrows`: `Spec => HistoryOnlyGrows`
* `LedgerPastIsFrozen`: `Spec => PastIsFrozen`
* `LedgerOdnoNamesOneOrder`: `Spec => []OdnoNamesOneOrder`

The refinement is `LedgerImplementsShareDelivery`: `Spec => ImplementsShareDelivery`.
Because the executions of an order tile its observed quantity, the `CHOOSE` of
`StageOf` has exactly one candidate (`StageOfCovered`), so the stages after a step can
be read off the executions: `_observe` and the outcomes that settle an order are a
`Report`, a receipt that is new is an `Advance` of its execution's shares, everything
else is a stutter (`StepDelivers`). It needs one more invariant, `Within`
(`LedgerWithin`): no more shares are observed than were ordered.

The second part of `ExecutionHistoryProofs` carries the ledger's invariant to the bot's cache. The lemma
`HistoryIsLedger` shows that each step of `HistNext` is a step of the ledger or leaves
it alone, so `Consistent` needs no second proof; what is added (`Inv`) is that only
the holder of the lock has memory of the ledger and its session is the newest
(`Locked`, `Latest`), that the history without a bot is as at its start (`AtRest`), and
what the cache may lag by (`Behind`: the one order whose operation is being recorded, or
a fill, which keeps session and status). `Behind` is what makes the gates provable:
`SnapshotIsCurrent` says nothing while `_write` awaits its snapshot, and `HoldIsSound`
has to hold then as well.

* `HistoryUsesLedger`: `HistSpec => Spec`
* `RunningBotIsNewest`: `HistSpec => []BotIsNeverFenced`
* `GatesReadTheFile`: `HistSpec => []SnapshotIsCurrent`
* `HoldGuardsTrading`: `HistSpec => []HoldIsSound`
* `FaultLeavesHold`: `HistSpec => FaultNeverEndsClean`

`OrderSubmissionProofs` proves that the submission uses the history by its operations alone
(`SubmissionUsesHistory`: `SubmissionSpec => UsesHistory`, a step simulation without any
invariant), so that all of the above holds of its behaviours, among it the refinement
(`SubmissionDelivers`: `SubmissionSpec => ImplementsShareDelivery`), and every property that the
run Submissions checks, for any orders, numbers, days and restarts:

* `SubmittedOnce`: `SubmissionSpec => []SentAtMostOnce`
* `IntentIsDurable`: `SubmissionSpec => IntentBeforePost`
* `CleanEndIsFinal`: `SubmissionSpec => NoPostAfterCleanEnd`
* `BookStopsOrders`: `SubmissionSpec => BookHolds`
* `LostBuyHolds`: `SubmissionSpec => NoBuyOverLostBuy`

The invariant `SubInv` adds to that of the history: `TaskOk` (a task that may still send has
sent nothing yet, its key is in `history.keys`, and its intent is durable or it is a
protective sell), `Resting` (no task without the bot), `ClosingOk` (only a final disconnect
ends a session clean) and `BookOk` (the memory of the book includes the file's entries of
the day, and those of the buys that an earlier run left at the exchange). The predicate `Quiet`
carries what is recorded across the other tasks' steps; an order that has a row keeps
its session because each rule of `_apply` does.

`FillHandoffProofs` proves every safety property of the two fill runs, for any orders,
quantities, journal attempts and disturbances:

* `SharesCountedOnce`: `HandoffSpec => []HeldAtMostExecuted`
* `TokenMeansSettled`: `HandoffSpec => []IdleMeansSettled`
* `PostProcessedOnce`: `HandoffSpec => []ProcessedOnce`
* `IncrementsLoseNothing`: `HandoffSpec => []NoShareLost`
* `CleanEndIsSettled`: `HandoffSpec => []CleanEndMeansDelivered`
* `NoBuyPastCancel`: `HandoffSpec => NoBuyOverUnresolvedCancel`
* `HandoffDelivers`: `HandoffSpec => ImplementsShareDelivery`, and `HandoffOnlyGrows`

Besides the assumptions of the modules it uses there is `RunAssumption`, `MaxSessions # 0`:
the run that is modelled has its session. Each step of the handoff does to the history
what one of its operations does, or latches its fault (`HandoffUsesHistory`), so the
history's invariant is kept and the refinement follows from the ledger's. What has to be added,
`IHInv`, follows a share along its way:

* `Watched`: what the exchange has executed, what its last answer said, and what the broker
  has counted, in that order of size; an observation that was dropped was final
  and acknowledged in full. `LookingOk` says it of the rows the check is at.
* `Called`: which awaits of `submit_order` and `cancel_order` can be under way for
  an order, and what the ledger can say of it then. An answer that is written after
  a fill was written is what this excludes or allows.
* `Pieces`: the fills of an order cut its counted quantity without gap or overlap; a fill
  that was processed was applied. `DrainOk`: the fill that the drain is at.
* `LedgerMatches`: each named fill has its execution in the ledger; an execution whose
  receipt was returned was post-processed, with a certain journal entry; a fill without
  a name is one whose record failed, and the fault holds.
* `Shares`: of what the broker has counted of an order, the portfolio lacks the fills that
  the engine did not take, and the broker's acknowledgement lacks those that are
  not done. (An order whose acceptance the bot does not know of may come into the portfolio
  by a synchronised balance, up to what was executed.) The sums are over
  fills whose number grows; they are stated as the existence of a function of growing
  partial sums (`SumIs`), which carries over from step to step without an induction,
  with one lemma for each use (a summand is added, drops out, is none).
* `SyncOk`: with a valid token, the balance that a synchronisation has read is that of
  the portfolio. `Clean`: a clean end left nothing of the above open.

`SharesCountedOnce` is not inductive without all of these: what is held is bounded by
what was counted, which needs the sums, which need that a fill is applied once, which needs
the event's state, the receipt and the drain's place; and a synchronisation may
overwrite what is held, which is sound only because its token is invalid as soon
as a fill, a call or an observation moves.

`EventQueueProofs`, for any bound: `OverflowBounded` (`[]OverflowIsCritical`, with
the types inductive by itself: a purge leaves either places for what comes or nothing
that it could drop), `CriticalNeverDropped` and `OrdersBeforeSignals`.

`KisRateLimitProofs`, for any tasks and any gaps, time limits and windows that
`LimitAssumption` allows: `InquiriesAreSerial` (`[]LedgerSerial`) and `LedgerAlwaysRests`. The
invariant `Serial` ties the module's `busy` slot to the tasks: an inquiry without an
answer owns the slot, or was given up for stale; `Rest` bounds the ages of the last
answer and of the last refusal from below by the age of `ledgerLast`, which `acquire` compares.

`PendingOrdersProofs`, for any number of orders and shares and any mishaps:
`FallbackIsAlone` (`Spec => NoFallbackOverLive`). The invariant `PInv`
(`PendingInvariance`) says that the broker's table misses no order that is live at the
exchange but the one whose answer the engine awaits (`Known`), and that a partial
sell which is about to be sent again is sent when no sell is live (`Alone`). The first
is why a cancellation of all that the table holds, or an inquiry at the exchange,
is as good as the truth; it fails in the one place that PartialOverLive shows, and
only the engine's own `posted` order is then missing, which the engine does not overtake.

`LlmBudgetProofs`, for any processes, any finite set of reservations, any sizes and months:

* `LiveIsLeftAlone`: `Spec => []LiveIsReserved`. An orphan is a reservation without an
  owner, so writing orphans down, reconciling, or another process's death never
  touches a live one.
* `LimitHolds`: `Spec => []ChargesWithinLimit`. No counter holds what the property
  is about: `reserve` sums the rows it finds. The invariant bounds what the rows of
  a month may still cost (`Within`): a reserved or unknown row its whole bound, any other
  its charge up to that bound. `Costs` ties rows and charges: a settled row
  knows its charge, a released one or one that was never sent has none. The
  library states nothing of sums over sets; the module proves what is needed of them
  (`SumTaken`: a sum is an element and the rest, whichever element that is;
  `SumCovered`: a sum that is covered by two others summand for summand is within
  theirs), by the least number of elements for which it fails, since the induction theorems
  cannot be used.

`QuoteSubscriptionProofs`, for any finite set of channels, any cap (none left by the reservation included), connections and
repeated answers:

* `SessionWithinCap`: `Spec => []WithinCap`
* `BeliefCorrect`: `Spec => []BeliefIsTrue`
* `NeededNeverReleased`: `Spec => NeededIsKept`

Their invariant has a part for the socket (`SocketOk`: the slots that are not free are
within the cap; the reconciliation's locals agree with the slots) and one for each
channel (`ChannelOk`: which requests and answers can be under way in each status). The
second is what rules a confused answer out: in one connection a channel is subscribed
once and unsubscribed after it, so an answer that comes late or twice still says what is
true, and a released channel is retired until the next connection.

Only model-checked: what needs fairness, because liveness and ENABLED are out of the
prover's reach: `HandoffsEnd`, `EveryRequestIsSent`, `PendingEnds`, `CriticalTaken`,
`PendingSettles`. Every other property of a passing run has its theorem.

## 5. What is left out, and why

* Prices, average costs, fees and symbols: no property tells them apart. The
  evidence checks on average prices only fault the history, which may happen at
  any step (`RefuseWrite`, `CallFails`, `Fail`).
* `modify_order` and the lineage of order numbers: no caller in the repository
  but tests. TEMP numbers are answers of unknown outcome (`recTemp`).
* In FillHandoff: the opening of the session and its predecessors (Init is the
  bot after `connect()`; ExecutionHistory has them), sells, orders whose answer is
  unknown are never polled, and what `_complete_fill_handoff` does inside is
  one step that may fail half way.
* The JSON schema of the ledger, its checks at the opening and the damaged book file.
* In KisRateLimit: the retries of `_api_get` are further requests of the task; the
  sleeps between them, the token recovery and the counters for the log are left out.
  Two readings of the clock exactly one second apart are taken not to occur:
  `acquire` would then wait 0 s for the window and pass over the ledger's checks.
* In OrderSubmission: other processes that write the book. The order scripts
  (`liquidate_all.py:193`, `sell_specific.py:56`) hold the bot's lock while they
  trade, so they write between two runs only, and the merge of `record` under its flock
  (order_unknown.py:80-92) has nobody to merge with during a run. A save of the book
  that fails is not modelled either: `BookHolds` speaks of what was saved.
* In EventQueue: `pause`, which nothing calls, and events of the same time stamp.
  A batch with a critical event is of one event, as the handlers return them (one of
  several would leave more droppable events above the bound). A stamp is taken at the
  emission; the code's is that of the event's creation.
* In PendingOrders: other symbols (their signals and heartbeats are what makes
  `StaleSell` possible at any time), reserved cash, `block_symbol`, the auction
  hours, the verifier's await inside `maybe_expire_pending` (one step with the exit
  check), the cleaner's 15 minutes after exceptions (the broker returns 0 instead), orders of unknown acceptance
  (OrderSubmission has them), the restart with an empty memory. Partial sells come from the
  exit check alone; the position monitor (batch_analyzer.py:1942-1967) asks the same
  `update_price`, whose pending stage admits one of the two, but registers no exit
  pending. A fill belongs to the pending of its order number, as in the code. The
  cleaner's list of overdue symbols is as old as its first await, so that with several
  symbols it may meet a pending that has just been registered.
* In LlmBudget: the policy's modes and its outbox of notices, the price list,
  `missing_cost_policy: log_and_continue`, which gives the limit up for lost costs.
* In QuoteSubscription: bundles of channels per lease, the static pilot lease, the
  order-ready admission's journal, the frames of data.
* Components with status `not_modelled`; the reason is beside each.

Most of the repository's lines are in parts that keep no order state (screeners,
strategies, reports, research scripts, dashboards): the map covers the protocol
code and leaves those out on purpose.

## 6. Plan

Done: all modules of section 2. What would add most next:

1. Composition of EventQueue and PendingOrders: the engine's queue in place of
   `Ready` and `signals`.
2. The policy of the LLM budget: each transition gives one notice, taken once.
3. Exit stages with their file over a restart, and the US broker as far as it adds
   behaviour to the above.
4. Proofs about what comes with these: that the composed queue refines the engine of
   PendingOrders, and that a notice of the policy is taken once.
