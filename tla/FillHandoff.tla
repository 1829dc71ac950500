---------------------------- MODULE FillHandoff ----------------------------
(***************************************************************************)
(* From an execution at the exchange to a position of the bot.             *)
(*                                                                         *)
(*   exchange -> KISBroker.check_fills -> engine.track_fill -> on_fill     *)
(*            -> _drain_fill_handoffs -> acknowledge_fill                  *)
(*                                                                         *)
(* The fill check (kr_scheduler.run_fill_check) is one coroutine: it polls *)
(* the exchange's cumulative quantities, has each increment recorded by the*)
(* execution history, hands the fills to the engine one at a time and      *)
(* drives their handoffs.  The engine applies a fill in its own task, the  *)
(* journal commits in a thread, orders are placed and cancelled, and       *)
(* _sync_portfolio overwrites the positions with those of the exchange     *)
(* when its reconciliation token says that nothing is under way.  A step is*)
(* what one of these does between two awaits.                              *)
(*                                                                         *)
(* One run of the bot, whose session is open; all orders are buys of one   *)
(* symbol.  Modified orders, and identities that cannot be verified, only  *)
(* keep an order unresolved or fault the history (Fail), and are left out. *)
(***************************************************************************)
EXTENDS ExecutionHistory, FiniteSetsExt

CONSTANTS
    Attempts,     \* JOURNAL_RESOLVE_ATTEMPTS
    MaxFills,     \* the fills that HandoffsEnd follows
    Disturbances  \* bound on what disturbs an instance: faults of the history,
                  \* _sync_portfolio, the end of the run

ASSUME AttemptsAssumption == Attempts \in Nat /\ MaxFills \in Nat
ASSUME DisturbancesAssumption == Disturbances \subseteq {"fault", "sync", "end"}
ASSUME RunAssumption == MaxSessions # 0    \* the session of this run

VARIABLES
    exch,      \* the exchange: executed shares of an order, and whether it lives
    broker,    \* _pending_orders, Order.filled_quantity and _fill_observations
    calls,     \* submit_order and cancel_order under way: <<order, what it awaits>>
    fills,     \* the fills of this run, with their event and handoff
    held,      \* shares of each order in the portfolio
    at,        \* what run_fill_check is doing ...
    now,       \* ... at this fill of the handoffs
    row,       \* ... with the row of this order
    todo,      \* ... and the rows of these orders left
    rows,      \* ... in this answer of the exchange
    handing,   \* _fill_handoff_active
    sync       \* _sync_portfolio

brokerVars == <<exch, broker, calls>>
loopVars == <<at, now, row, todo, rows, handing>>
handoffVars == <<brokerVars, fills, held, loopVars, sync>>
everything == <<vars, handoffVars>>

Fill == [key : Keys, from : Nat, to : Nat, named : BOOLEAN,
         applied : {"none", "applying", "yes", "no"},
         stage : {"new", "handed", "posted", "failed", "done"},
         journal : {"none", "pending", "resolving", "unknown", "committed", "unattributed"},
         tries : 0..Attempts, posts : Nat]

Size(f) == f.to - f.from

Calls == {"intent", "post", "sent", "accepted", "unknown", "rejected", "saved",
          "cancel", "cancelled", "canceled"}

-----------------------------------------------------------------------------
(* Reading the broker's state *)

Listed(k) == broker[k].place = "pending"

\* Variant for a mutation run: a cancelled order without fills is not looked at.
UnresolvedCancelFilled ==
    \E k \in Keys : broker[k].canceled /\ broker[k].watched /\ broker[k].filled > 0

\* has_pending_fill_observations and has_unresolved_cancel, for one symbol
UnresolvedCancel == \E k \in Keys : broker[k].canceled /\ broker[k].watched

Checking == at \in {"rows", "observing", "cancelRows", "cancelObserving"}

LiveHandoff(f) == f.stage \in {"handed", "posted", "failed"}

\* Variant for a mutation run: handoffs are not looked at.
IdleUndelivered ==
    /\ calls = {} /\ ~Checking /\ ~handing
    /\ \A k \in Keys : ~Listed(k)
    /\ ~UnresolvedCancel

\* _reconciliation_token is not None
Idle ==
    /\ calls = {} /\ ~Checking /\ ~handing
    /\ \A k \in Keys : ~Listed(k)
    /\ ~UnresolvedCancel
    /\ \A i \in DOMAIN fills : fills[i].applied = "yes" /\ ~LiveHandoff(fills[i])

\* What the generations in the token count.
Generations ==
    <<calls, Checking, handing, held, [i \in DOMAIN fills |-> fills[i].applied],
      {k \in Keys : broker[k].watched}>>

-----------------------------------------------------------------------------
(* Calls of the history.  who: the order, or "fill" for the fill check.     *)

\* The ledger committed, and the caller awaits the snapshot.
CommitFor(who) ==
    /\ AfterCommit(who)
    /\ fault'[Bot] => "fault" \in Disturbances
    /\ UNCHANGED <<holder, opened, closed, snap>>

\* It refused, failed, was cancelled, or is unusable.
CallFails ==
    /\ histFault \/ "fault" \in Disturbances
    /\ writing = Nobody
    /\ (~histFault /\ StorageFault(Bot)) \/ UNCHANGED ledgerVars
    /\ histFault' = TRUE
    /\ UNCHANGED <<holder, opened, closed, snap, writing>>

SnapshotOk == Refresh
SnapshotFails == "fault" \in Disturbances /\ RefreshFails

-----------------------------------------------------------------------------
(* The exchange *)

Execute(k) ==
    /\ exch[k].live
    /\ \E n \in (exch[k].cum + 1)..Quantity[k] :
          exch' = [exch EXCEPT ![k] = [cum |-> n, live |-> n < Quantity[k]]]
    /\ UNCHANGED <<vars, broker, calls, fills, held, loopVars>>

-----------------------------------------------------------------------------
(* submit_order and cancel_order *)

Turn(k, from, to) ==
    /\ <<k, from>> \in calls
    /\ calls' = (calls \ {<<k, from>>}) \cup {<<k, c>> : c \in to}

\* mark_unattributed_execution holds the buys of the symbol.
Unattributed == \E i \in DOMAIN fills : fills[i].journal = "unattributed"

Submit(k) ==
    /\ SessionRecorded /\ ~Hold(Keys) /\ ~PendingHandoffs(Keys) /\ ~Unattributed
    /\ broker[k].place = "none" /\ ~\E c \in Calls : <<k, c>> \in calls
    /\ calls' = calls \cup {<<k, "intent">>}
    /\ UNCHANGED <<vars, exch, broker, fills, held, loopVars>>

\* _api_post checks once more, sends, and the exchange takes the order or not.
\* A blocked order was not sent: its outcome not_sent is as final as rejected.
Post(k) ==
    /\ broker[k].place = "none"
    /\ \/ /\ SessionRecorded /\ ~Hold(Keys) /\ ~PendingHandoffs(Keys)
          /\ ~UnresolvedCancel /\ ~Unattributed
          /\ Turn(k, "post", {"sent"})
          /\ \E taken \in BOOLEAN : exch' = [exch EXCEPT ![k].live = taken]
          /\ broker' = [broker EXCEPT ![k].place = "off"]
       \/ Turn(k, "post", {"rejected"}) /\ UNCHANGED <<exch, broker>>
    /\ UNCHANGED <<vars, fills, held, loopVars>>

\* The answer.  Only an accepted order is listed and watched.
PostAnswered(k) ==
    /\ \/ /\ exch[k].live \/ exch[k].cum > 0
          /\ Turn(k, "sent", {"accepted"})
          /\ broker' = [broker EXCEPT ![k].place = "pending", ![k].watched = TRUE]
       \/ ~exch[k].live /\ exch[k].cum = 0 /\ Turn(k, "sent", {"rejected"}) /\ UNCHANGED broker
       \/ Turn(k, "sent", {"unknown"}) /\ UNCHANGED broker
    /\ UNCHANGED <<vars, exch, fills, held, loopVars>>

Cancel(k) ==
    /\ Listed(k) /\ ~\E c \in {"cancel", "cancelled", "canceled"} : <<k, c>> \in calls
    /\ calls' = calls \cup {<<k, "cancel">>}
    /\ UNCHANGED <<vars, exch, broker, fills, held, loopVars>>

\* The exchange cancels what is left, or there is nothing left to cancel.
CancelReached(k) ==
    /\ \/ exch[k].live /\ Turn(k, "cancel", {"cancelled"})
          /\ exch' = [exch EXCEPT ![k].live = FALSE]
       \/ ~exch[k].live /\ Turn(k, "cancel", {}) /\ UNCHANGED exch
    /\ UNCHANGED <<vars, broker, fills, held, loopVars>>

\* The order leaves the open ones, its counters stay watched; without an
\* answer cancel_order gives up and the order stays open.
CancelAnswered(k) ==
    /\ \/ /\ Turn(k, "cancelled", {"canceled"})
          /\ broker' = [broker EXCEPT ![k].canceled = Listed(k), ![k].place = "off"]
       \/ Turn(k, "cancelled", {}) /\ UNCHANGED broker
    /\ UNCHANGED <<vars, exch, fills, held, loopVars>>

\* The history call that ends a stage of submit_order or of cancel_order.
Recorded(k, c) ==
    CASE c = "intent"   -> Intent(Bot, k)
      [] c = "accepted" -> \E o \in Odnos : Accepted(Bot, k, o)
      [] OTHER          -> Outcome(Bot, k, c)

RecordCall(k) ==
    /\ \E c \in {"intent", "accepted", "unknown", "rejected", "canceled"} :
          \/ /\ MayWrite /\ Recorded(k, c) /\ CommitFor(k)
             /\ Turn(k, c, IF fault'[Bot] THEN {} ELSE {"saved"})
          \/ CallFails /\ Turn(k, c, {})
    /\ UNCHANGED <<exch, broker, fills, held, loopVars>>

\* After its intent an order is sent; every other call is over.
CallSaved ==
    /\ writing \in Keys
    /\ \/ /\ SnapshotOk
          /\ Turn(writing, "saved",
                  IF orders[writing].status = "intent" THEN {"post"} ELSE {})
       \/ SnapshotFails /\ Turn(writing, "saved", {})
    /\ UNCHANGED <<exch, broker, fills, held, loopVars>>

-----------------------------------------------------------------------------
(* check_fills *)

Goto(place) == at' = place

\* One increment of an order becomes a fill.
NewFill(k, named) ==
    [key |-> k, from |-> broker[k].filled, to |-> rows[k].cum, named |-> named,
     applied |-> "none", stage |-> "new", journal |-> "none", tries |-> 0, posts |-> 0]

Increment(k) == rows[k].cum - broker[k].filled

\* _retire_fill_observation
Retired(b) ==
    [b EXCEPT !.watched = @ /\ ~(b.terminal # NotTerminal /\ b.acked = b.terminal)]

\* What is known of k is now what the row says.
Counted(k, terminal) ==
    LET b == [broker[k] EXCEPT !.filled = rows[k].cum,
                               !.terminal = IF terminal THEN rows[k].cum ELSE @]
    IN  broker' = [broker EXCEPT ![k] = IF b.canceled /\ terminal THEN Retired(b) ELSE b]

\* Variant for a mutation run: an unrecorded increment is dropped.
TakeNamedOnly(k, named, terminal) ==
    /\ fills' = IF Increment(k) > 0 /\ named THEN Append(fills, NewFill(k, named)) ELSE fills
    /\ Counted(k, terminal)

\* The answer about k is taken over: its increment is a fill.
Take(k, named, terminal) ==
    /\ fills' = IF Increment(k) > 0 THEN Append(fills, NewFill(k, named)) ELSE fills
    /\ Counted(k, terminal)

\* Fully executed orders leave _pending_orders when check_fills ends its loop.
Delisted ==
    [k \in Keys |-> IF Listed(k) /\ broker[k].filled = Quantity[k]
                    THEN [broker[k] EXCEPT !.place = "off"] ELSE broker[k]]

\* A poll starts when an order is open or a cancelled one unresolved; the
\* open orders are asked for unless only cancelled ones are left.
Poll ==
    /\ at = "poll"
    /\ \/ /\ (\A k \in Keys : ~Listed(k)) /\ ~UnresolvedCancel
          /\ Goto("rest") /\ UNCHANGED <<rows, todo, handing>>
       \/ /\ \E k \in Keys : Listed(k)
          /\ handing' = TRUE
          /\ \/ Goto("hand") /\ UNCHANGED <<rows, todo>>     \* incomplete answer
             \/ /\ Goto("rows") /\ rows' = exch
                /\ todo' = {k \in Keys : Listed(k) /\ exch[k].cum > 0}
       \/ /\ (\A k \in Keys : ~Listed(k)) /\ UnresolvedCancel
          /\ handing' = TRUE /\ Goto("rows") /\ todo' = {} /\ UNCHANGED rows
    /\ UNCHANGED <<vars, brokerVars, fills, held, now, row>>

\* The row of an open order: nothing new, recorded first, or taken at once
\* when the history cannot record any more.
Row(k) ==
    /\ at = "rows" /\ k \in todo
    /\ todo' = todo \ {k}
    /\ \/ /\ ~Listed(k) \/ Increment(k) <= 0
          /\ UNCHANGED <<vars, broker, fills, at, row>>
       \/ /\ Listed(k) /\ Increment(k) > 0 /\ histFault
          /\ Take(k, FALSE, rows[k].cum = Quantity[k])
          /\ UNCHANGED <<vars, at, row>>
       \/ /\ Listed(k) /\ Increment(k) > 0 /\ MayWrite
          /\ Observe(Bot, k, rows[k].cum, rows[k].cum = Quantity[k])
          /\ CommitFor("fill")
          /\ IF fault'[Bot]
             THEN Goto("hand") /\ broker' = Delisted /\ UNCHANGED row
             ELSE Goto("observing") /\ row' = k /\ UNCHANGED broker
          /\ UNCHANGED fills
       \/ /\ Listed(k) /\ Increment(k) > 0 /\ CallFails
          /\ Goto("hand") /\ broker' = Delisted /\ UNCHANGED <<fills, row>>
    /\ UNCHANGED <<exch, calls, held, now, rows, handing>>

\* The snapshot after observe; a failure ends the whole check.
RowObserved ==
    /\ at = "observing" /\ writing = "fill"
    /\ \/ SnapshotOk /\ Take(row, TRUE, rows[row].cum = Quantity[row]) /\ Goto("rows")
       \/ SnapshotFails /\ Goto("hand") /\ broker' = Delisted /\ UNCHANGED fills
    /\ row' = Nobody
    /\ UNCHANGED <<exch, calls, held, now, todo, rows, handing>>

\* _check_canceled_fills asks for the orders of one day.
RowsDone ==
    /\ at = "rows" /\ todo = {}
    /\ broker' = Delisted
    /\ \/ /\ Goto("hand") /\ UNCHANGED <<rows, todo>>
       \/ \E d \in {OrderDate[k] : k \in Keys} :
             /\ todo' = {k \in Keys : /\ OrderDate[k] = d /\ broker[k].watched
                                      /\ broker[k].canceled /\ broker[k].terminal = NotTerminal}
             /\ todo' # {} /\ rows' = exch /\ Goto("cancelRows")
    /\ UNCHANGED <<vars, exch, calls, fills, held, now, row, handing>>

\* The row of a cancelled order; a failure leaves only this one unresolved.
CancelRow(k) ==
    /\ at = "cancelRows" /\ k \in todo
    /\ todo' = todo \ {k}
    /\ \/ /\ histFault /\ Take(k, FALSE, ~rows[k].live)
          /\ UNCHANGED <<vars, at, row>>
       \/ /\ MayWrite /\ Observe(Bot, k, rows[k].cum, ~rows[k].live)
          /\ CommitFor("fill")
          /\ IF fault'[Bot] THEN UNCHANGED <<at, row>>
                            ELSE Goto("cancelObserving") /\ row' = k
          /\ UNCHANGED <<broker, fills>>
       \/ CallFails /\ UNCHANGED <<broker, fills, at, row>>
    /\ UNCHANGED <<exch, calls, held, now, rows, handing>>

CancelRowObserved ==
    /\ at = "cancelObserving" /\ writing = "fill"
    /\ \/ SnapshotOk /\ Take(row, TRUE, ~rows[row].live)
       \/ SnapshotFails /\ UNCHANGED <<broker, fills>>
    /\ Goto("cancelRows") /\ row' = Nobody
    /\ UNCHANGED <<exch, calls, held, now, todo, rows, handing>>

CancelRowsDone ==
    /\ at = "cancelRows" /\ todo = {} /\ Goto("hand")
    /\ UNCHANGED <<vars, brokerVars, fills, held, now, row, todo, rows, handing>>

-----------------------------------------------------------------------------
(* The rest of run_fill_check: one fill at a time to the engine, and the   *)
(* drain of all handoffs, which also opens every round.                    *)

DrainFrom(i) == Goto("drain") /\ now' = i

Round ==
    /\ at = "rest" /\ DrainFrom(1)
    /\ UNCHANGED <<vars, brokerVars, fills, held, row, todo, rows, handing>>

NewOnes == {i \in DOMAIN fills : fills[i].stage = "new"}

\* The handoff is registered and the event emitted.
Hand ==
    /\ at = "hand"
    /\ IF NewOnes = {}
       THEN Goto("rest") /\ handing' = FALSE /\ UNCHANGED <<fills, now>>
       ELSE /\ fills' = [fills EXCEPT ![Min(NewOnes)].stage = "handed"]
            /\ DrainFrom(1) /\ UNCHANGED handing
    /\ UNCHANGED <<vars, brokerVars, held, row, todo, rows>>

\* Variant for a mutation run: a posted handoff is never taken up again.
WaitingPosted(f) == f.stage # "handed" \/ f.applied # "yes"

\* Nothing to do yet, or nothing any more, for this handoff.
Waiting(f) == f.stage \notin {"handed", "posted"} \/ f.applied # "yes"

\* The handoff now is over ...
Over(stage) ==
    /\ fills' = [fills EXCEPT ![now].stage = stage]
    /\ DrainFrom(now + 1)

\* ... delivered: acknowledge_fill counts it, and may retire the observation ...
Acknowledged(b, n) ==
    IF b.watched /\ b.acked + n <= b.filled
    THEN Retired([b EXCEPT !.acked = @ + n]) ELSE b

Finish ==
    /\ Over("done")
    /\ LET f == fills[now]
       IN  broker' = [broker EXCEPT ![f.key] = Acknowledged(@, Size(f))]

\* ... or failed, for good.
GiveUp == Over("failed") /\ UNCHANGED broker

\* record_execution_journal_failure
JournalFailure(f) ==
    /\ histFault' = (histFault \/ f.named)
    /\ UNCHANGED <<ledgerVars, holder, opened, closed, snap, writing>>

TheExecution(f) == CHOOSE e \in orders[f.key].executions : e.from = f.from

DrainStep ==
    /\ at = "drain"
    /\ \/ /\ now > Len(fills)
          /\ Goto(IF handing THEN "hand" ELSE "poll") /\ UNCHANGED <<vars, now>>
       \/ /\ now <= Len(fills) /\ Waiting(fills[now])
          /\ now' = now + 1 /\ UNCHANGED <<vars, at>>
       \/ /\ now <= Len(fills) /\ ~Waiting(fills[now]) /\ fills[now].stage = "posted"
          /\ Goto("settle") /\ UNCHANGED <<vars, now>>
       \/ /\ now <= Len(fills) /\ ~Waiting(fills[now]) /\ fills[now].stage = "handed"
          /\ \/ ~fills[now].named /\ Goto("post") /\ UNCHANGED vars
             \/ /\ fills[now].named /\ MayWrite
                /\ ReceiptApplied(Bot, fills[now].key, TheExecution(fills[now]))
                /\ CommitFor("fill")
                /\ Goto(IF fault'[Bot] THEN "postUnsure" ELSE "applied")
             \/ fills[now].named /\ CallFails /\ Goto("postUnsure")
          /\ UNCHANGED now
    /\ UNCHANGED <<brokerVars, fills, held, row, todo, rows, handing>>

\* The snapshot of a receipt.
Receipted ==
    /\ writing = "fill"
    /\ \/ /\ at = "applied"
          /\ \/ SnapshotOk /\ Goto("post")
             \/ SnapshotFails /\ Goto("postUnsure")
          /\ UNCHANGED <<broker, fills, now>>
       \/ /\ at = "returned"
          /\ \/ SnapshotOk /\ Finish
             \/ SnapshotFails /\ GiveUp
    /\ UNCHANGED <<exch, calls, held, row, todo, rows, handing>>

\* Variant for a mutation run: postprocessing_done is not set.
PostedUnmarked(f, journal) == [f EXCEPT !.posts = @ + 1, !.journal = journal]

Posted(f, journal) == [f EXCEPT !.posts = @ + 1, !.stage = "posted", !.journal = journal]

\* _complete_fill_handoff: exits, re-entry limits and the journal.  It submits
\* a journal write for a named fill, or not; it may raise half way.  When the
\* receipt could not be stored, the handoff fails after it.
PostProcess ==
    /\ at \in {"post", "postUnsure"}
    /\ \/ /\ at = "post"
          /\ \E journal \in IF fills[now].named THEN {"none", "pending"} ELSE {"none"} :
                fills' = [fills EXCEPT ![now] = Posted(@, journal)]
          /\ Goto("settle") /\ UNCHANGED <<vars, now>>
       \/ /\ fills' = [fills EXCEPT ![now] = [Posted(@, "none") EXCEPT !.stage = "failed"]]
          /\ DrainFrom(now + 1) /\ JournalFailure(fills[now])
    /\ UNCHANGED <<brokerVars, held, row, todo, rows, handing>>

Certain(f) == f.journal \in {"committed", "unattributed"}

\* Nothing was submitted, a lookup found no answer, or no attempt is left.
Uncommitted(f) ==
    \/ f.journal = "none"
    \/ f.journal = "unknown" /\ (f.tries > 0 \/ f.tries = Attempts)

Retried(f) == [f EXCEPT !.journal = "resolving", !.tries = f.tries + 1]
WithJournal(i, journal) == [fills EXCEPT ![i].journal = journal]

\* _execution_journal_committed, _retry_execution_journal and
\* _record_unattributed_execution decide whether the receipt may be returned.
Settle ==
    /\ at = "settle"
    /\ LET f == fills[now]
           Later == DrainFrom(now + 1) /\ UNCHANGED vars
       IN  \/ ~f.named /\ Finish /\ UNCHANGED vars
           \/ /\ f.named /\ f.journal \in {"pending", "resolving"}
              /\ Later /\ UNCHANGED <<fills, broker>>
           \/ /\ f.named /\ f.journal = "unknown" /\ f.tries < Attempts
              /\ fills' = [fills EXCEPT ![now] = Retried(@)]
              /\ Later /\ UNCHANGED broker
           \/ /\ f.named /\ Certain(f)
              /\ Goto("return") /\ UNCHANGED <<vars, fills, broker, now>>
           \/ /\ f.named /\ Uncommitted(f)
              /\ \/ /\ fills' = WithJournal(now, "unattributed")
                    /\ Goto("return") /\ UNCHANGED <<vars, broker, now>>
                 \/ GiveUp /\ JournalFailure(f)
    /\ UNCHANGED <<exch, calls, held, row, todo, rows, handing>>

Return ==
    /\ at = "return"
    /\ LET f == fills[now]
       IN  \/ /\ MayWrite /\ ReceiptReturned(Bot, f.key, TheExecution(f))
              /\ CommitFor("fill")
              /\ IF fault'[Bot] THEN GiveUp
                 ELSE Goto("returned") /\ UNCHANGED <<fills, broker, now>>
           \/ CallFails /\ GiveUp
    /\ UNCHANGED <<exch, calls, held, row, todo, rows, handing>>

-----------------------------------------------------------------------------
(* The engine, the journal's thread and the end of the run *)

\* on_fill changes the portfolio, waits for the lock of the pending orders, and
\* confirms; or it refuses the fill (no such position, unknown cost) for good.
Apply(i) ==
    /\ \A j \in DOMAIN fills : fills[j].applied # "applying"
    /\ fills[i].applied = "none" /\ fills[i].stage # "new"
    /\ \/ /\ held' = [held EXCEPT ![fills[i].key] = @ + Size(fills[i])]
          /\ fills' = [fills EXCEPT ![i].applied = "applying"]
       \/ /\ fills' = [fills EXCEPT ![i].applied = "no"] /\ UNCHANGED held
    /\ UNCHANGED <<vars, brokerVars, loopVars>>

ConfirmApplied(i) ==
    /\ fills[i].applied = "applying"
    /\ fills' = [fills EXCEPT ![i].applied = "yes"]
    /\ UNCHANGED <<vars, brokerVars, held, loopVars>>

\* The write behind, or the lookup of its receipt, comes to an end.
JournalEnds(i) ==
    /\ \/ /\ fills[i].journal = "pending"
          /\ \E journal \in {"committed", "unknown"} : fills' = WithJournal(i, journal)
       \/ /\ fills[i].journal = "resolving"
          /\ \E journal \in {"pending", "committed", "unknown"} : fills' = WithJournal(i, journal)
    /\ UNCHANGED <<vars, brokerVars, held, loopVars>>

\* disconnect closes the history when no order activity is under way.
CloseRun ==
    /\ "end" \in Disturbances /\ calls = {} /\ ~Checking
    /\ CloseHistory
    /\ UNCHANGED <<brokerVars, fills, held, loopVars>>

CloseSaved ==
    /\ writing = "close"
    /\ Refresh \/ RefreshFails
    /\ UNCHANGED <<brokerVars, fills, held, loopVars>>

HistoryFault ==
    /\ "fault" \in Disturbances /\ Fail /\ UNCHANGED <<brokerVars, fills, held, loopVars>>

-----------------------------------------------------------------------------
(* _sync_portfolio *)

NoSync == [step |-> "off", valid |-> FALSE, shares |-> [k \in Keys |-> 0]]

SyncBegin ==
    /\ "sync" \in Disturbances /\ sync.step = "off" /\ Idle
    /\ sync' = [sync EXCEPT !.step = "asking", !.valid = TRUE]
    /\ UNCHANGED <<vars, brokerVars, fills, held, loopVars>>

SyncRead ==
    /\ sync.step = "asking"
    /\ sync' = [sync EXCEPT !.step = "answered", !.shares = [k \in Keys |-> exch[k].cum]]
    /\ UNCHANGED <<vars, brokerVars, fills, held, loopVars>>

\* Variant for a mutation run: the token is not compared again.
SyncApplyBlind ==
    /\ sync.step = "answered"
    /\ held' = sync.shares
    /\ sync' = NoSync
    /\ UNCHANGED <<vars, brokerVars, fills, loopVars>>

\* Nothing is changed unless the token is still the one of SyncBegin.
SyncApply ==
    /\ sync.step = "answered"
    /\ held' = IF sync.valid /\ Idle THEN sync.shares ELSE held
    /\ sync' = NoSync
    /\ UNCHANGED <<vars, brokerVars, fills, loopVars>>

-----------------------------------------------------------------------------
\* The bot after connect(): its session is open, nothing was ordered.
HandoffInit ==
    /\ sessions = <<[clean |-> FALSE, priorUnclean |-> FALSE, acknowledged |-> FALSE]>>
    /\ orders = NoOrders
    /\ own = [p \in Procs |-> IF p = Bot THEN 1 ELSE 0]
    /\ fault = [p \in Procs |-> FALSE]
    /\ holder = Bot /\ opened = TRUE /\ closed = FALSE /\ histFault = FALSE
    /\ snap = Unopened /\ writing = Nobody
    /\ exch = [k \in Keys |-> [cum |-> 0, live |-> FALSE]]
    /\ broker = [k \in Keys |-> [place |-> "none", filled |-> 0, watched |-> FALSE,
                                 canceled |-> FALSE, terminal |-> NotTerminal, acked |-> 0]]
    /\ calls = {} /\ fills = <<>> /\ held = [k \in Keys |-> 0]
    /\ at = "rest" /\ now = 1 /\ row = Nobody /\ todo = {} /\ handing = FALSE
    /\ rows = exch
    /\ sync = NoSync

OrderCall(k) ==
    \/ Submit(k) \/ Post(k) \/ PostAnswered(k)
    \/ Cancel(k) \/ CancelReached(k) \/ CancelAnswered(k) \/ RecordCall(k)

FillCheck ==
    \/ Round \/ Poll \/ RowObserved \/ RowsDone \/ CancelRowObserved \/ CancelRowsDone
    \/ Hand \/ DrainStep \/ Receipted \/ PostProcess \/ Settle \/ Return
    \/ \E k \in Keys : Row(k) \/ CancelRow(k)

EngineStep == \E i \in DOMAIN fills : Apply(i) \/ ConfirmApplied(i)

\* A sync in progress is outdated as soon as a generation moves.
Outdates ==
    sync' = IF Generations' = Generations THEN sync ELSE [sync EXCEPT !.valid = FALSE]

HandoffNext ==
    \/ /\ \/ \E k \in Keys : Execute(k) \/ OrderCall(k)
          \/ CallSaved \/ FillCheck \/ EngineStep
          \/ \E i \in DOMAIN fills : JournalEnds(i)
          \/ CloseRun \/ CloseSaved \/ HistoryFault
       /\ Outdates
    \/ SyncBegin \/ SyncRead \/ SyncApply

HandoffSpec == HandoffInit /\ [][HandoffNext]_everything

\* The event loop runs the tasks that are ready, the engine is not paused, and
\* the journal's thread and its lookups (5 s at most) end.
FairHandoffSpec ==
    /\ HandoffSpec
    /\ WF_everything(FillCheck /\ Outdates)
    /\ WF_everything(EngineStep /\ Outdates)
    /\ WF_everything((CallSaved \/ CloseSaved) /\ Outdates)
    /\ WF_everything((\E i \in DOMAIN fills : JournalEnds(i)) /\ Outdates)

-----------------------------------------------------------------------------
(* Properties *)

Places == {"rest", "drain", "poll", "rows", "observing", "cancelRows", "cancelObserving",
           "hand", "applied", "post", "postUnsure", "settle", "return", "returned"}

Watch == [place : {"none", "pending", "off"}, filled : Nat, watched : BOOLEAN,
          canceled : BOOLEAN, terminal : Nat \cup {NotTerminal}, acked : Nat]

\* The variables of the handoff have their types.
HandoffTypeOK ==
    /\ exch \in [Keys -> [cum : Nat, live : BOOLEAN]]
    /\ broker \in [Keys -> Watch]
    /\ calls \subseteq Keys \X Calls
    /\ fills \in Seq(Fill) /\ held \in [Keys -> Nat]
    /\ at \in Places /\ now \in 1..(Len(fills) + 1) /\ row \in Keys \cup {Nobody}
    /\ todo \subseteq Keys /\ rows \in [Keys -> [cum : Nat, live : BOOLEAN]]
    /\ handing \in BOOLEAN
    /\ sync \in [step : {"off", "asking", "answered"}, valid : BOOLEAN, shares : [Keys -> Nat]]

\* The portfolio never counts a share twice: neither a late or repeated report,
\* nor a balance that already contains a fill still on its way, lets it hold
\* more of an order than the exchange executed.
HeldAtMostExecuted == \A k \in Keys : held[k] <= exch[k].cum

\* Whenever the reconciliation token lets the balances be taken over, every
\* order whose acceptance is known has all its shares in the portfolio already.
IdleMeansSettled ==
    Idle => \A k \in Keys : broker[k].watched \/ broker[k].filled > 0 \/ broker[k].canceled =>
                held[k] = exch[k].cum

\* A fill is post-processed at most once, and only after it was applied, and the
\* ledger says that it was handed over only when that happened and its journal
\* entry is certain or reported: a failed or a retried handoff neither books a
\* profit twice nor loses it.
ProcessedOnce ==
    /\ \A i \in DOMAIN fills : fills[i].posts <= 1 /\ (fills[i].posts = 1 => fills[i].applied = "yes")
    /\ \A k \in Keys : \A e \in orders[k].executions : e.returned =>
           \E i \in DOMAIN fills : /\ fills[i].key = k /\ fills[i].from = e.from
                                   /\ fills[i].to = e.to /\ fills[i].posts = 1
                                   /\ fills[i].journal \in {"committed", "unattributed"}

\* No buy is sent while a cancelled order of its symbol has shares that the
\* portfolio does not contain, or may still get some.
NoBuyOverUnresolvedCancel ==
    [][\A k, j \in Keys :
          /\ broker[k].place = "none" /\ broker'[k].place = "off"
          /\ broker[j].canceled
          => ~exch[j].live /\ held[j] = exch[j].cum]_everything

\* A session ends clean only over a settled portfolio: every order is final at
\* the exchange, and every fill applied, processed and acknowledged.
CleanEndMeansDelivered ==
    sessions[1].clean =>
        /\ \A i \in DOMAIN fills : fills[i].applied = "yes" /\ fills[i].posts = 1
        /\ \A k \in Keys : Present(orders[k]) => ~exch[k].live /\ held[k] = exch[k].cum

\* Every fill taken from the exchange is handed to the engine, and its handoff
\* ends, delivered or reported as failed, unless the engine refused the fill: no
\* storage fault, slow journal or other handoff lets it wait for ever.
HandoffsEnd ==
    \A i \in 1..MaxFills :
        (i \in DOMAIN fills) ~> (/\ i \in DOMAIN fills
                                /\ \/ fills[i].stage \in {"done", "failed"}
                                   \/ fills[i].applied = "no")

\* Whatever history, journal and engine do, the increments taken from the
\* exchange lose no share: those of an order's fills are its filled quantity.
NoShareLost ==
    \A k \in Keys : \A u \in 1..broker[k].filled :
        \E i \in DOMAIN fills : fills[i].key = k /\ fills[i].from < u /\ u <= fills[i].to
=============================================================================
