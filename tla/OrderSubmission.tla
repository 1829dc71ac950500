------------------------- MODULE OrderSubmission -------------------------
(***************************************************************************)
(* Sending an order to the exchange (kis_kr.py, submit_order and           *)
(* _api_post) with the guards that keep the bot from buying twice: the     *)
(* execution history, and the day's book of orders whose acceptance is     *)
(* unknown (risk/order_unknown.py).  submit_order runs as a coroutine per  *)
(* order; a step below is what it does between two awaits, so that the     *)
(* coroutines of several orders interleave as the event loop allows:       *)
(*                                                                         *)
(*   idle -> gated -> sending -> inflight -> recording the answer -> done  *)
(*                                                                         *)
(* The exchange may have accepted an order whose answer is lost: alive is  *)
(* its truth, which the bot does not see.  Refusals that depend on nothing *)
(* modelled here (kill switch, unverified cash, market hours, hashkey) may *)
(* happen at any time.  All orders are for one symbol.                     *)
(***************************************************************************)
EXTENDS ExecutionHistory

CONSTANTS
    Kinds,      \* what the orders of an instance may be
    MaxDay      \* MaxDay[kind]: bound on the trading days

ASSUME KindAssumption ==
    /\ Kinds \subseteq [Keys -> {"buy", "partial", "full"}]
    /\ MaxDay \in [Kinds -> Nat \ {0}]

VARIABLES
    kind,       \* kind[k]: a buy, a partial sell or a full (protective) sell
    pc,         \* pc[k]: where submit_order(k) is
    tried,      \* history.keys: orders whose intent was attempted in this run
    closing,    \* _execution_closing, and whether disconnect may close
    book,       \* the bot's UnknownOrderBook
    bookFile,   \* its file
    day,        \* the calendar
    alive,      \* the exchange: k was accepted and may still be live
    posts       \* how often k was sent and not refused for its token

sendVars == <<kind, pc, tried, closing, book, bookFile, day, alive, posts>>
allVars == <<vars, sendVars>>

Book == [day : Nat, buy : BOOLEAN, sell : BOOLEAN]

Phases == {"idle", "gated", "sending", "inflight", "accepting", "recNotSent",
           "recRejected", "recUnknown", "recTemp", "booking", "done", "gone"}

NoEntries(d) == [day |-> d, buy |-> FALSE, sell |-> FALSE]

\* _roll: entries of another day are gone.
Today(b) == IF b.day = day THEN b ELSE NoEntries(day)

-----------------------------------------------------------------------------
(* The gates *)

\* Variant for a mutation run: the book is not looked at.
BuyHoldBookIgnored == Hold(Keys) \/ PendingHandoffs(Keys)

\* unknown_buy_hold
BuyHold == Today(book).buy \/ Hold(Keys) \/ PendingHandoffs(Keys)

\* has_unknown_sell, for the one symbol of the model
UnknownSell == Hold(Keys) \/ PendingHandoffs(Keys) \/ Today(book).sell

\* What both submit_order and the check before each POST demand.
Gate(k) ==
    CASE kind[k] = "buy"     -> SessionRecorded /\ ~BuyHold
      [] kind[k] = "partial" -> SessionRecorded /\ ~UnknownSell
      [] OTHER               -> TRUE

\* The task of k runs on from that place: it does not wait for the history.
At(k, phase) == Running(Bot) /\ pc[k] = phase /\ writing # k

Goto(k, phase) == pc' = [pc EXCEPT ![k] = phase]

\* Where the task of k goes on when its history call returned (ok), or raised:
\* without its intent only a protective sell goes on, and a cancellation while
\* the answer is recorded makes the order an unknown one.
AfterWrite(k, ok) ==
    CASE pc[k] = "gated"      -> IF ok THEN {"sending"}
                                 ELSE IF kind[k] = "full" THEN {"sending", "done"} ELSE {"done"}
      [] pc[k] = "recUnknown" -> {"booking"}
      [] OTHER                -> IF ok THEN {"done"} ELSE {"done", "recUnknown"}

Resume(k, ok) == \E phase \in AfterWrite(k, ok) : Goto(k, phase)

-----------------------------------------------------------------------------
(* Calls of the history made by the task of k *)

\* The ledger took the operation; the task waits for the snapshot, unless it
\* was cancelled meanwhile.
Committed(k) ==
    /\ AfterCommit(k)
    /\ IF fault'[Bot] THEN Resume(k, FALSE) ELSE UNCHANGED pc
    /\ UNCHANGED <<holder, opened, closed, snap>>

\* Variant for a mutation run: the exception of the ledger is swallowed.
CallFailsQuietly(k) ==
    /\ writing = Nobody
    /\ (MayWrite /\ StorageFault(Bot)) \/ UNCHANGED ledgerVars
    /\ Resume(k, FALSE)
    /\ UNCHANGED <<histFault, holder, opened, closed, snap, writing>>

\* The history is unusable, or the ledger refuses, fails or is cancelled.
CallFails(k) ==
    /\ writing = Nobody
    /\ (MayWrite /\ StorageFault(Bot)) \/ UNCHANGED ledgerVars
    /\ histFault' = TRUE
    /\ Resume(k, FALSE)
    /\ UNCHANGED <<holder, opened, closed, snap, writing>>

EndOfWrite ==
    \/ Refresh /\ IF writing \in Keys THEN Resume(writing, TRUE) ELSE UNCHANGED pc
    \/ RefreshFails /\ IF writing \in Keys THEN Resume(writing, FALSE) ELSE UNCHANGED pc

-----------------------------------------------------------------------------
(* submit_order *)

\* The head of submit_order; an engine may submit the same order again.
Submit(k) ==
    /\ Running(Bot) /\ pc[k] \in {"idle", "done"}
    /\ closing = "no" /\ (opened \/ histFault)
    /\ Gate(k)
    /\ Goto(k, "gated")
    /\ UNCHANGED <<vars, tried, closing, book, bookFile, day, alive, posts>>

\* Variant for a mutation run: the order is not looked up in history.keys.
RecordIntentAgain(k) ==
    /\ At(k, "gated")
    /\ tried' = tried \cup {k}
    /\ \/ MayWrite /\ Intent(Bot, k) /\ Committed(k)
       \/ CallFails(k)
    /\ UNCHANGED <<closing, book, bookFile, day, alive, posts>>

\* Variant for a mutation run: the intent is left to a task nobody awaits.
RecordIntentUnawaited(k) ==
    /\ At(k, "gated")
    /\ tried' = tried \cup {k}
    /\ Goto(k, "sending")
    /\ UNCHANGED <<vars, closing, book, bookFile, day, alive, posts>>

\* The intent is stored before anything is sent, and once per order.
RecordIntent(k) ==
    /\ At(k, "gated")
    /\ IF k \in tried
       THEN Goto(k, "done") /\ UNCHANGED <<vars, tried>>
       ELSE /\ tried' = tried \cup {k}
            /\ \/ MayWrite /\ Intent(Bot, k) /\ Committed(k)
               \/ CallFails(k)
    /\ UNCHANGED <<closing, book, bookFile, day, alive, posts>>

\* _api_post checks again and sends in one step; the exchange takes the order
\* or not.
Send(k) ==
    /\ At(k, "sending")
    /\ closing = "no" /\ Gate(k)
    /\ posts' = [posts EXCEPT ![k] = @ + 1]
    /\ \E taken \in BOOLEAN : alive' = [alive EXCEPT ![k] = @ \/ taken]
    /\ Goto(k, "inflight")
    /\ UNCHANGED <<vars, tried, closing, book, bookFile, day>>

\* The check blocks it, there is no session or token, or the task is cancelled.
NotSent(k) ==
    /\ At(k, "sending")
    /\ \E phase \in {"recNotSent", "recRejected", "recUnknown"} : Goto(k, phase)
    /\ UNCHANGED <<vars, tried, closing, book, bookFile, day, alive, posts>>

\* The answer of the exchange.  A refused token is renewed and the order sent
\* again; no answer, or one that cannot be read, is never sent again.
Answer(k) ==
    /\ At(k, "inflight")
    /\ \/ alive[k] /\ Goto(k, "accepting") /\ UNCHANGED posts
       \/ alive[k] /\ Goto(k, "recTemp") /\ UNCHANGED posts
       \/ ~alive[k] /\ Goto(k, "recRejected") /\ UNCHANGED posts
       \/ ~alive[k] /\ Goto(k, "sending") /\ posts' = [posts EXCEPT ![k] = @ - 1]
       \/ Goto(k, "recUnknown") /\ UNCHANGED posts
    /\ UNCHANGED <<vars, tried, closing, book, bookFile, day, alive>>

OutcomeOf == [recNotSent |-> "not_sent", recRejected |-> "rejected",
              recUnknown |-> "unknown", recTemp |-> "unknown"]

\* The outcome, or the acceptance, is written to the history.
RecordAnswer(k) ==
    /\ Running(Bot)
    /\ \/ /\ pc[k] = "accepting"
          /\ \/ MayWrite /\ (\E o \in Odnos : Accepted(Bot, k, o)) /\ Committed(k)
             \/ CallFails(k)
       \/ /\ pc[k] \in DOMAIN OutcomeOf
          /\ \/ MayWrite /\ Outcome(Bot, k, OutcomeOf[pc[k]]) /\ Committed(k)
             \/ CallFails(k)
    /\ UNCHANGED <<tried, closing, book, bookFile, day, alive, posts>>

\* record(): today's entries, merged with the file's; a failed save keeps
\* the memory.
Merged(b, buy, sell) ==
    [day |-> day, buy |-> buy \/ Today(b).buy, sell |-> sell \/ Today(b).sell]

Record(buy, sell) ==
    LET mine == Merged(book, buy, sell)
        both == Merged(bookFile, mine.buy, mine.sell)
    IN  (book' = both /\ bookFile' = both) \/ (book' = mine /\ UNCHANGED bookFile)

\* _record_unknown
RecordUnknown(k) ==
    /\ At(k, "booking")
    /\ Record(kind[k] = "buy", kind[k] # "buy")
    /\ Goto(k, "done")
    /\ UNCHANGED <<vars, tried, closing, day, alive, posts>>

-----------------------------------------------------------------------------
(* The life of the bot and of its orders *)

\* The final fill of an accepted order and its receipts (see FillHandoff).
SettleAccepted(k) ==
    /\ At(k, "done") /\ MayWrite
    /\ orders[k].status = "accepted"
    /\ \/ \E quantity \in 0..Quantity[k] : Observe(Bot, k, quantity, TRUE)
       \/ \E e \in orders[k].executions :
             \/ ~e.applied /\ ReceiptApplied(Bot, k, e)
             \/ e.applied /\ ReceiptReturned(Bot, k, e)
    /\ AfterCommit("fill")
    /\ UNCHANGED <<holder, opened, closed, snap, pc, tried, closing, book, bookFile, day, alive, posts>>

\* Variant for a mutation run: the exchange is not asked at the start.
StartBotBlind ==
    /\ Start(Bot)
    /\ book' = Today(bookFile) /\ UNCHANGED bookFile
    /\ closing' = "no" /\ tried' = {}
    /\ UNCHANGED <<pc, day, alive, posts>>

\* At the start the book is read, and live buys at the exchange, or a failed
\* inquiry, are entered (hold_buys_for_live_orders_at_restart).
StartBot ==
    /\ Start(Bot)
    /\ \/ /\ \A k \in Keys : alive[k] => kind[k] # "buy"
          /\ book' = Today(bookFile) /\ UNCHANGED bookFile
       \/ /\ book' = [Today(bookFile) EXCEPT !.buy = TRUE]
          /\ bookFile' \in {bookFile, book'}
    /\ closing' = "no" /\ tried' = {}
    /\ UNCHANGED <<pc, day, alive, posts>>

OpenBot == OpenHistory /\ UNCHANGED sendVars

\* Variant for a mutation run: the broker is not marked as closing.
DisconnectStillOpen ==
    /\ Running(Bot) /\ closing = "no"
    /\ UNCHANGED closing
    /\ IF \A k \in Keys : pc[k] \in {"idle", "done", "gone"}
       THEN CloseHistory ELSE UNCHANGED vars
    /\ UNCHANGED <<pc, tried, book, bookFile, day, alive, posts>>

\* disconnect: no order starts any more; the history is closed only when no
\* order activity is under way.
Disconnect ==
    /\ Running(Bot) /\ closing = "no"
    /\ closing' = IF \A k \in Keys : pc[k] \in {"idle", "done", "gone"}
                  THEN "close" ELSE "skip"
    /\ UNCHANGED <<vars, pc, tried, book, bookFile, day, alive, posts>>

CloseBot ==
    /\ closing = "close" /\ CloseHistory
    /\ UNCHANGED sendVars

StopBot ==
    /\ BotExits
    /\ pc' = [k \in Keys |-> IF pc[k] = "idle" THEN "idle" ELSE "gone"]
    /\ book' = NoEntries(day) /\ closing' = "no" /\ tried' = {}
    /\ UNCHANGED <<bookFile, day, alive, posts>>

StartOperator ==
    /\ Start(Operator) /\ UNCHANGED sendVars

OperatorWorks ==
    /\ OperatorStep \/ OperatorExits
    /\ UNCHANGED sendVars

\* Orders live for their trading day, and none is on its way at midnight.
NextDay ==
    /\ day < MaxDay[kind] /\ \A k \in Keys : pc[k] \in {"idle", "done", "gone"}
    /\ day' = day + 1
    /\ alive' = [k \in Keys |-> FALSE]
    /\ UNCHANGED <<vars, pc, tried, closing, book, bookFile, posts>>

SubmissionInit ==
    /\ HistInit /\ kind \in Kinds
    /\ pc = [k \in Keys |-> "idle"] /\ tried = {}
    /\ closing = "no" /\ day = 1
    /\ book = NoEntries(1) /\ bookFile = NoEntries(1)
    /\ alive = [k \in Keys |-> FALSE] /\ posts = [k \in Keys |-> 0]

SubmissionStep(k) ==
    \/ Submit(k) \/ RecordIntent(k) \/ Send(k) \/ NotSent(k) \/ Answer(k)
    \/ RecordAnswer(k) \/ RecordUnknown(k) \/ SettleAccepted(k)

SubmissionNext ==
    /\ \/ \E k \in Keys : SubmissionStep(k)
       \/ EndOfWrite /\ UNCHANGED <<tried, closing, book, bookFile, day, alive, posts>>
       \/ StartBot \/ OpenBot \/ Disconnect \/ CloseBot \/ StopBot
       \/ StartOperator \/ OperatorWorks \/ NextDay
    /\ UNCHANGED kind

SubmissionSpec == SubmissionInit /\ [][SubmissionNext]_allVars

-----------------------------------------------------------------------------
(* Properties *)

\* The submission's memory, its book and the exchange have their types.
SubmissionTypeOK ==
    /\ kind \in Kinds /\ pc \in [Keys -> Phases] /\ tried \subseteq Keys
    /\ closing \in {"no", "close", "skip"}
    /\ book \in Book /\ bookFile \in Book /\ day \in 1..MaxDay[kind]
    /\ alive \in [Keys -> BOOLEAN] /\ posts \in [Keys -> Nat]

\* The submission uses the history by its operations alone, and a ledger call
\* that failed always latches the fault, whatever the order goes on to do.
UsesHistory == HistSpec

\* One submit_order intent reaches the exchange at most once, whatever answers
\* are lost, tokens renewed and orders submitted again.
SentAtMostOnce == \A k \in Keys : posts[k] <= 1

Sent(k) == pc[k] = "sending" /\ pc'[k] = "inflight"

\* A buy or a partial sell leaves the bot only when its intent is durable in the
\* current session: a crash after the POST always leaves a trace.
IntentBeforePost ==
    [][\A k \in Keys : Sent(k) /\ kind[k] # "full" =>
          Present(orders[k]) /\ orders[k].session = own[Bot]]_allVars

\* Nothing is sent after the session was recorded as ended clean.
NoPostAfterCleanEnd ==
    [][\A k \in Keys : Sent(k) /\ own[Bot] # 0 => ~sessions[own[Bot]].clean]_allVars

\* On a day whose saved book has an unknown buy no buy is sent, and with an
\* unknown sell no partial sell: by the run that met it, and by a later one.
BookHolds ==
    [][\A k \in Keys : Sent(k) =>
          /\ kind[k] = "buy" => ~Today(bookFile).buy
          /\ kind[k] = "partial" => ~Today(bookFile).sell]_allVars

\* No buy is sent while a buy that an earlier run got to the exchange may still
\* be live there: whatever the crash cut off, the restarted bot holds.
NoBuyOverLostBuy ==
    [][\A j, k \in Keys :
          Sent(k) /\ kind[k] = "buy" /\ j # k /\ kind[j] = "buy" =>
              ~(alive[j] /\ pc[j] = "gone")]_allVars

\* _api_post says that a buy which waited for its turn is not sent when another
\* buy became unknown meanwhile (comment before its kill switch check).
NoBuyPastUnknownBuy ==
    [][\A j, k \in Keys : Sent(k) /\ kind[k] = "buy" /\ j # k /\ kind[j] = "buy" =>
          pc[j] \notin {"recUnknown", "booking"}]_allVars
=============================================================================
