----------------------- MODULE OrderSubmissionProofs -----------------------
(***************************************************************************)
(* What the submission of orders guarantees for any orders, order numbers, *)
(* days and restarts.  Each of its steps is a step of ExecutionHistory, so *)
(* the invariants of the history and of the ledger are at hand.  On top:   *)
(*                                                                         *)
(*   TaskOk      where submit_order(k) is, its intent and what was sent    *)
(*   Resting     no task runs without the bot                              *)
(*   ClosingOk   a clean session was closed by a disconnect that is final  *)
(*   BookOk      the book holds what its file does, and every buy that an  *)
(*               earlier run left at the exchange                          *)
(***************************************************************************)
EXTENDS OrderSubmission, ExecutionHistoryProofs

\* The intent of k is durable in the current session.
Recorded(k) == Present(orders[k]) /\ orders[k].session = own[Bot]

\* The task of k is to send, has sent, or waits for the snapshot of its intent.
OnItsWay(k) == pc[k] \in {"sending", "inflight"} \/ (pc[k] = "gated" /\ writing = k)

TaskOk(k) ==
    /\ posts[k] \in {0, 1}
    /\ pc[k] \in {"idle", "sending"} => posts[k] = 0
    /\ pc[k] = "gated" /\ (k \notin tried \/ writing = k) => posts[k] = 0
    /\ pc[k] = "inflight" => posts[k] = 1
    /\ pc[k] = "idle" => k \notin tried
    /\ pc[k] \notin {"idle", "gated", "gone"} => k \in tried
    /\ writing = k => pc[k] \in {"gated", "accepting"} \cup DOMAIN OutcomeOf /\ k \in tried
    /\ kind[k] # "full" /\ OnItsWay(k) => own[Bot] # 0 /\ Recorded(k)

Resting == holder # Bot => \A k \in Keys : pc[k] \in {"idle", "gone"}

ClosingOk == own[Bot] # 0 /\ sessions[own[Bot]].clean => closing = "close"

\* A buy that an earlier run got to the exchange, which may be live there.
LostBuy(k) == pc[k] = "gone" /\ alive[k] /\ kind[k] = "buy"

BookOk ==
    /\ book.day <= day /\ bookFile.day <= day
    /\ holder = Bot => /\ Today(bookFile).buy => Today(book).buy
                       /\ Today(bookFile).sell => Today(book).sell
                       /\ \A k \in Keys : LostBuy(k) => Today(book).buy

SubInv ==
    /\ Inv /\ SubmissionTypeOK
    /\ \A k \in Keys : TaskOk(k)
    /\ Resting /\ ClosingOk /\ BookOk

-----------------------------------------------------------------------------
(* The submission implements the history *)

\* A ledger call of a task is a write of the history, one that it refuses, or
\* a fault that latches.
LEMMA CallIsHistory ==
  ASSUME NEW k \in Keys, Running(Bot),
         (MayWrite /\ OrderStep(Bot, k) /\ Committed(k)) \/ CallFails(k)
  PROVE  [HistNext]_vars
<1>1. CASE MayWrite /\ OrderStep(Bot, k) /\ Committed(k)
  BY <1>1 DEF Committed, Write, HistNext
<1>2. CASE CallFails(k)
  <2>1. CASE MayWrite /\ StorageFault(Bot)
    BY <1>2, <2>1 DEF CallFails, RefuseWrite, HistNext
  <2>2. CASE UNCHANGED ledgerVars /\ ~histFault
    BY <1>2, <2>2 DEF CallFails, Fail, HistNext
  <2>3. CASE UNCHANGED ledgerVars /\ histFault
    BY <1>2, <2>3 DEF CallFails, vars, histVars
  <2> QED BY <1>2, <2>1, <2>2, <2>3 DEF CallFails
<1> QED BY <1>1, <1>2

\* The calls that the tasks make, as operations on their order.
LEMMA IntentCall ==
  ASSUME NEW k \in Keys, RecordIntent(k)
  PROVE  \/ k \in tried /\ Goto(k, "done") /\ UNCHANGED <<vars, tried>>
         \/ /\ k \notin tried /\ tried' = tried \cup {k}
            /\ \/ MayWrite /\ OrderStep(Bot, k) /\ Intent(Bot, k) /\ Committed(k)
               \/ CallFails(k)
  BY DEF RecordIntent, OrderStep

\* The answer is recorded by one operation on the order, or by a call that fails.
LEMMA AnswerCall ==
  ASSUME NEW k \in Keys, RecordAnswer(k)
  PROVE  /\ pc[k] \in {"accepting"} \cup DOMAIN OutcomeOf /\ Running(Bot)
         /\ \/ MayWrite /\ OrderStep(Bot, k) /\ Committed(k)
            \/ CallFails(k)
<1>1. ASSUME pc[k] \in DOMAIN OutcomeOf PROVE OutcomeOf[pc[k]] \in Outcomes
  BY <1>1 DEF OutcomeOf, Outcomes
<1> QED BY <1>1 DEF RecordAnswer, OrderStep

\* Settling an order is what the fill check writes.
LEMMA SettleIsWriteFill ==
  ASSUME NEW k \in Keys, SettleAccepted(k)
  PROVE  WriteFill(k)
  BY DEF SettleAccepted, WriteFill

\* Every step of the submission is a step of the history, or leaves it alone.
LEMMA SubmissionIsHistory == [SubmissionNext]_allVars => [HistNext]_vars
<1> SUFFICES ASSUME [SubmissionNext]_allVars PROVE [HistNext]_vars
  OBVIOUS
<1>1. CASE UNCHANGED allVars
  BY <1>1 DEF allVars
<1>2. ASSUME NEW k \in Keys, Submit(k) \/ Send(k) \/ NotSent(k) \/ Answer(k) \/ RecordUnknown(k)
      PROVE  UNCHANGED vars
  BY <1>2 DEF Submit, Send, NotSent, Answer, RecordUnknown
<1>3. ASSUME NEW k \in Keys, RecordIntent(k) PROVE [HistNext]_vars
  <2>1. Running(Bot)
    BY <1>3 DEF RecordIntent, At
  <2> QED BY <1>3, <2>1, IntentCall, CallIsHistory
<1>4. ASSUME NEW k \in Keys, RecordAnswer(k) PROVE [HistNext]_vars
  BY <1>4, AnswerCall, CallIsHistory
<1>5. ASSUME NEW k \in Keys, SettleAccepted(k) PROVE [HistNext]_vars
  BY <1>5, SettleIsWriteFill DEF HistNext
<1>6. CASE EndOfWrite
  BY <1>6 DEF EndOfWrite, HistNext
<1>7. CASE StartBot \/ StartOperator
  BY <1>7, Names DEF StartBot, StartOperator, HistNext
<1>8. CASE OpenBot \/ CloseBot \/ StopBot
  BY <1>8 DEF OpenBot, CloseBot, StopBot, HistNext
<1>9. CASE OperatorWorks
  BY <1>9 DEF OperatorWorks, HistNext
<1>10. CASE Disconnect \/ NextDay
  BY <1>10 DEF Disconnect, NextDay
<1> QED BY <1>1, <1>2, <1>3, <1>4, <1>5, <1>6, <1>7, <1>8, <1>9, <1>10
        DEF SubmissionNext, SubmissionStep

\* The submission uses the history by its operations alone.
THEOREM SubmissionUsesHistory == SubmissionSpec => UsesHistory
<1>1. SubmissionInit => HistInit
  BY DEF SubmissionInit
<1> QED BY <1>1, SubmissionIsHistory, PTL DEF SubmissionSpec, UsesHistory, HistSpec

\* So the trader's submissions, with their lost answers, retries and restarts,
\* implement the delivery of shares: none of them takes a receipt back, reports a
\* share twice or adds to a final order.
THEOREM SubmissionDelivers == SubmissionSpec => ImplementsShareDelivery
  BY SubmissionUsesHistory, HistoryUsesLedger, LedgerImplementsShareDelivery, PTL DEF UsesHistory

-----------------------------------------------------------------------------
(* What the bot's steps leave alone *)

\* A step after which the bot has the same session, with the same mark of a
\* clean end, and the intents that it had.
Quiet ==
    /\ own' = own /\ holder' = holder
    /\ own[Bot] # 0 => sessions'[own[Bot]] = sessions[own[Bot]]
    /\ \A k \in Keys : own[Bot] # 0 /\ Recorded(k) => Recorded(k)'

\* An order that has a row keeps its session.
LEMMA OrderStepKeepsSession ==
  ASSUME Consistent, NEW k \in Keys, OrderStep(Bot, k), Present(orders[k]), Consistent'
  PROVE  Present(orders'[k]) /\ orders'[k].session = orders[k].session
<1>1. orders \in [Keys -> Order] /\ orders[k] \in Order /\ RecordOk(orders[k]) /\ Quantity[k] \in Nat
  BY FactsAssumption DEF Consistent, TypeOK
<1>2. orders'[k].session = orders[k].session
  <2>1. ASSUME NEW o \in Odnos, Accepted(Bot, k, o)
        PROVE  orders'[k].session = orders[k].session
    BY <1>1, <2>1, AcceptedOk DEF Accepted, Commit
  <2>2. ASSUME NEW status \in Outcomes, Outcome(Bot, k, status)
        PROVE  orders'[k].session = orders[k].session
    BY <1>1, <2>2, OutcomeOk DEF Outcome, Commit
  <2>3. ~Intent(Bot, k)
    BY DEF Intent
  <2>4. CASE FillStep(k)
    BY <2>4, FillStepFrame DEF Consistent
  <2> QED BY <2>1, <2>2, <2>3, <2>4 DEF OrderStep, FillStep
<1>3. RecordOk(orders[k]) /\ RecordOk(orders'[k])
  BY <1>1 DEF Consistent
<1> QED BY <1>2, <1>3 DEF RecordOk

\* A write of the bot, of any order.
LEMMA WriteIsQuiet ==
  ASSUME Consistent, NEW k \in Keys, OrderStep(Bot, k), holder' = holder, Consistent'
  PROVE  Quiet
<1>1. /\ sessions' = sessions /\ own' = own
      /\ \A j \in Keys \ {k} : orders'[j] = orders[j]
  BY OrderStepFrame, Names DEF Consistent
<1>2. Recorded(k) => Recorded(k)'
  BY <1>1, OrderStepKeepsSession DEF Recorded
<1> QED BY <1>1, <1>2 DEF Quiet, Recorded

\* A task's call that fails, or a snapshot.
LEMMA SilentIsQuiet ==
  ASSUME TypeOK, StorageFault(Bot) \/ UNCHANGED ledgerVars, holder' = holder
  PROVE  Quiet
<1>1. own' = own /\ sessions' = sessions /\ orders' = orders
  BY StorageFaultFrame, Names DEF ledgerVars
<1> QED BY <1>1 DEF Quiet, Recorded

\* What a call of the task of k does to it.
LEMMA CallShape ==
  ASSUME Inv, NEW k \in Keys, Consistent',
         (MayWrite /\ OrderStep(Bot, k) /\ Committed(k)) \/ CallFails(k)
  PROVE  /\ Quiet
         /\ \/ /\ pc' = pc /\ writing' = k
               /\ MayWrite /\ OrderStep(Bot, k) /\ Committed(k)
            \/ /\ writing' = Nobody /\ Resume(k, FALSE)
<1>1. CASE MayWrite /\ OrderStep(Bot, k) /\ Committed(k)
  <2>1. Quiet
    BY <1>1, WriteIsQuiet DEF Inv, Committed
  <2> QED BY <1>1, <2>1 DEF Committed, AfterCommit, MayWrite
<1>2. CASE CallFails(k)
  <2>1. Quiet
    BY <1>2, SilentIsQuiet DEF Inv, Consistent, CallFails
  <2> QED BY <1>2, <2>1 DEF CallFails
<1> QED BY <1>1, <1>2

\* Where a task goes on, it is one of its phases.
LEMMA AfterWritePhases ==
  ASSUME NEW k, NEW ok \in BOOLEAN
  PROVE  /\ AfterWrite(k, ok) \subseteq {"sending", "done", "recUnknown", "booking"}
         /\ pc[k] # "gated" => "sending" \notin AfterWrite(k, ok)
         /\ ~ok /\ kind[k] # "full" => "sending" \notin AfterWrite(k, ok)
  BY DEF AfterWrite

-----------------------------------------------------------------------------
(* Types *)

\* A task that goes on has a phase.
LEMMA GotoTyped ==
  ASSUME pc \in [Keys -> Phases], NEW k \in Keys, NEW phase \in Phases, Goto(k, phase)
  PROVE  pc' \in [Keys -> Phases]
  BY DEF Goto

\* A task that its history call resumes has a phase.
LEMMA ResumeTyped ==
  ASSUME pc \in [Keys -> Phases], NEW k \in Keys, NEW ok \in BOOLEAN, Resume(k, ok)
  PROVE  pc' \in [Keys -> Phases]
<1>1. AfterWrite(k, ok) \subseteq Phases
  BY AfterWritePhases DEF Phases
<1> QED BY <1>1, GotoTyped DEF Resume

\* What the book's operations give is a book.
LEMMA BooksTyped ==
  ASSUME book \in Book, bookFile \in Book, day \in Nat
  PROVE  /\ Today(book) \in Book /\ Today(bookFile) \in Book /\ NoEntries(day) \in Book
         /\ \A buy, sell \in BOOLEAN : Record(buy, sell) =>
               /\ book' \in Book /\ bookFile' \in Book
               /\ book'.day = day /\ bookFile'.day \in {day, bookFile.day}
  BY DEF Book, Today, NoEntries, Record, Merged

\* Every step of the submission keeps the types.
LEMMA SubTypes ==
  ASSUME SubInv, SubmissionNext, Consistent'
  PROVE  SubmissionTypeOK'
<1>1. /\ kind \in Kinds /\ kind \in [Keys -> {"buy", "partial", "full"}] /\ kind' = kind
      /\ pc \in [Keys -> Phases] /\ tried \subseteq Keys
      /\ closing \in {"no", "close", "skip"} /\ book \in Book /\ bookFile \in Book
      /\ day \in 1..MaxDay[kind] /\ MaxDay[kind] \in Nat /\ day \in Nat
      /\ alive \in [Keys -> BOOLEAN] /\ posts \in [Keys -> Nat]
  BY KindAssumption DEF SubInv, SubmissionTypeOK, SubmissionNext
<1>2. ASSUME NEW k \in Keys, Submit(k) PROVE SubmissionTypeOK'
  BY <1>1, <1>2, GotoTyped DEF Submit, SubmissionTypeOK, Phases
<1>3. ASSUME NEW k \in Keys, RecordIntent(k) PROVE SubmissionTypeOK'
  <2>1. pc' \in [Keys -> Phases]
    BY <1>1, <1>3, IntentCall, CallShape, ResumeTyped, GotoTyped DEF SubInv, Phases
  <2> QED BY <1>1, <1>3, <2>1 DEF RecordIntent, SubmissionTypeOK
<1>4. ASSUME NEW k \in Keys, Send(k) PROVE SubmissionTypeOK'
  <2>1. pc' \in [Keys -> Phases]
    BY <1>1, <1>4, GotoTyped DEF Send, Phases
  <2>2. posts' \in [Keys -> Nat]
    BY <1>1, <1>4 DEF Send
  <2>3. alive' \in [Keys -> BOOLEAN]
    BY <1>1, <1>4 DEF Send
  <2> QED BY <1>1, <1>4, <2>1, <2>2, <2>3 DEF Send, SubmissionTypeOK
<1>5. ASSUME NEW k \in Keys, NotSent(k) PROVE SubmissionTypeOK'
  <2>1. pc' \in [Keys -> Phases]
    BY <1>1, <1>5, GotoTyped DEF NotSent, Phases
  <2> QED BY <1>1, <1>5, <2>1 DEF NotSent, SubmissionTypeOK
<1>6. ASSUME NEW k \in Keys, Answer(k) PROVE SubmissionTypeOK'
  <2>1. pc' \in [Keys -> Phases]
    BY <1>1, <1>6, GotoTyped DEF Answer, Phases
  <2>2. posts[k] = 1
    BY <1>6 DEF Answer, At, SubInv, TaskOk
  <2>3. posts' \in [Keys -> Nat]
    BY <1>1, <1>6, <2>2 DEF Answer
  <2> QED BY <1>1, <1>6, <2>1, <2>3 DEF Answer, SubmissionTypeOK
<1>7. ASSUME NEW k \in Keys, RecordAnswer(k) PROVE SubmissionTypeOK'
  <2>1. pc' \in [Keys -> Phases]
    BY <1>1, <1>7, AnswerCall, CallShape, ResumeTyped DEF SubInv
  <2> QED BY <1>1, <1>7, <2>1 DEF RecordAnswer, SubmissionTypeOK
<1>8. ASSUME NEW k \in Keys, RecordUnknown(k) PROVE SubmissionTypeOK'
  <2>1. pc' \in [Keys -> Phases]
    BY <1>1, <1>8, GotoTyped DEF RecordUnknown, Phases
  <2>2. book' \in Book /\ bookFile' \in Book
    BY <1>1, <1>8, BooksTyped DEF RecordUnknown
  <2> QED BY <1>1, <1>8, <2>1, <2>2 DEF RecordUnknown, SubmissionTypeOK
<1>9. ASSUME NEW k \in Keys, SettleAccepted(k) PROVE SubmissionTypeOK'
  BY <1>1, <1>9 DEF SettleAccepted, SubmissionTypeOK
<1>10. CASE EndOfWrite /\ UNCHANGED <<tried, closing, book, bookFile, day, alive, posts>>
  <2>1. pc' \in [Keys -> Phases]
    BY <1>1, <1>10, ResumeTyped DEF EndOfWrite
  <2> QED BY <1>1, <1>10, <2>1 DEF SubmissionTypeOK
<1>11. CASE StartBot
  <2>1. book' \in Book /\ bookFile' \in Book
    BY <1>1, <1>11, BooksTyped DEF StartBot, Book
  <2> QED BY <1>1, <1>11, <2>1 DEF StartBot, SubmissionTypeOK
<1>12. CASE StopBot
  <2>1. pc' \in [Keys -> Phases]
    BY <1>1, <1>12 DEF StopBot, Phases
  <2>2. book' \in Book
    BY <1>1, <1>12, BooksTyped DEF StopBot
  <2> QED BY <1>1, <1>12, <2>1, <2>2 DEF StopBot, SubmissionTypeOK
<1>13. CASE OpenBot \/ CloseBot \/ StartOperator \/ OperatorWorks
  BY <1>1, <1>13 DEF OpenBot, CloseBot, StartOperator, OperatorWorks, sendVars, SubmissionTypeOK
<1>14. CASE Disconnect
  BY <1>1, <1>14 DEF Disconnect, SubmissionTypeOK
<1>15. CASE NextDay
  <2>1. alive' \in [Keys -> BOOLEAN] /\ day' \in 1..MaxDay[kind]
    BY <1>1, <1>15 DEF NextDay
  <2> QED BY <1>1, <1>15, <2>1 DEF NextDay, SubmissionTypeOK
<1> QED BY <1>2, <1>3, <1>4, <1>5, <1>6, <1>7, <1>8, <1>9, <1>10, <1>11, <1>12, <1>13, <1>14, <1>15
        DEF SubmissionNext, SubmissionStep

-----------------------------------------------------------------------------
(* The tasks *)

\* A task that a quiet step leaves where it is stays as it was.
LEMMA TaskKept ==
  ASSUME NEW k \in Keys, TaskOk(k), kind' = kind, pc'[k] = pc[k], posts'[k] = posts[k],
         k \in tried' <=> k \in tried, writing' = k => writing = k,
         own[Bot] # 0 /\ Recorded(k) => own'[Bot] # 0 /\ Recorded(k)'
  PROVE  TaskOk(k)'
  BY DEF TaskOk, OnItsWay

\* The steps of submit_order that leave the history alone.
LEMMA SendSideKeeps ==
  ASSUME SubInv, kind' = kind, NEW k \in Keys,
         Submit(k) \/ Send(k) \/ NotSent(k) \/ Answer(k) \/ RecordUnknown(k)
  PROVE  \A j \in Keys : TaskOk(j)'
<1>1. /\ UNCHANGED vars /\ tried' = tried /\ holder = Bot
      /\ sessions' = sessions /\ own' = own /\ orders' = orders /\ writing' = writing
  BY DEF Submit, Send, NotSent, Answer, RecordUnknown, vars, ledgerVars, histVars, At, Running
<1>2. pc \in [Keys -> Phases] /\ posts \in [Keys -> Nat] /\ TaskOk(k)
  BY DEF SubInv, SubmissionTypeOK
<1>3. ASSUME NEW j \in Keys, j # k PROVE TaskOk(j)'
  <2>1. pc'[j] = pc[j] /\ posts'[j] = posts[j]
    BY <1>2, <1>3 DEF Submit, Send, NotSent, Answer, RecordUnknown, Goto
  <2> QED BY <1>1, <2>1, TaskKept DEF SubInv, Recorded
<1>4. TaskOk(k)'
  <2>1. CASE Submit(k)
    <3>1. pc'[k] = "gated" /\ posts'[k] = posts[k]
      BY <1>2, <2>1 DEF Submit, Goto
    <3> QED BY <1>1, <1>2, <2>1, <3>1 DEF Submit, TaskOk, OnItsWay, OutcomeOf
  <2>2. CASE Send(k)
    <3>1. pc'[k] = "inflight" /\ posts'[k] = posts[k] + 1 /\ writing # k /\ pc[k] = "sending"
      BY <1>2, <2>2 DEF Send, Goto, At
    <3> QED BY <1>1, <1>2, <3>1 DEF TaskOk, OnItsWay, Recorded
  <2>3. CASE NotSent(k)
    <3>1. /\ pc'[k] \in {"recNotSent", "recRejected", "recUnknown"} /\ posts'[k] = posts[k]
          /\ writing # k /\ pc[k] = "sending"
      BY <1>2, <2>3 DEF NotSent, Goto, At
    <3> QED BY <1>1, <1>2, <3>1 DEF TaskOk, OnItsWay
  <2>4. CASE Answer(k)
    <3>1. /\ \/ pc'[k] \in {"accepting", "recTemp", "recRejected", "recUnknown"} /\ posts'[k] = posts[k]
             \/ pc'[k] = "sending" /\ posts'[k] = posts[k] - 1
          /\ writing # k /\ pc[k] = "inflight"
      BY <1>2, <2>4 DEF Answer, Goto, At
    <3> QED BY <1>1, <1>2, <3>1 DEF TaskOk, OnItsWay, Recorded
  <2>5. CASE RecordUnknown(k)
    <3>1. pc'[k] = "done" /\ posts'[k] = posts[k] /\ writing # k /\ pc[k] = "booking"
      BY <1>2, <2>5 DEF RecordUnknown, Goto, At
    <3> QED BY <1>1, <1>2, <3>1 DEF TaskOk, OnItsWay
  <2> QED BY <2>1, <2>2, <2>3, <2>4, <2>5
<1> QED BY <1>3, <1>4

\* The intent: stored once, and before the task may go on to send.
LEMMA IntentKeeps ==
  ASSUME SubInv, kind' = kind, NEW k \in Keys, RecordIntent(k), Consistent'
  PROVE  \A j \in Keys : TaskOk(j)'
<1>1. /\ pc \in [Keys -> Phases] /\ TaskOk(k) /\ pc[k] = "gated" /\ writing # k /\ Inv
      /\ posts' = posts /\ tried \subseteq Keys
  BY DEF SubInv, SubmissionTypeOK, RecordIntent, At
<1>2. CASE k \in tried /\ Goto(k, "done") /\ UNCHANGED <<vars, tried>>
  <2>1. pc'[k] = "done" /\ \A j \in Keys \ {k} : pc'[j] = pc[j]
    BY <1>1, <1>2 DEF Goto
  <2>2. UNCHANGED <<own, orders, writing>>
    BY <1>2 DEF vars, ledgerVars, histVars
  <2>3. ASSUME NEW j \in Keys, j # k PROVE TaskOk(j)'
    BY <1>1, <1>2, <2>1, <2>2, <2>3, TaskKept DEF SubInv, Recorded
  <2>4. TaskOk(k)'
    BY <1>1, <1>2, <2>1, <2>2 DEF TaskOk, OnItsWay
  <2> QED BY <2>3, <2>4
<1>3. CASE /\ k \notin tried /\ tried' = tried \cup {k}
           /\ \/ MayWrite /\ OrderStep(Bot, k) /\ Intent(Bot, k) /\ Committed(k)
              \/ CallFails(k)
  <2>1. Quiet
    BY <1>1, <1>3, CallShape
  <2>2. ASSUME NEW j \in Keys, j # k, pc'[j] = pc[j], writing' \in {k, Nobody} PROVE TaskOk(j)'
    BY <1>1, <1>3, <2>1, <2>2, TaskKept, Names DEF SubInv, Quiet
  <2>3. CASE pc' = pc /\ writing' = k /\ MayWrite /\ Intent(Bot, k)
    <3>1. own'[Bot] # 0 /\ Recorded(k)'
      <4>1. own[Bot] # 0 /\ own' = own
        BY <1>1, <2>1, <2>3 DEF Inv, MayWrite, Quiet
      <4>2. orders' = [orders EXCEPT ![k] = NewOrder(own[Bot])] /\ orders \in [Keys -> Order]
        BY <1>1, <2>3 DEF Intent, Commit, Inv, Consistent, TypeOK
      <4> QED BY <4>1, <4>2 DEF Recorded, Present, NewOrder
    <3>2. TaskOk(k)'
      BY <1>1, <1>3, <2>3, <3>1 DEF TaskOk, OnItsWay
    <3> QED BY <2>2, <2>3, <3>2
  <2>4. CASE writing' = Nobody /\ Resume(k, FALSE)
    <3>1. /\ pc'[k] \in {"sending", "done"} /\ (pc'[k] = "sending" => kind[k] = "full")
          /\ \A j \in Keys \ {k} : pc'[j] = pc[j]
      BY <1>1, <2>4 DEF Resume, AfterWrite, Goto
    <3>2. TaskOk(k)'
      BY <1>1, <1>3, <2>4, <3>1, Names DEF TaskOk, OnItsWay
    <3> QED BY <2>2, <2>4, <3>1, <3>2
  <2> QED BY <1>1, <1>3, <2>3, <2>4 DEF Committed, AfterCommit, CallFails, MayWrite
<1> QED BY <1>2, <1>3, IntentCall

\* The record of the exchange's answer.
LEMMA AnswerRecordKeeps ==
  ASSUME SubInv, kind' = kind, NEW k \in Keys, RecordAnswer(k), Consistent'
  PROVE  \A j \in Keys : TaskOk(j)'
<1>1. /\ pc \in [Keys -> Phases] /\ TaskOk(k) /\ Inv /\ posts' = posts /\ tried' = tried
      /\ pc[k] \in {"accepting", "recNotSent", "recRejected", "recUnknown", "recTemp"}
  BY AnswerCall DEF SubInv, SubmissionTypeOK, RecordAnswer, OutcomeOf
<1>2. /\ Quiet
      /\ \/ pc' = pc /\ writing' = k
         \/ writing' = Nobody /\ Resume(k, FALSE)
  BY <1>1, AnswerCall, CallShape
<1>3. /\ writing' \in {k, Nobody} /\ (writing' = k => pc' = pc)
      /\ pc'[k] \in {pc[k], "done", "recUnknown", "booking"}
      /\ \A j \in Keys \ {k} : pc'[j] = pc[j]
  BY <1>1, <1>2, Names DEF Resume, AfterWrite, Goto
<1>4. ASSUME NEW j \in Keys, j # k PROVE TaskOk(j)'
  BY <1>1, <1>2, <1>3, <1>4, TaskKept, Names DEF SubInv, Quiet
<1>5. TaskOk(k)'
  BY <1>1, <1>3 DEF TaskOk, OnItsWay, OutcomeOf
<1> QED BY <1>4, <1>5

\* The end of a write: the task that waited for it goes on.
LEMMA EndOfWriteKeeps ==
  ASSUME SubInv, kind' = kind, EndOfWrite, UNCHANGED <<tried, posts>>
  PROVE  Quiet /\ \A j \in Keys : TaskOk(j)'
<1>1. pc \in [Keys -> Phases] /\ Inv /\ TypeOK /\ writing' = Nobody
  BY DEF SubInv, SubmissionTypeOK, Inv, Consistent, EndOfWrite, Refresh, RefreshFails
<1>2. Quiet
  BY <1>1, SilentIsQuiet DEF EndOfWrite, Refresh, RefreshFails, ledgerVars
<1>3. ASSUME NEW j \in Keys, pc'[j] = pc[j] PROVE TaskOk(j)'
  BY <1>1, <1>2, <1>3, TaskKept, Names DEF SubInv, Quiet
<1>4. ASSUME NEW k \in Keys, k = writing PROVE \A j \in Keys : TaskOk(j)'
  <2>1. PICK ok \in BOOLEAN : Resume(k, ok)
    BY <1>4 DEF EndOfWrite
  <2>2. PICK phase \in AfterWrite(k, ok) : Goto(k, phase)
    BY <2>1 DEF Resume
  <2>3. /\ pc'[k] = phase
        /\ \A j \in Keys \ {k} : pc'[j] = pc[j]
    BY <1>1, <1>4, <2>2 DEF Goto
  <2>4. /\ phase \in {"sending", "done", "recUnknown", "booking"}
        /\ phase = "sending" => pc[k] = "gated"
    BY <2>2, AfterWritePhases
  <2>5. TaskOk(k) /\ (own[Bot] # 0 /\ Recorded(k) => own'[Bot] # 0 /\ Recorded(k)')
    BY <1>2 DEF SubInv, Quiet
  <2>6. posts[k] \in {0, 1} /\ k \in tried /\ (phase = "sending" => posts[k] = 0)
    BY <1>4, <2>4, <2>5 DEF TaskOk
  <2>7. kind[k] # "full" /\ phase = "sending" => own'[Bot] # 0 /\ Recorded(k)'
    BY <1>4, <2>4, <2>5 DEF TaskOk, OnItsWay
  <2>8. TaskOk(k)'
    BY <1>1, <2>3, <2>4, <2>6, <2>7, Names DEF TaskOk, OnItsWay
  <2>9. ASSUME NEW j \in Keys, j # k PROVE TaskOk(j)'
    BY <1>3, <2>3, <2>9
  <2> QED BY <2>8, <2>9
<1>5. ASSUME writing \notin Keys PROVE \A j \in Keys : TaskOk(j)'
  <2>1. pc' = pc
    BY <1>5 DEF EndOfWrite
  <2> QED BY <1>3, <2>1
<1> QED BY <1>2, <1>4, <1>5

\* The end of a bot, and the start of one: no task is left to run.
LEMMA RestingTasks ==
  ASSUME SubInv, kind' = kind, posts' = posts, tried' = {}, writing' = Nobody,
         \A k \in Keys : pc'[k] \in {"idle", "gone"} /\ (pc'[k] = "idle" => pc[k] = "idle")
  PROVE  \A k \in Keys : TaskOk(k)'
<1> SUFFICES ASSUME NEW k \in Keys PROVE TaskOk(k)'
  OBVIOUS
<1>1. TaskOk(k)
  BY DEF SubInv
<1> QED BY <1>1, Names DEF TaskOk, OnItsWay

\* The tasks, at every step of the submission.
LEMMA TasksKept ==
  ASSUME SubInv, SubmissionNext, Consistent'
  PROVE  \A k \in Keys : TaskOk(k)'
<1>1. kind' = kind /\ Inv /\ TypeOK
  BY DEF SubmissionNext, SubInv, Inv, Consistent
<1>2. ASSUME NEW k \in Keys, SubmissionStep(k) PROVE \A j \in Keys : TaskOk(j)'
  <2>1. CASE SettleAccepted(k)
    <3>1. /\ OrderStep(Bot, k) /\ holder' = holder /\ writing' \in {"fill", Nobody}
          /\ UNCHANGED <<pc, tried, posts>>
      BY <1>1, <2>1, SettleIsWriteFill, FillStepFrame
         DEF SettleAccepted, WriteFill, FillStep, AfterCommit, MayWrite
    <3>2. Quiet
      BY <1>1, <3>1, WriteIsQuiet DEF Inv
    <3> QED BY <1>1, <3>1, <3>2, TaskKept, ProcsAssumption DEF SubInv, Quiet
  <2> QED BY <1>1, <1>2, <2>1, SendSideKeeps, IntentKeeps, AnswerRecordKeeps DEF SubmissionStep
<1>3. CASE EndOfWrite /\ UNCHANGED <<tried, closing, book, bookFile, day, alive, posts>>
  BY <1>1, <1>3, EndOfWriteKeeps
<1>4. CASE StartBot
  <2>1. holder # Bot /\ UNCHANGED <<pc, posts, writing>> /\ tried' = {}
    BY <1>4, Names DEF StartBot, Start
  <2> QED BY <1>1, <2>1, RestingTasks DEF SubInv, Resting, Inv, AtRest
<1>5. CASE StopBot
  <2>1. /\ pc' = [k \in Keys |-> IF pc[k] = "idle" THEN "idle" ELSE "gone"]
        /\ posts' = posts /\ tried' = {} /\ writing' = Nobody
    BY <1>5 DEF StopBot, BotExits
  <2> QED BY <1>1, <2>1, RestingTasks
<1>6. CASE OpenBot
  <2>1. UNCHANGED <<pc, tried, posts, writing>>
    BY <1>6 DEF OpenBot, OpenHistory, sendVars
  <2>2. own[Bot] # 0 => UNCHANGED <<own, orders>>
    BY <1>6 DEF OpenBot, OpenHistory, Open, StorageFault
  <2> QED BY <1>1, <2>1, <2>2, TaskKept DEF SubInv, Recorded
<1>7. CASE CloseBot
  <2>1. UNCHANGED <<pc, tried, posts>> /\ writing' \in {"close", Nobody}
    BY <1>7 DEF CloseBot, CloseHistory, sendVars, AfterCommit, MayWrite
  <2>2. UNCHANGED <<own, orders>>
    BY <1>1, <1>7, CloseFrame, Names DEF CloseBot, CloseHistory
  <2> QED BY <1>1, <2>1, <2>2, TaskKept, ProcsAssumption DEF SubInv, Recorded
<1>8. CASE StartOperator \/ Disconnect \/ NextDay
  <2>1. UNCHANGED <<pc, tried, posts, writing, own, orders>>
    BY <1>8 DEF StartOperator, Start, Disconnect, NextDay, sendVars, vars, ledgerVars, histVars
  <2> QED BY <1>1, <2>1, TaskKept DEF SubInv, Recorded
<1>9. CASE OperatorWorks
  <2>1. UNCHANGED <<pc, tried, posts, writing>> /\ holder = Operator
    BY <1>9 DEF OperatorWorks, OperatorStep, OperatorExits, sendVars, histVars, Running
  <2>2. own[Bot] = 0
    BY <1>1, <2>1, Names DEF Inv, Locked
  <2> QED BY <1>1, <2>1, <2>2, TaskKept DEF SubInv
<1> QED BY <1>2, <1>3, <1>4, <1>5, <1>6, <1>7, <1>8, <1>9 DEF SubmissionNext

-----------------------------------------------------------------------------
(* The end of the session, and the book *)

\* What a step of a task leaves alone besides.
LEMMA StepFrame ==
  ASSUME SubInv, Consistent',
         \/ \E k \in Keys : SubmissionStep(k)
         \/ EndOfWrite /\ UNCHANGED <<tried, closing, book, bookFile, day, alive, posts>>,
         kind' = kind
  PROVE  /\ Quiet /\ holder = Bot /\ closing' = closing /\ day' = day
         /\ \A k \in Keys : pc'[k] = "gone" => pc[k] = "gone" /\ alive'[k] = alive[k]
         /\ \/ UNCHANGED <<book, bookFile>>
            \/ \E buy, sell \in BOOLEAN : Record(buy, sell)
<1>1. Inv /\ TypeOK /\ Consistent /\ pc \in [Keys -> Phases] /\ alive \in [Keys -> BOOLEAN]
  BY DEF SubInv, SubmissionTypeOK, Inv, Consistent
<1>2. ASSUME NEW k \in Keys, Submit(k) \/ Send(k) \/ NotSent(k) \/ Answer(k) \/ RecordUnknown(k)
      PROVE  /\ UNCHANGED vars /\ holder = Bot /\ closing' = closing /\ day' = day
             /\ \A j \in Keys : pc'[j] = "gone" => pc[j] = "gone" /\ alive'[j] = alive[j]
             /\ \/ UNCHANGED <<book, bookFile>>
                \/ \E buy, sell \in BOOLEAN : Record(buy, sell)
  <2>1. /\ UNCHANGED vars /\ holder = Bot /\ closing' = closing /\ day' = day
        /\ pc'[k] # "gone" /\ \A j \in Keys \ {k} : pc'[j] = pc[j] /\ alive'[j] = alive[j]
    BY <1>1, <1>2 DEF Submit, Send, NotSent, Answer, RecordUnknown, At, Running, Goto
  <2>2. \/ UNCHANGED <<book, bookFile>>
        \/ \E buy, sell \in BOOLEAN : Record(buy, sell)
    BY <1>2 DEF Submit, Send, NotSent, Answer, RecordUnknown
  <2> QED BY <2>1, <2>2
<1>3. UNCHANGED vars => Quiet
  BY DEF vars, ledgerVars, histVars, Quiet, Recorded
<1>4. ASSUME NEW k \in Keys, RecordIntent(k) \/ RecordAnswer(k)
      PROVE  /\ Quiet /\ holder = Bot /\ UNCHANGED <<closing, day, book, bookFile, alive>>
             /\ \A j \in Keys : pc'[j] = "gone" => pc[j] = "gone"
  <2>1. /\ holder = Bot /\ UNCHANGED <<closing, day, book, bookFile, alive>>
    BY <1>4 DEF RecordIntent, RecordAnswer, At, Running
  <2>2. Quiet /\ (pc' = pc \/ Goto(k, "done") \/ Resume(k, FALSE))
    BY <1>1, <1>3, <1>4, IntentCall, AnswerCall, CallShape
  <2>3. \A j \in Keys : pc'[j] = "gone" => pc[j] = "gone"
    BY <1>1, <2>2, AfterWritePhases DEF Resume, Goto
  <2> QED BY <2>1, <2>2, <2>3
<1>5. ASSUME NEW k \in Keys, SettleAccepted(k)
      PROVE  Quiet /\ holder = Bot /\ UNCHANGED <<closing, day, book, bookFile, alive, pc>>
  <2>1. /\ OrderStep(Bot, k) /\ holder' = holder /\ holder = Bot
        /\ UNCHANGED <<closing, day, book, bookFile, alive, pc>>
    BY <1>1, <1>5, SettleIsWriteFill, FillStepFrame
       DEF SettleAccepted, WriteFill, FillStep, MayWrite, Running
  <2> QED BY <1>1, <2>1, WriteIsQuiet
<1>6. ASSUME EndOfWrite /\ UNCHANGED <<tried, closing, book, bookFile, day, alive, posts>>
      PROVE  /\ Quiet /\ holder = Bot /\ UNCHANGED <<closing, day, book, bookFile, alive>>
             /\ \A j \in Keys : pc'[j] = "gone" => pc[j] = "gone"
  <2>1. holder = Bot /\ (pc' = pc \/ \E k \in Keys, ok \in BOOLEAN : Resume(k, ok))
    BY <1>6 DEF EndOfWrite, Refresh, RefreshFails, Running
  <2>2. \A j \in Keys : pc'[j] = "gone" => pc[j] = "gone"
    BY <1>1, <2>1, AfterWritePhases DEF Resume, Goto
  <2> QED BY <1>6, <2>1, <2>2, EndOfWriteKeeps
<1> QED BY <1>2, <1>3, <1>4, <1>5, <1>6 DEF SubmissionStep

\* Without the bot no task runs.
LEMMA RestingKept ==
  ASSUME SubInv, SubmissionNext, Consistent'
  PROVE  Resting'
<1>1. kind' = kind /\ pc \in [Keys -> Phases] /\ Resting
  BY DEF SubmissionNext, SubInv, SubmissionTypeOK
<1>2. CASE \/ \E k \in Keys : SubmissionStep(k)
           \/ EndOfWrite /\ UNCHANGED <<tried, closing, book, bookFile, day, alive, posts>>
  BY <1>1, <1>2, StepFrame DEF Quiet, Resting
<1>3. CASE StartBot \/ OpenBot \/ CloseBot
  BY <1>3 DEF StartBot, Start, OpenBot, OpenHistory, CloseBot, CloseHistory, MayOpen, MayWrite,
     Running, Resting
<1>4. CASE StopBot
  BY <1>1, <1>4 DEF StopBot, Resting
<1>5. CASE StartOperator \/ OperatorWorks
  BY <1>1, <1>5, Names DEF StartOperator, Start, OperatorWorks, OperatorStep, OperatorExits,
     Running, sendVars, histVars, Resting
<1>6. CASE Disconnect \/ NextDay
  BY <1>1, <1>6 DEF Disconnect, NextDay, vars, histVars, Resting
<1> QED BY <1>2, <1>3, <1>4, <1>5, <1>6 DEF SubmissionNext

\* A session that ended clean is one that disconnect closed.
LEMMA ClosingKept ==
  ASSUME SubInv, SubmissionNext, Consistent'
  PROVE  ClosingOk'
<1>1. kind' = kind /\ Inv /\ TypeOK /\ ClosingOk /\ Locked
  BY DEF SubmissionNext, SubInv, Inv, Consistent
<1>2. CASE \/ \E k \in Keys : SubmissionStep(k)
           \/ EndOfWrite /\ UNCHANGED <<tried, closing, book, bookFile, day, alive, posts>>
  BY <1>1, <1>2, StepFrame DEF Quiet, ClosingOk
<1>3. CASE StartBot \/ StartOperator
  BY <1>1, <1>3, Names DEF StartBot, StartOperator, Start, Locked, ClosingOk, ledgerVars
<1>4. CASE OpenBot
  <2>1. CASE Open(Bot)
    <3> DEFINE n == [clean |-> FALSE, priorUnclean |-> InheritsUnclean, acknowledged |-> FALSE]
    <3>1. /\ sessions \in Seq(Session) /\ n \in Session /\ ~n.clean /\ sessions' = Append(sessions, n)
          /\ own[Bot] = 0
      BY <1>1, <2>1 DEF Open, TypeOK, Session, InheritsUnclean
    <3> HIDE DEF n
    <3>2. Len(sessions') = Len(sessions) + 1 /\ ~sessions'[Len(sessions')].clean
      BY <3>1
    <3>3. own'[Bot] = Len(sessions') \/ own'[Bot] = 0
      BY <1>1, <2>1, OpenFrame, Names
    <3> QED BY <3>2, <3>3 DEF ClosingOk
  <2>2. CASE StorageFault(Bot)
    BY <1>1, <1>4, <2>2, StorageFaultFrame, Names DEF OpenBot, sendVars, ClosingOk
  <2> QED BY <1>4, <2>1, <2>2 DEF OpenBot, OpenHistory
<1>5. CASE CloseBot
  BY <1>5 DEF CloseBot, sendVars, ClosingOk
<1>6. CASE StopBot
  <2>1. own'[Bot] = 0
    BY <1>1, <1>6, ExitFrame, Names DEF StopBot, BotExits, ledgerVars
  <2> QED BY <2>1 DEF ClosingOk
<1>7. CASE OperatorWorks
  <2>1. holder = Operator /\ own[Bot] = 0
    BY <1>1, <1>7, Names DEF OperatorWorks, OperatorStep, OperatorExits, Running, Locked
  <2>2. own'[Bot] = 0
    <3>1. Only(Operator)
      BY <1>1, <1>7, OpenFrame, AcknowledgeFrame, CloseFrame, StorageFaultFrame, ExitFrame, Names
         DEF OperatorWorks, OperatorStep, OperatorExits, ledgerVars, Only
    <3> QED BY <2>1, <3>1, Names DEF Only
  <2> QED BY <2>2 DEF ClosingOk
<1>8. CASE Disconnect
  BY <1>1, <1>8 DEF Disconnect, vars, ledgerVars, ClosingOk
<1>9. CASE NextDay
  BY <1>1, <1>9 DEF NextDay, vars, ledgerVars, ClosingOk
<1> QED BY <1>2, <1>3, <1>4, <1>5, <1>6, <1>7, <1>8, <1>9 DEF SubmissionNext

\* An entry is added to what the book and its file hold of the day.
LEMMA RecordKeepsEntries ==
  ASSUME book \in Book, bookFile \in Book, day \in Nat, day' = day,
         NEW buy \in BOOLEAN, NEW sell \in BOOLEAN, Record(buy, sell),
         Today(bookFile).buy => Today(book).buy, Today(bookFile).sell => Today(book).sell
  PROVE  /\ Today(bookFile)'.buy => Today(book)'.buy
         /\ Today(bookFile)'.sell => Today(book)'.sell
         /\ Today(book).buy => Today(book)'.buy
<1> DEFINE mine == Merged(book, buy, sell)
           both == Merged(bookFile, mine.buy, mine.sell)
<1>1. /\ mine.day = day /\ both.day = day
      /\ mine.buy = (buy \/ Today(book).buy) /\ mine.sell = (sell \/ Today(book).sell)
      /\ both.buy = (mine.buy \/ Today(bookFile).buy) /\ both.sell = (mine.sell \/ Today(bookFile).sell)
  BY DEF Merged
<1>2. \/ book' = both /\ bookFile' = both
      \/ book' = mine /\ bookFile' = bookFile
  BY DEF Record
<1> HIDE DEF mine, both
<1>3. Today(book)' = book'
  BY <1>1, <1>2 DEF Today
<1>4. CASE book' = both /\ bookFile' = both
  <2>1. Today(bookFile)' = bookFile'
    BY <1>1, <1>4 DEF Today
  <2> QED BY <1>1, <1>3, <1>4, <2>1
<1>5. CASE book' = mine /\ bookFile' = bookFile
  <2>1. Today(bookFile)' = Today(bookFile)
    BY <1>5 DEF Today, NoEntries
  <2> QED BY <1>1, <1>3, <1>5, <2>1
<1> QED BY <1>2, <1>4, <1>5

\* The book, at every step of the submission.
LEMMA BookKept ==
  ASSUME SubInv, SubmissionNext, Consistent'
  PROVE  BookOk'
<1>1. /\ kind' = kind /\ BookOk /\ book \in Book /\ bookFile \in Book /\ day \in Nat
      /\ pc \in [Keys -> Phases]
  BY KindAssumption DEF SubmissionNext, SubInv, SubmissionTypeOK
<1>2. CASE \/ \E k \in Keys : SubmissionStep(k)
           \/ EndOfWrite /\ UNCHANGED <<tried, closing, book, bookFile, day, alive, posts>>
  <2>1. /\ holder = Bot /\ day' = day
        /\ \A k \in Keys : LostBuy(k)' => LostBuy(k)
        /\ \/ UNCHANGED <<book, bookFile>>
           \/ \E buy, sell \in BOOLEAN : Record(buy, sell)
    BY <1>1, <1>2, StepFrame DEF LostBuy
  <2>2. CASE UNCHANGED <<book, bookFile>>
    BY <1>1, <2>1, <2>2 DEF BookOk, Today, NoEntries
  <2>3. ASSUME NEW buy \in BOOLEAN, NEW sell \in BOOLEAN, Record(buy, sell) PROVE BookOk'
    <3>1. book'.day <= day /\ bookFile'.day <= day
      BY <1>1, <2>3, BooksTyped DEF BookOk
    <3>2. /\ Today(bookFile).buy => Today(book).buy
          /\ Today(bookFile).sell => Today(book).sell
          /\ \A k \in Keys : LostBuy(k) => Today(book).buy
      BY <1>1, <2>1 DEF BookOk
    <3>3. /\ Today(bookFile)'.buy => Today(book)'.buy
          /\ Today(bookFile)'.sell => Today(book)'.sell
          /\ Today(book).buy => Today(book)'.buy
      BY <1>1, <2>1, <2>3, <3>2, RecordKeepsEntries
    <3> QED BY <2>1, <3>1, <3>2, <3>3 DEF BookOk
  <2> QED BY <2>1, <2>2, <2>3
<1>3. CASE StartBot
  <2>1. /\ day' = day /\ UNCHANGED <<pc, alive>>
        /\ Today(bookFile) \in Book /\ Today(bookFile).day = day
    BY <1>1, <1>3, BooksTyped DEF StartBot, Today, NoEntries
  <2>2. CASE /\ \A k \in Keys : alive[k] => kind[k] # "buy"
             /\ book' = Today(bookFile) /\ UNCHANGED bookFile
    <3>1. Today(bookFile)' = Today(bookFile) /\ Today(book)' = Today(bookFile)
      BY <2>1, <2>2 DEF Today, NoEntries
    <3> QED BY <1>1, <2>1, <2>2, <3>1 DEF BookOk, LostBuy
  <2>3. CASE /\ book' = [Today(bookFile) EXCEPT !.buy = TRUE]
             /\ bookFile' \in {bookFile, book'}
    <3>1. /\ book'.day = day /\ book'.buy = TRUE /\ book'.sell = Today(bookFile).sell
      BY <2>1, <2>3 DEF Book
    <3>2. Today(book)' = book' /\ Today(bookFile)' \in {Today(bookFile), book'}
      BY <2>1, <2>3, <3>1 DEF Today, NoEntries
    <3>3. book'.day <= day' /\ bookFile'.day <= day'
      <4>1. bookFile.day <= day /\ day \in Nat /\ day' = day
        BY <1>1, <2>1 DEF BookOk
      <4>2. bookFile' = bookFile \/ bookFile' = book'
        BY <2>3
      <4> QED BY <3>1, <4>1, <4>2
    <3>4. Today(bookFile)'.sell => Today(book)'.sell
      BY <3>1, <3>2
    <3> QED BY <3>1, <3>2, <3>3, <3>4 DEF BookOk
  <2> QED BY <1>3, <2>2, <2>3 DEF StartBot
<1>4. CASE StopBot
  <2>1. book' = NoEntries(day) /\ UNCHANGED <<bookFile, day>> /\ holder' # Bot
    BY <1>4, Names DEF StopBot, BotExits
  <2> QED BY <1>1, <2>1 DEF BookOk, NoEntries
<1>5. CASE NextDay
  <2>1. /\ UNCHANGED <<book, bookFile, pc, holder>> /\ day' = day + 1
        /\ \A k \in Keys : ~alive'[k]
    BY <1>5 DEF NextDay, vars, histVars
  <2>2. book.day # day' /\ bookFile.day # day'
    BY <1>1, <2>1 DEF BookOk, Book
  <2>3. Today(book)' = NoEntries(day') /\ Today(bookFile)' = NoEntries(day')
    BY <2>1, <2>2 DEF Today
  <2>4. book.day <= day' /\ bookFile.day <= day'
    BY <1>1, <2>1 DEF BookOk, Book
  <2> QED BY <2>1, <2>3, <2>4 DEF BookOk, LostBuy, NoEntries
<1>6. CASE OpenBot \/ CloseBot \/ Disconnect \/ StartOperator \/ OperatorWorks
  <2>1. UNCHANGED <<book, bookFile, day, alive, pc>> /\ (holder' = Bot => holder = Bot)
    BY <1>6, Names DEF OpenBot, OpenHistory, CloseBot, CloseHistory, Disconnect, StartOperator, Start,
       OperatorWorks, OperatorStep, OperatorExits, sendVars, vars, histVars
  <2>2. Today(book)' = Today(book) /\ Today(bookFile)' = Today(bookFile)
    BY <2>1 DEF Today, NoEntries
  <2> QED BY <1>1, <2>1, <2>2 DEF BookOk, LostBuy
<1> QED BY <1>2, <1>3, <1>4, <1>5, <1>6 DEF SubmissionNext

-----------------------------------------------------------------------------
(* The invariance theorem *)

\* No order, no run, an empty book.
LEMMA SubmissionInitInv == SubmissionInit => SubInv
<1> SUFFICES ASSUME SubmissionInit PROVE SubInv
  OBVIOUS
<1>1. Inv /\ writing = Nobody /\ own[Bot] = 0 /\ kind \in Kinds
  BY HistInitInv, Names DEF SubmissionInit, HistInit, Init
<1>2. 1 \in 1..MaxDay[kind]
  BY <1>1, KindAssumption
<1>3. SubmissionTypeOK
  BY <1>1, <1>2 DEF SubmissionInit, SubmissionTypeOK, Phases, NoEntries, Book
<1>4. \A k \in Keys : TaskOk(k)
  BY <1>1, Names DEF SubmissionInit, TaskOk, OnItsWay
<1>5. Resting /\ ClosingOk /\ BookOk
  BY <1>1, Names DEF SubmissionInit, HistInit, Resting, ClosingOk, BookOk, NoEntries
<1> QED BY <1>1, <1>3, <1>4, <1>5 DEF SubInv

\* Every step of the submission preserves the inductive invariant.
LEMMA SubmissionNextInv == SubInv /\ [SubmissionNext]_allVars => SubInv'
<1> SUFFICES ASSUME SubInv, [SubmissionNext]_allVars PROVE SubInv'
  OBVIOUS
<1>1. Inv' /\ Consistent'
  BY SubmissionIsHistory, HistNextInv DEF SubInv, Inv
<1>2. CASE UNCHANGED allVars
  BY <1>1, <1>2 DEF allVars, vars, ledgerVars, histVars, sendVars, SubInv, SubmissionTypeOK, TaskOk,
     OnItsWay, Recorded, Resting, ClosingOk, BookOk, LostBuy, Today, NoEntries
<1>3. CASE SubmissionNext
  BY <1>1, <1>3, SubTypes, TasksKept, RestingKept, ClosingKept, BookKept DEF SubInv
<1> QED BY <1>2, <1>3

\* The inductive invariant holds in every run of the submission.
THEOREM SubmissionInvariance == SubmissionSpec => []SubInv
  BY SubmissionInitInv, SubmissionNextInv, PTL DEF SubmissionSpec

\* One submit_order reaches the exchange at most once, over any number of lost
\* answers, renewed tokens, resubmissions and restarts.
THEOREM SubmittedOnce == SubmissionSpec => []SentAtMostOnce
<1>1. SubInv => SentAtMostOnce
  BY DEF SubInv, TaskOk, SentAtMostOnce
<1> QED BY <1>1, SubmissionInvariance, PTL

\* What is so of a step that sends an order.
LEMMA SendStep ==
  ASSUME SubInv, [SubmissionNext]_allVars, NEW k \in Keys, Sent(k)
  PROVE  Send(k) /\ UNCHANGED vars
<1>1. SubmissionNext /\ Inv /\ Consistent' /\ pc \in [Keys -> Phases]
  BY SubmissionIsHistory, HistNextInv DEF Sent, allVars, sendVars, SubInv, SubmissionTypeOK, Inv
<1>2. pc[k] = "sending" /\ pc'[k] = "inflight"
  BY DEF Sent
<1>3. ASSUME NEW j \in Keys, SubmissionStep(j) PROVE Send(k)
  <2>1. CASE Send(j)
    BY <1>1, <1>2, <2>1 DEF Send, Goto
  <2>2. CASE RecordIntent(j) \/ RecordAnswer(j)
    <3>1. pc' = pc \/ Goto(j, "done") \/ Resume(j, FALSE)
      BY <1>1, <2>2, IntentCall, AnswerCall, CallShape
    <3> QED BY <1>1, <1>2, <3>1, AfterWritePhases DEF Resume, Goto
  <2>3. CASE Submit(j) \/ NotSent(j) \/ Answer(j) \/ RecordUnknown(j) \/ SettleAccepted(j)
    BY <1>1, <1>2, <2>3 DEF Submit, NotSent, Answer, RecordUnknown, SettleAccepted, Goto
  <2> QED BY <1>3, <2>1, <2>2, <2>3 DEF SubmissionStep
<1>4. ASSUME EndOfWrite PROVE FALSE
  <2>1. pc' = pc \/ \E j \in Keys, ok \in BOOLEAN : Resume(j, ok)
    BY <1>4 DEF EndOfWrite
  <2> QED BY <1>1, <1>2, <2>1, AfterWritePhases DEF Resume, Goto
<1>5. ASSUME StopBot PROVE FALSE
  BY <1>2, <1>5 DEF StopBot
<1>6. ASSUME StartBot \/ OpenBot \/ Disconnect \/ CloseBot \/ StartOperator \/ OperatorWorks \/ NextDay
      PROVE  FALSE
  BY <1>2, <1>6 DEF StartBot, OpenBot, Disconnect, CloseBot, StartOperator, OperatorWorks, NextDay, sendVars
<1>7. Send(k)
  BY <1>1, <1>3, <1>4, <1>5, <1>6 DEF SubmissionNext
<1> QED BY <1>7 DEF Send

\* What holds in the state in which an order is sent.
LEMMA SendingState ==
  ASSUME SubInv, NEW k \in Keys, Send(k)
  PROVE  /\ kind[k] # "full" => Recorded(k)
         /\ holder = Bot /\ closing = "no"
         /\ kind[k] = "buy" => ~Today(book).buy
         /\ kind[k] = "partial" => ~Today(book).sell
<1>1. TaskOk(k) /\ pc[k] = "sending"
  BY DEF SubInv, Send, At
<1> QED BY <1>1 DEF Send, At, Running, Gate, BuyHold, UnknownSell, TaskOk, OnItsWay

\* A buy or a partial sell leaves the bot only after its intent is durable.
THEOREM IntentIsDurable == SubmissionSpec => IntentBeforePost
<1>1. SubInv /\ [SubmissionNext]_allVars =>
        [\A k \in Keys : Sent(k) /\ kind[k] # "full" =>
            Present(orders[k]) /\ orders[k].session = own[Bot]]_allVars
  BY SendStep, SendingState DEF Recorded
<1> QED BY <1>1, SubmissionInvariance, PTL DEF SubmissionSpec, IntentBeforePost

\* After a session was recorded as ended clean nothing is sent.
THEOREM CleanEndIsFinal == SubmissionSpec => NoPostAfterCleanEnd
<1>1. SubInv /\ [SubmissionNext]_allVars =>
        [\A k \in Keys : Sent(k) /\ own[Bot] # 0 => ~sessions[own[Bot]].clean]_allVars
  BY SendStep, SendingState DEF SubInv, ClosingOk
<1> QED BY <1>1, SubmissionInvariance, PTL DEF SubmissionSpec, NoPostAfterCleanEnd

\* What the saved book says of the day stops buys and partial sells.
THEOREM BookStopsOrders == SubmissionSpec => BookHolds
<1>1. SubInv /\ [SubmissionNext]_allVars =>
        [\A k \in Keys : Sent(k) =>
            /\ kind[k] = "buy" => ~Today(bookFile).buy
            /\ kind[k] = "partial" => ~Today(bookFile).sell]_allVars
  BY SendStep, SendingState DEF SubInv, BookOk
<1> QED BY <1>1, SubmissionInvariance, PTL DEF SubmissionSpec, BookHolds

\* No buy goes out over one that an earlier run left at the exchange.
THEOREM LostBuyHolds == SubmissionSpec => NoBuyOverLostBuy
<1>1. SubInv /\ [SubmissionNext]_allVars =>
        [\A j, k \in Keys :
            Sent(k) /\ kind[k] = "buy" /\ j # k /\ kind[j] = "buy" =>
                ~(alive[j] /\ pc[j] = "gone")]_allVars
  BY SendStep, SendingState DEF SubInv, BookOk, LostBuy
<1> QED BY <1>1, SubmissionInvariance, PTL DEF SubmissionSpec, NoBuyOverLostBuy
=============================================================================
