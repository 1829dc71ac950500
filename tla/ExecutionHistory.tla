------------------------ MODULE ExecutionHistory -------------------------
(***************************************************************************)
(* ExecutionHistory (src/execution/execution_history.py) is the only door  *)
(* through which the trading bot reaches its execution ledger.  It keeps a *)
(* cached snapshot, which every synchronous gate (hold, pending_handoffs)  *)
(* reads, and a fault that, once set, stays for the life of the process.   *)
(*                                                                         *)
(* _write commits an operation, then awaits a snapshot: between the two    *)
(* steps the cache is behind the file, and either await may fail or be     *)
(* cancelled.  The operator's acknowledge command uses the ledger directly.*)
(* Both take the singleton lock of utils/trader_lock.py for their lifetime.*)
(***************************************************************************)
EXTENDS ExecutionLedger

CONSTANTS
    Bot, Operator,     \* the two processes
    Nobody             \* no process, or no order

ASSUME ProcsAssumption ==
    /\ Procs = {Bot, Operator} /\ Bot # Operator
    /\ Nobody \notin Procs \cup Keys \cup {"close", "fill"}
    /\ Keys \cap {"close", "fill"} = {}

VARIABLES
    holder,      \* the process that holds the singleton lock
    opened,      \* history._opened of the running bot
    closed,      \* history._closed
    histFault,   \* history.fault is set
    snap,        \* history._snapshot
    writing      \* whose operation is committed but not in snap yet: the task of
                 \* an order, the fill path, or close

histVars == <<holder, opened, closed, histFault, snap, writing>>
vars == <<ledgerVars, histVars>>

NoOrders == [k \in Keys |-> Absent]

Unopened == [prior |-> FALSE, orders |-> NoOrders]

\* What ledger.snapshot() returns to the bot after a step.
Current == [prior |-> sessions[own[Bot]].priorUnclean, orders |-> orders]

-----------------------------------------------------------------------------
(* The gates other components read *)

\* An order of the past that nobody reconciled, or one of unknown outcome.
Uncertain(r) ==
    /\ ~(r.session # own[Bot] /\ r.acknowledged)
    /\ \/ r.session # own[Bot] /\ Unresolved(r)
       \/ r.status \in {"unknown", "modified"}

\* Variant for a mutation run.
HoldPriorIgnored(ks) ==
    \/ histFault \/ ~opened \/ closed
    \/ \E k \in ks : Uncertain(snap.orders[k])

\* hold(symbol) for the orders of that symbol; hold() for all of them.
Hold(ks) ==
    \/ histFault \/ ~opened \/ closed
    \/ snap.prior
    \/ \E k \in ks : Uncertain(snap.orders[k])

PendingHandoffs(ks) ==
    \E k \in ks : snap.orders[k].session = own[Bot] /\ ~Handed(snap.orders[k])

SessionRecorded == opened /\ ~closed

-----------------------------------------------------------------------------
(* Operations of the bot *)

Running(p) == holder = p

\* Variant for a mutation run.
StartUnlocked(p) ==
    /\ holder' = p
    /\ UNCHANGED <<ledgerVars, opened, closed, histFault, snap, writing>>

\* trader_lock.hold_or_exit at process start.
Start(p) ==
    /\ holder = Nobody
    /\ holder' = p
    /\ UNCHANGED <<ledgerVars, opened, closed, histFault, snap, writing>>

\* fail(reason): the first reason latches.
Fail ==
    /\ Running(Bot) /\ ~histFault
    /\ histFault' = TRUE
    /\ UNCHANGED <<ledgerVars, holder, opened, closed, snap, writing>>

MayOpen == Running(Bot) /\ ~opened /\ ~closed /\ ~histFault

\* open(): the ledger returns the first snapshot; a failure or a cancellation
\* latches the fault.
OpenHistory ==
    /\ MayOpen
    /\ \/ /\ Open(Bot)
          /\ opened' = ~fault'[Bot]
          /\ histFault' = fault'[Bot]
          /\ snap' = IF fault'[Bot] THEN snap
                     ELSE [prior |-> sessions'[own'[Bot]].priorUnclean, orders |-> orders]
       \/ /\ StorageFault(Bot)
          /\ histFault' = TRUE /\ UNCHANGED <<opened, snap>>
    /\ UNCHANGED <<holder, closed, writing>>

MayWrite == Running(Bot) /\ opened /\ ~closed /\ ~histFault /\ writing = Nobody

\* The outcome of the ledger call inside _write, for the task of order w.
AfterCommit(w) ==
    IF fault'[Bot]
    THEN histFault' = TRUE /\ UNCHANGED writing
    ELSE writing' = w /\ UNCHANGED histFault

Write(k) ==
    /\ MayWrite
    /\ OrderStep(Bot, k)
    /\ AfterCommit(k)
    /\ UNCHANGED <<holder, opened, closed, snap>>

\* A report of the exchange, or the receipt of a fill, for the fill check.
WriteFill(k) ==
    /\ MayWrite
    /\ \/ \E quantity \in 0..Quantity[k], terminal \in BOOLEAN : Observe(Bot, k, quantity, terminal)
       \/ \E e \in orders[k].executions : ReceiptApplied(Bot, k, e) \/ ReceiptReturned(Bot, k, e)
    /\ AfterCommit("fill")
    /\ UNCHANGED <<holder, opened, closed, snap>>

\* Variant for a mutation run: closed after a fault as well.
CloseAnyway ==
    /\ Running(Bot) /\ opened /\ ~closed /\ writing = Nobody
    /\ Close(Bot)
    /\ AfterCommit("close")
    /\ UNCHANGED <<holder, opened, closed, snap>>

\* close(): nothing is closed after a fault.
CloseHistory ==
    /\ MayWrite
    /\ Close(Bot)
    /\ AfterCommit("close")
    /\ UNCHANGED <<holder, opened, closed, snap>>

\* The ledger refuses the operation, or its storage fails.
RefuseWrite ==
    /\ MayWrite
    /\ StorageFault(Bot) \/ UNCHANGED ledgerVars
    /\ histFault' = TRUE
    /\ UNCHANGED <<holder, opened, closed, snap, writing>>

\* Variant for a mutation run.
RefreshOnlyOnClose ==
    /\ Running(Bot) /\ writing # Nobody
    /\ snap' = IF writing = "close" THEN Current ELSE snap
    /\ closed' = (writing = "close")
    /\ writing' = Nobody
    /\ UNCHANGED <<ledgerVars, holder, opened, histFault>>

\* The snapshot that ends _write.
Refresh ==
    /\ Running(Bot) /\ writing # Nobody
    /\ snap' = Current
    /\ closed' = (writing = "close")
    /\ writing' = Nobody
    /\ UNCHANGED <<ledgerVars, holder, opened, histFault>>

\* The snapshot fails or its await is cancelled: the cache stays behind.
RefreshFails ==
    /\ Running(Bot) /\ writing # Nobody
    /\ StorageFault(Bot) \/ UNCHANGED ledgerVars
    /\ histFault' = TRUE
    /\ writing' = Nobody
    /\ UNCHANGED <<holder, opened, closed, snap>>

\* The bot's process ends at any point; the next start has a fresh memory.
BotExits ==
    /\ Running(Bot)
    /\ Exit(Bot) \/ (own[Bot] = 0 /\ ~fault[Bot] /\ UNCHANGED ledgerVars)
    /\ holder' = Nobody
    /\ opened' = FALSE /\ closed' = FALSE /\ histFault' = FALSE
    /\ snap' = Unopened /\ writing' = Nobody

-----------------------------------------------------------------------------
(* The operator's command: open an existing file, acknowledge, close, end *)

OperatorStep ==
    /\ Running(Operator)
    /\ \/ sessions # <<>> /\ Open(Operator)
       \/ Acknowledge(Operator)
       \/ Close(Operator)
       \/ StorageFault(Operator)
    /\ UNCHANGED histVars

OperatorExits ==
    /\ Running(Operator)
    /\ Exit(Operator) \/ (own[Operator] = 0 /\ ~fault[Operator] /\ UNCHANGED ledgerVars)
    /\ holder' = Nobody
    /\ UNCHANGED <<opened, closed, histFault, snap, writing>>

-----------------------------------------------------------------------------
HistInit ==
    /\ Init
    /\ holder = Nobody
    /\ opened = FALSE /\ closed = FALSE /\ histFault = FALSE
    /\ snap = Unopened /\ writing = Nobody

HistNext ==
    \/ \E p \in Procs : Start(p)
    \/ Fail \/ OpenHistory
    \/ \E k \in Keys : Write(k) \/ WriteFill(k)
    \/ CloseHistory \/ RefuseWrite \/ Refresh \/ RefreshFails \/ BotExits
    \/ OperatorStep \/ OperatorExits

HistSpec == HistInit /\ [][HistNext]_vars

-----------------------------------------------------------------------------
(* Properties *)

\* The history's memory has its types.
HistTypeOK ==
    /\ holder \in Procs \cup {Nobody}
    /\ opened \in BOOLEAN /\ closed \in BOOLEAN /\ histFault \in BOOLEAN
    /\ snap \in [prior : BOOLEAN, orders : [Keys -> Order]]
    /\ writing \in Keys \cup {"close", "fill", Nobody}

\* Between operations and without a fault, the cache the gates read is the
\* file: no commit of the bot, no step of the operator and no restart leaves
\* hold() or pending_handoffs() with an older view.
SnapshotIsCurrent ==
    Running(Bot) /\ opened /\ ~histFault /\ writing = Nobody => snap = Current

\* While the bot runs, its session is the latest: the singleton lock keeps the
\* operator's command from fencing a running bot.
BotIsNeverFenced == own[Bot] # 0 => own[Bot] = Len(sessions)

\* When hold() lets trading go on, the durable record leaves no doubt behind:
\* the past is vouched for, and the only own order whose outcome is unknown or
\* modified is one whose recording is still awaited.
HoldIsSound ==
    Running(Bot) /\ ~Hold(Keys) =>
        /\ \A i \in 1..(own[Bot] - 1) : Vouched(sessions[i])
        /\ \A k \in Keys :
              /\ orders[k].session # own[Bot] /\ Unresolved(orders[k])
                    => orders[k].acknowledged
              /\ orders[k].session = own[Bot] /\ orders[k].status \in {"unknown", "modified"}
                    => writing = k

\* A bot whose history has a fault never ends its session clean: the next run
\* must start held.
FaultNeverEndsClean ==
    [][\A i \in DOMAIN sessions :
          histFault /\ i = own[Bot] /\ ~sessions[i].clean => ~sessions'[i].clean]_vars
=============================================================================
