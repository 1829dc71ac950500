---------------------------- MODULE LlmBudget ----------------------------
(***************************************************************************)
(* The monthly budget of paid language model calls                         *)
(* (utils/llm_budget.py, llm_budget_reconciliation.py): a SQLite file that *)
(* several processes share.                                                *)
(*                                                                         *)
(* A process reserves an upper bound of the cost before it sends a request *)
(* and settles the real cost afterwards.  It holds a file lock of the      *)
(* reservation meanwhile, so that whoever finds the lock free knows that   *)
(* the process is gone and that the cost is unknown.  Looking means taking *)
(* the lock for a moment.                                                  *)
(*                                                                         *)
(* BEGIN IMMEDIATE makes every writing transaction one step; what a step   *)
(* does besides (the policy's notices, the price list) only refuses more   *)
(* admissions.  A reservation's month is the one it was admitted in.       *)
(***************************************************************************)
EXTENDS Integers, FiniteSets, Functions

CONSTANTS
    Tokens,     \* names of reservations, taken in their order
    Procs,      \* processes that use the ledger
    Limit,      \* limit_units of a month
    Sizes,      \* what a request may reserve
    LastMonth,  \* bound: months 1..LastMonth
    Overrun     \* bound: by how much a cost may exceed its reservation

ASSUME BudgetAssumption ==
    /\ Tokens \subseteq Nat /\ IsFiniteSet(Tokens) /\ Sizes \subseteq Nat \ {0}
    /\ Limit \in Nat /\ LastMonth \in Nat \ {0} /\ Overrun \in Nat

VARIABLES
    rows,       \* table reservations, with timeout_bounds
    breach,     \* settings.bound_breach
    owner,      \* the process that holds the lock of a reservation
    charge,     \* what the provider charges for it, unknown to the ledger
    sent,       \* reservations whose request was sent
    probing,    \* the reservation whose lock the status() of a process holds
    month

vars == <<rows, breach, owner, charge, sent, probing, month>>

Nobody == "nobody"
NoToken == 0

Absent == [state |-> "absent", month |-> 0, units |-> 0, actual |-> 0, cert |-> FALSE, held |-> FALSE]

In(state) == {t \in Tokens : rows[t].state = state}

\* _orphaned: the lock can be taken, or its file is gone.
Orphaned(t) == owner[t] = Nobody /\ \A p \in Procs : probing[p] # t

\* Reserved rows that a transaction finds without a process, and with one.
Orphans == {t \in In("reserved") : Orphaned(t)}
InFlight == In("reserved") \ Orphans

\* _snapshot: what the month is charged with.
Committed ==
    LET counted == {t \in InFlight : rows[t].month = month \/ rows[t].cert}
        certain == {t \in In("unknown") : rows[t].held}
    IN  SumFunctionOnSet([t \in Tokens |-> rows[t].actual], {t \in In("settled") : rows[t].month = month})
        + SumFunctionOnSet([t \in Tokens |-> rows[t].units], counted \cup certain)

\* Rows whose cost has no bound.
Unbounded == Orphans \cup {t \in In("unknown") : ~rows[t].held}

\* Variant for a mutation run: a process that is gone owes nothing.
BlockedByTheKnown == breach \/ {t \in In("unknown") : ~rows[t].held} # {} \/ Committed >= Limit

\* The reasons of _snapshot to block, missing_cost_policy being 'block'.
Blocked == breach \/ Unbounded # {} \/ Committed >= Limit

\* The orphans are written down as unknown, whatever the transaction decides.
Persisted == [t \in Tokens |-> IF t \in Orphans THEN [rows[t] EXCEPT !.state = "unknown"] ELSE rows[t]]

-----------------------------------------------------------------------------
\* status() takes the lock of an orphan to see whether it is one, and drops it.
Probe(p, t) ==
    /\ probing[p] = NoToken /\ t \in Orphans
    /\ probing' = [probing EXCEPT ![p] = t]
    /\ UNCHANGED <<rows, breach, owner, charge, sent, month>>

EndProbe(p) ==
    /\ probing[p] # NoToken
    /\ probing' = [probing EXCEPT ![p] = NoToken]
    /\ UNCHANGED <<rows, breach, owner, charge, sent, month>>

\* policy_status, and the reserve that is refused.
Observe ==
    /\ rows' = Persisted
    /\ UNCHANGED <<breach, owner, charge, sent, probing, month>>

\* reserve.  A COMMIT that failed may have been written; the lock is dropped.
Reserve(p, t, units, cert) ==
    /\ probing[p] = NoToken
    /\ rows[t] = Absent /\ \A u \in Tokens : rows[u] = Absent => t <= u
    /\ ~Blocked /\ Committed + units <= Limit
    /\ rows' = [Persisted EXCEPT ![t] = [Absent EXCEPT !.state = "reserved", !.month = month,
                                                      !.units = units, !.cert = cert]]
    /\ owner' \in {[owner EXCEPT ![t] = q] : q \in {p, Nobody}}
    /\ UNCHANGED <<breach, charge, sent, probing, month>>

\* The provider takes the request and will charge for it.
Send(t, cost) ==
    /\ owner[t] # Nobody /\ t \notin sent
    /\ cost <= rows[t].units + Overrun
    /\ sent' = sent \cup {t}
    /\ charge' = [charge EXCEPT ![t] = cost]
    /\ UNCHANGED <<rows, breach, owner, probing, month>>

\* The outcomes of a request that settle may be told (_settle_monthly).
Outcomes(t) ==
    IF t \notin sent THEN {"not_sent", "unknown"}
    ELSE {"known", "unknown", "timeout"} \cup (IF charge[t] = 0 THEN {"rejected"} ELSE {})

\* The row after a settlement.
Settled(t, outcome) ==
    CASE outcome = "known" -> [rows[t] EXCEPT !.state = "settled", !.actual = charge[t]]
      [] outcome = "timeout" -> [rows[t] EXCEPT !.state = "unknown", !.held = rows[t].cert]
      [] outcome = "unknown" -> [rows[t] EXCEPT !.state = "unknown"]
      [] OTHER -> [rows[t] EXCEPT !.state = "released"]

\* settle: the process gives the lock up, also when nothing could be written.
Settle(t) ==
    /\ owner[t] # Nobody
    /\ owner' = [owner EXCEPT ![t] = Nobody]
    /\ \/ \E outcome \in Outcomes(t) :
             /\ rows' = [rows EXCEPT ![t] = Settled(t, outcome)]
             /\ breach' = (breach \/ (outcome = "known" /\ charge[t] > rows[t].units))
       \/ UNCHANGED <<rows, breach>>
    /\ UNCHANGED <<charge, sent, probing, month>>

\* A process dies: the kernel drops its locks.
Crash(p) ==
    /\ owner' = [t \in Tokens |-> IF owner[t] = p THEN Nobody ELSE owner[t]]
    /\ probing' = [probing EXCEPT ![p] = NoToken]
    /\ UNCHANGED <<rows, breach, charge, sent, month>>

NextMonth ==
    /\ month < LastMonth /\ month' = month + 1
    /\ UNCHANGED <<rows, breach, owner, charge, sent, probing>>

\* Variant for a mutation run: requests in flight are reconciled, too.
ReconcileAll(resolved, clear) ==
    /\ resolved \subseteq In("reserved") \cup In("unknown") /\ resolved # {} /\ ~clear
    /\ rows' = [t \in Tokens |-> IF t \in resolved
                                 THEN [rows[t] EXCEPT !.state = "settled", !.actual = charge[t]]
                                 ELSE rows[t]]
    /\ UNCHANGED <<breach, owner, charge, sent, probing, month>>

\* reconcile_budget: an operator, who has the provider's invoice, settles costs
\* that are not resolved; never while a request is in flight.
Reconcile(resolved, clear) ==
    /\ InFlight = {} /\ resolved \subseteq Orphans \cup In("unknown")
    /\ resolved # {} \/ clear
    /\ LET over == {t \in resolved : charge[t] > rows[t].units} IN
       /\ clear => breach /\ over = {} /\ resolved = Orphans \cup In("unknown")
       /\ breach' = (~clear /\ (breach \/ over # {}))
    /\ rows' = [t \in Tokens |-> IF t \in resolved
                                 THEN [rows[t] EXCEPT !.state = "settled", !.actual = charge[t]]
                                 ELSE rows[t]]
    /\ UNCHANGED <<owner, charge, sent, probing, month>>

-----------------------------------------------------------------------------
Init ==
    /\ rows = [t \in Tokens |-> Absent] /\ breach = FALSE /\ month = 1
    /\ owner = [t \in Tokens |-> Nobody] /\ charge = [t \in Tokens |-> 0] /\ sent = {}
    /\ probing = [p \in Procs |-> NoToken]

Next ==
    \/ \E p \in Procs, t \in Tokens :
          \/ Probe(p, t)
          \/ \E units \in Sizes, cert \in BOOLEAN : Reserve(p, t, units, cert)
    \/ \E p \in Procs : EndProbe(p) \/ Crash(p)
    \/ \E t \in Tokens : Settle(t) \/ \E cost \in 0..(Limit + Overrun) : Send(t, cost)
    \/ \E resolved \in SUBSET Tokens, clear \in BOOLEAN : Reconcile(resolved, clear)
    \/ Observe \/ NextMonth

Spec == Init /\ [][Next]_vars

-----------------------------------------------------------------------------
(* Properties *)

RowStates == {"absent", "reserved", "settled", "released", "unknown"}

\* Types of the variables.
TypeOK ==
    /\ rows \in [Tokens -> [state : RowStates, month : Nat, units : Nat, actual : Nat,
                            cert : BOOLEAN, held : BOOLEAN]]
    /\ breach \in BOOLEAN /\ month \in Nat
    /\ owner \in [Tokens -> Procs \cup {Nobody}] /\ charge \in [Tokens -> Nat]
    /\ sent \subseteq Tokens /\ probing \in [Procs -> Tokens \cup {NoToken}]

\* What a request is charged, up to the bound that it reserved.
Bounded(t) == IF charge[t] < rows[t].units THEN charge[t] ELSE rows[t].units

\* What the provider really charges for the requests of a month, up to the bound
\* each of them reserved, stays within the limit: whatever was lost on the way.
ChargesWithinLimit ==
    \A m \in 1..LastMonth :
        SumFunctionOnSet([t \in Tokens |-> Bounded(t)], {t \in Tokens : rows[t].month = m}) <= Limit

\* A reservation is only resolved by its process while that lives: neither other
\* processes nor the operator take it for lost.
LiveIsReserved == \A t \in Tokens : owner[t] # Nobody => rows[t].state = "reserved"
=============================================================================
