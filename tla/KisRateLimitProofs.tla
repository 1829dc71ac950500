------------------------ MODULE KisRateLimitProofs ------------------------
(***************************************************************************)
(* What the limiter guarantees for any number of tasks, any intervals that *)
(* satisfy the assumptions, and any order of answers and failures.         *)
(*                                                                         *)
(* Serial: the slot is as old as its owner's request, so that whoever      *)
(* frees it for stale knows that the request is; the other requests on     *)
(* their way were given up.  Rest: the stamp of the ledger never lies      *)
(* behind the last answer, and never far enough behind the last refusal to *)
(* let an inquiry out too early.                                           *)
(***************************************************************************)
EXTENDS KisRateLimit, FiniteSetTheorems, SequenceTheorems, TLAPS

\* The owner of the slot, and the other inquiries on their way.
Serial ==
    /\ owner # Nobody => IsLedger(owner) /\ At(owner, "open") /\ task[owner].age = busy
    /\ \A t \in Tasks : IsLedger(t) /\ At(t, "open") /\ t # owner => task[t].age > Timeout

\* The ledger's stamp is behind neither the last answer nor the last refusal.
Rest ==
    /\ ledgerLast <= answered
    /\ rejected < LedgerPause => ledgerLast <= rejected + LedgerGap - LedgerPause

\* The inductive invariant.
Inv == LimitTypeOK /\ Serial /\ Rest

\* The constants are numbers, in the order that the code gives them.
LEMMA Numbers ==
  /\ MaxRps \in Nat \ {0} /\ Window \in Nat \ {0} /\ MinGap \in Nat \ {0} /\ Poll \in Nat \ {0}
  /\ Pause \in Nat \ {0} /\ LedgerGap \in Nat \ {0} /\ Timeout \in Nat \ {0}
  /\ LedgerPause \in Nat /\ LedgerPause >= LedgerGap
  /\ Oldest \in Nat /\ Oldest >= LedgerPause
  /\ \A t \in Tasks : t # Nobody /\ (IsLedger(t) => Gap[Tr[t]] \in Nat /\ Gap[Tr[t]] >= LedgerGap)
<1>1. /\ MaxRps \in Nat \ {0} /\ Window \in Nat \ {0} /\ MinGap \in Nat \ {0} /\ Poll \in Nat \ {0}
      /\ Pause \in Nat \ {0} /\ LedgerGap \in Nat \ {0} /\ Timeout \in Nat \ {0}
      /\ LedgerPause \in Nat /\ LedgerPause >= LedgerGap
      /\ \A tr \in DOMAIN Gap : Gap[tr] \in Nat /\ Gap[tr] >= LedgerGap
      /\ \E tr \in DOMAIN Gap : \A o \in DOMAIN Gap : Gap[o] <= Gap[tr]
  BY LimitAssumption
<1>2. (CHOOSE tr \in DOMAIN Gap : \A o \in DOMAIN Gap : Gap[o] <= Gap[tr]) \in DOMAIN Gap
  BY <1>1
<1>3. Oldest \in Nat /\ Oldest >= LedgerPause
  BY <1>1, <1>2 DEF Oldest
<1>4. Nobody \notin Tasks
  BY LimitAssumption
<1> QED BY <1>1, <1>3, <1>4 DEF IsLedger

\* The times are numbers, within their bounds.
LEMMA Times ==
  ASSUME LimitTypeOK
  PROVE  /\ lastSend \in Nat /\ lastSend <= MinGap /\ hold \in Nat /\ hold <= Pause
         /\ ledgerLast \in Int /\ LedgerGap - LedgerPause <= ledgerLast /\ ledgerLast <= Oldest
         /\ busy \in Int /\ -1 <= busy /\ busy <= Timeout + 1
         /\ answered \in Nat /\ answered <= Oldest /\ rejected \in Nat /\ rejected <= Oldest
  BY Numbers DEF LimitTypeOK, Free

\* The window is a part of the calls.
LEMMA RecentOk ==
  ASSUME LimitTypeOK
  PROVE  Recent \in Seq(0..(Window + 1)) /\ Len(Recent) \in Nat /\ Len(Recent) <= Len(calls)
<1> DEFINE old == {i \in 1..Len(calls) : \A j \in 1..i : calls[j] > Window}
<1>1. calls \in Seq(0..(Window + 1)) /\ Len(calls) \in Nat
  BY DEF LimitTypeOK
<1>2. IsFiniteSet(1..Len(calls)) /\ Cardinality(1..Len(calls)) = Len(calls)
  BY <1>1, FS_Interval
<1>3. Cardinality(old) \in Nat /\ Cardinality(old) <= Len(calls)
  BY <1>2, FS_Subset, FS_CardinalityType
<1> DEFINE k == Cardinality(old)
<1> HIDE DEF old
<1>4. /\ SubSeq(calls, k + 1, Len(calls)) \in Seq(0..(Window + 1))
      /\ Len(SubSeq(calls, k + 1, Len(calls))) = Len(calls) - k
  <2>0. k \in Nat
    BY <1>3
  <2> HIDE DEF k
  <2>1. ASSUME NEW i \in (k + 1)..Len(calls) PROVE calls[i] \in 0..(Window + 1)
    <3>1. i \in 1..Len(calls)
      BY <1>1, <2>0
    <3> QED BY <1>1, <3>1, ElementOfSeq
  <2>2. k + 1 \in Int /\ Len(calls) \in Int
    BY <1>1, <2>0
  <2>3. /\ SubSeq(calls, k + 1, Len(calls)) \in Seq(0..(Window + 1))
        /\ Len(SubSeq(calls, k + 1, Len(calls)))
             = IF k + 1 <= Len(calls) THEN Len(calls) - (k + 1) + 1 ELSE 0
    BY <2>1, <2>2, SubSeqProperties
  <2> QED BY <1>1, <1>3, <2>3 DEF k
<1> QED BY <1>1, <1>3, <1>4 DEF Recent, old

\* acquire sends only when its request is held up by no other, and when the
\* interval since the stamp of the ledger is over.
LEMMA SendWaited ==
  ASSUME Inv, NEW t \in Tasks, Send(t)
  PROVE  /\ ~HeldUp(t)
         /\ IsLedger(t) => ledgerLast >= Gap[Tr[t]]
<1>1. Wait(t) <= 0 /\ Reaches
  BY DEF Send
<1>2. hold <= 0
  BY <1>1 DEF Reaches
<1>3. hold \in Int /\ ledgerLast \in Int /\ lastSend \in Int
  BY Times DEF Inv
<1>4. Wait(t) = IF HeldUp(t) THEN Poll
                ELSE IF IsLedger(t) /\ ledgerLast < Gap[Tr[t]] THEN Gap[Tr[t]] - ledgerLast
                ELSE IF lastSend < MinGap THEN MinGap - lastSend
                ELSE 0
  BY <1>1, <1>2, <1>3 DEF Wait
<1>5. ~HeldUp(t)
  BY <1>1, <1>4, Numbers
<1>6. IsLedger(t) => ledgerLast >= Gap[Tr[t]]
  BY <1>1, <1>3, <1>4, <1>5, Numbers
<1> QED BY <1>5, <1>6

\* acquire sleeps for a number of ticks.
LEMMA SleepTicks ==
  ASSUME Inv, NEW t \in Tasks, Wait(t) > 0
  PROVE  Wait(t) \in Nat
<1>1. hold \in Nat /\ ledgerLast \in Int /\ lastSend \in Nat
  BY Times DEF Inv
<1>2. CASE hold > 0
  <2>1. Wait(t) = hold
    BY <1>1, <1>2 DEF Wait
  <2> QED BY <1>1, <1>2, <2>1
<1>3. CASE hold <= 0 /\ ~Reaches
  <2>1. Recent \in Seq(0..(Window + 1)) /\ Recent # <<>>
    BY <1>3, RecentOk, Numbers DEF Reaches, Inv
  <2>2. Head(Recent) \in 0..(Window + 1)
    BY <2>1, HeadTailProperties
  <2>3. Wait(t) = Window - Head(Recent)
    BY <1>1, <1>3 DEF Wait
  <2>4. Wait(t) \in Int
    BY <2>2, <2>3, Numbers
  <2> QED BY <2>4
<1>4. CASE hold <= 0 /\ Reaches
  <2>1. Wait(t) = IF HeldUp(t) THEN Poll
                  ELSE IF IsLedger(t) /\ ledgerLast < Gap[Tr[t]] THEN Gap[Tr[t]] - ledgerLast
                  ELSE IF lastSend < MinGap THEN MinGap - lastSend
                  ELSE 0
    BY <1>1, <1>4 DEF Wait
  <2>2. Wait(t) \in Int
    BY <1>1, <2>1, Numbers
  <2> QED BY <2>2
<1> QED BY <1>1, <1>2, <1>3, <1>4

-----------------------------------------------------------------------------
(* The steps *)

\* A step of one task.
LEMMA OneTask ==
  ASSUME LimitTypeOK, NEW t \in Tasks, NEW n \in Task, task' = [task EXCEPT ![t] = n]
  PROVE  /\ task' \in [Tasks -> Task] /\ task'[t] = n
         /\ \A u \in Tasks : u # t => task'[u] = task[u]
  BY DEF LimitTypeOK

\* A request begins: nothing of it is on its way.
LEMMA BeginInv == ASSUME Inv, NEW t \in Tasks, Begin(t) PROVE Inv'
<1> DEFINE n == [task[t] EXCEPT !.phase = "waiting", !.rounds = @ + 1]
<1>1. n \in Task /\ n.phase = "waiting" /\ task[t].phase = "idle"
  <2>1. task[t] \in Task /\ task[t].phase = "idle"
    BY DEF Begin, At, Inv, LimitTypeOK
  <2>2. task[t].rounds + 1 \in Nat
    BY <2>1 DEF Task
  <2> QED BY <2>1, <2>2 DEF Task
<1>2. task' = [task EXCEPT ![t] = n]
  BY DEF Begin
<1>3. /\ task' \in [Tasks -> Task] /\ task'[t].phase = "waiting"
      /\ \A u \in Tasks : u # t => task'[u] = task[u]
  BY <1>1, <1>2, OneTask DEF Inv
<1>4. LimitTypeOK'
  BY <1>3 DEF Begin, Inv, LimitTypeOK
<1>5. Serial'
  BY <1>1, <1>3 DEF Begin, Inv, LimitTypeOK, Serial, At, IsLedger
<1>6. Rest'
  BY DEF Begin, Inv, Rest
<1> QED BY <1>4, <1>5, <1>6 DEF Inv

\* A sleep frees the slot when the request of its owner is as stale as the slot.
LEMMA SleepInv == ASSUME Inv, NEW t \in Tasks, Sleep(t) PROVE Inv'
<1> DEFINE n == [task[t] EXCEPT !.left = Wait(t)]
<1>1. calls' \in Seq(0..(Window + 1)) /\ Len(calls') <= MaxRps
  BY RecentOk, Numbers DEF Sleep, Inv, LimitTypeOK
<1>2. n \in Task /\ n.phase = task[t].phase /\ n.age = task[t].age
  BY SleepTicks DEF Sleep, Inv, LimitTypeOK, Task
<1>3. task' = [task EXCEPT ![t] = n]
  BY DEF Sleep
<1>4. /\ task' \in [Tasks -> Task]
      /\ \A u \in Tasks : task'[u].phase = task[u].phase /\ task'[u].age = task[u].age
  BY <1>2, <1>3, OneTask DEF Inv
<1>5. \/ busy' = Free /\ owner' = Nobody /\ busy > Timeout
      \/ UNCHANGED <<busy, owner>>
  BY DEF Sleep, Freed, Stale
<1>6. LimitTypeOK'
  <2>1. busy' \in Free..(Timeout + 1) /\ owner' \in Tasks \cup {Nobody} /\ (busy' = Free <=> owner' = Nobody)
    BY <1>5, Numbers DEF Inv, LimitTypeOK, Free
  <2> QED BY <1>1, <1>4, <2>1 DEF Sleep, Inv, LimitTypeOK
<1>7. Serial'
  BY <1>4, <1>5 DEF Inv, LimitTypeOK, Serial, At, IsLedger
<1>8. Rest'
  BY DEF Sleep, Inv, Rest
<1> QED BY <1>6, <1>7, <1>8 DEF Inv

\* A ledger inquiry is sent when the slot is free, or stale with its owner.
LEMMA SendInv == ASSUME Inv, NEW t \in Tasks, Send(t) PROVE Inv'
<1> DEFINE n == [task[t] EXCEPT !.phase = "open", !.age = 0]
<1>1. ~HeldUp(t) /\ (IsLedger(t) => ledgerLast >= Gap[Tr[t]])
  BY SendWaited
<1>2. /\ lastSend' = 0 /\ UNCHANGED <<hold, answered, rejected>>
      /\ IsLedger(t) => ledgerLast' = 0 /\ busy' = 0 /\ owner' = t
      /\ ~IsLedger(t) => UNCHANGED <<ledgerLast, busy, owner>>
      /\ task[t].phase = "waiting" /\ task' = [task EXCEPT ![t] = n]
  BY DEF Send, At
<1>3. n \in Task /\ n.phase = "open" /\ n.age = 0
  <2>1. task[t] \in Task
    BY DEF Inv, LimitTypeOK
  <2>2. 0 \in 0..(Timeout + 1) /\ 0 \in Nat
    BY Numbers
  <2> QED BY <2>1, <2>2 DEF Task
<1>4. /\ task' \in [Tasks -> Task] /\ task'[t].phase = "open" /\ task'[t].age = 0
      /\ \A u \in Tasks : u # t => task'[u] = task[u]
  BY <1>2, <1>3, OneTask DEF Inv
<1>5. calls' \in Seq(0..(Window + 1)) /\ Len(calls') <= MaxRps
  <2>1. Recent \in Seq(0..(Window + 1)) /\ 0 \in 0..(Window + 1) /\ Len(Recent) < MaxRps
    BY RecentOk, Numbers DEF Inv, Send, Reaches
  <2>2. calls' = Append(Recent, 0)
    BY DEF Send
  <2> QED BY <2>1, <2>2, Numbers
<1>6. LimitTypeOK'
  <2>1. busy' \in Free..(Timeout + 1) /\ owner' \in Tasks \cup {Nobody} /\ (busy' = Free <=> owner' = Nobody)
    <3>1. CASE IsLedger(t)
      BY <1>2, <3>1, Numbers DEF Free
    <3>2. CASE ~IsLedger(t)
      BY <1>2, <3>2 DEF Inv, LimitTypeOK
    <3> QED BY <3>1, <3>2
  <2>2. ledgerLast' \in (LedgerGap - LedgerPause)..Oldest /\ lastSend' \in 0..MinGap
    BY <1>2, Numbers DEF Inv, LimitTypeOK
  <2> QED BY <1>2, <1>4, <1>5, <2>1, <2>2 DEF Inv, LimitTypeOK
<1>7. Serial'
  <2>1. CASE IsLedger(t)
    <3>1. owner # Nobody => task[owner].age > Timeout
      BY <1>1, <2>1 DEF HeldUp, Stale, Inv, LimitTypeOK, Serial
    <3>2. \A u \in Tasks : IsLedger(u) /\ At(u, "open") => task[u].age > Timeout
      BY <3>1, LimitAssumption DEF Inv, Serial
    <3> QED BY <1>2, <1>4, <2>1, <3>2 DEF Serial, At, IsLedger
  <2>2. CASE ~IsLedger(t)
    BY <1>2, <1>4, <2>2 DEF Inv, LimitTypeOK, Serial, At, IsLedger
  <2> QED BY <2>1, <2>2
<1>8. Rest'
  <2>1. IsLedger(t) => rejected >= LedgerPause
    BY <1>1, Numbers, Times DEF Inv, Rest
  <2> QED BY <1>2, <2>1, Numbers, Times DEF Inv, Rest
<1> QED BY <1>6, <1>7, <1>8 DEF Inv

\* release_ledger with the end of the request: only its owner gives the slot up.
LEMMA ReleaseInv ==
  ASSUME Inv, NEW t \in Tasks, Release(t), UNCHANGED <<calls, lastSend, hold, rejected>>,
         task' \in [Tasks -> Task], ~At(t, "open")',
         \A u \in Tasks : u # t => task'[u] = task[u]
  PROVE  Inv'
<1>1. LimitTypeOK'
  BY Numbers DEF Inv, LimitTypeOK, Release, Free, Least
<1>2. Serial'
  BY LimitAssumption DEF Inv, LimitTypeOK, Serial, At, IsLedger, Release
<1>3. Rest'
  BY Numbers, Times DEF Inv, Rest, Release, Least
<1> QED BY <1>1, <1>2, <1>3 DEF Inv

\* The response ends the request.
LEMMA AnswerInv == ASSUME Inv, NEW t \in Tasks, Answer(t) PROVE Inv'
<1> DEFINE n == [task[t] EXCEPT !.phase = "answer", !.age = 0]
<1>1. n \in Task /\ n.phase = "answer"
  <2>1. task[t] \in Task
    BY DEF Inv, LimitTypeOK
  <2>2. 0 \in 0..(Timeout + 1) /\ 0 \in Nat
    BY Numbers
  <2> QED BY <2>1, <2>2 DEF Task
<1>2. task' = [task EXCEPT ![t] = n]
  BY DEF Answer
<1> QED BY <1>1, <1>2, OneTask, ReleaseInv DEF Answer, At, Inv

\* A failure ends the request.
LEMMA AbandonInv == ASSUME Inv, NEW t \in Tasks, Abandon(t) PROVE Inv'
<1> DEFINE n == [task[t] EXCEPT !.phase = "idle", !.left = 0, !.age = 0]
<1>1. n \in Task /\ n.phase = "idle"
  <2>1. task[t] \in Task
    BY DEF Inv, LimitTypeOK
  <2>2. 0 \in 0..(Timeout + 1) /\ 0 \in Nat
    BY Numbers
  <2> QED BY <2>1, <2>2 DEF Task
<1>2. task' = [task EXCEPT ![t] = n]
  BY DEF Abandon
<1> QED BY <1>1, <1>2, OneTask, ReleaseInv DEF Abandon, At, Inv

\* A refusal sets the ledger's stamp into the future.
LEMMA ReadBodyInv == ASSUME Inv, NEW t \in Tasks, ReadBody(t) PROVE Inv'
<1> DEFINE n == [task[t] EXCEPT !.phase = "idle"]
<1>1. n \in Task /\ n.phase = "idle" /\ task[t].phase = "answer"
  BY DEF ReadBody, At, Inv, LimitTypeOK, Task
<1>2. task' = [task EXCEPT ![t] = n]
  BY DEF ReadBody
<1>3. /\ task' \in [Tasks -> Task] /\ task'[t].phase = "idle"
      /\ \A u \in Tasks : u # t => task'[u] = task[u]
  BY <1>1, <1>2, OneTask DEF Inv
<1>4. UNCHANGED <<calls, lastSend, busy, owner, answered>>
  BY DEF ReadBody
<1>5. /\ hold' \in 0..Pause /\ ledgerLast' \in (LedgerGap - LedgerPause)..Oldest
      /\ rejected' \in 0..Oldest
  BY Numbers DEF ReadBody, Inv, LimitTypeOK
<1>6. LimitTypeOK'
  BY <1>3, <1>4, <1>5 DEF Inv, LimitTypeOK
<1>7. Serial'
  BY <1>1, <1>3, <1>4 DEF Inv, LimitTypeOK, Serial, At, IsLedger
<1>8. Rest'
  BY Numbers, Times DEF ReadBody, Inv, Rest
<1> QED BY <1>6, <1>7, <1>8 DEF Inv

\* The slot and its owner's request grow old together.
LEMMA TickInv == ASSUME Inv, Tick PROVE Inv'
<1>1. calls' \in Seq(0..(Window + 1)) /\ Len(calls') = Len(calls)
  <2>1. calls \in Seq(0..(Window + 1)) /\ Len(calls) \in Nat /\ DOMAIN calls = 1..Len(calls)
    BY DEF Inv, LimitTypeOK
  <2>2. \A i \in 1..Len(calls) : Least(calls[i] + 1, Window + 1) \in 0..(Window + 1)
    BY <2>1, ElementOfSeq, Numbers DEF Least
  <2>3. calls' = [i \in 1..Len(calls) |-> Least(calls[i] + 1, Window + 1)]
    BY <2>1 DEF Tick
  <2> QED BY <2>1, <2>2, <2>3
<1>2. ASSUME NEW t \in Tasks
      PROVE  /\ task'[t] \in Task /\ task'[t].phase = task[t].phase
             /\ task'[t].age = IF At(t, "open") /\ IsLedger(t)
                               THEN Least(task[t].age + 1, Timeout + 1) ELSE task[t].age
  <2> DEFINE left == IF task[t].left > 0 THEN task[t].left - 1 ELSE 0
             age == IF At(t, "open") /\ IsLedger(t)
                    THEN Least(task[t].age + 1, Timeout + 1) ELSE task[t].age
  <2>1. task[t] \in Task
    BY DEF Inv, LimitTypeOK
  <2>2. left \in Nat /\ age \in 0..(Timeout + 1)
    BY <2>1, Numbers DEF Task, Least
  <2>3. task'[t] = [task[t] EXCEPT !.left = left, !.age = age]
    BY DEF Tick
  <2> HIDE DEF left, age
  <2>4. task'[t] \in Task /\ task'[t].phase = task[t].phase /\ task'[t].age = age
    BY <2>1, <2>2, <2>3 DEF Task
  <2> QED BY <2>4 DEF age
<1>3. task' \in [Tasks -> Task]
  BY <1>2 DEF Tick
<1>4. /\ lastSend' = Least(lastSend + 1, MinGap) /\ ledgerLast' = Least(ledgerLast + 1, Oldest)
      /\ hold' = (IF hold > 0 THEN hold - 1 ELSE 0) /\ owner' = owner
      /\ busy' = (IF busy = Free THEN Free ELSE Least(busy + 1, Timeout + 1))
      /\ answered' = Least(answered + 1, Oldest) /\ rejected' = Least(rejected + 1, Oldest)
  BY DEF Tick
<1>5. /\ lastSend' \in 0..MinGap /\ hold' \in 0..Pause
      /\ ledgerLast' \in (LedgerGap - LedgerPause)..Oldest
      /\ answered' \in 0..Oldest /\ rejected' \in 0..Oldest
  BY <1>4, Numbers, Times DEF Inv, Least
<1>6. busy' \in Free..(Timeout + 1) /\ (busy' = Free <=> busy = Free)
  BY <1>4, Numbers, Times DEF Inv, Least, Free
<1>7. LimitTypeOK'
  BY <1>1, <1>3, <1>4, <1>5, <1>6 DEF Inv, LimitTypeOK
<1>8. Serial'
  <2>1. owner # Nobody => busy # Free /\ owner \in Tasks
    BY DEF Inv, LimitTypeOK
  <2>2. \A t \in Tasks : At(t, "open")' = At(t, "open")
    BY <1>2 DEF At
  <2>3. \A t \in Tasks : task[t].age \in Nat /\ task[t].age <= Timeout + 1
    BY Numbers DEF Inv, LimitTypeOK, Task
  <2>4. owner # Nobody => task'[owner].age = busy'
    BY <1>2, <1>4, <2>1 DEF Inv, Serial
  <2>5. ASSUME NEW t \in Tasks, IsLedger(t), At(t, "open"), t # owner
        PROVE  task'[t].age > Timeout
    BY <1>2, <2>3, <2>5, Numbers DEF Inv, Serial, Least
  <2> QED BY <1>4, <2>1, <2>2, <2>4, <2>5 DEF Inv, Serial, IsLedger
<1>9. Rest'
  <2>1. ledgerLast' <= answered'
    BY <1>4, Numbers, Times DEF Inv, Rest, Least
  <2>2. rejected' < LedgerPause => ledgerLast' <= rejected' + LedgerGap - LedgerPause
    BY <1>4, Numbers, Times DEF Inv, Rest, Least
  <2> QED BY <2>1, <2>2 DEF Rest
<1> QED BY <1>7, <1>8, <1>9 DEF Inv

-----------------------------------------------------------------------------
\* The limiter starts consistent, and every step keeps it so.
THEOREM Invariance == LimitSpec => []Inv
<1>1. LimitInit => Inv
  BY Numbers, LimitAssumption DEF LimitInit, Inv, LimitTypeOK, Serial, Rest, At, Task, Free
<1>2. Inv /\ [LimitNext]_limitVars => Inv'
  <2> SUFFICES ASSUME Inv, [LimitNext]_limitVars PROVE Inv'
    OBVIOUS
  <2>1. CASE UNCHANGED limitVars
    BY <2>1 DEF limitVars, Inv, LimitTypeOK, Serial, Rest, At, IsLedger
  <2> QED BY <2>1, BeginInv, SleepInv, SendInv, AnswerInv, ReadBodyInv, AbandonInv, TickInv
          DEF LimitNext, TaskStep
<1> QED BY <1>1, <1>2, PTL DEF LimitSpec

\* The limiter's variables have their types.
THEOREM LimitTypeCorrect == LimitSpec => []LimitTypeOK
<1>1. Inv => LimitTypeOK
  BY DEF Inv
<1> QED BY <1>1, Invariance, PTL

\* For any number of tasks: of two ledger inquiries without an answer, one has
\* been given up for stale (acquire, release_ledger).
THEOREM InquiriesAreSerial == LimitSpec => []LedgerSerial
<1>1. Inv => LedgerSerial
  BY DEF Inv, Serial, LedgerSerial
<1> QED BY <1>1, Invariance, PTL

\* For all intervals: the ledger rests after an answer, and longer after a
\* refusal, however slow and in whatever order the answers come
\* (release_ledger, note_ledger_rejection).
THEOREM LedgerAlwaysRests == LimitSpec => LedgerRests
<1>1. ASSUME Inv, LimitNext, LedgerSent
      PROVE  answered >= LedgerGap /\ rejected >= LedgerPause
  <2>1. PICK t \in Tasks : IsLedger(t) /\ At(t, "waiting") /\ task'[t].phase = "open"
    BY <1>1 DEF LedgerSent
  <2>2. Send(t)
    <3>1. task \in [Tasks -> Task] /\ task[t].phase = "waiting"
      BY <1>1, <2>1 DEF Inv, LimitTypeOK, At
    <3>2. ~Tick
      BY <2>1, <3>1 DEF Tick, Task
    <3>3. ASSUME NEW u \in Tasks, Begin(u) \/ Sleep(u) \/ Answer(u) \/ ReadBody(u) \/ Abandon(u)
          PROVE  FALSE
      BY <2>1, <3>1, <3>3 DEF Begin, Sleep, Answer, ReadBody, Abandon, Task
    <3>4. ASSUME NEW u \in Tasks, Send(u), u # t PROVE FALSE
      BY <2>1, <3>1, <3>4 DEF Send
    <3> QED BY <1>1, <3>2, <3>3, <3>4 DEF LimitNext, TaskStep
  <2>3. ledgerLast >= LedgerGap
    BY <1>1, <2>1, <2>2, SendWaited, Numbers, Times DEF Inv
  <2> QED BY <1>1, <2>3, Numbers, Times DEF Inv, Rest
<1>2. Inv /\ [LimitNext]_limitVars =>
        [LedgerSent => answered >= LedgerGap /\ rejected >= LedgerPause]_limitVars
  BY <1>1
<1> QED BY <1>2, Invariance, PTL DEF LimitSpec, LedgerRests
=============================================================================
