--------------------- MODULE QuoteSubscriptionProofs ---------------------
(***************************************************************************)
(* What QuoteSubscription guarantees for any set of channels, any cap and  *)
(* any number of connections and repeated answers.                         *)
(*                                                                         *)
(* A channel is subscribed once in a connection and unsubscribed after it. *)
(* ChannelOk says so of one channel in terms of what is on its way to the  *)
(* exchange and back: a slot is free only when nothing of the channel is   *)
(* there, and an answer that says "unsubscribed" comes when it is so.      *)
(* SocketOk has the facts that are not about one channel.                  *)
(***************************************************************************)
EXTENDS QuoteSubscription, FiniteSetTheorems, SequenceTheorems, TLAPS

\* What is under way, without its order.
Elements(s) == {s[i] : i \in 1..Len(s)}

\* The answer that waits in handle_ack is of this connection.
HeardNow == heard # None /\ link # "closed" /\ heard.gen = generation

\* The answers of this connection that may still be acted on.
Replies == Elements(answers) \cup (IF HeardNow THEN {heard.answer} ELSE {})

\* A request under way.
Asked(c, action) == <<c, action>> \in Elements(wire)

\* Nothing of the channel is at the exchange or under way.
Untouched(c) ==
    /\ c \notin exchange /\ ~Asked(c, "subscribe") /\ ~Asked(c, "unsubscribe")
    /\ \A a \in Replies : a.channel # c

\* In this connection no request of the channel was sent.
Unsent(c) ==
    \/ slots[c] = "free" /\ c \notin retired
    \/ slots[c] = "requested" /\ Sending(c) /\ ~job.sent

\* The channel was asked to be given up.
Leaving(c) ==
    \/ Asked(c, "unsubscribe")
    \/ \E a \in Replies : a.channel = c /\ a.action = "unsubscribe"

\* An answer on its way says that the request was granted.
Confirmed(c, action) == [channel |-> c, action |-> action, accepted |-> TRUE] \in Replies

\* What is so of one channel.
ChannelOk(c) ==
    /\ c \in exchange \/ Asked(c, "subscribe") => slots[c] # "free"
    /\ Unsent(c) => Untouched(c)
    /\ Leaving(c) => slots[c] \notin {"requested", "acknowledged"}
    /\ Confirmed(c, "unsubscribe") => c \notin exchange /\ ~Asked(c, "subscribe")
    /\ slots[c] = "acknowledged" => c \in exchange
    /\ slots[c] = "requested" /\ Confirmed(c, "subscribe") => c \in exchange
    /\ c \in retired /\ link # "closed" => slots[c] = "free"
    /\ Sending(c) => slots[c] \in {"requested", "pending_unsubscribe"}

\* No subscription of a channel comes behind its unsubscription.
InOrder ==
    \A i, j \in 1..Len(wire) :
        i < j /\ wire[i][1] = wire[j][1] /\ wire[i][2] = "unsubscribe" => wire[j][2] = "unsubscribe"

\* What is so of the connection and of the reconciliation.
SocketOk ==
    /\ Cardinality(Occupied) <= Cap
    /\ InOrder
    /\ link = "closed" =>
          /\ wire = <<>> /\ answers = <<>> /\ exchange = {} /\ job = None
          /\ \A c \in Channels : slots[c] = "free"
    /\ heard # None =>
          /\ heard.gen <= generation
          /\ heard.answer.accepted => heard.pending = heard.answer.action
    /\ job # None => operational \subseteq job.want

Consistent == SocketOk /\ \A c \in Channels : ChannelOk(c)

\* The inductive invariant: the types, and what they leave out.
Inv == TypeOK /\ Consistent

-----------------------------------------------------------------------------
\* A request or an answer that is sent joins those under way.
LEMMA ElementsAppend ==
  ASSUME NEW S, NEW s \in Seq(S), NEW e \in S
  PROVE  Elements(Append(s, e)) = Elements(s) \cup {e}
<1>1. /\ Len(Append(s, e)) = Len(s) + 1 /\ Len(s) \in Nat
      /\ \A i \in 1..Len(s) : Append(s, e)[i] = s[i]
      /\ Append(s, e)[Len(s) + 1] = e
  OBVIOUS
<1> QED BY <1>1 DEF Elements

\* The first one under way leaves, the others stay.
LEMMA ElementsTail ==
  ASSUME NEW S, NEW s \in Seq(S), s # <<>>
  PROVE  /\ Head(s) \in S /\ Tail(s) \in Seq(S)
         /\ Elements(s) = Elements(Tail(s)) \cup {Head(s)}
<1>1. /\ Len(s) \in Nat \ {0} /\ Len(Tail(s)) = Len(s) - 1
      /\ \A i \in 1..Len(Tail(s)) : Tail(s)[i] = s[i + 1]
      /\ Head(s) = s[1] /\ Tail(s) \in Seq(S) /\ Head(s) \in S
  OBVIOUS
<1>2. \A i \in 2..Len(s) : s[i] = Tail(s)[i - 1] /\ i - 1 \in 1..Len(Tail(s))
  BY <1>1
<1>3. \A i \in 1..Len(Tail(s)) : i + 1 \in 1..Len(s)
  BY <1>1
<1>4. 1..Len(s) = {1} \cup 2..Len(s)
  BY <1>1
<1>5. Elements(s) \subseteq Elements(Tail(s)) \cup {Head(s)}
  <2>1. ASSUME NEW i \in 1..Len(s)
        PROVE  s[i] \in Elements(Tail(s)) \cup {Head(s)}
    <3>1. CASE i = 1
      BY <1>1, <3>1
    <3>2. CASE i \in 2..Len(s)
      BY <1>2, <3>2 DEF Elements
    <3> QED BY <1>4, <3>1, <3>2
  <2> QED BY <2>1 DEF Elements
<1>6. Elements(Tail(s)) \cup {Head(s)} \subseteq Elements(s)
  BY <1>1, <1>3, <1>4 DEF Elements
<1> QED BY <1>5, <1>6

\* Sets of channels are finite, so that their sizes are numbers.
LEMMA OccupiedFinite ==
  ASSUME NEW s \in SUBSET Channels
  PROVE  IsFiniteSet(s) /\ Cardinality(s) \in Nat
  BY SubscriptionAssumption, FS_Subset, FS_CardinalityType

\* The coordinator starts consistent: without a socket.
LEMMA InitInv == Init => Inv
<1> SUFFICES ASSUME Init PROVE Inv
  OBVIOUS
<1>1. TypeOK
  BY EmptySeq DEF Init, TypeOK, Status
<1>2. Occupied = {} /\ Elements(wire) = {} /\ Replies = {}
  BY NoneAssumption DEF Init, Occupied, Elements, Replies, HeardNow
<1>3. SocketOk
  BY <1>2, FS_EmptySet, SubscriptionAssumption DEF Init, SocketOk, InOrder
<1>4. ASSUME NEW c \in Channels PROVE ChannelOk(c)
  BY <1>2 DEF Init, ChannelOk, Asked, Unsent, Untouched, Leaving, Confirmed, Sending
<1> QED BY <1>1, <1>3, <1>4 DEF Inv, Consistent

-----------------------------------------------------------------------------
\* A step that leaves the socket, its answers and the connection alone.
Quiet == UNCHANGED <<generation, link, heard, wire, answers, exchange, repeats>>

\* Such a step changes nothing under way.
LEMMA QuietFacts ==
  ASSUME Quiet
  PROVE  Elements(wire)' = Elements(wire) /\ Replies' = Replies /\ InOrder' = InOrder
  BY DEF Quiet, Elements, Replies, HeardNow, InOrder

\* A step that takes no slot keeps the cap.
LEMMA Released ==
  ASSUME Inv, NEW s \in [Channels -> Status], slots' = s,
         \A c \in Channels : slots[c] = "free" => s[c] = "free"
  PROVE  Cardinality(Occupied') <= Cap
<1>1. Occupied' \subseteq Occupied /\ Occupied \subseteq Channels
  BY DEF Occupied, Inv, TypeOK
<1>2. Cardinality(Occupied') <= Cardinality(Occupied)
  BY <1>1, OccupiedFinite, FS_Subset
<1>3. Cardinality(Occupied') \in Nat /\ Cardinality(Occupied) \in Nat
  BY <1>1, OccupiedFinite
<1>4. Cardinality(Occupied) <= Cap
  BY DEF Inv, Consistent, SocketOk
<1> QED BY <1>2, <1>3, <1>4, SubscriptionAssumption

\* _request of an unsubscription: the channel is in use and the exchange has it.
LEMMA UnsubscribeInv == ASSUME Inv, NEW c \in Channels, Unsubscribe(c) PROVE Inv'
<1> USE DEF Unsubscribe, Holder, Turn
<1>1. Quiet /\ slots[c] = "acknowledged" /\ slots' = [slots EXCEPT ![c] = "pending_unsubscribe"]
  BY DEF Quiet, ToRelease, socket
<1>2. /\ job # None /\ job \in Job /\ job.sending = None /\ job' # None /\ job' \in Job
      /\ job'.sending = c /\ job'.sent = job.sent /\ job'.want = job.want
  <2>1. job # None /\ job \in Job /\ job.sending = None
    BY DEF Between, Inv, TypeOK
  <2>2. \E due \in SUBSET Channels : job' = [job EXCEPT !.due = due, !.sending = c]
    BY <2>1 DEF Job
  <2>3. PICK due \in SUBSET Channels : job' = [job EXCEPT !.due = due, !.sending = c]
    BY <2>2
  <2>4. [job EXCEPT !.due = due, !.sending = c] \in Job
    BY <2>1 DEF Job
  <2>5. /\ job'.sending = c /\ job'.sent = job.sent /\ job'.want = job.want
    BY <2>1, <2>3 DEF Job
  <2>6. job' # None
    BY <2>3, <2>4, NoneAssumption
  <2> QED BY <2>1, <2>3, <2>4, <2>5, <2>6
<1>3. TypeOK'
  BY <1>1, <1>2 DEF Inv, TypeOK, Status, demand, socket
<1>4. Cardinality(Occupied)' <= Cap
  BY <1>1, <1>3, Released DEF TypeOK, Inv
<1>5. SocketOk'
  BY <1>1, <1>2, <1>4, QuietFacts DEF Inv, Consistent, SocketOk, Quiet, Job, demand
<1>6. ASSUME NEW d \in Channels PROVE ChannelOk(d)'
  <2>1. ChannelOk(d) BY DEF Inv, Consistent
  <2> QED BY <1>1, <1>2, <2>1, QuietFacts, NoneAssumption
       DEF ChannelOk, Asked, Unsent, Untouched, Leaving, Confirmed, Sending, Quiet, Inv, TypeOK, Job, Between
<1> QED BY <1>3, <1>5, <1>6 DEF Inv, Consistent

\* _request of a subscription takes a slot only below the cap, and only for a
\* channel that this connection has not asked for.
LEMMA SubscribeInv == ASSUME Inv, NEW c \in Channels, Subscribe(c) PROVE Inv'
<1> USE DEF Subscribe, Holder, Turn
<1>1. /\ Quiet /\ slots[c] = "free" /\ c \notin retired /\ UNCHANGED retired
      /\ slots' = [slots EXCEPT ![c] = "requested"]
  BY DEF Quiet, ToRequest, socket
<1>2. job # None /\ job \in Job /\ job' = [job EXCEPT !.sending = c] /\ job' \in Job
  BY DEF Between, Inv, TypeOK, Job
<1>3. TypeOK'
  BY <1>1, <1>2 DEF Inv, TypeOK, Status, demand, socket
<1>4. Cardinality(Occupied)' <= Cap
  <2>1. Occupied' = Occupied \cup {c} /\ c \notin Occupied /\ Occupied \subseteq Channels
    BY <1>1 DEF Occupied, Inv, TypeOK
  <2>2. ~(Cardinality(Occupied) >= Cap)
    BY DEF ToRequest
  <2>3. Cardinality(Occupied') = Cardinality(Occupied) + 1
    BY <2>1, OccupiedFinite, FS_AddElement
  <2> QED BY <2>1, <2>2, <2>3, OccupiedFinite, SubscriptionAssumption
<1>5. SocketOk'
  BY <1>1, <1>2, <1>4, QuietFacts DEF Inv, Consistent, SocketOk, Quiet, Job, demand
<1>6. ASSUME NEW d \in Channels PROVE ChannelOk(d)'
  <2>1. ChannelOk(d) BY DEF Inv, Consistent
  <2> QED BY <1>1, <1>2, <2>1, QuietFacts, NoneAssumption
       DEF ChannelOk, Asked, Unsent, Untouched, Leaving, Confirmed, Sending, Quiet, Inv, TypeOK, Job, Between
<1> QED BY <1>3, <1>5, <1>6 DEF Inv, Consistent

\* The end of a loop of _reconcile changes no channel.
LEMMA NextStageInv == ASSUME Inv, NextStage PROVE Inv'
<1> USE DEF NextStage, Holder
<1>1. Quiet /\ UNCHANGED <<slots, retired>>
  BY DEF Quiet, socket
<1>2. job # None /\ job \in Job /\ job.sending = None
  BY DEF Between, Inv, TypeOK
<1>3. job' # None => job' \in Job /\ job'.sending = None /\ job'.want = job.want
  <2> DEFINE next == [job EXCEPT !.stage = "request", !.due = {}]
  <2>1. next \in Job /\ next.sending = job.sending /\ next.want = job.want
    BY <1>2 DEF Job
  <2>2. job' = next \/ job' = None
    OBVIOUS
  <2> QED BY <1>2, <2>1, <2>2
<1>4. TypeOK'
  BY <1>1, <1>3 DEF Inv, TypeOK, demand, socket
<1>5. Cardinality(Occupied)' <= Cap
  BY <1>1 DEF Inv, Consistent, SocketOk, Occupied
<1>6. SocketOk'
  BY <1>1, <1>2, <1>3, <1>5, QuietFacts DEF Inv, Consistent, SocketOk, Quiet, demand
<1>7. ASSUME NEW d \in Channels PROVE ChannelOk(d)'
  <2>1. ChannelOk(d) BY DEF Inv, Consistent
  <2> QED BY <1>1, <1>2, <1>3, <2>1, QuietFacts, NoneAssumption
       DEF ChannelOk, Asked, Unsent, Untouched, Leaving, Confirmed, Sending, Quiet
<1> QED BY <1>4, <1>6, <1>7 DEF Inv, Consistent

\* A request that is not sent frees its slot: nothing of it is on its way.
LEMMA WithdrawInv == ASSUME Inv, NEW c \in Channels, Withdraw(c) PROVE Inv'
<1> USE DEF Withdraw, Holder, Turn, Sent
<1>1. /\ Quiet /\ slots[c] = "requested" /\ UNCHANGED retired
      /\ slots' = [slots EXCEPT ![c] = "free"]
  BY DEF Quiet, socket
<1>2. /\ job # None /\ job \in Job /\ job.sending = c /\ ~job.sent
      /\ job' = [job EXCEPT !.sending = None, !.sent = FALSE] /\ job' \in Job
  BY DEF Sending, Inv, TypeOK, Job
<1>3. TypeOK'
  BY <1>1, <1>2 DEF Inv, TypeOK, Status, demand, socket
<1>4. Cardinality(Occupied)' <= Cap
  BY <1>1, <1>3, Released DEF TypeOK, Inv
<1>5. SocketOk'
  BY <1>1, <1>2, <1>4, QuietFacts DEF Inv, Consistent, SocketOk, Quiet, Job, demand
<1>6. ASSUME NEW d \in Channels PROVE ChannelOk(d)'
  <2>1. ChannelOk(d) BY DEF Inv, Consistent
  <2> QED BY <1>1, <1>2, <2>1, QuietFacts, NoneAssumption
       DEF ChannelOk, Asked, Unsent, Untouched, Leaving, Confirmed, Sending, Quiet, Inv, TypeOK, Job
<1> QED BY <1>3, <1>5, <1>6 DEF Inv, Consistent

\* The return of _send changes no channel.
LEMMA SendReturnsInv == ASSUME Inv, NEW c \in Channels, SendReturns(c) PROVE Inv'
<1> USE DEF SendReturns, Holder, Sent
<1>1. Quiet /\ UNCHANGED <<slots, retired>>
  BY DEF Quiet, socket
<1>2. /\ job # None /\ job \in Job /\ job.sending = c /\ job.sent
      /\ job' = [job EXCEPT !.sending = None, !.sent = FALSE] /\ job' \in Job
  BY DEF Sending, Inv, TypeOK, Job
<1>3. TypeOK'
  BY <1>1, <1>2 DEF Inv, TypeOK, demand, socket
<1>4. Cardinality(Occupied)' <= Cap
  BY <1>1 DEF Inv, Consistent, SocketOk, Occupied
<1>5. SocketOk'
  BY <1>1, <1>2, <1>4, QuietFacts DEF Inv, Consistent, SocketOk, Quiet, Job, demand
<1>6. ASSUME NEW d \in Channels PROVE ChannelOk(d)'
  <2>1. ChannelOk(d) BY DEF Inv, Consistent
  <2> QED BY <1>1, <1>2, <2>1, QuietFacts, NoneAssumption
       DEF ChannelOk, Asked, Unsent, Untouched, Leaving, Confirmed, Sending, Quiet, Job
<1> QED BY <1>3, <1>5, <1>6 DEF Inv, Consistent

\* A request that failed keeps its slot, as unknown.
LEMMA SendFailsInv == ASSUME Inv, NEW c \in Channels, SendFails(c) PROVE Inv'
<1> USE DEF SendFails, Holder, Turn, Sent
<1>1. Quiet /\ UNCHANGED retired /\ slots' = [slots EXCEPT ![c] = "unknown"]
  BY DEF Quiet, socket
<1>2. /\ job # None /\ job \in Job /\ job.sending = c
      /\ job' = [job EXCEPT !.sending = None, !.sent = FALSE] /\ job' \in Job
  BY DEF Sending, Inv, TypeOK, Job
<1>3. slots[c] # "free" /\ (c \in retired => link = "closed")
  BY <1>2 DEF Inv, Consistent, ChannelOk, Sending
<1>4. TypeOK'
  BY <1>1, <1>2 DEF Inv, TypeOK, Status, demand, socket
<1>5. Cardinality(Occupied)' <= Cap
  BY <1>1, <1>3, <1>4, Released DEF TypeOK, Inv
<1>6. SocketOk'
  BY <1>1, <1>2, <1>5, QuietFacts DEF Inv, Consistent, SocketOk, Quiet, Job, demand
<1>7. ASSUME NEW d \in Channels PROVE ChannelOk(d)'
  <2>1. ChannelOk(d) BY DEF Inv, Consistent
  <2> QED BY <1>1, <1>2, <1>3, <2>1, QuietFacts, NoneAssumption
       DEF ChannelOk, Asked, Unsent, Untouched, Leaving, Confirmed, Sending, Quiet, Inv, TypeOK, Job
<1> QED BY <1>4, <1>6, <1>7 DEF Inv, Consistent

\* What is sent is the pending request; an unsubscription is the last of its
\* channel.
LEMMA TransmitInv == ASSUME Inv, NEW c \in Channels, Transmit(c) PROVE Inv'
<1> USE DEF Transmit
<1> DEFINE r == <<c, Pending(c)>>
<1>1. /\ job # None /\ job \in Job /\ job.sending = c /\ ~job.sent
      /\ job' = [job EXCEPT !.sent = TRUE] /\ job' \in Job
  BY DEF Sending, Inv, TypeOK, Job
<1>2. ChannelOk(c) /\ Sending(c)
  BY DEF Inv, Consistent
<1>3. \/ slots[c] = "requested" /\ Pending(c) = "subscribe" /\ Untouched(c)
      \/ slots[c] = "pending_unsubscribe" /\ Pending(c) = "unsubscribe"
  BY <1>1, <1>2 DEF ChannelOk, Pending, Unsent
<1>4. wire \in Seq(Channels \X Actions) /\ r \in Channels \X Actions
  BY <1>3 DEF Inv, TypeOK, Actions
<1>5. Elements(wire)' = Elements(wire) \cup {r}
  BY <1>4, ElementsAppend
<1>6. TypeOK'
  BY <1>1, <1>4 DEF Inv, TypeOK, demand
<1>7. Replies' = Replies /\ Occupied' = Occupied
  BY DEF Replies, Elements, HeardNow, Occupied
<1>8. InOrder'
  <2>1. /\ Len(wire)' = Len(wire) + 1 /\ Len(wire) \in Nat
        /\ \A i \in 1..Len(wire) : wire'[i] = wire[i] /\ wire[i] \in Channels \X Actions
        /\ wire'[Len(wire) + 1] = r
    BY <1>4
  <2>2. \A i \in 1..Len(wire) : wire[i][1] = c /\ wire[i][2] = "unsubscribe" => r[2] = "unsubscribe"
    BY <1>3, <2>1 DEF Untouched, Asked, Elements
  <2> QED BY <2>1, <2>2 DEF InOrder, Inv, Consistent, SocketOk
<1>9. SocketOk'
  BY <1>1, <1>7, <1>8 DEF Inv, Consistent, SocketOk, Job, demand
<1>10. ASSUME NEW d \in Channels PROVE ChannelOk(d)'
  <2>1. ChannelOk(d) BY DEF Inv, Consistent
  <2> QED BY <1>1, <1>2, <1>3, <1>5, <1>7, <2>1, NoneAssumption
       DEF ChannelOk, Asked, Unsent, Untouched, Leaving, Confirmed, Sending, Job
<1> QED BY <1>6, <1>9, <1>10 DEF Inv, Consistent

\* A reconciliation wants all that is operational.
LEMMA ReconcileOk ==
  ASSUME NEW needed \in SUBSET Channels, NEW leased \in SUBSET Channels, Reconcile(needed, leased)
  PROVE  job' \in Job /\ job'.sending = None /\ needed \subseteq job'.want
<1>1. \A d \in Desired(needed, leased) : d \in SUBSET Channels /\ needed \subseteq d
  BY DEF Desired
<1>2. PICK d \in Desired(needed, leased) :
        job' = [want |-> d, due |-> Occupied', stage |-> "release", sending |-> None, sent |-> FALSE]
  BY DEF Reconcile
<1>3. Occupied' \in SUBSET Channels
  BY DEF Occupied
<1> QED BY <1>1, <1>2, <1>3 DEF Job

\* A new connection has no slot in use and no answer of its own.
LEMMA StartInv == ASSUME Inv, Start PROVE Inv'
<1> USE DEF Start
<1>1. job' \in Job /\ job'.sending = None /\ operational \subseteq job'.want
  BY ReconcileOk DEF Inv, TypeOK
<1>2. wire = <<>> /\ answers = <<>> /\ exchange = {}
  BY DEF Inv, Consistent, SocketOk
<1>3. TypeOK'
  BY <1>1 DEF Inv, TypeOK, demand, socket, Status
<1>4. Elements(wire)' = {} /\ Elements(answers)' = {} /\ Occupied' = {}
  BY <1>2 DEF Elements, socket, Occupied
<1>5. Replies' = {}
  BY <1>3, <1>4, NoneAssumption DEF Replies, HeardNow, Inv, TypeOK, Consistent, SocketOk
<1>6. SocketOk'
  <2>1. Cardinality(Occupied)' <= Cap
    BY <1>4, FS_EmptySet, SubscriptionAssumption
  <2>2. InOrder' /\ link' # "closed" /\ operational' = operational /\ heard' = heard
    BY <1>2 DEF InOrder, demand, socket
  <2>3. heard # None => heard.gen \in Nat /\ heard.gen <= generation + 1
    BY NoneAssumption DEF Inv, TypeOK, Heard, Consistent, SocketOk
  <2> QED BY <1>1, <2>1, <2>2, <2>3 DEF Inv, Consistent, SocketOk
<1>7. ASSUME NEW d \in Channels PROVE ChannelOk(d)'
  BY <1>1, <1>2, <1>4, <1>5, NoneAssumption
     DEF ChannelOk, Asked, Unsent, Untouched, Leaving, Confirmed, Sending, socket
<1> QED BY <1>3, <1>6, <1>7 DEF Inv, Consistent

\* An operation on the demand reconciles and changes no channel.
LEMMA DemandsInv ==
  ASSUME Inv, LockFree, NEW needed \in SUBSET Channels, NEW leased \in SUBSET Channels,
         Demands(needed, leased)
  PROVE  Inv'
<1> USE DEF Demands, LockFree
<1>1. Quiet /\ UNCHANGED <<slots, retired>> /\ operational' = needed
  BY DEF Quiet, socket
<1>2. job' # None => job' \in Job /\ job'.sending = None /\ needed \subseteq job'.want
  <2>1. CASE Reconcile(needed, leased)
    BY <2>1, ReconcileOk
  <2> QED BY <2>1
<1>3. link = "closed" => job' = None
  OBVIOUS
<1>4. TypeOK'
  BY <1>1, <1>2 DEF Inv, TypeOK, socket
<1>5. SocketOk'
  BY <1>1, <1>2, <1>3, QuietFacts DEF Inv, Consistent, SocketOk, Quiet, Occupied
<1>6. ASSUME NEW d \in Channels PROVE ChannelOk(d)'
  <2>1. ChannelOk(d) BY DEF Inv, Consistent
  <2> QED BY <1>1, <1>2, <2>1, QuietFacts, NoneAssumption
       DEF ChannelOk, Asked, Unsent, Untouched, Leaving, Confirmed, Sending, Quiet
<1> QED BY <1>4, <1>5, <1>6 DEF Inv, Consistent

\* maintain gives late requests up: their slots stay in use.
LEMMA MaintainInv == ASSUME Inv, NEW late \in SUBSET Channels, Maintain(late) PROVE Inv'
<1> USE DEF Maintain, LockFree
<1>1. Quiet /\ UNCHANGED <<retired, operational>> /\ link # "closed"
  BY DEF Quiet, socket, demand
<1>2. job' \in Job /\ job'.sending = None /\ operational \subseteq job'.want
  BY ReconcileOk DEF Inv, TypeOK
<1>3. \A c \in Channels : slots'[c] # slots[c] =>
        slots'[c] = "unknown" /\ slots[c] \in {"requested", "pending_unsubscribe"}
  <2>1. \A c \in Channels : Pending(c) # None => slots[c] \in {"requested", "pending_unsubscribe"}
    BY DEF Pending
  <2> QED BY <2>1
<1>4. slots' \in [Channels -> Status]
  BY DEF Inv, TypeOK, Status
<1>5. TypeOK'
  BY <1>1, <1>2, <1>4 DEF Inv, TypeOK, demand, socket
<1>6. Cardinality(Occupied)' <= Cap
  BY <1>3, <1>4, Released
<1>7. SocketOk'
  BY <1>1, <1>2, <1>6, QuietFacts DEF Inv, Consistent, SocketOk, Quiet
<1>8. ASSUME NEW d \in Channels PROVE ChannelOk(d)'
  <2>1. ChannelOk(d) BY DEF Inv, Consistent
  <2> QED BY <1>1, <1>2, <1>3, <2>1, QuietFacts, NoneAssumption
       DEF ChannelOk, Asked, Unsent, Untouched, Leaving, Confirmed, Sending, Quiet
<1> QED BY <1>5, <1>7, <1>8 DEF Inv, Consistent

\* The task behind the answers reconciles and changes no channel.
LEMMA ReconcileAfterAckInv == ASSUME Inv, ReconcileAfterAck PROVE Inv'
<1> USE DEF ReconcileAfterAck, LockFree
<1>1. Quiet /\ UNCHANGED <<slots, retired, operational>> /\ link # "closed"
  BY DEF Quiet, socket, demand
<1>2. job' \in Job /\ job'.sending = None /\ operational \subseteq job'.want
  BY ReconcileOk DEF Inv, TypeOK
<1>3. TypeOK'
  BY <1>1, <1>2 DEF Inv, TypeOK, demand, socket
<1>4. SocketOk'
  BY <1>1, <1>2, QuietFacts DEF Inv, Consistent, SocketOk, Quiet, Occupied
<1>5. ASSUME NEW d \in Channels PROVE ChannelOk(d)'
  <2>1. ChannelOk(d) BY DEF Inv, Consistent
  <2> QED BY <1>1, <1>2, <2>1, QuietFacts, NoneAssumption
       DEF ChannelOk, Asked, Unsent, Untouched, Leaving, Confirmed, Sending, Quiet
<1> QED BY <1>3, <1>4, <1>5 DEF Inv, Consistent

\* The first part of stop leaves the slot of a request being sent in use.
LEMMA StopReconcilingInv == ASSUME Inv, StopReconciling PROVE Inv'
<1> USE DEF StopReconciling
<1>1. /\ UNCHANGED <<generation, retired, heard, operational, exchange, wire, answers>>
      /\ link # "closed" /\ link' = "stopping"
  BY DEF socket, demand
<1>2. \/ UNCHANGED <<slots, job>>
      \/ job' = None /\ \E c \in Channels : Sending(c) /\ slots' = [slots EXCEPT ![c] = "unknown"]
  BY DEF Turn
<1>3. \A c \in Channels : Sending(c) => slots[c] \in {"requested", "pending_unsubscribe"}
  BY DEF Inv, Consistent, ChannelOk
<1>4. slots' \in [Channels -> Status]
  BY <1>2 DEF Inv, TypeOK, Status
<1>5. \A c \in Channels : slots'[c] # slots[c] =>
        slots'[c] = "unknown" /\ slots[c] \in {"requested", "pending_unsubscribe"}
  <2>1. CASE slots' = slots
    BY <2>1
  <2>2. ASSUME NEW d \in Channels, Sending(d), slots' = [slots EXCEPT ![d] = "unknown"]
        PROVE  \A c \in Channels : c # d => slots'[c] = slots[c]
    BY <2>2 DEF Inv, TypeOK
  <2> QED BY <1>2, <1>3, <2>1, <2>2 DEF Inv, TypeOK
<1>6. Replies' = Replies /\ Elements(wire)' = Elements(wire)
  BY <1>1 DEF Replies, HeardNow, Elements
<1>7. TypeOK'
  BY <1>1, <1>2, <1>4 DEF Inv, TypeOK, demand, socket
<1>8. Cardinality(Occupied)' <= Cap
  BY <1>4, <1>5, Released
<1>9. SocketOk'
  BY <1>1, <1>2, <1>8 DEF Inv, Consistent, SocketOk, InOrder
<1>10. ASSUME NEW d \in Channels PROVE ChannelOk(d)'
  <2>1. ChannelOk(d) BY DEF Inv, Consistent
  <2> QED BY <1>1, <1>2, <1>5, <1>6, <2>1, NoneAssumption
       DEF ChannelOk, Asked, Unsent, Untouched, Leaving, Confirmed, Sending
<1> QED BY <1>7, <1>9, <1>10 DEF Inv, Consistent

\* stop frees the slots when the exchange has forgotten the session.
LEMMA StopInv == ASSUME Inv, Stop PROVE Inv'
<1> USE DEF Stop, LockFree
<1>1. TypeOK'
  BY EmptySeq DEF Inv, TypeOK, demand, Status
<1>2. Elements(wire)' = {} /\ Elements(answers)' = {} /\ Occupied' = {}
  BY DEF Elements, Occupied
<1>3. Replies' = {}
  BY <1>2 DEF Replies, HeardNow
<1>4. SocketOk'
  BY <1>2, FS_EmptySet, SubscriptionAssumption DEF Inv, Consistent, SocketOk, InOrder
<1>5. ASSUME NEW d \in Channels PROVE ChannelOk(d)'
  BY <1>2, <1>3 DEF ChannelOk, Asked, Unsent, Untouched, Leaving, Confirmed, Sending
<1> QED BY <1>1, <1>4, <1>5 DEF Inv, Consistent

\* A deadline changes no channel.
LEMMA ExpireInv == ASSUME Inv, NEW c \in Channels, Expire(c) PROVE Inv'
<1> USE DEF Expire, local, socket
<1>1. TypeOK'
  BY DEF Inv, TypeOK
<1>2. SocketOk'
  BY DEF Inv, Consistent, SocketOk, InOrder, Occupied
<1>3. ASSUME NEW d \in Channels PROVE ChannelOk(d)'
  BY DEF Inv, Consistent, ChannelOk, Asked, Unsent, Untouched, Leaving, Confirmed, Sending,
         Replies, HeardNow, Elements
<1> QED BY <1>1, <1>2, <1>3 DEF Inv, Consistent

\* The end of the observation changes no channel.
LEMMA EndObservationInv == ASSUME Inv, EndObservation PROVE Inv'
<1> USE DEF EndObservation, local, socket
<1>1. TypeOK'
  BY DEF Inv, TypeOK
<1>2. SocketOk'
  BY DEF Inv, Consistent, SocketOk, InOrder, Occupied
<1>3. ASSUME NEW d \in Channels PROVE ChannelOk(d)'
  BY DEF Inv, Consistent, ChannelOk, Asked, Unsent, Untouched, Leaving, Confirmed, Sending,
         Replies, HeardNow, Elements
<1> QED BY <1>1, <1>2, <1>3 DEF Inv, Consistent

\* The exchange grants or refuses the first request on the wire.
LEMMA ExchangeAnswersInv == ASSUME Inv, ExchangeAnswers PROVE Inv'
<1> USE DEF ExchangeAnswers
<1> DEFINE c == Head(wire)[1]
           action == Head(wire)[2]
<1>1. PICK accepted \in BOOLEAN :
        /\ answers' = Append(answers, [channel |-> c, action |-> action, accepted |-> accepted])
        /\ exchange' = IF ~accepted THEN exchange
                       ELSE IF action = "subscribe" THEN exchange \cup {c} ELSE exchange \ {c}
  OBVIOUS
<1> DEFINE a == [channel |-> c, action |-> action, accepted |-> accepted]
<1>2. /\ wire \in Seq(Channels \X Actions) /\ wire # <<>> /\ wire' = Tail(wire)
      /\ answers \in Seq(Answer)
  BY DEF Inv, TypeOK
<1>3. /\ Head(wire) \in Channels \X Actions /\ wire' \in Seq(Channels \X Actions)
      /\ Elements(wire) = Elements(wire)' \cup {Head(wire)}
  BY <1>2, ElementsTail
<1>4. a \in Answer /\ c \in Channels /\ action \in Actions /\ Head(wire) = <<c, action>>
  BY <1>3 DEF Answer
<1>5. Elements(answers)' = Elements(answers) \cup {a} /\ answers' \in Seq(Answer)
  BY <1>1, <1>2, <1>4, ElementsAppend
<1>6. Replies' = Replies \cup {a}
  BY <1>5 DEF Replies, HeardNow, local
<1>7. exchange' \in SUBSET Channels
  BY <1>1, <1>4 DEF Inv, TypeOK
<1>8. TypeOK'
  BY <1>3, <1>5, <1>7 DEF Inv, TypeOK, local, demand
<1>9. InOrder'
  <2>1. /\ Len(wire) \in Nat \ {0} /\ Len(wire') = Len(wire) - 1
        /\ \A i \in 1..Len(wire') : wire'[i] = wire[i + 1] /\ i + 1 \in 1..Len(wire)
    BY <1>2
  <2> QED BY <2>1 DEF InOrder, Inv, Consistent, SocketOk
<1>10. action = "unsubscribe" => <<c, "subscribe">> \notin Elements(wire)'
  <2>1. /\ Len(wire) \in Nat \ {0} /\ Len(wire') = Len(wire) - 1 /\ Head(wire) = wire[1]
        /\ \A i \in 1..Len(wire') : wire'[i] = wire[i + 1] /\ i + 1 \in 2..Len(wire)
    BY <1>2
  <2>2. InOrder
    BY DEF Inv, Consistent, SocketOk
  <2>3. ASSUME action = "unsubscribe", NEW i \in 1..Len(wire'), wire'[i] = <<c, "subscribe">>
        PROVE  FALSE
    BY <1>4, <2>1, <2>2, <2>3 DEF InOrder
  <2> QED BY <2>3 DEF Elements
<1>11. SocketOk'
  BY <1>2, <1>9 DEF Inv, Consistent, SocketOk, Occupied, local, demand
<1>12. ASSUME NEW d \in Channels PROVE ChannelOk(d)'
  <2>1. /\ ChannelOk(d) /\ Sending(d)' = Sending(d) /\ Unsent(d)' = Unsent(d)
        /\ UNCHANGED <<slots, retired, link>>
    BY DEF Inv, Consistent, Sending, Unsent, local
  <2>2. CASE d # c
    BY <1>1, <1>3, <1>4, <1>6, <2>1, <2>2 DEF ChannelOk, Asked, Untouched, Leaving, Confirmed
  <2>3. CASE d = c /\ action = "subscribe"
    BY <1>1, <1>3, <1>4, <1>6, <2>1, <2>3 DEF ChannelOk, Asked, Untouched, Leaving, Confirmed
  <2>4. CASE d = c /\ action = "unsubscribe"
    BY <1>1, <1>3, <1>4, <1>6, <1>10, <2>1, <2>4 DEF ChannelOk, Asked, Untouched, Leaving, Confirmed
  <2> QED BY <1>4, <2>2, <2>3, <2>4 DEF Actions
<1> QED BY <1>8, <1>11, <1>12 DEF Inv, Consistent

\* A pending request is that of the status of its slot.
LEMMA PendingSlot ==
  ASSUME NEW c \in Channels, Pending(c) # None
  PROVE  /\ Pending(c) = "subscribe" <=> slots[c] = "requested"
         /\ Pending(c) = "unsubscribe" <=> slots[c] = "pending_unsubscribe"
         /\ Pending(c) \in Actions
  BY DEF Pending, Actions

\* Settling an answer of this connection keeps every channel consistent.
LEMMA SettleOk ==
  ASSUME Inv, NEW a \in Replies, a \in Answer, link = "open", ~Sending(a.channel),
         Answered(a), Settle(a), Replies' \subseteq Replies,
         UNCHANGED <<link, job, wire, exchange>>
  PROVE  /\ slots' \in [Channels -> Status] /\ retired' \subseteq Channels /\ dirty' \in BOOLEAN
         /\ Cardinality(Occupied)' <= Cap
         /\ \A d \in Channels : ChannelOk(d)'
<1> DEFINE c == a.channel
<1>1. c \in Channels /\ a.action \in Actions /\ a.accepted \in BOOLEAN
  BY DEF Answer
<1>2. slots[c] \in {"requested", "pending_unsubscribe"}
  BY <1>1, PendingSlot DEF Answered, Actions
<1>3. a.accepted => Confirmed(c, a.action)
  <2>1. a = [channel |-> c, action |-> a.action, accepted |-> a.accepted]
    BY DEF Answer
  <2> QED BY <2>1 DEF Confirmed
<1>4. \/ slots' = [slots EXCEPT ![c] = "rejected"] /\ UNCHANGED retired
      \/ /\ a.accepted /\ a.action = "unsubscribe"
         /\ slots' = [slots EXCEPT ![c] = "free"] /\ retired' = retired \cup {c}
      \/ /\ a.accepted /\ a.action = "subscribe" /\ slots[c] = "requested"
         /\ slots' = [slots EXCEPT ![c] = "acknowledged"] /\ UNCHANGED retired
  BY <1>1, PendingSlot DEF Settle, Turn, Answered, Actions
<1>5. slots' \in [Channels -> Status] /\ retired' \subseteq Channels /\ dirty' \in BOOLEAN
  BY <1>1, <1>4 DEF Inv, TypeOK, Status, Settle
<1>6. Cardinality(Occupied)' <= Cap
  BY <1>2, <1>4, <1>5, Released DEF Inv, TypeOK
<1>7. ASSUME NEW d \in Channels PROVE ChannelOk(d)'
  <2>1. ChannelOk(d) /\ Elements(wire)' = Elements(wire) /\ Sending(d)' = Sending(d)
    BY DEF Inv, Consistent, Elements, Sending
  <2>2. slots \in [Channels -> Status]
    BY DEF Inv, TypeOK
  <2>3. CASE d # c
    BY <1>1, <1>4, <2>1, <2>2, <2>3 DEF ChannelOk, Asked, Unsent, Untouched, Leaving, Confirmed
  <2>4. CASE d = c
    BY <1>1, <1>2, <1>3, <1>4, <2>1, <2>2, <2>4
       DEF ChannelOk, Asked, Unsent, Untouched, Leaving, Confirmed
  <2> QED BY <2>3, <2>4
<1> QED BY <1>5, <1>6, <1>7

\* An answer that is not acted on changes no channel.
LEMMA IgnoreOk ==
  ASSUME Inv, Replies' \subseteq Replies, UNCHANGED <<link, slots, retired, job, wire, exchange>>,
         NEW d \in Channels
  PROVE  ChannelOk(d)'
  BY DEF Inv, Consistent, ChannelOk, Asked, Unsent, Untouched, Leaving, Confirmed, Sending, Elements

\* handle_ack up to its wait: it ignores the answer, keeps it or settles it.
LEMMA HandleAckInv == ASSUME Inv, HandleAck PROVE Inv'
<1> USE DEF HandleAck
<1> DEFINE a == Head(answers)
<1>1. answers \in Seq(Answer) /\ answers # <<>>
  BY DEF Inv, TypeOK
<1>2. /\ a \in Answer /\ Tail(answers) \in Seq(Answer)
      /\ Elements(answers) = Elements(Tail(answers)) \cup {a}
  BY <1>1, ElementsTail
<1>3. answers' \in Seq(Answer) /\ Elements(answers)' \subseteq Elements(answers)
  <2> HIDE DEF HandleAck, a
  <2> DEFINE rest == Tail(answers)
  <2>1. rest \in Seq(Answer) /\ a \in Answer
    BY <1>2
  <2> HIDE DEF rest
  <2>2. Elements(Append(rest, a)) = Elements(rest) \cup {a} /\ Append(rest, a) \in Seq(Answer)
    BY <2>1, ElementsAppend
  <2>3. answers' = rest \/ answers' = Append(rest, a)
    BY DEF HandleAck, a, rest
  <2>4. Elements(answers') = Elements(answers)'
    BY DEF Elements
  <2> QED BY <1>2, <2>1, <2>2, <2>3, <2>4 DEF rest
<1>4. UNCHANGED <<generation, link, job, operational, leases, ended, wire, exchange>>
  BY DEF demand
<1>5. a.channel \in Channels /\ (a \in Replies)
  BY <1>2 DEF Answer, Replies
<1>6. CASE heard' # None
  <2>1. /\ heard' = [answer |-> a, gen |-> generation, pending |-> Pending(a.channel)]
        /\ Answered(a) /\ UNCHANGED <<slots, retired, dirty>>
    BY <1>6
  <2>2. Pending(a.channel) \in Actions /\ (a.accepted => Pending(a.channel) = a.action)
    BY <1>5, <2>1, PendingSlot DEF Answered
  <2>3. heard' \in Heard
    BY <1>2, <2>1, <2>2 DEF Heard, Inv, TypeOK
  <2>4. Replies' \subseteq Replies
    BY <1>2, <1>3, <1>5, <2>1 DEF Replies, HeardNow
  <2>5. TypeOK'
    BY <1>3, <1>4, <2>1, <2>3 DEF Inv, TypeOK
  <2>6. SocketOk'
    BY <1>4, <2>1, <2>2 DEF Inv, TypeOK, Consistent, SocketOk, InOrder, Occupied
  <2> QED BY <1>4, <2>1, <2>4, <2>5, <2>6, IgnoreOk DEF Inv, Consistent
<1>7. CASE heard' = None
  <2>1. Replies' \subseteq Replies
    BY <1>3, <1>7 DEF Replies, HeardNow
  <2>2. CASE UNCHANGED <<slots, retired, dirty>>
    <3>1. TypeOK'
      BY <1>3, <1>4, <1>7, <2>2 DEF Inv, TypeOK
    <3>2. SocketOk'
      BY <1>4, <1>7, <2>2 DEF Inv, Consistent, SocketOk, InOrder, Occupied
    <3> QED BY <1>4, <2>1, <2>2, <3>1, <3>2, IgnoreOk DEF Inv, Consistent
  <2>3. CASE link = "open" /\ Answered(a) /\ ~Sending(a.channel) /\ Settle(a)
    <3>1. /\ slots' \in [Channels -> Status] /\ retired' \subseteq Channels /\ dirty' \in BOOLEAN
          /\ Cardinality(Occupied)' <= Cap
          /\ \A d \in Channels : ChannelOk(d)'
      BY <1>2, <1>4, <1>5, <2>1, <2>3, SettleOk
    <3>2. TypeOK'
      BY <1>3, <1>4, <1>7, <3>1 DEF Inv, TypeOK
    <3>3. SocketOk'
      BY <1>4, <1>7, <2>3, <3>1 DEF Inv, Consistent, SocketOk, InOrder
    <3> QED BY <3>1, <3>2, <3>3 DEF Inv, Consistent
  <2> QED BY <1>7, <2>2, <2>3
<1> QED BY <1>6, <1>7

\* handle_ack after its wait: the answer is still one of the pending request.
LEMMA HeardSettlesInv == ASSUME Inv, HeardSettles PROVE Inv'
<1> USE DEF HeardSettles
<1> DEFINE a == heard.answer
<1>1. /\ UNCHANGED <<generation, link, job, operational, leases, ended, wire, answers, exchange, repeats>>
      /\ heard' = None
  BY DEF demand, socket
<1>2. heard \in Heard /\ a \in Answer
  BY DEF Inv, TypeOK, Heard
<1>3. Replies' \subseteq Replies
  BY <1>1 DEF Replies, HeardNow, Elements
<1>4. CASE UNCHANGED <<slots, retired, dirty>>
  <2>1. TypeOK'
    BY <1>1, <1>4 DEF Inv, TypeOK
  <2>2. SocketOk'
    BY <1>1, <1>4 DEF Inv, Consistent, SocketOk, InOrder, Occupied
  <2> QED BY <1>1, <1>3, <1>4, <2>1, <2>2, IgnoreOk DEF Inv, Consistent
<1>5. CASE link = "open" /\ heard.gen = generation /\ Pending(a.channel) = heard.pending /\ Settle(a)
  <2>1. a \in Replies
    BY <1>5 DEF Replies, HeardNow
  <2>2. Answered(a)
    BY <1>2, <1>5, NoneAssumption DEF Answered, Heard, Inv, Consistent, SocketOk
  <2>3. /\ slots' \in [Channels -> Status] /\ retired' \subseteq Channels /\ dirty' \in BOOLEAN
        /\ Cardinality(Occupied)' <= Cap
        /\ \A d \in Channels : ChannelOk(d)'
    BY <1>1, <1>2, <1>3, <1>5, <2>1, <2>2, SettleOk
  <2>4. TypeOK'
    BY <1>1, <2>3 DEF Inv, TypeOK
  <2>5. SocketOk'
    BY <1>1, <1>5, <2>3 DEF Inv, Consistent, SocketOk, InOrder
  <2> QED BY <2>3, <2>4, <2>5 DEF Inv, Consistent
<1> QED BY <1>4, <1>5

-----------------------------------------------------------------------------
\* Every step keeps the invariant.
LEMMA NextInv == Inv /\ [Next]_vars => Inv'
<1> SUFFICES ASSUME Inv, [Next]_vars PROVE Inv'
  OBVIOUS
<1>1. ASSUME NEW c \in Channels, Steps(c) PROVE Inv'
  BY <1>1, UnsubscribeInv, SubscribeInv, WithdrawInv, TransmitInv, SendReturnsInv, SendFailsInv DEF Steps
<1>2. ASSUME NEW c \in Channels, Enroll(c) PROVE Inv'
  <2>1. operational \in SUBSET Channels /\ leases \cup {c} \in SUBSET Channels
    BY DEF Inv, TypeOK
  <2> QED BY <1>2, <2>1, DemandsInv DEF Enroll
<1>3. ASSUME NEW needed \in SUBSET Channels, SetOperational(needed) PROVE Inv'
  <2>1. leases \in SUBSET Channels
    BY DEF Inv, TypeOK
  <2> QED BY <1>3, <2>1, DemandsInv DEF SetOperational
<1>4. CASE UNCHANGED vars
  <2>1. Replies' = Replies
    BY <1>4 DEF vars, local, socket, demand, Replies, HeardNow, Elements
  <2>2. TypeOK' /\ SocketOk'
    BY <1>4 DEF vars, local, socket, demand, Inv, TypeOK, Consistent, SocketOk, InOrder, Occupied
  <2> QED BY <1>4, <2>1, <2>2, IgnoreOk DEF vars, local, socket, demand, Inv, Consistent
<1> QED BY <1>1, <1>2, <1>3, <1>4, ExpireInv, MaintainInv, NextStageInv, StartInv,
        ReconcileAfterAckInv, StopReconcilingInv, StopInv, EndObservationInv, HandleAckInv,
        HeardSettlesInv, ExchangeAnswersInv DEF Next

\* The coordinator and what it knows of the exchange stay consistent.
THEOREM Invariance == Spec => []Inv
<1> QED BY InitInv, NextInv, PTL DEF Spec

\* The variables keep their types.
THEOREM TypeCorrect == Spec => []TypeOK
<1>1. Inv => TypeOK
  BY DEF Inv
<1> QED BY <1>1, Invariance, PTL

\* For every cap: the session never holds more registrations than the exchange
\* allows, those of requests under way or lost included (docstring of the module).
THEOREM SessionWithinCap == Spec => []WithinCap
<1>1. Inv => WithinCap
  <2> SUFFICES ASSUME Inv PROVE WithinCap
    OBVIOUS
  <2> DEFINE requested == {wire[i][1] : i \in {j \in 1..Len(wire) : wire[j][2] = "subscribe"}}
  <2>1. \A i \in 1..Len(wire) : wire[i] \in Channels \X Actions
    BY DEF Inv, TypeOK
  <2>2. \A c \in requested : c \in Channels /\ Asked(c, "subscribe")
    BY <2>1 DEF Asked, Elements
  <2>3. exchange \cup requested \subseteq Occupied /\ Occupied \subseteq Channels
    BY <2>2 DEF Occupied, Inv, TypeOK, Consistent, ChannelOk
  <2>4. Cardinality(exchange \cup requested) <= Cardinality(Occupied)
    BY <2>3, OccupiedFinite, FS_Subset
  <2>5. Cardinality(exchange \cup requested) \in Nat /\ Cardinality(Occupied) \in Nat
    BY <2>3, OccupiedFinite
  <2>6. Cardinality(Occupied) <= Cap
    BY DEF Inv, Consistent, SocketOk
  <2> QED BY <2>4, <2>5, <2>6, SubscriptionAssumption DEF WithinCap
<1> QED BY <1>1, Invariance, PTL

\* What the coordinator believes of a channel is so at the exchange, however
\* late or often the answers come (handle_ack).
THEOREM BeliefCorrect == Spec => []BeliefIsTrue
<1>1. Inv => BeliefIsTrue
  BY DEF Inv, Consistent, ChannelOk, BeliefIsTrue, TypeOK
<1> QED BY <1>1, Invariance, PTL

\* No channel that the trader needs is given up by a reconciliation that was
\* under way when the list changed (set_operational, _reconcile).
THEOREM NeededNeverReleased == Spec => NeededIsKept
<1>1. Inv /\ [Next]_vars =>
        [\A c \in operational : slots[c] = "acknowledged" => slots'[c] # "pending_unsubscribe"]_vars
  <2> SUFFICES ASSUME Inv, Next, NEW c \in operational, slots[c] = "acknowledged"
               PROVE  slots'[c] # "pending_unsubscribe"
    BY DEF vars
  <2>1. c \in Channels /\ slots \in [Channels -> Status]
    BY DEF Inv, TypeOK
  <2>2. ASSUME NEW d \in Channels, Unsubscribe(d) PROVE slots'[c] # "pending_unsubscribe"
    <3>1. d # c
      BY <2>2 DEF Unsubscribe, ToRelease, Between, Inv, Consistent, SocketOk
    <3> QED BY <2>1, <2>2, <3>1 DEF Unsubscribe, Holder, Turn
  <2>3. ASSUME NEW d \in Channels,
               Subscribe(d) \/ Withdraw(d) \/ Transmit(d) \/ SendReturns(d) \/ SendFails(d)
        PROVE  slots'[c] # "pending_unsubscribe"
    BY <2>1, <2>3 DEF Subscribe, Withdraw, Transmit, SendReturns, SendFails, Holder, Turn
  <2>4. ASSUME NEW d \in Channels, Enroll(d) \/ Expire(d) PROVE slots'[c] # "pending_unsubscribe"
    BY <2>4 DEF Enroll, Expire, Demands, local
  <2>5. ASSUME NEW cs \in SUBSET Channels, SetOperational(cs) \/ Maintain(cs)
        PROVE  slots'[c] # "pending_unsubscribe"
    BY <2>1, <2>5 DEF SetOperational, Demands, Maintain
  <2>6. ASSUME NextStage \/ Start \/ ReconcileAfterAck \/ StopReconciling \/ Stop
        PROVE  slots'[c] # "pending_unsubscribe"
    BY <2>1, <2>6 DEF NextStage, Holder, Start, ReconcileAfterAck, StopReconciling, Stop, Turn
  <2>7. ASSUME EndObservation \/ HandleAck \/ HeardSettles \/ ExchangeAnswers
        PROVE  slots'[c] # "pending_unsubscribe"
    BY <2>1, <2>7 DEF EndObservation, HandleAck, HeardSettles, ExchangeAnswers, Settle, Turn, local
  <2> QED BY <2>2, <2>3, <2>4, <2>5, <2>6, <2>7 DEF Next, Steps
<1> QED BY <1>1, Invariance, PTL DEF Spec, NeededIsKept
=============================================================================
