--------------------------- MODULE SyncClientProofs ---------------------------
(***************************************************************************)
(* Proofs about SyncClient, for any application threads, any requests and  *)
(* any number of events.                                                   *)
(***************************************************************************)
EXTENDS SyncClient, TLAPS

\* The callback thread is held while a task exists, and the task has an event.
Held == task # "none" => lib = "joining" /\ event \in Events

\* The events that left the inbox: begun, or launched and about to begin.
Taken == Len(begun) + (IF task = "launched" THEN 1 ELSE 0)

One(item) == IF item.kind = "event" THEN 1 ELSE 0

\* The stamps of the inbox go on from Taken, event by event, to the last one
\* that arrived.
Stamped ==
  /\ \A i \in 1..Len(inbox) :
       inbox[i].at = (IF i = 1 THEN Taken ELSE inbox[i - 1].at) + One(inbox[i])
  /\ Len(arrived) = IF inbox = <<>> THEN Taken ELSE inbox[Len(inbox)].at

\* An event in the inbox is the one that arrived under its stamp.
Named ==
  \A i \in 1..Len(inbox) : inbox[i].kind = "event" =>
    inbox[i].at \in 1..Len(arrived) /\ arrived[inbox[i].at] = inbox[i].name

\* So are the event about to begin and those that have begun.
Taking == task = "launched" => Taken <= Len(arrived) /\ arrived[Taken] = event
Done == Len(begun) <= Len(arrived) /\ \A k \in 1..Len(begun) : begun[k] = arrived[k]

\* An answer in the inbox, the only one for its request, carries the number
\* of events before it.
Answers ==
  \A i \in 1..Len(inbox) : inbox[i].kind = "ack" =>
    /\ before[inbox[i].op] = inbox[i].at /\ status[inbox[i].op] = "acked"
    /\ \A j \in 1..Len(inbox) :
         inbox[j].kind = "ack" /\ inbox[j].op = inbox[i].op => j = i

Bounded == Len(arrived) <= MaxEvents

\* The order of the inbox, of what was taken from it, and of the answers.
Order == Stamped /\ Named /\ Taking /\ Done /\ Answers /\ AnswerAfterEvents

IInv == TypeOK /\ Bounded /\ Held /\ Order
----------------------------------------------------------------------------
\* What is in the inbox: an acknowledgment or an event.
LEMMA ItemType ==
  ASSUME NEW x \in Items
  PROVE  /\ x.at \in Stamps /\ x.kind \in {"ack", "event"}
         /\ x.kind = "ack" => x.op \in Ops
         /\ x.kind = "event" => x.name \in Events
  BY DEF Items, Ack, Event

\* The stamps still go on from one to the next after an item has come.
LEMMA ItemComes ==
  ASSUME TypeOK, Stamped, NEW x \in Items,
         x.at = Len(arrived) + One(x), Len(arrived') = Len(arrived) + One(x),
         inbox' = Append(inbox, x), Taken' = Taken
  PROVE  Stamped'
<1>1. inbox \in Seq(Items) /\ arrived \in Seq(Events)
  BY DEF TypeOK
<1>2. Len(inbox') = Len(inbox) + 1 /\ inbox'[Len(inbox')] = x /\ inbox' # <<>>
  BY <1>1
<1>3. \A i \in 1..Len(inbox) : inbox'[i] = inbox[i]
  BY <1>1
<1>4. x.at = (IF Len(inbox') = 1 THEN Taken ELSE inbox'[Len(inbox') - 1].at) + One(x)
  BY <1>1, <1>2, <1>3 DEF Stamped
<1> QED
  BY <1>1, <1>2, <1>3, <1>4 DEF Stamped, One

\* ... and after the first item was taken up.
LEMMA ItemTaken ==
  ASSUME TypeOK, Stamped, inbox # <<>>, Taken \in Nat,
         inbox' = Tail(inbox), arrived' = arrived,
         Taken' = Taken + One(Head(inbox))
  PROVE  Stamped'
<1>1. inbox \in Seq(Items)
  BY DEF TypeOK
<1>2. /\ Len(inbox') = Len(inbox) - 1 /\ Len(inbox) >= 1
      /\ \A i \in 1..Len(inbox') : inbox'[i] = inbox[i + 1]
  BY <1>1
<1>3. inbox[1].at = Taken'
  BY <1>1, <1>2 DEF Stamped
<1>4. \A i \in 1..Len(inbox') :
        inbox'[i].at = (IF i = 1 THEN Taken' ELSE inbox'[i - 1].at) + One(inbox'[i])
  <2> TAKE i \in 1..Len(inbox')
  <2>1. inbox[i + 1].at = inbox[i].at + One(inbox[i + 1])
    BY <1>1, <1>2 DEF Stamped
  <2>2. CASE i = 1
    BY <1>2, <1>3, <2>1, <2>2
  <2>3. CASE i # 1
    <3>1. inbox'[i - 1] = inbox[i]
      BY <1>2, <2>3
    <3> QED
      BY <1>2, <2>1, <2>3, <3>1
  <2> QED
    BY <2>2, <2>3
<1>5. CASE inbox' = <<>>
  <2>1. Len(inbox) = 1
    BY <1>1, <1>2, <1>5
  <2> QED
    BY <1>1, <1>3, <1>4, <1>5, <2>1 DEF Stamped
<1>6. CASE inbox' # <<>>
  <2>1. inbox'[Len(inbox')] = inbox[Len(inbox)] /\ inbox # <<>>
    BY <1>1, <1>2, <1>6
  <2> QED
    BY <1>4, <1>6, <2>1 DEF Stamped
<1> QED
  BY <1>5, <1>6

----------------------------------------------------------------------------
\* The calls leave the callback thread and its inbox alone, but for the
\* status of a request that was not made before, or is made again.
CallStep ==
  /\ UNCHANGED <<inbox, arrived, before, lib, task, event, begun>>
  /\ \A o \in Ops : status[o] = "acked" <=> status'[o] = "acked"
  /\ \A o \in Ops : status'[o] = "complete" => status[o] = "complete"

\* A request that is sent out, for the first time or again.
LEMMA Sent ==
  ASSUME TypeOK, NEW c \in Callers, NEW o \in Ops, Send(c, o)
  PROVE  /\ CallStep
         /\ status' \in [Ops -> {"unused", "sent", "failed", "acked", "complete"}]
         /\ waitsFor' \in [Callers -> Ops \union {NoOp}]
         /\ waitsFor'[Task] # NoOp => task = "running"
         /\ waitsFor'[Lib] # NoOp => lib = "calling"
<1>1. CallStep
  BY DEF Send, TypeOK, CallStep, threadVars
<1>2. /\ status' \in [Ops -> {"unused", "sent", "failed", "acked", "complete"}]
      /\ waitsFor' \in [Callers -> Ops \union {NoOp}]
  BY DEF Send, TypeOK
<1>3. /\ waitsFor'[Task] # NoOp => task = "running"
      /\ waitsFor'[Lib] # NoOp => lib = "calling"
  BY CallerAssumption DEF Send, Running, TypeOK, Callers
<1> QED
  BY <1>1, <1>2, <1>3

\* The calls that send a request.
Requests(c) ==
  \/ \E o \in Ops : Publish(c, o) \/ PublishRef(c, o) \/ Subscribe(c, o)
  \/ connect(c) \/ reconnect(c)

\* What they send.
LEMMA RequestSent ==
  ASSUME TypeOK, NEW c \in Callers, Requests(c)
  PROVE  /\ \E o \in Ops : Send(c, o)
         /\ timed' \subseteq Callers /\ wants' \subseteq Callers
         /\ borrowed' \subseteq Ops \ {ConnOp} /\ again' \in Nat
<1>1. CASE \E o \in Ops : Publish(c, o) \/ PublishRef(c, o) \/ Subscribe(c, o)
  <2>1. PICK o \in Ops : Publish(c, o) \/ PublishRef(c, o) \/ Subscribe(c, o)
    BY <1>1
  <2>2. Send(c, o) /\ status[o] = "unused" /\ o # ConnOp
    BY <2>1 DEF Publish, PublishRef, Subscribe, Begin
  <2>3. /\ timed' \subseteq Callers /\ wants' \subseteq Callers
        /\ borrowed' \subseteq borrowed \union {o} /\ again' = again
    BY <2>1 DEF Publish, PublishRef, Subscribe, TypeOK
  <2> QED
    BY <2>2, <2>3 DEF TypeOK
<1>2. CASE connect(c) \/ reconnect(c)
  BY <1>2, CallerAssumption DEF connect, reconnect, Begin, TypeOK
<1> QED
  BY <1>1, <1>2 DEF Requests

\* Every step of a blocking call keeps the types, and is a CallStep.
LEMMA Calls ==
  ASSUME TypeOK, NEW c \in Callers,
         Requests(c) \/ AskResponse(c) \/ Return(c) \/ TimeoutError(c)
  PROVE  CallStep /\ TypeOK'
<1>1. CASE Requests(c)
  <2>1. PICK o \in Ops : Send(c, o)
    BY <1>1, RequestSent
  <2> QED
    BY <1>1, <2>1, Sent, RequestSent DEF TypeOK, CallStep
<1>2. CASE AskResponse(c)
  BY <1>2 DEF AskResponse, TypeOK, CallStep, netVars, threadVars
<1>3. CASE Return(c) \/ TimeoutError(c)
  <2>1. EndCall(c)
    BY <1>3 DEF Return, TimeoutError
  <2>2. CallStep /\ UNCHANGED <<status, borrowed, again>>
    BY <2>1 DEF EndCall, CallStep, netVars, threadVars
  <2>3. /\ waitsFor' \in [Callers -> Ops \union {NoOp}]
        /\ timed' \subseteq Callers /\ wants' \subseteq Callers
        /\ \A d \in Callers : waitsFor'[d] = NoOp \/ waitsFor'[d] = waitsFor[d]
    BY <2>1 DEF EndCall, TypeOK
  <2> QED
    BY <2>2, <2>3 DEF TypeOK, CallStep, Callers
<1> QED
  BY <1>1, <1>2, <1>3

\* A reconnect that fails without a word is nothing to the callback thread.
LEMMA FailureUnseen ==
  ASSUME TypeOK, ReconnectFails
  PROVE  CallStep /\ TypeOK'
BY CallerAssumption DEF ReconnectFails, TypeOK, CallStep, callVars, threadVars

\* Steps of the network and of the callback thread keep the types.
LEMMA NetworkType ==
  ASSUME TypeOK, Bounded,
         (\E o \in Ops : Acknowledge(o)) \/ (\E e \in Events : Happen(e))
  PROVE  TypeOK' /\ Bounded'
<1>1. Len(arrived) \in Stamps
  BY EventBound DEF TypeOK, Bounded, Stamps
<1>2. CASE \E o \in Ops : Acknowledge(o)
  <2>1. PICK o \in Ops : Acknowledge(o)
    BY <1>2
  <2>2. Ack(o, Len(arrived)) \in Items
    BY <1>1 DEF Items
  <2> QED
    BY <1>1, <2>1, <2>2
       DEF Acknowledge, TypeOK, Bounded, callVars, threadVars
<1>3. CASE \E e \in Events : Happen(e)
  <2>1. PICK e \in Events : Happen(e)
    BY <1>3
  <2>2. Len(arrived) + 1 \in Stamps
    BY <2>1, EventBound DEF TypeOK, Happen, Stamps
  <2>3. Event(e, Len(arrived) + 1) \in Items
    BY <2>2 DEF Items
  <2>4. Len(arrived') = Len(arrived) + 1 /\ arrived' \in Seq(Events)
    BY <2>1 DEF Happen, TypeOK
  <2> QED
    BY <2>1, <2>2, <2>3, <2>4
       DEF Happen, TypeOK, Bounded, Stamps, callVars, threadVars
<1> QED
  BY <1>2, <1>3

\* What the callback thread takes up is the first item of its inbox.
LEMMA FirstItem ==
  ASSUME TypeOK, inbox # <<>>
  PROVE  /\ Head(inbox) \in Items /\ Head(inbox) = inbox[1] /\ Len(inbox) >= 1
         /\ Tail(inbox) \in Seq(Items) /\ Len(Tail(inbox)) = Len(inbox) - 1
         /\ \A i \in 1..Len(Tail(inbox)) : Tail(inbox)[i] = inbox[i + 1]
  BY DEF TypeOK

\* The steps of the callback thread and of the task keep the types.
LEMMA CallbackType ==
  ASSUME TypeOK, Bounded, Held, CallbackThread \/ RunTask \/ TaskReturns
  PROVE  TypeOK' /\ Bounded' /\ Held'
<1> USE DEF TypeOK, Bounded, Held, callVars, netVars
<1>1. CASE CompleteToken
  <2>1. Head(inbox).op \in Ops /\ inbox' \in Seq(Items)
    BY <1>1, FirstItem, ItemType DEF CompleteToken
  <2> QED
    BY <1>1, <2>1 DEF CompleteToken, threadVars
<1>2. CASE Launch \/ message_arrived
  <2>1. event' \in Events /\ inbox' \in Seq(Items)
    BY <1>2, FirstItem, ItemType DEF Launch, message_arrived, NextEvent
  <2>2. begun' \in Seq(Events)
    <3>1. begun' = begun \/ begun' = Append(begun, event')
      BY <1>2 DEF Launch, message_arrived
    <3>2. \A b \in Seq(Events), e \in Events : Append(b, e) \in Seq(Events)
      OBVIOUS
    <3>3. begun \in Seq(Events)
      OBVIOUS
    <3> QED
      BY <2>1, <3>1, <3>2, <3>3
  <2>3. lib = "idle" /\ task = "none" /\ waitsFor[Task] = NoOp /\ waitsFor[Lib] = NoOp
    BY <1>2 DEF Launch, message_arrived, NextEvent
  <2>4. \/ task' = "launched" /\ lib' = "joining"
        \/ task' = "none" /\ lib' = "calling"
    BY <1>2, <2>3 DEF Launch, message_arrived
  <2>5. UNCHANGED <<status, arrived, before, waitsFor, timed, wants, borrowed, again>>
    BY <1>2 DEF Launch, message_arrived
  <2> QED
    BY <2>1, <2>2, <2>3, <2>4, <2>5
<1>3. CASE RunTask
  BY <1>3 DEF RunTask
<1>4. CASE TaskReturns \/ Join \/ CallbackReturns
  BY <1>4 DEF TaskReturns, Join, CallbackReturns
<1> QED
  BY <1>1, <1>2, <1>3, <1>4 DEF CallbackThread

----------------------------------------------------------------------------
\* A step that is not about the inbox or the callbacks leaves the order alone.
LEMMA CallOrder ==
  ASSUME TypeOK, Order, CallStep \/ UNCHANGED vars
  PROVE  Order'
<1> USE DEF TypeOK, Order, CallStep, vars
<1>1. Stamped' /\ Named' /\ Taking' /\ Done'
  BY DEF Stamped, Named, Taking, Done, Taken, One
<1>2. \A o \in Ops : /\ status[o] = "acked" => status'[o] = "acked"
                     /\ status'[o] = "complete" => status[o] = "complete"
  OBVIOUS
<1>3. Answers'
  BY <1>2, ItemType DEF Answers
<1>4. AnswerAfterEvents'
  BY <1>2 DEF AnswerAfterEvents, Inside
<1> QED
  BY <1>1, <1>3, <1>4

\* An acknowledgment goes to the end of the inbox.
LEMMA AcknowledgeOrder ==
  ASSUME TypeOK, Bounded, Order, NEW o \in Ops, Acknowledge(o)
  PROVE  Order'
<1> DEFINE x == Ack(o, Len(arrived))
<1>1. x \in Items /\ x.at = Len(arrived) /\ x.kind = "ack" /\ x.op = o /\ One(x) = 0
  BY EventBound DEF TypeOK, Bounded, Stamps, Items, Ack, One
<1>2. /\ inbox' = Append(inbox, x)
      /\ UNCHANGED <<arrived, lib, task, event, begun>>
      /\ status[o] = "sent"
      /\ \A p \in Ops \ {o} : status'[p] = status[p] /\ before'[p] = before[p]
      /\ status'[o] = "acked" /\ before'[o] = Len(arrived)
  BY DEF Acknowledge, threadVars, TypeOK
<1> HIDE DEF x
<1>3. inbox \in Seq(Items) /\ arrived \in Seq(Events) /\ begun \in Seq(Events)
  BY DEF TypeOK
<1>4. /\ Len(inbox') = Len(inbox) + 1 /\ inbox'[Len(inbox')] = x
      /\ \A i \in 1..Len(inbox) : inbox'[i] = inbox[i] /\ inbox[i] \in Items
  BY <1>1, <1>2, <1>3
<1>5. Stamped'
  BY <1>1, <1>2, <1>3, ItemComes DEF Order, Taken
<1>6. Named'
  BY <1>1, <1>2, <1>3, <1>4 DEF Order, Named
<1>7. Taking' /\ Done'
  BY <1>2 DEF Order, Taking, Done, Taken
<1>8. \A i \in 1..Len(inbox) : inbox[i].kind = "ack" => inbox[i].op \in Ops \ {o}
  BY <1>2, <1>4, ItemType DEF Order, Answers
<1>9. Answers'
  <2> SUFFICES ASSUME NEW i \in 1..Len(inbox'), inbox'[i].kind = "ack"
               PROVE  /\ before'[inbox'[i].op] = inbox'[i].at
                      /\ status'[inbox'[i].op] = "acked"
                      /\ \A j \in 1..Len(inbox') :
                           inbox'[j].kind = "ack" /\ inbox'[j].op = inbox'[i].op => j = i
    BY DEF Answers
  <2>1. CASE i = Len(inbox')
    <3>1. inbox'[i] = x
      BY <1>4, <2>1
    <3>2. \A j \in 1..Len(inbox') : j \in 1..Len(inbox) \/ j = i
      BY <1>3, <1>4, <2>1
    <3> QED
      BY <1>1, <1>2, <1>4, <1>8, <3>1, <3>2
  <2>2. CASE i \in 1..Len(inbox)
    <3>1. \A j \in 1..Len(inbox') : j \in 1..Len(inbox) \/ inbox'[j] = x
      BY <1>3, <1>4
    <3>2. inbox'[i] = inbox[i] /\ inbox[i].op \in Ops \ {o}
      BY <1>4, <1>8, <2>2
    <3> QED
      BY <1>1, <1>2, <1>4, <1>8, <2>2, <3>1, <3>2 DEF Order, Answers
  <2> QED
    BY <1>3, <1>4, <2>1, <2>2
<1>10. AnswerAfterEvents'
  BY <1>2 DEF Order, AnswerAfterEvents, Inside
<1> QED
  BY <1>5, <1>6, <1>7, <1>9, <1>10 DEF Order

\* So does an event.
LEMMA HappenOrder ==
  ASSUME TypeOK, Bounded, Order, NEW e \in Events, Happen(e)
  PROVE  Order'
<1> DEFINE x == Event(e, Len(arrived) + 1)
<1>1. /\ x \in Items /\ x.at = Len(arrived) + 1 /\ x.kind = "event"
      /\ x.name = e /\ One(x) = 1
  BY EventBound DEF Happen, TypeOK, Bounded, Stamps, Items, Event, One
<1>2. /\ inbox' = Append(inbox, x) /\ arrived' = Append(arrived, e)
      /\ UNCHANGED <<status, before, lib, task, event, begun>>
  BY DEF Happen, threadVars
<1> HIDE DEF x
<1>3. inbox \in Seq(Items) /\ arrived \in Seq(Events) /\ begun \in Seq(Events)
  BY DEF TypeOK
<1>4. /\ Len(inbox') = Len(inbox) + 1 /\ inbox'[Len(inbox')] = x
      /\ \A i \in 1..Len(inbox) : inbox'[i] = inbox[i] /\ inbox[i] \in Items
  BY <1>1, <1>2, <1>3
<1>5. /\ Len(arrived') = Len(arrived) + 1 /\ arrived'[Len(arrived')] = e
      /\ \A k \in 1..Len(arrived) : arrived'[k] = arrived[k]
  BY <1>2, <1>3
<1>6. Stamped'
  BY <1>1, <1>2, <1>3, <1>5, ItemComes DEF Order, Taken
<1>7. Named'
  <2> SUFFICES ASSUME NEW i \in 1..Len(inbox'), inbox'[i].kind = "event"
               PROVE  /\ inbox'[i].at \in 1..Len(arrived')
                      /\ arrived'[inbox'[i].at] = inbox'[i].name
    BY DEF Named
  <2>1. CASE i = Len(inbox')
    BY <1>1, <1>3, <1>4, <1>5, <2>1
  <2>2. CASE i \in 1..Len(inbox)
    BY <1>3, <1>4, <1>5, <2>2 DEF Order, Named
  <2> QED
    BY <1>3, <1>4, <2>1, <2>2
<1>8. Taking' /\ Done'
  BY <1>2, <1>3, <1>5 DEF Order, Taking, Done, Taken
<1>9. Answers'
  BY <1>1, <1>2, <1>3, <1>4 DEF Order, Answers
<1>10. AnswerAfterEvents'
  BY <1>2 DEF Order, AnswerAfterEvents, Inside
<1> QED
  BY <1>6, <1>7, <1>8, <1>9, <1>10 DEF Order

\* The callback thread takes an answer: the callbacks it follows are over.
LEMMA CompleteOrder ==
  ASSUME TypeOK, Held, Order, CompleteToken
  PROVE  Order'
<1> DEFINE o == Head(inbox).op
<1>1. /\ lib = "idle" /\ task = "none" /\ inbox # <<>> /\ inbox' = Tail(inbox)
      /\ Head(inbox).kind = "ack" /\ One(Head(inbox)) = 0
      /\ UNCHANGED <<arrived, before, lib, task, event, begun>>
  BY DEF CompleteToken, Held, threadVars, One
<1>2. /\ Head(inbox) = inbox[1] /\ o \in Ops /\ Len(inbox) >= 1
      /\ Len(inbox') = Len(inbox) - 1
      /\ \A i \in 1..Len(inbox') : inbox'[i] = inbox[i + 1] /\ inbox[i + 1] \in Items
  BY <1>1, FirstItem, ItemType DEF TypeOK
<1>3. /\ status'[o] = "complete"
      /\ \A p \in Ops \ {o} : status'[p] = status[p]
  BY <1>2 DEF CompleteToken, TypeOK
<1>4. inbox \in Seq(Items) /\ begun \in Seq(Events)
  BY DEF TypeOK
<1>5. Stamped'
  <2>1. Taken \in Nat /\ Taken' = Taken
    BY <1>1, <1>4 DEF Taken
  <2> QED
    BY <1>1, <2>1, ItemTaken DEF Order, Taken
<1>6. Named' /\ Taking' /\ Done'
  BY <1>1, <1>2, <1>4 DEF Order, Named, Taking, Done, Taken
<1>7. \A i \in 1..Len(inbox') : inbox'[i].kind = "ack" => inbox'[i].op \in Ops \ {o}
  <2> SUFFICES ASSUME NEW i \in 1..Len(inbox'), inbox'[i].kind = "ack"
               PROVE  inbox'[i].op \in Ops \ {o}
    OBVIOUS
  <2>1. inbox'[i].op \in Ops
    BY <1>2, ItemType
  <2>2. 1 \in 1..Len(inbox) /\ i + 1 \in 1..Len(inbox) /\ 1 # i + 1
    BY <1>2, <1>4
  <2> QED
    BY <1>1, <1>2, <2>1, <2>2 DEF Order, Answers
<1>8. Answers'
  <2> SUFFICES ASSUME NEW i \in 1..Len(inbox'), inbox'[i].kind = "ack"
               PROVE  /\ before'[inbox'[i].op] = inbox'[i].at
                      /\ status'[inbox'[i].op] = "acked"
                      /\ \A j \in 1..Len(inbox') :
                           inbox'[j].kind = "ack" /\ inbox'[j].op = inbox'[i].op => j = i
    BY DEF Answers
  <2>1. \A j \in 1..Len(inbox') : j + 1 \in 1..Len(inbox) /\ inbox'[j] = inbox[j + 1]
    BY <1>2, <1>4
  <2>2. \A j \in 1..Len(inbox') : j + 1 = i + 1 => j = i
    OBVIOUS
  <2> QED
    BY <1>1, <1>3, <1>7, <2>1, <2>2 DEF Order, Answers
<1>9. AnswerAfterEvents'
  <2>1. Head(inbox).at = Len(begun) /\ before[o] = Len(begun)
    <3>1. 1 \in 1..Len(inbox) /\ inbox[1].at \in Nat
      BY <1>2, <1>4, EventBound, FirstItem, ItemType DEF Stamps
    <3>2. inbox[1].at = Taken + One(inbox[1])
      BY <3>1 DEF Order, Stamped
    <3>3. before[inbox[1].op] = inbox[1].at
      BY <1>1, <1>2, <3>1 DEF Order, Answers
    <3> QED
      BY <1>1, <1>2, <1>4, <3>2, <3>3 DEF Taken
  <2>2. Inside' = 0 /\ Inside = 0
    BY <1>1 DEF Inside
  <2> QED
    BY <1>1, <1>3, <1>4, <2>1, <2>2 DEF Order, AnswerAfterEvents
<1> QED
  BY <1>5, <1>6, <1>8, <1>9 DEF Order

\* It takes an event, and its callback begins or is about to.
LEMMA EventOrder ==
  ASSUME TypeOK, Held, Order, Launch \/ message_arrived
  PROVE  Order'
<1>1. /\ lib = "idle" /\ task = "none" /\ inbox # <<>> /\ inbox' = Tail(inbox)
      /\ Head(inbox).kind = "event" /\ One(Head(inbox)) = 1
      /\ event' = Head(inbox).name
      /\ UNCHANGED <<arrived, before, status>>
  BY DEF Launch, message_arrived, NextEvent, Held, One
<1>2. /\ Head(inbox) = inbox[1] /\ Len(inbox) >= 1 /\ event' \in Events
      /\ Len(inbox') = Len(inbox) - 1
      /\ \A i \in 1..Len(inbox') : inbox'[i] = inbox[i + 1] /\ i + 1 \in 1..Len(inbox)
  BY <1>1, FirstItem, ItemType DEF TypeOK
<1>3. inbox \in Seq(Items) /\ begun \in Seq(Events) /\ arrived \in Seq(Events)
  BY DEF TypeOK
<1>4. \/ task' = "launched" /\ lib' = "joining" /\ begun' = begun
      \/ task' = "none" /\ lib' = "calling" /\ begun' = Append(begun, event')
  BY <1>1 DEF Launch, message_arrived
<1>5. Taken = Len(begun) /\ Taken' = Taken + 1
  BY <1>1, <1>2, <1>3, <1>4 DEF Taken
<1>6. Stamped'
  BY <1>1, <1>3, <1>5, ItemTaken DEF Order
<1>7. Taken' \in 1..Len(arrived) /\ arrived[Taken'] = event'
  <2>1. 1 \in 1..Len(inbox)
    BY <1>2, <1>3
  <2>2. inbox[1].at = Taken'
    BY <1>1, <1>2, <1>5, <2>1 DEF Order, Stamped
  <2> QED
    BY <1>1, <1>2, <2>1, <2>2 DEF Order, Named
<1>8. Named'
  BY <1>1, <1>2 DEF Order, Named
<1>9. Taking' /\ Done'
  BY <1>1, <1>2, <1>3, <1>4, <1>5, <1>7 DEF Order, Taking, Done
<1>10. Answers'
  <2>1. \A i, j \in 1..Len(inbox') : j + 1 = i + 1 => j = i
    OBVIOUS
  <2> QED
    BY <1>1, <1>2, <2>1 DEF Order, Answers
<1>11. AnswerAfterEvents'
  <2>1. Len(begun') - Inside' = Len(begun) /\ Inside = 0
    BY <1>1, <1>2, <1>3, <1>4 DEF Inside
  <2> QED
    BY <1>1, <1>3, <2>1 DEF Order, AnswerAfterEvents
<1> QED
  BY <1>6, <1>8, <1>9, <1>10, <1>11 DEF Order

\* A launched callback begins, and callbacks end.
LEMMA TaskOrder ==
  ASSUME TypeOK, Held, Order, RunTask \/ TaskReturns \/ Join \/ CallbackReturns
  PROVE  Order'
<1>1. UNCHANGED <<inbox, arrived, before, status, event>>
  BY DEF RunTask, TaskReturns, Join, CallbackReturns, netVars
<1>2. inbox \in Seq(Items) /\ begun \in Seq(Events) /\ arrived \in Seq(Events)
  BY DEF TypeOK
<1>3. CASE RunTask
  <2>1. /\ task = "launched" /\ task' = "running" /\ lib' = lib /\ lib = "joining"
        /\ begun' = Append(begun, event) /\ event \in Events
    BY <1>3 DEF RunTask, Held
  <2>2. Taken = Len(begun) + 1 /\ Taken' = Taken
    BY <1>2, <2>1 DEF Taken
  <2>3. Taking' /\ Done'
    BY <1>1, <1>2, <2>1, <2>2 DEF Order, Taking, Done
  <2>4. Len(begun') - Inside' = Len(begun) - Inside
    BY <1>2, <2>1 DEF Inside
  <2>5. Stamped' /\ Named' /\ Answers'
    BY <1>1, <2>2 DEF Order, Stamped, Named, Answers, One
  <2> QED
    BY <1>1, <2>3, <2>4, <2>5 DEF Order, AnswerAfterEvents
<1>4. CASE TaskReturns \/ Join \/ CallbackReturns
  <2>1. begun' = begun /\ Taken' = Taken /\ (task' = "launched" => task = "launched")
    BY <1>4 DEF TaskReturns, Join, CallbackReturns, Taken
  <2>2. Inside' \in {0, 1} /\ Inside \in {0, 1} /\ Inside' <= Inside
    BY <1>4 DEF TaskReturns, Join, CallbackReturns, Inside
  <2>3. Stamped' /\ Named' /\ Answers' /\ Taking' /\ Done'
    BY <1>1, <2>1 DEF Order, Stamped, Named, Answers, Taking, Done, One
  <2>4. \A o \in Ops : before[o] \in Int
    BY EventBound DEF TypeOK, Stamps
  <2>5. AnswerAfterEvents'
    BY <1>1, <1>2, <2>1, <2>2, <2>4 DEF Order, AnswerAfterEvents
  <2> QED
    BY <2>3, <2>5 DEF Order
<1> QED
  BY <1>3, <1>4

----------------------------------------------------------------------------
\* Initially nothing has come and nothing was called.
LEMMA InitHolds == Init => IInv
<1> SUFFICES ASSUME Init PROVE IInv
  OBVIOUS
<1>1. TypeOK /\ Bounded /\ Held
  BY EventBound DEF Init, TypeOK, Bounded, Held, Stamps, Callers
<1>2. Stamped /\ Named /\ Taking /\ Done /\ Answers
  BY DEF Init, Stamped, Named, Taking, Done, Answers, Taken
<1>3. AnswerAfterEvents
  BY DEF Init, AnswerAfterEvents
<1> QED
  BY <1>1, <1>2, <1>3 DEF IInv, Order

\* Every step keeps the invariant.
LEMMA StepHolds == IInv /\ [Next]_vars => IInv'
<1> SUFFICES ASSUME IInv, [Next]_vars PROVE IInv'
  OBVIOUS
<1> USE DEF IInv
<1>1. ASSUME NEW c \in Callers,
             Requests(c) \/ AskResponse(c) \/ Return(c) \/ TimeoutError(c)
      PROVE  IInv'
  <2>1. CallStep /\ TypeOK' /\ Order'
    BY <1>1, Calls, CallOrder
  <2> QED
    BY <2>1 DEF CallStep, Bounded, Held
<1>2. CASE \E o \in Ops : Acknowledge(o)
  <2>1. TypeOK' /\ Bounded' /\ Order'
    BY <1>2, NetworkType, AcknowledgeOrder
  <2> QED
    BY <1>2, <2>1 DEF Acknowledge, threadVars, Held
<1>3. CASE \E e \in Events : Happen(e)
  <2>1. TypeOK' /\ Bounded' /\ Order'
    BY <1>3, NetworkType, HappenOrder
  <2> QED
    BY <1>3, <2>1 DEF Happen, threadVars, Held
<1>4. CASE CallbackThread \/ RunTask \/ TaskReturns
  <2>1. TypeOK' /\ Bounded' /\ Held'
    BY <1>4, CallbackType
  <2>2. Order'
    BY <1>4, CompleteOrder, EventOrder, TaskOrder DEF CallbackThread
  <2> QED
    BY <2>1, <2>2
<1>5. CASE UNCHANGED vars
  <2>1. Order'
    BY <1>5, CallOrder
  <2>2. TypeOK' /\ Bounded' /\ Held'
    BY <1>5 DEF vars, TypeOK, Bounded, Held
  <2> QED
    BY <2>1, <2>2
<1>6. CASE ReconnectFails
  BY <1>6, FailureUnseen, CallOrder DEF CallStep, Bounded, Held
<1> QED
  BY <1>1, <1>2, <1>3, <1>4, <1>5, <1>6 DEF Next, Requests

\* The invariant of the client.
LEMMA Inductive == Spec => []IInv
  BY InitHolds, StepHolds, PTL DEF Spec

----------------------------------------------------------------------------
\* The owner of a borrowed message waits for its request, with no limit.
Kept ==
  \A o \in borrowed : status[o] # "complete" =>
    \E c \in Callers : waitsFor[c] = o /\ c \notin timed

\* The blocking calls keep it so.
LEMMA KeptByCalls ==
  ASSUME TypeOK, Kept, NEW c \in Callers,
         Requests(c) \/ AskResponse(c) \/ Return(c) \/ TimeoutError(c)
  PROVE  Kept'
<1> SUFFICES ASSUME NEW o \in borrowed', status'[o] # "complete"
             PROVE  \E d \in Callers : waitsFor'[d] = o /\ d \notin timed'
  BY DEF Kept
<1>1. CASE Requests(c)
  <2>1. PICK p \in Ops : Send(c, p)
    BY <1>1, RequestSent
  <2>2. /\ waitsFor[c] = NoOp /\ waitsFor'[c] = p
        /\ \A d \in Callers \ {c} : waitsFor'[d] = waitsFor[d]
        /\ \A q \in Ops \ {p} : status'[q] = status[q]
    BY <2>1 DEF Send, Running, TypeOK
  <2>3. timed' \subseteq timed \union {c}
    BY <1>1 DEF Requests, Publish, PublishRef, Subscribe, connect, reconnect
  <2>4. CASE o \notin borrowed
    <3>1. PublishRef(c, o)
      BY <1>1, <2>4 DEF Requests, Publish, PublishRef, Subscribe, connect, reconnect
    <3>2. waitsFor'[c] = o /\ c \notin timed'
      BY <3>1 DEF PublishRef, Begin, Send, TypeOK
    <3> QED
      BY <3>2
  <2>5. CASE o \in borrowed
    <3>1. o \in Ops /\ o # ConnOp
      BY <2>5 DEF TypeOK
    <3>2. status[o] # "complete"
      <4>1. CASE o # p
        BY <2>2, <3>1, <4>1
      <4>2. CASE o = p
        <5>1. ~reconnect(c)
          BY <2>2, <3>1, <4>2, CallerAssumption DEF reconnect, Send, TypeOK
        <5>2. \E q \in Ops : Begin(c, q)
          BY <1>1, <5>1, CallerAssumption
             DEF Requests, Publish, PublishRef, Subscribe, connect
        <5>3. PICK q \in Ops : Begin(c, q)
          BY <5>2
        <5>4. q = p
          BY <2>2, <5>3 DEF Begin, Send, TypeOK
        <5> QED
          BY <4>2, <5>3, <5>4 DEF Begin
      <4> QED
        BY <4>1, <4>2
    <3>3. PICK d \in Callers : waitsFor[d] = o /\ d \notin timed
      BY <2>5, <3>2 DEF Kept
    <3>4. d # c
      BY <2>2, <3>1, <3>3, CallerAssumption
    <3> QED
      BY <2>2, <2>3, <3>3, <3>4
  <2> QED
    BY <2>4, <2>5
<1>2. CASE AskResponse(c)
  <2>1. timed' \subseteq timed /\ UNCHANGED <<waitsFor, borrowed, status>>
    BY <1>2 DEF AskResponse, netVars
  <2> QED
    BY <2>1 DEF Kept
<1>3. CASE Return(c) \/ TimeoutError(c)
  <2>1. /\ timed' \subseteq timed /\ UNCHANGED <<borrowed, status>>
        /\ \A d \in Callers \ {c} : waitsFor'[d] = waitsFor[d]
    BY <1>3 DEF Return, TimeoutError, EndCall, netVars, TypeOK
  <2>2. PICK d \in Callers : waitsFor[d] = o /\ d \notin timed
    BY <2>1 DEF Kept
  <2>3. d # c
    BY <1>3, <2>1, <2>2 DEF Return, TimeoutError
  <2> QED
    BY <2>1, <2>2, <2>3
<1> QED
  BY <1>1, <1>2, <1>3

\* So does every other step.
LEMMA KeptStep ==
  ASSUME TypeOK, Kept, [Next]_vars
  PROVE  Kept'
<1>1. ASSUME NEW c \in Callers,
             Requests(c) \/ AskResponse(c) \/ Return(c) \/ TimeoutError(c)
      PROVE  Kept'
  BY <1>1, KeptByCalls
<1>2. CASE \/ \E o \in Ops : Acknowledge(o)
           \/ ReconnectFails
           \/ \E e \in Events : Happen(e)
           \/ CallbackThread \/ RunTask \/ TaskReturns
           \/ UNCHANGED vars
  <2>1. UNCHANGED <<waitsFor, timed, borrowed>>
    BY <1>2 DEF Acknowledge, ReconnectFails, Happen, CallbackThread, CompleteToken,
         Launch, message_arrived, Join, CallbackReturns, RunTask, TaskReturns, callVars, vars
  <2>2. \A o \in Ops : status'[o] # "complete" => status[o] # "complete"
    <3>1. CASE (\E p \in Ops : Acknowledge(p)) \/ ReconnectFails
      BY <3>1, CallerAssumption DEF Acknowledge, ReconnectFails, TypeOK
    <3>2. CASE CompleteToken
      <4>1. Head(inbox).op \in Ops
        BY <3>2, FirstItem, ItemType DEF CompleteToken
      <4> QED
        BY <3>2, <4>1 DEF CompleteToken, TypeOK
    <3>3. CASE UNCHANGED status
      BY <3>3
    <3> QED
      BY <1>2, <3>1, <3>2, <3>3 DEF Happen, CallbackThread, Launch,
         message_arrived, Join, CallbackReturns, RunTask, TaskReturns, netVars, vars
  <2>3. borrowed \subseteq Ops
    BY DEF TypeOK
  <2> QED
    BY <2>1, <2>2, <2>3 DEF Kept
<1> QED
  BY <1>1, <1>2 DEF Next, Requests

\* The caller of publish(const message&) does not leave before the library is
\* done with its message, whatever the other calls and the callbacks do.
THEOREM BorrowedMessagesHeld == Spec => []BorrowedHeld
<1>1. Init => Kept
  BY DEF Init, Kept
<1>2. TypeOK /\ Kept /\ [Next]_vars => Kept'
  BY KeptStep
<1>3. IInv => TypeOK
  BY DEF IInv
<1>4. Kept => BorrowedHeld
  BY DEF Kept, BorrowedHeld
<1> QED
  BY <1>1, <1>2, <1>3, <1>4, Inductive, PTL DEF Spec

\* The variables keep their types; a caller waits only inside its callback.
THEOREM TypesHold == Spec => []TypeOK
<1>1. IInv => TypeOK
  BY DEF IInv
<1> QED
  BY <1>1, Inductive, PTL

\* The user's methods begin in the order of the events they report, whichever
\* thread runs them.
THEOREM CallbacksInOrder == Spec => []CallbackOrder
<1>1. IInv => CallbackOrder
  <2> SUFFICES ASSUME IInv PROVE CallbackOrder
    OBVIOUS
  <2>1. begun \in Seq(Events) /\ arrived \in Seq(Events) /\ Len(begun) <= Len(arrived)
    BY DEF IInv, TypeOK, Order, Done
  <2>2. /\ SubSeq(arrived, 1, Len(begun)) \in Seq(Events)
        /\ Len(SubSeq(arrived, 1, Len(begun))) = Len(begun)
        /\ \A k \in 1..Len(begun) : SubSeq(arrived, 1, Len(begun))[k] = arrived[k]
    BY <2>1
  <2> QED
    BY <2>1, <2>2 DEF IInv, Order, Done, CallbackOrder
<1> QED
  BY <1>1, Inductive, PTL

\* No two of the user's methods run at the same time.
THEOREM CallbacksNeverOverlap == Spec => []CallbacksApart
<1>1. IInv => CallbacksApart
  BY DEF IInv, Held, CallbacksApart
<1> QED
  BY <1>1, Inductive, PTL

\* A request completes only after the callbacks for the events before it.
THEOREM AnswersFollowCallbacks == Spec => []AnswerAfterEvents
<1>1. IInv => AnswerAfterEvents
  BY DEF IInv, Order
<1> QED
  BY <1>1, Inductive, PTL

----------------------------------------------------------------------------
\* No call made inside a callback is let go, and none loses its time limit,
\* when a caller takes a step of a call.
LEMMA TimeoutEndsCalls ==
  ASSUME TypeOK, OnlyTimeoutEnds, NEW d \in Callers,
         Requests(d) \/ AskResponse(d) \/ Return(d) \/ TimeoutError(d)
  PROVE  OnlyTimeoutEnds'
<1> SUFFICES ASSUME NEW c \in {Task, Lib}, waitsFor'[c] # NoOp
             PROVE  /\ status'[waitsFor'[c]] # "complete"
                    /\ c \in timed' \union UntimedCallers
  BY DEF OnlyTimeoutEnds
<1>1. c \in Callers /\ \A o \in Ops : status'[o] = "complete" => status[o] = "complete"
  BY Calls DEF CallStep, Callers
<1>2. ASSUME c # d, \/ \E o \in Ops : Send(d, o)
                   \/ AskResponse(d) \/ EndCall(d)
      PROVE  waitsFor'[c] = waitsFor[c]
  BY <1>1, <1>2 DEF Send, AskResponse, EndCall, TypeOK
<1>3. CASE c # d
  <2>1. \/ \E o \in Ops : Send(d, o)
        \/ AskResponse(d) \/ EndCall(d)
    BY RequestSent DEF Return, TimeoutError
  <2>2. waitsFor'[c] = waitsFor[c] /\ waitsFor[c] \in Ops
    BY <1>1, <1>2, <1>3, <2>1 DEF TypeOK
  <2>3. timed \ {d} \subseteq timed'
    BY DEF Requests, Publish, PublishRef, Subscribe, connect, reconnect,
         AskResponse, Return, TimeoutError, EndCall
  <2> QED
    BY <1>1, <1>3, <2>2, <2>3 DEF OnlyTimeoutEnds
<1>4. CASE c = d /\ Requests(d)
  <2>1. PICK o \in Ops : Send(d, o)
    BY <1>4, RequestSent
  <2>2. waitsFor'[c] = o /\ status'[o] # "complete"
    BY <1>1, <1>4, <2>1 DEF Send, TypeOK
  <2>3. c \in timed' \/ c \in UntimedCallers
    BY <1>4 DEF Requests, Publish, PublishRef, Subscribe, connect, reconnect
  <2> QED
    BY <2>2, <2>3
<1>5. CASE c = d /\ (AskResponse(d) \/ Return(d))
  BY <1>5 DEF AskResponse, Return, OnlyTimeoutEnds
<1>6. CASE c = d /\ TimeoutError(d)
  BY <1>1, <1>6 DEF TimeoutError, EndCall, TypeOK
<1> QED
  BY <1>3, <1>4, <1>5, <1>6

\* A blocking call made inside a callback never sees its answer, whatever the
\* order of answers and events: only its time limit can end it.
THEOREM CallsInCallbacksTimeOut == Spec => []OnlyTimeoutEnds
<1>1. Init => OnlyTimeoutEnds
  BY DEF Init, OnlyTimeoutEnds, Callers
<1>2. ASSUME IInv, OnlyTimeoutEnds, [Next]_vars
      PROVE  OnlyTimeoutEnds'
  <2> USE <1>2 DEF IInv
  <2>1. ASSUME NEW c \in Callers,
               Requests(c) \/ AskResponse(c) \/ Return(c) \/ TimeoutError(c)
        PROVE  OnlyTimeoutEnds'
    BY <2>1, TimeoutEndsCalls
  <2>2. CASE CompleteToken
    <3>1. waitsFor[Task] = NoOp /\ waitsFor[Lib] = NoOp
      BY <2>2 DEF CompleteToken, TypeOK, Held
    <3> QED
      BY <2>2, <3>1 DEF CompleteToken, callVars, OnlyTimeoutEnds
  <2>3. CASE (\E o \in Ops : Acknowledge(o)) \/ ReconnectFails
    <3>2. /\ UNCHANGED <<waitsFor, timed>>
          /\ \A p \in Ops : status'[p] = "complete" => status[p] = "complete"
      BY <2>3, CallerAssumption DEF Acknowledge, ReconnectFails, callVars, TypeOK
    <3>3. \A c \in {Task, Lib} : waitsFor[c] # NoOp => waitsFor[c] \in Ops
      BY DEF TypeOK, Callers
    <3> QED
      BY <3>2, <3>3 DEF OnlyTimeoutEnds
  <2>4. CASE UNCHANGED <<waitsFor, timed, status>>
    BY <2>4 DEF OnlyTimeoutEnds
  <2> QED
    BY <2>1, <2>2, <2>3, <2>4 DEF Next, Requests, Happen, CallbackThread, Launch,
         message_arrived, Join, CallbackReturns, RunTask, TaskReturns,
         callVars, netVars, vars
<1> QED
  BY <1>1, <1>2, Inductive, PTL DEF Spec

----------------------------------------------------------------------------
\* The stamps in the inbox never go back.
Rising ==
  \A i, j \in 1..Len(inbox) : i <= j => inbox[i].at <= inbox[j].at

\* A request that was acknowledged has its answer in the inbox.
Coming ==
  \A o \in Ops : status[o] = "acked" =>
    \E i \in 1..Len(inbox) : inbox[i].kind = "ack" /\ inbox[i].op = o

Queued == Rising /\ Coming

\* What comes into the inbox goes to its end, with the highest stamp.
LEMMA QueuedComes ==
  ASSUME TypeOK, Order, Queued, NEW x \in Items,
         x.at >= Len(arrived), inbox' = Append(inbox, x),
         \A o \in Ops : status'[o] = "acked" =>
           status[o] = "acked" \/ (x.kind = "ack" /\ x.op = o)
  PROVE  Queued'
<1>1. inbox \in Seq(Items) /\ Len(arrived) \in Nat /\ x.at \in Int
  BY ItemType, EventBound DEF TypeOK, Stamps
<1>2. /\ Len(inbox') = Len(inbox) + 1 /\ inbox'[Len(inbox')] = x
      /\ \A i \in 1..Len(inbox) : inbox'[i] = inbox[i] /\ inbox[i].at \in Int
  BY <1>1, ItemType, EventBound DEF Stamps
<1>3. \A i \in 1..Len(inbox) : inbox[i].at <= Len(arrived)
  <2> TAKE i \in 1..Len(inbox)
  <2>1. Len(inbox) \in 1..Len(inbox) /\ inbox # <<>> /\ i <= Len(inbox)
    BY <1>1
  <2>2. Len(arrived) = inbox[Len(inbox)].at
    BY <2>1 DEF Order, Stamped
  <2> QED
    BY <2>1, <2>2 DEF Queued, Rising
<1>4. Rising'
  <2> SUFFICES ASSUME NEW i \in 1..Len(inbox'), NEW j \in 1..Len(inbox'), i <= j
               PROVE  inbox'[i].at <= inbox'[j].at
    BY DEF Rising
  <2>1. CASE j \in 1..Len(inbox)
    BY <1>1, <1>2, <2>1 DEF Queued, Rising
  <2>2. CASE j = Len(inbox') /\ i # j
    <3>1. i \in 1..Len(inbox) /\ inbox'[j] = x
      BY <1>1, <1>2, <2>2
    <3> QED
      BY <1>1, <1>2, <1>3, <3>1
  <2>3. CASE j = Len(inbox') /\ i = j
    BY <1>1, <1>2, <2>3
  <2> QED
    BY <1>1, <1>2, <2>1, <2>2, <2>3
<1>5. Coming'
  <2> SUFFICES ASSUME NEW o \in Ops, status'[o] = "acked"
               PROVE  \E i \in 1..Len(inbox') : inbox'[i].kind = "ack" /\ inbox'[i].op = o
    BY DEF Coming
  <2>1. CASE x.kind = "ack" /\ x.op = o
    <3>1. Len(inbox') \in 1..Len(inbox')
      BY <1>1, <1>2
    <3> QED
      BY <1>2, <2>1, <3>1
  <2>2. CASE status[o] = "acked"
    <3>1. PICK i \in 1..Len(inbox) : inbox[i].kind = "ack" /\ inbox[i].op = o
      BY <2>2 DEF Queued, Coming
    <3>2. i \in 1..Len(inbox') /\ inbox'[i] = inbox[i]
      BY <1>1, <1>2
    <3> QED
      BY <3>1, <3>2
  <2> QED
    BY <2>1, <2>2
<1> QED
  BY <1>4, <1>5 DEF Queued

\* What is taken up is the first item; an answer taken up was for a request
\* that is not acknowledged any more.
LEMMA QueuedTaken ==
  ASSUME TypeOK, Queued, inbox # <<>>, inbox' = Tail(inbox),
         \A o \in Ops : status'[o] = "acked" =>
           status[o] = "acked" /\ ~(inbox[1].kind = "ack" /\ inbox[1].op = o)
  PROVE  Queued'
<1>1. inbox \in Seq(Items) /\ Len(inbox') = Len(inbox) - 1
      /\ \A i \in 1..Len(inbox') : inbox'[i] = inbox[i + 1]
  BY FirstItem DEF TypeOK
<1>2. Rising'
  BY <1>1 DEF Queued, Rising
<1>3. Coming'
  <2> SUFFICES ASSUME NEW o \in Ops, status'[o] = "acked"
               PROVE  \E i \in 1..Len(inbox') : inbox'[i].kind = "ack" /\ inbox'[i].op = o
    BY DEF Coming
  <2>1. PICK i \in 1..Len(inbox) : inbox[i].kind = "ack" /\ inbox[i].op = o
    BY DEF Queued, Coming
  <2>2. i - 1 \in 1..Len(inbox') /\ inbox'[i - 1] = inbox[i]
    <3>1. i # 1
      BY <2>1
    <3> QED
      BY <1>1, <3>1
  <2> QED
    BY <2>1, <2>2
<1> QED
  BY <1>2, <1>3 DEF Queued

\* Every step keeps the inbox so.
LEMMA QueuedStep ==
  ASSUME IInv, Queued, [Next]_vars
  PROVE  Queued'
<1> USE DEF IInv
<1>1. ASSUME NEW c \in Callers,
             Requests(c) \/ AskResponse(c) \/ Return(c) \/ TimeoutError(c)
      PROVE  Queued'
  <2>1. CallStep
    BY <1>1, Calls
  <2> QED
    BY <2>1 DEF CallStep, Queued, Rising, Coming
<1>2. CASE \E o \in Ops : Acknowledge(o)
  <2>1. PICK o \in Ops : Acknowledge(o)
    BY <1>2
  <2>2. /\ Ack(o, Len(arrived)) \in Items /\ Ack(o, Len(arrived)).at = Len(arrived)
        /\ Ack(o, Len(arrived)).kind = "ack" /\ Ack(o, Len(arrived)).op = o
    BY EventBound DEF TypeOK, Bounded, Stamps, Items, Ack
  <2>3. /\ inbox' = Append(inbox, Ack(o, Len(arrived)))
        /\ \A p \in Ops : status'[p] = "acked" => status[p] = "acked" \/ p = o
    BY <2>1 DEF Acknowledge, TypeOK
  <2>4. Len(arrived) \in Nat
    BY DEF TypeOK
  <2> QED
    BY <2>2, <2>3, <2>4, QueuedComes
<1>3. CASE \E e \in Events : Happen(e)
  <2>1. PICK e \in Events : Happen(e)
    BY <1>3
  <2>2. /\ Event(e, Len(arrived) + 1) \in Items
        /\ Event(e, Len(arrived) + 1).at = Len(arrived) + 1
    BY <2>1, EventBound DEF Happen, TypeOK, Stamps, Items, Event
  <2>3. inbox' = Append(inbox, Event(e, Len(arrived) + 1)) /\ status' = status
    BY <2>1 DEF Happen
  <2>4. Len(arrived) \in Nat
    BY DEF TypeOK
  <2> QED
    BY <2>2, <2>3, <2>4, QueuedComes
<1>4. CASE CompleteToken
  <2>1. /\ inbox # <<>> /\ inbox' = Tail(inbox) /\ Head(inbox) = inbox[1]
        /\ \A p \in Ops : status'[p] = "acked" => status[p] = "acked" /\ p # inbox[1].op
    BY <1>4, FirstItem, ItemType DEF CompleteToken, TypeOK
  <2> QED
    BY <2>1, QueuedTaken
<1>5. CASE Launch \/ message_arrived
  <2>1. /\ inbox # <<>> /\ inbox' = Tail(inbox) /\ Head(inbox) = inbox[1]
        /\ Head(inbox).kind = "event" /\ status' = status
    BY <1>5, FirstItem DEF Launch, message_arrived, NextEvent
  <2> QED
    BY <2>1, QueuedTaken
<1>6. CASE UNCHANGED <<inbox, status>>
  BY <1>6 DEF Queued, Rising, Coming
<1>7. CASE ReconnectFails
  BY <1>7, FailureUnseen DEF CallStep, Queued, Rising, Coming
<1> QED
  BY <1>1, <1>2, <1>3, <1>4, <1>5, <1>6, <1>7 DEF Next, Requests, CallbackThread, Join,
     CallbackReturns, RunTask, TaskReturns, netVars, vars

\* The answers that are still to come into force are behind the event that is
\* taken up next, or was last.
LEMMA AnswersBehind ==
  ASSUME IInv, Queued, NEW o \in Ops, status[o] = "acked"
  PROVE  /\ inbox # <<>> /\ before[o] >= Taken + One(inbox[1])
         /\ before[o] \in Nat /\ Taken \in Nat /\ One(inbox[1]) \in Nat
<1>1. PICK i \in 1..Len(inbox) : inbox[i].kind = "ack" /\ inbox[i].op = o
  BY DEF Queued, Coming
<1>2. inbox \in Seq(Items) /\ before[o] \in Nat /\ Len(begun) \in Nat
  BY EventBound DEF IInv, TypeOK, Stamps
<1>3. inbox # <<>> /\ 1 \in 1..Len(inbox) /\ 1 <= i
  BY <1>1, <1>2
<1>4. before[o] = inbox[i].at
  BY <1>1 DEF IInv, Order, Answers
<1>5. inbox[1].at = Taken + One(inbox[1])
  BY <1>3 DEF IInv, Order, Stamped
<1>6. inbox[1].at <= inbox[i].at
  BY <1>3 DEF Queued, Rising
<1>7. Taken \in Nat /\ One(inbox[1]) \in Nat
  BY <1>2 DEF Taken, One
<1>8. before[o] >= Taken + One(inbox[1])
  BY <1>4, <1>5, <1>6
<1> QED
  BY <1>2, <1>3, <1>7, <1>8

----------------------------------------------------------------------------
\* The fences of the executor, as SyncClient maps them.
Fence == [o \in Ops |-> IF status[o] = "acked" THEN before[o] ELSE -1]

\* The blocking calls are nothing to the executor.
LEMMA CallStutters ==
  ASSUME CallStep
  PROVE  UNCHANGED (Executor!vars)
<1>1. Fence' = Fence
  BY DEF Fence, CallStep
<1>2. Inside' = Inside /\ arrived' = arrived /\ begun' = begun
  BY DEF CallStep, Inside
<1> QED
  BY <1>1, <1>2 DEF Executor!vars, Fence

\* An acknowledgment is an answer, whose fence is what has come before it.
LEMMA AcknowledgeAnswers ==
  ASSUME TypeOK, NEW o \in Ops, Acknowledge(o)
  PROVE  Executor!Answer(o)
<1>1. /\ status[o] = "sent" /\ status'[o] = "acked" /\ before'[o] = Len(arrived)
      /\ \A p \in Ops \ {o} : status'[p] = status[p] /\ before'[p] = before[p]
      /\ UNCHANGED <<arrived, lib, task, begun>>
  BY DEF Acknowledge, threadVars, TypeOK
<1>2. Fence[o] = -1 /\ Fence' = [Fence EXCEPT ![o] = Len(arrived)]
  BY <1>1 DEF Fence
<1> QED
  BY <1>1, <1>2 DEF Fence, Executor!Answer, Executor!NoFence, Inside

\* An event is a job.
LEMMA HappenSubmits ==
  ASSUME NEW e \in Events, Happen(e)
  PROVE  Executor!Submit(e)
<1>1. /\ UNCHANGED <<status, before, lib, task, begun>>
      /\ arrived' = Append(arrived, e)
  BY DEF Happen, threadVars
<1>2. Fence' = Fence /\ Inside' = Inside
  BY <1>1 DEF Fence, Inside
<1> QED
  BY <1>1, <1>2 DEF Fence, Executor!Submit

\* A request goes on when all the jobs before its answer have ended, and none
\* after it has begun.
LEMMA CompletionGoesOn ==
  ASSUME TypeOK, Held, Order, CompleteToken
  PROVE  \E o \in Ops : Executor!GoOn(o)
<1>0. PICK o \in Ops : o = inbox[1].op
  BY FirstItem, ItemType DEF CompleteToken
<1>1. /\ lib = "idle" /\ task = "none" /\ inbox # <<>>
      /\ inbox[1].kind = "ack" /\ 1 \in 1..Len(inbox)
  BY FirstItem DEF CompleteToken, Held
<1>2. /\ status'[o] = "complete" /\ \A p \in Ops \ {o} : status'[p] = status[p]
      /\ UNCHANGED <<arrived, before, lib, task, begun>>
  BY <1>0, <1>1, FirstItem DEF CompleteToken, threadVars, TypeOK
<1>3. status[o] = "acked" /\ before[o] = Len(begun)
  <2>0. Len(begun) \in Nat
    BY DEF TypeOK
  <2>1. inbox[1].at = Taken + One(inbox[1])
    BY <1>1 DEF Order, Stamped
  <2>2. before[o] = inbox[1].at /\ status[o] = "acked"
    BY <1>0, <1>1 DEF Order, Answers
  <2> QED
    BY <1>1, <2>0, <2>1, <2>2 DEF Taken, One
<1>4. Fence[o] = Len(begun) /\ Fence[o] # -1 /\ Fence' = [Fence EXCEPT ![o] = -1]
  <2>1. Len(begun) \in Nat
    BY DEF TypeOK
  <2>2. Fence[o] = Len(begun)
    BY <1>1, <1>3 DEF Fence
  <2>3. Fence' = [Fence EXCEPT ![o] = -1]
    BY <1>1, <1>2 DEF Fence
  <2> QED
    BY <2>1, <2>2, <2>3
<1>5. Inside = 0 /\ Inside' = 0
  BY <1>1, <1>2 DEF Inside
<1>6. Executor!GoOn(o)
  BY <1>2, <1>4, <1>5 DEF Fence, Executor!GoOn, Executor!NoFence
<1> QED
  BY <1>6

\* A callback begins, on either thread, as the next job.
LEMMA CallbackBegins ==
  ASSUME IInv, Queued, message_arrived \/ RunTask
  PROVE  Executor!Begin
<1>1. UNCHANGED <<status, arrived, before>> /\ Fence' = Fence
  BY DEF message_arrived, RunTask, netVars, Fence
<1>2. Inside = 0 /\ Inside' = 1
  BY DEF message_arrived, RunTask, NextEvent, Inside, IInv, Held
<1>3. arrived \in Seq(Events) /\ begun \in Seq(Events)
  BY DEF IInv, TypeOK
<1>4. /\ Len(begun) + 1 \in 1..Len(arrived)
      /\ begun' = Append(begun, arrived[Len(begun) + 1])
      /\ \A o \in Ops : status[o] = "acked" => before[o] > Len(begun)
  <2>1. CASE message_arrived
    <3>1. /\ inbox # <<>> /\ inbox[1].kind = "event" /\ event' = inbox[1].name
          /\ begun' = Append(begun, event') /\ task = "none" /\ 1 \in 1..Len(inbox)
      BY <2>1, FirstItem DEF message_arrived, NextEvent, IInv, Held
    <3>2. Taken = Len(begun) /\ One(inbox[1]) = 1 /\ inbox[1].at = Len(begun) + 1
      <4>1. inbox[1].at = Taken + One(inbox[1])
        BY <3>1 DEF IInv, Order, Stamped
      <4> QED
        BY <1>3, <3>1, <4>1 DEF Taken, One
    <3>3. inbox[1].at \in 1..Len(arrived) /\ arrived[inbox[1].at] = inbox[1].name
      BY <3>1 DEF IInv, Order, Named
    <3>4. \A o \in Ops : status[o] = "acked" => before[o] > Len(begun)
      <4> TAKE o \in Ops
      <4> HAVE status[o] = "acked"
      <4>1. before[o] \in Nat /\ before[o] >= Taken + One(inbox[1])
        BY AnswersBehind
      <4> QED
        BY <1>3, <3>2, <4>1
    <3> QED
      BY <3>1, <3>2, <3>3, <3>4
  <2>2. CASE RunTask
    <3>1. task = "launched" /\ begun' = Append(begun, event)
      BY <2>2 DEF RunTask
    <3>2. Taken = Len(begun) + 1 /\ Len(begun) \in Nat
      BY <1>3, <3>1 DEF Taken
    <3>3. Taken <= Len(arrived) /\ arrived[Taken] = event
      BY <3>1 DEF IInv, Order, Taking
    <3>4. \A o \in Ops : status[o] = "acked" => before[o] > Len(begun)
      <4> TAKE o \in Ops
      <4> HAVE status[o] = "acked"
      <4>1. /\ before[o] \in Nat /\ One(inbox[1]) \in Nat
            /\ before[o] >= Taken + One(inbox[1])
        BY AnswersBehind
      <4> QED
        BY <3>2, <4>1
    <3> QED
      BY <1>3, <3>1, <3>2, <3>3, <3>4
  <2> QED
    BY <2>1, <2>2
<1>5. \A o \in Ops : Fence[o] = -1 \/ Fence[o] > Len(begun)
  BY <1>4 DEF Fence
<1> QED
  BY <1>1, <1>2, <1>3, <1>4, <1>5 DEF Fence, Executor!Begin, Executor!NoFence

\* The other steps of the callback thread and of the task end a callback, or
\* are between two.
LEMMA CallbackEnds ==
  ASSUME Held, Launch \/ Join \/ TaskReturns \/ CallbackReturns
  PROVE  Executor!End \/ UNCHANGED (Executor!vars)
<1>1. UNCHANGED <<status, arrived, before, begun>> /\ Fence' = Fence
  BY DEF Launch, Join, TaskReturns, CallbackReturns, netVars, Fence
<1>2. CASE Launch \/ Join
  <2>1. Inside' = Inside
    BY <1>2 DEF Launch, NextEvent, Join, Inside, Held
  <2> QED
    BY <1>1, <2>1 DEF Executor!vars, Fence
<1>3. CASE TaskReturns \/ CallbackReturns
  <2>1. Inside = 1 /\ Inside' = 0
    BY <1>3 DEF TaskReturns, CallbackReturns, Inside, Held
  <2> QED
    BY <1>1, <2>1 DEF Executor!End, Fence
<1> QED
  BY <1>2, <1>3

\* Every step of the client is a step of the executor, or none.
LEMMA StepRunsSerially ==
  ASSUME IInv, Queued, [Next]_vars
  PROVE  [Executor!Next]_(Executor!vars)
<1> USE DEF IInv
<1>1. ASSUME NEW c \in Callers,
             Requests(c) \/ AskResponse(c) \/ Return(c) \/ TimeoutError(c)
      PROVE  [Executor!Next]_(Executor!vars)
  BY <1>1, Calls, CallStutters
<1>2. CASE \E o \in Ops : Acknowledge(o)
  BY <1>2, AcknowledgeAnswers DEF Executor!Next
<1>3. CASE \E e \in Events : Happen(e)
  BY <1>3, HappenSubmits DEF Executor!Next
<1>4. CASE CompleteToken
  BY <1>4, CompletionGoesOn DEF Executor!Next
<1>5. CASE message_arrived \/ RunTask
  BY <1>5, CallbackBegins DEF Executor!Next
<1>6. CASE Launch \/ Join \/ TaskReturns \/ CallbackReturns
  BY <1>6, CallbackEnds DEF Executor!Next
<1>7. CASE UNCHANGED vars
  <2>1. UNCHANGED <<status, arrived, before, begun, lib, task>>
    BY <1>7 DEF vars
  <2> QED
    BY <2>1 DEF Executor!vars, Inside
<1>8. CASE ReconnectFails
  BY <1>8, FailureUnseen, CallStutters
<1> QED
  BY <1>1, <1>2, <1>3, <1>4, <1>5, <1>6, <1>7, <1>8 DEF Next, Requests, CallbackThread

\* The client runs callbacks and completions one after the other in the order
\* they came, for any callers, requests and number of events.
THEOREM ClientRunsSerially == Spec => RunsSerially
<1>1. Init => Executor!Init
  BY DEF Init, Executor!Init, Executor!NoFence, Inside
<1>2. Init => Queued
  BY DEF Init, Queued, Rising, Coming
<1>3. IInv /\ Queued /\ [Next]_vars => Queued'
  BY QueuedStep
<1>4. IInv /\ Queued /\ [Next]_vars => [Executor!Next]_(Executor!vars)
  BY StepRunsSerially
<1> QED
  BY <1>1, <1>2, <1>3, <1>4, Inductive, PTL DEF Spec, RunsSerially, Executor!Spec
===============================================================================
