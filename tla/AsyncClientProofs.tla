-------------------------- MODULE AsyncClientProofs --------------------------
(***************************************************************************)
(* Proofs about AsyncClient, for any number of requests, connects,         *)
(* reconnects and messages: the life of a token, and the queue.            *)
(***************************************************************************)
EXTENDS AsyncClient, SequenceTheorems, TLAPS

Others == Publications \union Requests

\* The callback thread is busy with the answer to t.
Completing(t) == lib \in {"listener", "notify", "remove"} /\ subject = t
Reporting(t) == lib = "deliver" /\ subject = t

\* The life of a token that tracks one request: not made, made, with the C
\* library, answered, off the list and about to be reported, and over.
Fresh(t) ==
  /\ stage[t] = "unused" /\ pending[t] = 0 /\ held[t] = 0 /\ ~done[t]
  /\ delivered[t] = 0 /\ ~Completing(t) /\ ~Reporting(t)

Asking(t) ==
  /\ stage[t] \in {"added", "refused"} /\ pending[t] = 1 /\ held[t] = 0 /\ ~done[t]
  /\ delivered[t] = 0 /\ ~Completing(t) /\ ~Reporting(t)

Waiting(t) ==
  /\ stage[t] \in {"sent", "returned"} /\ pending[t] = 1 /\ held[t] = 1 /\ ~done[t]
  /\ delivered[t] = 0 /\ ~Completing(t) /\ ~Reporting(t)

Answered(t) ==
  /\ stage[t] \in {"sent", "returned"} /\ pending[t] = 1 /\ held[t] = 0 /\ done[t]
  /\ delivered[t] = 0 /\ Completing(t)

Leaving(t) ==
  /\ stage[t] \in {"sent", "returned"} /\ pending[t] = 0 /\ held[t] = 0 /\ done[t]
  /\ delivered[t] = 0 /\ Reporting(t) /\ t \in Publications \ Qos0

Over(t) ==
  /\ stage[t] \in {"sent", "returned", "thrown"} /\ pending[t] = 0 /\ held[t] = 0
  /\ stage[t] # "thrown" => done[t]
  /\ delivered[t] = 0 \/ (delivered[t] = 1 /\ t \in Publications \ Qos0)
  /\ ~Completing(t) /\ ~Reporting(t)

Life(t) ==
  Fresh(t) \/ Asking(t) \/ Waiting(t) \/ Answered(t) \/ Leaving(t) \/ Over(t)

\* The token of a connect: the library has its address only after the C call,
\* its call is under way only while it is connTok_, it is listed as often as it
\* will be removed unless on_connected has removed it too, and it is connTok_
\* until another connect takes its place.
ConnectLife(t) ==
  /\ stage[t] \in {"unused", "added", "refused"} => held[t] = 0
  /\ stage[t] \notin {"unused", "returned", "thrown"} => conn = t
  /\ t \in redone \/ Owed(t) <= pending[t]
  /\ held[t] > 0 => conn = t \/ OtherConnect(t)

TokenInv == TypeOK /\ (\A t \in Others : Life(t)) /\ (\A t \in Conns : ConnectLife(t))
----------------------------------------------------------------------------
\* Every step of a call keeps the types.
LEMMA CallerType ==
  ASSUME TypeOK, NEW t \in Tokens, Caller(t)
  PROVE  TypeOK'
<1> USE DEF To, Apart, setVars, libVars, queueVars
<1>1. CASE Request(t)
  BY <1>1, BoundAssumption DEF Request, Call, add_token, TypeOK
<1>2. CASE Connect(t)
  BY <1>2, BoundAssumption DEF Connect, Call, add_token, TypeOK
<1>3. CASE Send(t)
  BY <1>3 DEF Send, TypeOK
<1>4. CASE Refuse(t)
  BY <1>4 DEF Refuse, TypeOK
<1>5. CASE Return(t)
  BY <1>5 DEF Return, TypeOK
<1>6. CASE Throw(t)
  <2>1. pending' \in [Tokens -> Nat] /\ delivered' \in [Tokens -> Nat]
    BY <1>6 DEF Throw, Erase, TypeOK
  <2>2. conn' \in Conns \union {NoToken}
    BY <1>6 DEF Throw, TypeOK
  <2>3. stage' \in [Tokens -> {"unused", "added", "sent", "refused", "returned",
                               "thrown", "reset", "readded", "rerefused"}]
    BY <1>6 DEF Throw, TypeOK
  <2> QED
    BY <1>6, <2>1, <2>2, <2>3 DEF Throw, TypeOK
<1>7. CASE SendConnect(t)
  <2>1. held' \in [Tokens -> Nat]
    BY <1>7 DEF SendConnect, TypeOK
  <2> QED
    BY <1>7, <2>1 DEF SendConnect, TypeOK
<1>8. CASE SendReconnect(t)
  <2>1. held' \in [Tokens -> Nat]
    BY <1>8 DEF SendReconnect, TypeOK
  <2> QED
    BY <1>8, <2>1 DEF SendReconnect, TypeOK
<1> QED
  BY <1>1, <1>2, <1>3, <1>4, <1>5, <1>6, <1>7, <1>8 DEF Caller

LEMMA ReconnectType ==
  ASSUME TypeOK, Reconnect \/ ReAdd
  PROVE  TypeOK'
<1>1. conn \in Tokens
  BY DEF TypeOK, Tokens, Reconnect, ReAdd
<1>2. CASE Reconnect
  BY <1>1, <1>2, BoundAssumption DEF Reconnect, Call, To, TypeOK, setVars, libVars, queueVars
<1>3. CASE ReAdd
  BY <1>1, <1>3 DEF ReAdd, To, add_token, TypeOK, libVars, queueVars
<1> QED
  BY <1>2, <1>3

\* So does the callback thread ...
LEMMA LibType ==
  ASSUME TypeOK,
         \/ \E t \in Tokens : Respond(t)
         \/ on_connected \/ on_message_arrived \/ on_connection_lost
         \/ CallbackThread
  PROVE  TypeOK'
<1>1. ASSUME NEW t \in Tokens, Respond(t)
      PROVE  TypeOK'
  <2>1. /\ held' \in [Tokens -> Nat] /\ done' \in [Tokens -> BOOLEAN]
        /\ acked' \subseteq Publications /\ linked' \in BOOLEAN
    <3>1. held' \in [Tokens -> Nat] /\ done' \in [Tokens -> BOOLEAN]
      BY <1>1 DEF Respond, Complete, TypeOK
    <3>2. acked' \subseteq Publications
      BY <1>1 DEF Respond, TypeOK
    <3>3. linked' \in BOOLEAN
      BY <1>1, Zenon DEF Respond, TypeOK
    <3> QED
      BY <3>1, <3>2, <3>3
  <2> QED
    BY <1>1, <2>1 DEF Respond, Complete, TypeOK, setVars, queueVars
<1>2. CASE on_connected
  <2>1. conn # NoToken => conn \in Tokens
    BY DEF TypeOK, Tokens
  <2>2. events' \in 0..MaxEvents
    BY <1>2, BoundAssumption DEF on_connected, TypeOK
  <2>3. CASE conn = NoToken
    BY <1>2, <2>2, <2>3 DEF on_connected, TypeOK, setVars, libVars, queueVars
  <2>4. CASE conn # NoToken
    <3>1. done' \in [Tokens -> BOOLEAN] /\ redone' \subseteq Conns
      BY <1>2, <2>1, <2>4 DEF on_connected, Complete, TypeOK
    <3> QED
      BY <1>2, <2>1, <2>2, <2>4, <3>1 DEF on_connected, Complete, TypeOK, setVars, queueVars
  <2> QED
    BY <2>3, <2>4
<1>3. ASSUME NEW m \in Messages, Arrive(m)
      PROVE  TypeOK'
  BY <1>3, BoundAssumption DEF Arrive, TypeOK, requestVars, tokenVars, setVars
<1>4. CASE on_message_arrived
  <2>1. events + 1 \in Messages
    BY <1>4, BoundAssumption DEF on_message_arrived, Arrive, TypeOK, Messages, Null
  <2> QED
    BY <1>3, <1>4, <2>1 DEF on_message_arrived
<1>5. CASE on_connection_lost
  BY <1>3, <1>5, BoundAssumption DEF on_connection_lost, Messages, Null
<1>6. CASE Signal
  BY <1>6 DEF Signal, TypeOK, requestVars, tokenVars, setVars, queueVars
<1>7. CASE remove_token
  <2>1. pending' \in [Tokens -> Nat]
    BY <1>7 DEF remove_token, Erase, TypeOK
  <2> QED
    BY <1>7, <2>1 DEF remove_token, TypeOK, setVars, queueVars
<1>8. CASE delivery_complete
  BY <1>8 DEF delivery_complete, TypeOK, setVars, queueVars
<1>9. CASE TestQueue
  BY <1>9 DEF TestQueue, TypeOK, requestVars, tokenVars, setVars, queueVars
<1>10. CASE Put
  <2>1. que # NoQueue => que \in Seq(Messages) /\ subject \in Messages
    BY <1>10 DEF Put, TypeOK
  <2>2. que' \in Seq(Messages) \union {NoQueue} /\ lib' \in {"free", "crashed"}
    <3>1. que = NoQueue => que' = NoQueue /\ lib' = "crashed"
      BY <1>10 DEF Put
    <3>2. que # NoQueue => que' \in Seq(Messages) /\ lib' = "free"
      <4>1. que # NoQueue => Append(que, subject) \in Seq(Messages)
        BY <2>1, AppendProperties
      <4> QED
        BY <1>10, <4>1 DEF Put
    <3> QED
      BY <3>1, <3>2
  <2> QED
    BY <1>10, <2>2 DEF Put, TypeOK, requestVars, tokenVars, setVars
<1> QED
  BY <1>1, <1>2, <1>4, <1>5, <1>6, <1>7, <1>8, <1>9, <1>10 DEF CallbackThread

\* ... and the consumer.
LEMMA TakeType ==
  ASSUME TypeOK, que \notin {NoQueue, <<>>}, Take
  PROVE  que' \in Seq(Messages) /\ taken' \in Seq(Messages)
<1>1. que \in Seq(Messages) /\ que # <<>> /\ taken \in Seq(Messages)
  BY DEF TypeOK
<1>2. Head(que) \in Messages /\ Tail(que) \in Seq(Messages)
  BY <1>1, HeadTailProperties
<1> QED
  BY <1>1, <1>2 DEF Take

LEMMA ConsumerType ==
  ASSUME TypeOK, Consumer
  PROVE  TypeOK'
<1>1. CASE start_consuming \/ stop_consuming
  <2>1. calls' \in 0..MaxCalls
    <3>1. calls < MaxCalls /\ calls' = calls + 1
      BY <1>1, Zenon DEF start_consuming, stop_consuming, Call
    <3> QED
      BY <3>1, BoundAssumption DEF TypeOK
  <2>2. installed' \in BOOLEAN
    <3>1. installed' = installed \/ installed' = FALSE
      BY <1>1, Zenon DEF start_consuming, stop_consuming
    <3> QED
      BY <3>1, Zenon DEF TypeOK
  <2>3. /\ consumer' \in {"starting", "stopping"}
        /\ UNCHANGED <<tokenVars, user, hook, events, libVars, que, since, taken>>
    BY <1>1 DEF start_consuming, stop_consuming
  <2> QED
    BY <2>1, <2>2, <2>3 DEF TypeOK, tokenVars, libVars
<1>2. CASE NewQueue
  BY <1>2, EmptySeq DEF NewQueue, Destroyed, TypeOK, requestVars, tokenVars, setVars
<1>3. CASE EndStart
  BY <1>3 DEF EndStart, TypeOK, requestVars, tokenVars, setVars, libVars
<1>4. CASE EndStop
  BY <1>4, EmptySeq DEF EndStop, Destroyed, TypeOK, requestVars, tokenVars, setVars
<1>5. CASE consume_message
  <2>1. /\ que' \in Seq(Messages) \union {NoQueue} /\ taken' \in Seq(Messages)
        /\ consumer' \in {"idle", "blocked", "crashed"}
    BY <1>5, TakeType DEF consume_message, TypeOK
  <2> QED
    BY <1>5, <2>1 DEF consume_message, TypeOK, requestVars, tokenVars, setVars, libVars
<1>6. CASE Wake
  <2>1. que' \in Seq(Messages) /\ taken' \in Seq(Messages)
    BY <1>6, TakeType DEF Wake
  <2> QED
    BY <1>6, <2>1 DEF Wake, TypeOK, requestVars, tokenVars, setVars, libVars
<1>7. CASE try_consume_message
  <2>1. /\ que' \in Seq(Messages) \union {NoQueue} /\ taken' \in Seq(Messages)
        /\ consumer' \in {"idle", "crashed"}
    BY <1>7, TakeType DEF try_consume_message, TypeOK
  <2> QED
    BY <1>7, <2>1 DEF try_consume_message, TypeOK, requestVars, tokenVars, setVars, libVars
<1> QED
  BY <1>1, <1>2, <1>3, <1>4, <1>5, <1>6, <1>7 DEF Consumer

LEMMA TypeStep ==
  ASSUME TypeOK, [Next]_vars
  PROVE  TypeOK'
<1>1. CASE UNCHANGED vars
  BY <1>1 DEF vars, TypeOK
<1>2. CASE set_callback \/ disable_callbacks
  BY <1>2 DEF set_callback, disable_callbacks, TypeOK, requestVars, tokenVars, libVars, queueVars
<1> QED
  BY <1>1, <1>2, CallerType, ReconnectType, LibType, ConsumerType DEF Next

----------------------------------------------------------------------------
\* A step that leaves a token and the callback thread alone keeps its life.
LEMMA Untouched ==
  ASSUME NEW t \in Tokens, Life(t),
         stage'[t] = stage[t], pending'[t] = pending[t], held'[t] = held[t],
         done'[t] = done[t], delivered'[t] = delivered[t],
         Completing(t)' <=> Completing(t), Reporting(t)' <=> Reporting(t)
  PROVE  Life(t)'
BY DEF Life, Fresh, Asking, Waiting, Answered, Leaving, Over

\* reconnect is about the connect token, which is none of the others.
LEMMA ConnectTokenApart ==
  ASSUME TypeOK, NEW t \in Others
  PROVE  t \in Tokens /\ t \notin Conns /\ t # conn
<1>1. t \in Tokens /\ t \notin Conns
  BY TokenAssumption DEF Others, Tokens
<1>2. t # NoToken
  BY <1>1, TokenAssumption
<1> QED
  BY <1>1, <1>2 DEF TypeOK

\* The calls of a request move its token on.
LEMMA CallerLife ==
  ASSUME TypeOK, NEW u \in Tokens, Caller(u), NEW t \in Others, Life(t)
  PROVE  Life(t)'
<1>0. t \in Tokens /\ UNCHANGED <<lib, subject>>
  BY DEF Tokens, Others, Caller, Request, Connect, Send, SendConnect,
     SendReconnect, Refuse, Return, Throw, Apart, libVars
<1>1. (Completing(t)' <=> Completing(t)) /\ (Reporting(t)' <=> Reporting(t))
  BY <1>0 DEF Completing, Reporting
<1>2. CASE u # t
  <2>1. t \notin Conns
    BY ConnectTokenApart
  <2>2. /\ stage'[t] = stage[t] /\ pending'[t] = pending[t] /\ held'[t] = held[t]
        /\ done'[t] = done[t] /\ delivered'[t] = delivered[t]
    BY <1>0, <1>2, <2>1 DEF TypeOK, Caller, Request, Connect, Send, SendConnect,
       SendReconnect, Refuse, Return, Throw, Apart, To, add_token, Erase
  <2> QED
    BY <1>0, <1>1, <1>2, <2>2, Untouched
<1>3. CASE u = t
  <2>0. t \notin Conns /\ stage[t] # "readded"
    BY ConnectTokenApart DEF Life, Fresh, Asking, Waiting, Answered, Leaving, Over
  <2>1. CASE Request(t)
    <3>1. Fresh(t)
      BY <2>1 DEF Request, Life, Fresh, Asking, Waiting, Answered, Leaving, Over
    <3>2. Asking(t)'
      BY <1>0, <1>1, <2>1, <3>1 DEF Request, Apart, To, add_token, Fresh, Asking, TypeOK
    <3> QED
      BY <3>2 DEF Life
  <2>2. CASE Send(t) \/ Refuse(t)
    <3>1. Asking(t) \/ Waiting(t) \/ Over(t)
      BY <2>2 DEF Send, Refuse, Life, Fresh, Asking, Waiting, Answered, Leaving, Over
    <3>2. Asking(t)
      BY <2>2, <3>1 DEF Send, Refuse, Asking, Waiting, Over
    <3>3. Send(t) => Waiting(t)'
      BY <1>0, <1>1, <3>2 DEF Send, Apart, To, Asking, Waiting, TypeOK
    <3>4. Refuse(t) => Asking(t)'
      BY <1>0, <1>1, <3>2 DEF Refuse, Apart, To, Asking, TypeOK
    <3> QED
      BY <2>2, <3>3, <3>4 DEF Life
  <2>3. CASE Return(t)
    <3>1. /\ stage[t] = "sent" /\ stage'[t] = "returned"
          /\ pending'[t] = pending[t] /\ held'[t] = held[t]
          /\ done'[t] = done[t] /\ delivered'[t] = delivered[t]
      BY <1>0, <2>3 DEF Return, Apart, To, TypeOK
    <3> QED
      BY <1>1, <3>1 DEF Life, Fresh, Asking, Waiting, Answered, Leaving, Over
  <2>4. CASE Throw(t)
    <3>1. Asking(t) /\ stage[t] = "refused"
      BY <2>4 DEF Throw, Life, Fresh, Asking, Waiting, Answered, Leaving, Over
    <3>2. /\ stage'[t] = "thrown" /\ pending'[t] = 0 /\ held'[t] = 0
          /\ delivered'[t] = IF Reported(t) THEN 1 ELSE 0
      BY <1>0, <2>4, <3>1 DEF Throw, To, Erase, Asking, TypeOK
    <3>3. Over(t)'
      BY <1>1, <3>1, <3>2 DEF Over, Asking, Reported
    <3> QED
      BY <3>3 DEF Life
  <2> QED
    BY <1>3, <2>0, <2>1, <2>2, <2>3, <2>4 DEF Caller, Connect, SendConnect, SendReconnect
<1> QED
  BY <1>2, <1>3

LEMMA ReconnectLife ==
  ASSUME TypeOK, Reconnect \/ ReAdd, NEW t \in Others, Life(t)
  PROVE  Life(t)'
<1>1. t \in Tokens /\ t # conn
  BY ConnectTokenApart
<1>2. (Completing(t)' <=> Completing(t)) /\ (Reporting(t)' <=> Reporting(t))
  BY DEF Completing, Reporting, Reconnect, ReAdd, libVars
<1>3. /\ stage'[t] = stage[t] /\ pending'[t] = pending[t] /\ held'[t] = held[t]
      /\ done'[t] = done[t] /\ delivered'[t] = delivered[t]
  BY <1>1 DEF TypeOK, Reconnect, ReAdd, To, add_token
<1> QED
  BY <1>1, <1>2, <1>3, Untouched

\* An answer is owed only to a token that waits for it.
LEMMA RespondLife ==
  ASSUME TypeOK, NEW u \in Tokens, Respond(u), NEW t \in Others, Life(t)
  PROVE  Life(t)'
<1>1. t \in Tokens /\ ~Completing(t) /\ ~Reporting(t)
  BY ConnectTokenApart DEF Respond, Completing, Reporting
<1>2. CASE u = t
  <2>1. Waiting(t)
    BY <1>1, <1>2 DEF Respond, TypeOK, Life, Fresh, Asking, Waiting, Answered, Leaving, Over
  <2>2. Answered(t)'
    BY <1>1, <1>2, <2>1 DEF Respond, Complete, Waiting, Answered, Completing, TypeOK
  <2> QED
    BY <2>2 DEF Life
<1>3. CASE u # t
  <2>1. ~Completing(t)' /\ ~Reporting(t)'
    BY <1>3 DEF Respond, Complete, Completing, Reporting
  <2>2. /\ stage'[t] = stage[t] /\ pending'[t] = pending[t] /\ held'[t] = held[t]
        /\ done'[t] = done[t] /\ delivered'[t] = delivered[t]
    BY <1>1, <1>3 DEF TypeOK, Respond, Complete
  <2> QED
    BY <1>1, <2>1, <2>2, Untouched
<1> QED
  BY <1>2, <1>3

LEMMA ConnectedLife ==
  ASSUME TypeOK, on_connected, NEW t \in Others, Life(t)
  PROVE  Life(t)'
<1>1. t \in Tokens /\ t # conn /\ ~Completing(t) /\ ~Reporting(t)
  BY ConnectTokenApart DEF on_connected, Completing, Reporting
<1>2. ~Completing(t)' /\ ~Reporting(t)'
  BY <1>1 DEF on_connected, Complete, Completing, Reporting, libVars
<1>3. /\ stage'[t] = stage[t] /\ pending'[t] = pending[t] /\ held'[t] = held[t]
      /\ done'[t] = done[t] /\ delivered'[t] = delivered[t]
  BY <1>1 DEF TypeOK, on_connected, Complete
<1> QED
  BY <1>1, <1>2, <1>3, Untouched

\* An answered token leaves the list once, and is reported once.
LEMMA RemoveLife ==
  ASSUME TypeOK, remove_token, NEW t \in Others, Life(t)
  PROVE  Life(t)'
<1>1. t \in Tokens
  BY ConnectTokenApart
<1>2. CASE subject = t
  <2>1. Answered(t)
    BY <1>2 DEF remove_token, Completing, Reporting, Life, Fresh, Asking, Waiting, Answered, Leaving, Over
  <2>2. /\ stage'[t] = stage[t] /\ pending'[t] = 0 /\ held'[t] = 0
        /\ done'[t] /\ delivered'[t] = 0 /\ subject' = t
    BY <1>1, <1>2, <2>1 DEF remove_token, Erase, Answered, TypeOK
  <2>3. CASE Reported(t)
    <3>1. Leaving(t)'
      BY <1>2, <2>1, <2>2, <2>3 DEF remove_token, Reported, Answered, Leaving, Reporting
    <3> QED
      BY <3>1 DEF Life
  <2>4. CASE ~Reported(t)
    <3>1. Over(t)'
      BY <1>2, <2>1, <2>2, <2>4 DEF remove_token, Answered, Over, Completing, Reporting
    <3> QED
      BY <3>1 DEF Life
  <2> QED
    BY <2>3, <2>4
<1>3. CASE subject # t
  <2>1. /\ ~Completing(t) /\ ~Reporting(t) /\ ~Completing(t)' /\ ~Reporting(t)'
    BY <1>3 DEF remove_token, Completing, Reporting
  <2>2. /\ stage'[t] = stage[t] /\ pending'[t] = pending[t] /\ held'[t] = held[t]
        /\ done'[t] = done[t] /\ delivered'[t] = delivered[t]
    BY <1>1, <1>3 DEF TypeOK, remove_token, Erase
  <2> QED
    BY <1>1, <2>1, <2>2, Untouched
<1> QED
  BY <1>2, <1>3

LEMMA ReportLife ==
  ASSUME TypeOK, delivery_complete, NEW t \in Others, Life(t)
  PROVE  Life(t)'
<1>1. t \in Tokens
  BY ConnectTokenApart
<1>2. ~Completing(t) /\ ~Completing(t)' /\ ~Reporting(t)'
  BY DEF delivery_complete, Completing, Reporting
<1>3. CASE subject = t
  <2>1. Leaving(t)
    BY <1>3 DEF delivery_complete, Completing, Reporting, Life, Fresh, Asking, Waiting, Answered, Leaving, Over
  <2>2. Over(t)'
    BY <1>1, <1>2, <1>3, <2>1 DEF delivery_complete, Leaving, Over, TypeOK
  <2> QED
    BY <2>2 DEF Life
<1>4. CASE subject # t
  <2>1. ~Reporting(t)
    BY <1>4 DEF Reporting
  <2>2. /\ stage'[t] = stage[t] /\ pending'[t] = pending[t] /\ held'[t] = held[t]
        /\ done'[t] = done[t] /\ delivered'[t] = delivered[t]
    BY <1>1, <1>4 DEF TypeOK, delivery_complete
  <2> QED
    BY <1>1, <1>2, <2>1, <2>2, Untouched
<1> QED
  BY <1>3, <1>4

\* The other steps are about the queue and the callbacks.
LEMMA QueueStepsApart ==
  ASSUME NEW t \in Tokens,
         \/ set_callback \/ disable_callbacks \/ on_message_arrived
         \/ on_connection_lost \/ TestQueue \/ Put \/ Consumer
         \/ UNCHANGED vars
  PROVE  /\ UNCHANGED tokenVars
         /\ Completing(t)' <=> Completing(t)
         /\ Reporting(t)' <=> Reporting(t)
<1>1. UNCHANGED tokenVars
  BY DEF set_callback, disable_callbacks, on_message_arrived, on_connection_lost, Arrive,
     TestQueue, Put, Consumer, start_consuming, stop_consuming, NewQueue, EndStart,
     EndStop, consume_message, Wake, try_consume_message, vars, requestVars, tokenVars
<1>2. (Completing(t)' <=> Completing(t)) /\ (Reporting(t)' <=> Reporting(t))
  <2>1. CASE on_message_arrived \/ on_connection_lost \/ TestQueue \/ Put
    BY <2>1 DEF on_message_arrived, on_connection_lost, Arrive, TestQueue, Put,
       Completing, Reporting
  <2>2. CASE NewQueue \/ EndStop
    BY <2>2 DEF NewQueue, EndStop, Destroyed, Completing, Reporting
  <2>3. CASE \/ set_callback \/ disable_callbacks \/ start_consuming \/ stop_consuming
             \/ EndStart \/ consume_message \/ Wake \/ try_consume_message \/ UNCHANGED vars
    <3>1. UNCHANGED <<lib, subject>>
      BY <2>3 DEF set_callback, disable_callbacks, start_consuming, stop_consuming,
         EndStart, consume_message, Wake, try_consume_message, vars, libVars
    <3> QED
      BY <3>1 DEF Completing, Reporting
  <2> QED
    BY <2>1, <2>2, <2>3 DEF Consumer
<1> QED
  BY <1>1, <1>2

LEMMA OtherLife ==
  ASSUME TypeOK, NEW t \in Others, Life(t),
         \/ set_callback \/ disable_callbacks \/ on_message_arrived
         \/ on_connection_lost \/ Signal \/ TestQueue \/ Put \/ Consumer
         \/ UNCHANGED vars
  PROVE  Life(t)'
<1>1. t \in Tokens
  BY ConnectTokenApart
<1>2. CASE Signal
  BY <1>1, <1>2, Untouched DEF Signal, Completing, Reporting, requestVars, tokenVars
<1>3. CASE ~Signal
  BY <1>1, <1>3, QueueStepsApart, Untouched DEF tokenVars
<1> QED
  BY <1>2, <1>3

LEMMA LifeStep ==
  ASSUME TypeOK, [Next]_vars, NEW t \in Others, Life(t)
  PROVE  Life(t)'
BY CallerLife, ReconnectLife, RespondLife, ConnectedLife, RemoveLife, ReportLife, OtherLife
   DEF Next, CallbackThread

----------------------------------------------------------------------------
(* The token of a connect.                                                 *)

\* What is owed to a token is a number, in this state and the next.
LEMMA OwedType ==
  ASSUME TypeOK, TypeOK', NEW t \in Tokens
  PROVE  /\ pending[t] \in Nat /\ pending'[t] \in Nat
         /\ held[t] \in Nat /\ held'[t] \in Nat
         /\ Owed(t) \in Nat /\ Owed(t)' \in Nat
<1>1. /\ pending[t] \in Nat /\ pending'[t] \in Nat
      /\ held[t] \in Nat /\ held'[t] \in Nat
  BY DEF TypeOK
<1> QED
  BY <1>1 DEF Owed

\* A token is owed no less while it and the callback thread are left alone.
LEMMA OwesAsBefore ==
  ASSUME NEW t \in Conns, t \in redone \/ Owed(t) <= pending[t],
         t \in redone => t \in redone',
         stage'[t] = stage[t], pending'[t] = pending[t], held'[t] = held[t],
         Completing(t)' <=> Completing(t)
  PROVE  t \in redone' \/ Owed(t)' <= pending'[t]
<1>1. Owed(t)' = Owed(t)
  BY DEF Owed, Completing
<1> QED
  BY <1>1

\* No call is taken back, so a token that was replaced stays so.
LEMMA OtherConnectStays ==
  ASSUME TypeOK, NEW t \in Conns, OtherConnect(t),
         \A u \in Conns : stage[u] # "unused" => stage'[u] # "unused"
  PROVE  OtherConnect(t)'
BY DEF OtherConnect

\* A call of a request, connect or reconnect.
LEMMA CallerConnect ==
  ASSUME TypeOK, TypeOK', NEW u \in Tokens, Caller(u),
         \A v \in Conns : ConnectLife(v), NEW t \in Conns
  PROVE  ConnectLife(t)'
<1> USE DEF To, Apart
<1>0. /\ t \in Tokens /\ t # NoToken /\ redone' = redone
      /\ UNCHANGED <<lib, subject>>
  BY TokenAssumption DEF Tokens, Caller, Request, Connect, Send, SendConnect,
     SendReconnect, Refuse, Return, Throw, libVars
<1>1. Completing(t)' <=> Completing(t)
  BY <1>0 DEF Completing
<1>2. \A v \in Conns : stage[v] # "unused" => stage'[v] # "unused"
  BY DEF TypeOK, Tokens, Caller, Request, Connect, Send, SendConnect, SendReconnect,
     Refuse, Return, Throw
<1>3. OtherConnect(t) => OtherConnect(t)'
  BY <1>2, OtherConnectStays
<1>4. CASE u # t
  <2>1. stage'[t] = stage[t] /\ pending'[t] = pending[t]
    BY <1>0, <1>4 DEF TypeOK, Caller, Request, Connect, Send, SendConnect,
       SendReconnect, Refuse, Return, Throw, add_token, Erase
  <2>2. CASE Connect(u)
    <3>1. held' = held /\ stage[t] \in {"unused", "returned", "thrown"}
      BY <2>2 DEF Connect, Connecting
    <3>2. OtherConnect(t)'
      BY <1>0, <1>4, <2>2 DEF Connect, OtherConnect, TypeOK
    <3> QED
      BY <1>0, <1>1, <2>1, <3>1, <3>2, OwesAsBefore DEF ConnectLife
  <2>3. CASE SendConnect(u)
    <3>1. conn' = conn /\ held'[t] \in {held[t], 0}
      BY <1>0, <1>4, <2>3 DEF SendConnect, TypeOK
    <3>2. t \in redone' \/ Owed(t)' <= pending'[t]
      <4>1. Owed(t)' <= Owed(t)
        BY <1>0, <2>1, <3>1, OwedType DEF Owed
      <4> QED
        BY <1>0, <2>1, <4>1, OwedType DEF ConnectLife
    <3> QED
      BY <1>0, <1>3, <2>1, <3>1, <3>2 DEF ConnectLife
  <2>4. CASE Request(u) \/ Send(u) \/ SendReconnect(u) \/ Refuse(u) \/ Return(u)
    <3>1. conn' = conn /\ held'[t] = held[t]
      BY <1>0, <1>4, <2>4 DEF Request, Send, SendReconnect, Refuse, Return, TypeOK
    <3> QED
      BY <1>0, <1>1, <1>3, <2>1, <3>1, OwesAsBefore DEF ConnectLife
  <2>5. CASE Throw(u)
    <3>1. held' = held /\ (conn = t => conn' = t)
      BY <1>0, <1>4, <2>5 DEF Throw
    <3> QED
      BY <1>0, <1>1, <1>3, <2>1, <3>1, OwesAsBefore DEF ConnectLife
  <2> QED
    BY <2>2, <2>3, <2>4, <2>5 DEF Caller
<1>5. CASE u = t
  <2>1. CASE Connect(t)
    <3>1. /\ stage[t] = "unused" /\ stage'[t] = "added" /\ conn' = t
          /\ pending'[t] = pending[t] + 1 /\ held'[t] = held[t]
      BY <1>0, <2>1 DEF Connect, add_token, TypeOK
    <3>2. Owed(t)' = Owed(t) + 1
      BY <1>0, <3>1, OwedType DEF Owed
    <3> QED
      BY <1>0, <3>1, <3>2, OwedType DEF ConnectLife
  <2>2. CASE SendConnect(t) \/ SendReconnect(t)
    <3>1. /\ stage[t] \in {"added", "readded"} /\ stage'[t] = "sent" /\ conn' = conn
          /\ pending'[t] = pending[t]
      BY <1>0, <2>2 DEF SendConnect, SendReconnect, TypeOK
    <3>2. held'[t] \in {held[t], held[t] + 1}
      BY <1>0, <2>2 DEF SendConnect, SendReconnect, TypeOK
    <3>3. Owed(t)' <= Owed(t)
      BY <1>0, <3>1, <3>2, OwedType DEF Owed
    <3>4. conn = t
      BY <3>1 DEF ConnectLife
    <3> QED
      BY <1>0, <3>1, <3>3, <3>4, OwedType DEF ConnectLife
  <2>3. CASE Refuse(t) \/ Return(t)
    <3>1. /\ \/ stage[t] = "added" /\ stage'[t] = "refused"
             \/ stage[t] = "readded" /\ stage'[t] = "rerefused"
             \/ stage[t] = "sent" /\ stage'[t] = "returned"
          /\ pending'[t] = pending[t] /\ held'[t] = held[t] /\ conn' = conn
      BY <1>0, <2>3 DEF Refuse, Return, TypeOK
    <3>2. Owed(t)' = Owed(t)
      BY <1>0, <3>1, OwedType DEF Owed
    <3> QED
      BY <1>0, <1>3, <3>1, <3>2 DEF ConnectLife
  <2>4. CASE Throw(t)
    <3>1. /\ \/ stage[t] = "refused" /\ stage'[t] = "thrown"
             \/ stage[t] = "rerefused" /\ stage'[t] = "returned" /\ conn' = conn
          /\ pending'[t] = IF pending[t] > 0 THEN pending[t] - 1 ELSE 0
          /\ held'[t] = held[t]
      BY <1>0, <2>4 DEF Throw, Erase, TypeOK
    <3>2. Owed(t)' = Owed(t) - 1
      BY <1>0, <3>1, OwedType DEF Owed
    <3>3. t \in redone' \/ Owed(t)' <= pending'[t]
      BY <1>0, <3>1, <3>2, OwedType DEF ConnectLife
    <3> QED
      BY <1>0, <1>3, <3>1, <3>3, OwedType DEF ConnectLife
  <2> QED
    BY <1>5, <2>1, <2>2, <2>3, <2>4, TokenAssumption DEF Caller, Request, Send
<1> QED
  BY <1>4, <1>5

\* reconnect lists the token once more.
LEMMA ReconnectConnect ==
  ASSUME TypeOK, TypeOK', Reconnect \/ ReAdd, NEW t \in Conns, ConnectLife(t)
  PROVE  ConnectLife(t)'
<1>0. /\ t \in Tokens /\ conn \in Conns
      /\ UNCHANGED <<held, conn, lib, subject, redone>>
  BY DEF Tokens, TypeOK, Reconnect, ReAdd, libVars
<1>1. OtherConnect(t) => OtherConnect(t)'
  <2>1. \A u \in Conns : stage[u] # "unused" => stage'[u] # "unused"
    BY <1>0 DEF TypeOK, Tokens, Reconnect, ReAdd, To
  <2> QED
    BY <2>1, OtherConnectStays
<1>2. CASE conn # t
  <2>1. stage'[t] = stage[t] /\ pending'[t] = pending[t]
    BY <1>0, <1>2 DEF TypeOK, Reconnect, ReAdd, To, add_token
  <2>2. Completing(t)' <=> Completing(t)
    BY <1>0 DEF Completing
  <2> QED
    BY <1>0, <1>1, <2>1, <2>2, OwesAsBefore DEF ConnectLife
<1>3. CASE conn = t
  <2>1. \/ /\ stage[t] \in {"unused", "returned", "thrown"} /\ stage'[t] = "reset"
           /\ pending'[t] = pending[t]
        \/ /\ stage[t] = "reset" /\ stage'[t] = "readded"
           /\ pending'[t] = pending[t] + 1
    BY <1>0, <1>3 DEF TypeOK, Reconnect, ReAdd, Connecting, To, add_token
  <2>2. t \in redone' \/ Owed(t)' <= pending'[t]
    <3>1. Owed(t)' - Owed(t) = pending'[t] - pending[t]
      BY <1>0, <2>1, OwedType DEF Owed
    <3> QED
      BY <1>0, <3>1, OwedType DEF ConnectLife
  <2> QED
    BY <1>0, <1>3, <2>1, <2>2 DEF ConnectLife
<1> QED
  BY <1>2, <1>3

\* An answer takes what is owed, and its removal follows; the completion by
\* on_connected is the one removal that nothing was listed for.
LEMMA AnswerConnect ==
  ASSUME TypeOK, TypeOK', NEW t \in Conns, ConnectLife(t),
         \/ \E u \in Tokens : Respond(u)
         \/ on_connected \/ Signal \/ remove_token \/ delivery_complete
  PROVE  ConnectLife(t)'
<1>0. t \in Tokens /\ UNCHANGED <<stage, conn>>
  BY DEF Tokens, Respond, on_connected, Signal, remove_token, delivery_complete,
     requestVars, tokenVars
<1>1. OtherConnect(t) => OtherConnect(t)'
  BY <1>0 DEF OtherConnect
<1>2. ASSUME NEW u \in Tokens, Respond(u)
      PROVE  ConnectLife(t)'
  <2>1. /\ pending' = pending /\ redone' = redone
        /\ lib = "free" /\ lib' = "listener" /\ subject' = u
    BY <1>2 DEF Respond, Complete
  <2>2. held'[t] = IF u = t THEN held[t] - 1 ELSE held[t]
    BY <1>0, <1>2 DEF Respond, TypeOK
  <2>3. held[t] = 0 => held'[t] = 0
    BY <1>2, <2>2 DEF Respond
  <2>4. Owed(t)' = Owed(t)
    BY <1>0, <2>1, <2>2, OwedType DEF Owed
  <2> QED
    BY <1>0, <1>1, <2>1, <2>2, <2>3, <2>4, OwedType DEF ConnectLife
<1>3. CASE on_connected
  <2>1. /\ lib = "free" /\ UNCHANGED <<pending, held>> /\ redone \subseteq redone'
        /\ t \in redone' \/ ~Completing(t)'
    BY <1>3 DEF on_connected, Complete, Completing, libVars
  <2>2. CASE t \in redone'
    BY <1>0, <1>1, <2>1, <2>2 DEF ConnectLife
  <2>3. CASE t \notin redone'
    <3>1. ~Completing(t) /\ ~Completing(t)'
      BY <2>1, <2>3 DEF Completing
    <3> QED
      BY <1>0, <1>1, <2>1, <3>1, OwesAsBefore DEF ConnectLife
  <2> QED
    BY <2>2, <2>3
<1>4. CASE Signal \/ delivery_complete
  <2>1. UNCHANGED <<pending, held, redone>> /\ (Completing(t)' <=> Completing(t))
    BY <1>4 DEF Signal, delivery_complete, requestVars, tokenVars, Completing
  <2> QED
    BY <1>0, <1>1, <2>1, OwesAsBefore DEF ConnectLife
<1>5. CASE remove_token
  <2>1. /\ lib = "remove" /\ lib' \in {"deliver", "free"} /\ subject' = subject
        /\ UNCHANGED <<held, redone>>
    BY <1>5 DEF remove_token
  <2>2. pending'[t] = IF subject = t
                      THEN IF pending[t] > 0 THEN pending[t] - 1 ELSE 0
                      ELSE pending[t]
    BY <1>0, <1>5 DEF remove_token, Erase, TypeOK
  <2>3. Owed(t)' = IF subject = t THEN Owed(t) - 1 ELSE Owed(t)
    BY <1>0, <2>1, OwedType DEF Owed
  <2>4. t \in redone' \/ Owed(t)' <= pending'[t]
    BY <1>0, <2>1, <2>2, <2>3, OwedType DEF ConnectLife
  <2> QED
    BY <1>0, <1>1, <2>1, <2>4 DEF ConnectLife
<1> QED
  BY <1>2, <1>3, <1>4, <1>5

\* The other steps are about the queue and the callbacks.
LEMMA OtherStepConnect ==
  ASSUME NEW t \in Conns, ConnectLife(t),
         \/ set_callback \/ disable_callbacks \/ on_message_arrived
         \/ on_connection_lost \/ TestQueue \/ Put \/ Consumer
         \/ UNCHANGED vars
  PROVE  ConnectLife(t)'
<1>1. UNCHANGED tokenVars /\ (Completing(t)' <=> Completing(t))
  BY QueueStepsApart DEF Tokens
<1>2. OtherConnect(t) => OtherConnect(t)'
  BY <1>1 DEF OtherConnect, tokenVars
<1> QED
  BY <1>1, <1>2, OwesAsBefore DEF ConnectLife, tokenVars

LEMMA ConnectLifeStep ==
  ASSUME TypeOK, [Next]_vars, \A v \in Conns : ConnectLife(v), NEW t \in Conns
  PROVE  ConnectLife(t)'
<1>1. TypeOK'
  BY TypeStep
<1> QED
  BY <1>1, CallerConnect, ReconnectConnect, AnswerConnect, OtherStepConnect
     DEF Next, CallbackThread

----------------------------------------------------------------------------
(* The invariant of the tokens.                                            *)

LEMMA TokenInvInit == Init => TokenInv
<1> SUFFICES ASSUME Init PROVE TokenInv
  OBVIOUS
<1>1. TypeOK
  <2>1. 0 \in 0..MaxCalls /\ 0 \in 0..MaxEvents
    BY BoundAssumption
  <2>2. <<>> \in Seq(Messages)
    BY EmptySeq
  <2> QED
    BY <2>1, <2>2 DEF Init, TypeOK
<1>2. ASSUME NEW t \in Others
      PROVE  Fresh(t)
  BY <1>2 DEF Init, Fresh, Completing, Reporting, Others, Tokens
<1>3. ASSUME NEW t \in Conns
      PROVE  ConnectLife(t)
  BY <1>3 DEF Init, ConnectLife, Owed, Tokens
<1> QED
  BY <1>1, <1>2, <1>3 DEF TokenInv, Life

LEMMA TokenInvStep == TokenInv /\ [Next]_vars => TokenInv'
<1> SUFFICES ASSUME TokenInv, [Next]_vars PROVE TokenInv'
  OBVIOUS
<1>1. TypeOK'
  BY TypeStep DEF TokenInv
<1>2. ASSUME NEW t \in Others
      PROVE  Life(t)'
  BY <1>2, LifeStep DEF TokenInv
<1>3. ASSUME NEW t \in Conns
      PROVE  ConnectLife(t)'
  BY <1>3, ConnectLifeStep DEF TokenInv
<1> QED
  BY <1>1, <1>2, <1>3 DEF TokenInv, Others

\* TokenInv is an invariant: what the properties of the tokens follow from.
THEOREM TokenInvariant == Spec => []TokenInv
BY TokenInvInit, TokenInvStep, PTL DEF Spec

\* The client is in its types in every state.
THEOREM TypeOKHolds == Spec => []TypeOK
<1>1. TokenInv => TypeOK
  BY DEF TokenInv
<1> QED
  BY <1>1, TokenInvariant, PTL

----------------------------------------------------------------------------
\* The client keeps every token whose address the C library holds, and keeps
\* none but a connect token on its lists when nothing is to come that removes it,
\* for any number of requests, connects and reconnects in any order of their
\* answers.
THEOREM KeptWhileNeededHolds == Spec => []KeptWhileNeeded
<1>1. ASSUME TokenInv, NEW t \in Others
      PROVE  pending[t] = Owed(t)
  BY <1>1 DEF TokenInv, Life, Fresh, Asking, Waiting, Answered, Leaving, Over,
     Completing, Reporting, Owed
<1>2. ASSUME TokenInv, NEW t \in Conns, held[t] > 0
      PROVE  (pending[t] > 0 \/ t \in redone) /\ (conn = t \/ OtherConnect(t))
  <2>1. held[t] \in Nat /\ pending[t] \in Nat
    BY <1>2 DEF TokenInv, TypeOK, Tokens
  <2>2. Owed(t) >= held[t]
    BY <2>1 DEF Owed
  <2> QED
    BY <1>2, <2>1, <2>2 DEF TokenInv, ConnectLife, Owed
<1>3. TokenInv => KeptWhileNeeded
  BY <1>1, <1>2 DEF KeptWhileNeeded, Others
<1> QED
  BY <1>3, TokenInvariant, PTL

\* get_pending_delivery_tokens misses no publication on its way.
THEOREM InFlightListedHolds == Spec => []InFlightListed
<1>1. TokenInv => InFlightListed
  <2> SUFFICES ASSUME TokenInv, NEW t \in Publications, stage[t] = "returned", ~done[t]
               PROVE  pending[t] > 0
    BY DEF InFlightListed, get_pending_delivery_tokens
  <2> QED
    BY DEF TokenInv, Others, Life, Fresh, Asking, Waiting, Answered, Leaving, Over
<1> QED
  BY <1>1, TokenInvariant, PTL

\* The user hears of a publication at most once, and after its end.
THEOREM ReportedOnceHolds == Spec => []ReportedOnce
<1>1. TokenInv => ReportedOnce
  <2> SUFFICES ASSUME TokenInv, NEW t \in Publications
               PROVE  /\ delivered[t] <= 1
                      /\ delivered[t] = 1 => t \notin Qos0 /\ held[t] = 0 /\ pending[t] = 0
    BY DEF ReportedOnce
  <2> QED
    BY DEF TokenInv, Others, Life, Fresh, Asking, Waiting, Answered, Leaving, Over
<1> QED
  BY <1>1, TokenInvariant, PTL

----------------------------------------------------------------------------
(* The deliveries, as Delivery has them.                                   *)

\* What the application sees of a publication does not change.
SeenAsBefore(t) ==
  /\ stage'[t] = "unused" <=> stage[t] = "unused"
  /\ stage'[t] \in {"sent", "returned"} <=> stage[t] \in {"sent", "returned"}
  /\ pending'[t] > 0 <=> pending[t] > 0
  /\ done'[t] <=> done[t]
  /\ delivered'[t] = delivered[t]

SeenApart(u) == \A t \in Publications \ {u} : SeenAsBefore(t)

LEMMA NothingSeen ==
  ASSUME \A t \in Publications : SeenAsBefore(t)
  PROVE  UNCHANGED Deliveries!vars
<1>1. UNCHANGED get_pending_delivery_tokens
  BY DEF SeenAsBefore, get_pending_delivery_tokens
<1>2. /\ UNCHANGED {t \in Publications : stage[t] # "unused"}
      /\ UNCHANGED {t \in Publications : stage[t] \in {"sent", "returned"}}
      /\ UNCHANGED {t \in Publications : done[t]}
      /\ UNCHANGED [t \in Publications |-> delivered[t]]
  BY DEF SeenAsBefore
<1> QED
  BY <1>1, <1>2 DEF Deliveries!vars

\* The step of a call: the publication is offered, taken or withdrawn.
LEMMA CallDelivers ==
  ASSUME TokenInv, NEW u \in Tokens, Caller(u)
  PROVE  [Deliveries!Next]_(Deliveries!vars)
<1> USE DEF TypeOK, SeenAsBefore, SeenApart, Apart
<1>0. TypeOK /\ UNCHANGED done
  BY DEF TokenInv, Caller, Request, Connect, Send, SendConnect, SendReconnect, Refuse,
     Return, Throw
<1>1. SeenApart(u)
  <2> SUFFICES ASSUME NEW t \in Publications, t # u
               PROVE  SeenAsBefore(t)
    OBVIOUS
  <2>1. t \in Tokens
    BY DEF Tokens
  <2>2. /\ stage'[t] = stage[t] /\ pending'[t] = pending[t] /\ delivered'[t] = delivered[t]
    BY <1>0, <2>1 DEF Caller, Request, Connect, Send, SendConnect, SendReconnect, Refuse,
       Return, Throw, To, add_token, Erase
  <2> QED
    BY <1>0, <2>2
<1>2. CASE u \notin Publications
  BY <1>1, <1>2, NothingSeen
<1>3. CASE u \in Publications
  <2>0. Life(u) /\ u \notin Conns /\ u \in Tokens /\ stage[u] # "readded"
    BY <1>0, <1>3, ConnectTokenApart DEF TokenInv, Others, Life, Fresh, Asking, Waiting,
       Answered, Leaving, Over
  <2>1. CASE Request(u)
    <3>1. Fresh(u)
      BY <2>0, <2>1 DEF Request, Life, Fresh, Asking, Waiting, Answered, Leaving, Over
    <3>2. /\ stage'[u] = "added" /\ pending'[u] = 1
          /\ UNCHANGED <<done, delivered>>
      BY <1>0, <2>0, <2>1, <3>1 DEF Request, To, add_token, Fresh
    <3>3. Deliveries!Offer(u)
      BY <1>1, <1>3, <3>1, <3>2 DEF Deliveries!Offer, Fresh, get_pending_delivery_tokens
    <3> QED
      BY <1>3, <3>3 DEF Deliveries!Next
  <2>2. CASE Send(u)
    <3>1. Asking(u)
      BY <2>0, <2>2 DEF Send, Life, Fresh, Asking, Waiting, Answered, Leaving, Over
    <3>2. stage'[u] = "sent" /\ UNCHANGED <<pending, done, delivered>>
      BY <1>0, <2>0, <2>2 DEF Send, To
    <3>3. Deliveries!Take(u)
      BY <1>1, <1>3, <3>1, <3>2 DEF Deliveries!Take, Asking, get_pending_delivery_tokens
    <3> QED
      BY <1>3, <3>3 DEF Deliveries!Next
  <2>3. CASE Refuse(u)
    <3>1. Asking(u)
      BY <2>0, <2>3 DEF Refuse, Life, Fresh, Asking, Waiting, Answered, Leaving, Over
    <3>2. SeenAsBefore(u)
      BY <1>0, <2>0, <2>3, <3>1 DEF Refuse, To, Asking
    <3> QED
      BY <1>1, <3>2, NothingSeen
  <2>4. CASE Return(u)
    <3>1. SeenAsBefore(u)
      BY <1>0, <2>0, <2>4 DEF Return, To
    <3> QED
      BY <1>1, <3>1, NothingSeen
  <2>5. CASE Throw(u)
    <3>1. Asking(u) /\ stage[u] = "refused"
      BY <2>0, <2>5 DEF Throw, Life, Fresh, Asking, Waiting, Answered, Leaving, Over
    <3>2. /\ stage'[u] = "thrown" /\ pending'[u] = 0 /\ UNCHANGED done
          /\ delivered'[u] = IF Reported(u) THEN 1 ELSE 0
      BY <1>0, <2>0, <2>5, <3>1 DEF Throw, To, Erase, Asking
    <3>3. Deliveries!Withdraw(u)
      <4>1. /\ u \in get_pending_delivery_tokens
            /\ u \notin {t \in Publications : stage[t] \in {"sent", "returned"}}
        BY <1>3, <3>1 DEF Asking, get_pending_delivery_tokens
      <4>2. get_pending_delivery_tokens' = get_pending_delivery_tokens \ {u}
        BY <1>1, <3>2 DEF get_pending_delivery_tokens
      <4>3. /\ UNCHANGED {t \in Publications : stage[t] # "unused"}
            /\ UNCHANGED {t \in Publications : stage[t] \in {"sent", "returned"}}
            /\ UNCHANGED {t \in Publications : done[t]}
        BY <1>1, <3>1, <3>2
      <4>4. Reported(u) => Deliveries!Report(u)
        BY <1>1, <1>3, <3>1, <3>2 DEF Reported, Asking, Deliveries!Report
      <4>5. ~Reported(u) => UNCHANGED [t \in Publications |-> delivered[t]]
        BY <1>1, <3>1, <3>2 DEF Asking
      <4> QED
        BY <4>1, <4>2, <4>3, <4>4, <4>5 DEF Deliveries!Withdraw
    <3> QED
      BY <1>3, <3>3 DEF Deliveries!Next
  <2> QED
    BY <2>0, <2>1, <2>2, <2>3, <2>4, <2>5 DEF Caller, Connect, SendConnect, SendReconnect
<1> QED
  BY <1>2, <1>3

\* An answer: the publication completes ...
LEMMA AnswerDelivers ==
  ASSUME TokenInv, NEW u \in Tokens, Respond(u)
  PROVE  [Deliveries!Next]_(Deliveries!vars)
<1> USE DEF TypeOK, SeenAsBefore, SeenApart
<1>0. TypeOK /\ UNCHANGED <<stage, pending, delivered>> /\ done' = [done EXCEPT ![u] = TRUE]
  BY DEF TokenInv, Respond, Complete
<1>1. SeenApart(u)
  BY <1>0 DEF Tokens
<1>2. CASE u \notin Publications
  BY <1>1, <1>2, NothingSeen
<1>3. CASE u \in Publications
  <2>1. Waiting(u)
    BY <1>0, <1>3 DEF TokenInv, Others, Respond, Completing, Reporting, Life, Fresh,
       Asking, Waiting, Answered, Leaving, Over
  <2>2. Deliveries!Complete(u)
    BY <1>0, <1>1, <1>3, <2>1 DEF Deliveries!Complete, Waiting, get_pending_delivery_tokens
  <2> QED
    BY <1>3, <2>2 DEF Deliveries!Next
<1> QED
  BY <1>2, <1>3

\* ... leaves the list ...
LEMMA RemovalDelivers ==
  ASSUME TokenInv, remove_token, NEW u \in Tokens, u = subject
  PROVE  [Deliveries!Next]_(Deliveries!vars)
<1> USE DEF TypeOK, SeenAsBefore, SeenApart
<1>0. /\ TypeOK
      /\ UNCHANGED <<stage, done, delivered>>
      /\ pending' = [pending EXCEPT ![u] = IF @ > 0 THEN @ - 1 ELSE 0]
  BY DEF TokenInv, remove_token, Erase
<1>1. SeenApart(u)
  BY <1>0 DEF Tokens
<1>2. CASE u \notin Publications
  BY <1>1, <1>2, NothingSeen
<1>3. CASE u \in Publications
  <2>1. Answered(u)
    BY <1>3 DEF TokenInv, Others, remove_token, Completing, Reporting, Life, Fresh,
       Asking, Waiting, Answered, Leaving, Over
  <2>2. pending'[u] = 0
    BY <1>0, <2>1 DEF Answered
  <2>3. Deliveries!Leave(u)
    BY <1>0, <1>1, <1>3, <2>1, <2>2 DEF Deliveries!Leave, Answered, get_pending_delivery_tokens
  <2> QED
    BY <1>3, <2>3 DEF Deliveries!Next
<1> QED
  BY <1>2, <1>3

\* ... and is reported.
LEMMA ReportDelivers ==
  ASSUME TokenInv, delivery_complete, NEW u \in Tokens, u = subject
  PROVE  [Deliveries!Next]_(Deliveries!vars)
<1> USE DEF TypeOK, SeenAsBefore, SeenApart
<1>0. /\ TypeOK
      /\ UNCHANGED <<stage, done, pending>>
      /\ delivered' = [delivered EXCEPT ![u] = @ + 1]
  BY DEF TokenInv, delivery_complete
<1>1. SeenApart(u)
  BY <1>0 DEF Tokens
<1>2. CASE u \notin Publications
  BY <1>1, <1>2, NothingSeen
<1>3. CASE u \in Publications
  <2>1. Leaving(u)
    BY <1>3 DEF TokenInv, Others, delivery_complete, Completing, Reporting, Life, Fresh,
       Asking, Waiting, Answered, Leaving, Over
  <2>2. delivered[u] = 0 /\ delivered'[u] = 1
    BY <1>0, <2>1 DEF Leaving
  <2>3. Deliveries!Report(u)
    BY <1>1, <1>3, <2>1, <2>2 DEF Deliveries!Report, Leaving
  <2>4. Deliveries!DeliveryComplete(u)
    BY <1>0, <1>3, <2>1, <2>3 DEF Deliveries!DeliveryComplete, Leaving,
       get_pending_delivery_tokens
  <2> QED
    BY <1>3, <2>4 DEF Deliveries!Next
<1> QED
  BY <1>2, <1>3

\* Everything else passes unseen, the connect token's second life included.
LEMMA ElseUnseen ==
  ASSUME TokenInv,
         \/ Reconnect \/ ReAdd \/ on_connected \/ Signal \/ TestQueue \/ Put
         \/ set_callback \/ disable_callbacks \/ on_message_arrived
         \/ on_connection_lost \/ Consumer \/ UNCHANGED vars
  PROVE  UNCHANGED Deliveries!vars
<1> USE DEF SeenAsBefore
<1>0. TypeOK
  BY DEF TokenInv
<1>1. CASE Reconnect \/ ReAdd \/ on_connected
  <2> SUFFICES ASSUME NEW t \in Publications
               PROVE  SeenAsBefore(t)
    BY NothingSeen
  <2>1. t \in Tokens /\ t # conn
    BY <1>0, ConnectTokenApart DEF Others
  <2>2. /\ stage'[t] = stage[t] /\ pending'[t] = pending[t]
        /\ done'[t] = done[t] /\ delivered'[t] = delivered[t]
    BY <1>0, <1>1, <2>1 DEF TypeOK, Reconnect, ReAdd, on_connected, Complete, To, add_token
  <2> QED
    BY <2>2
<1>2. CASE ~(Reconnect \/ ReAdd \/ on_connected)
  <2>1. UNCHANGED tokenVars
    BY <1>2 DEF set_callback, disable_callbacks, on_message_arrived, on_connection_lost,
       Arrive, Signal, TestQueue, Put, Consumer, start_consuming, stop_consuming,
       NewQueue, EndStart, EndStop, consume_message, Wake, try_consume_message, vars,
       requestVars, tokenVars
  <2> QED
    BY <2>1, NothingSeen DEF tokenVars
<1> QED
  BY <1>1, <1>2

\* The client, with its lists, its lock and its callback thread, implements
\* Delivery for any number of publications.
THEOREM DeliveriesTracked == Spec => TracksDeliveries
<1>1. Init => Deliveries!Init
  BY DEF Init, Deliveries!Init, get_pending_delivery_tokens, Tokens
<1>2. TokenInv /\ [Next]_vars => [Deliveries!Next]_(Deliveries!vars)
  <2>1. TokenInv /\ (remove_token \/ delivery_complete) => subject \in Tokens
    BY DEF TokenInv, TypeOK, remove_token, delivery_complete
  <2> QED
    BY <2>1, CallDelivers, AnswerDelivers, RemovalDelivers, ReportDelivers, ElseUnseen
       DEF Next, CallbackThread
<1> QED
  BY <1>1, <1>2, TokenInvariant, PTL DEF Spec, TracksDeliveries, Deliveries!Spec

----------------------------------------------------------------------------
(* The queue.                                                              *)

QueueInv == TypeOK /\ ConsumedInOrder

LEMMA QueueInvInit == Init => QueueInv
<1>1. Init => TypeOK
  BY TokenInvInit DEF TokenInv
<1> QED
  BY <1>1 DEF Init, QueueInv, ConsumedInOrder

\* The first message of the queue moves to the end of what was taken.
LEMMA TakeKeeps ==
  ASSUME NEW a \in Seq(Messages), NEW q \in Seq(Messages), q # <<>>,
         NEW w \in Seq(Messages)
  PROVE  Append(a, Head(q)) \o Tail(q) \o w = a \o q \o w
<1>1. Head(q) \in Messages /\ Tail(q) \in Seq(Messages)
  BY HeadTailProperties
<1>2. <<Head(q)>> \in Seq(Messages) /\ Append(a, Head(q)) = a \o <<Head(q)>>
  BY <1>1, AppendIsConcat
<1>3. <<Head(q)>> \o Tail(q) = q
  BY <1>1
<1>4. (a \o <<Head(q)>>) \o Tail(q) = a \o (<<Head(q)>> \o Tail(q))
  BY <1>1, <1>2, ConcatAssociative
<1> QED
  BY <1>2, <1>3, <1>4

\* A message at the end: it arrives, and it is put on the queue.
LEMMA ArriveKeeps ==
  ASSUME NEW a \in Seq(Messages), NEW q \in Seq(Messages), NEW m \in Messages
  PROVE  /\ Append(a \o q, m) = a \o q \o <<m>>
         /\ a \o Append(q, m) = a \o q \o <<m>>
<1>1. a \o q \in Seq(Messages) /\ <<m>> \in Seq(Messages)
  BY ConcatProperties
<1>2. Append(a \o q, m) = (a \o q) \o <<m>> /\ Append(q, m) = q \o <<m>>
  BY <1>1, AppendIsConcat
<1>3. a \o (q \o <<m>>) = (a \o q) \o <<m>>
  BY <1>1, ConcatAssociative
<1> QED
  BY <1>2, <1>3

\* The types of what the order is about, in one place.
LEMMA OrderTypes ==
  ASSUME TypeOK, que # NoQueue
  PROVE  /\ since \in Seq(Messages) /\ taken \in Seq(Messages) /\ que \in Seq(Messages)
         /\ OnItsWay \in Seq(Messages)
<1>1. CASE lib \in {"handlers", "put"}
  <2>1. <<subject>> \in Seq(Messages)
    BY <1>1 DEF TypeOK
  <2> QED
    BY <1>1, <2>1 DEF TypeOK, OnItsWay
<1>2. CASE lib \notin {"handlers", "put"}
  BY <1>2, EmptySeq DEF TypeOK, OnItsWay
<1> QED
  BY <1>1, <1>2

\* What comes in is added at the end of what arrived, and stands last on its way.
LEMMA ArriveOrder ==
  ASSUME TypeOK, ConsumedInOrder, NEW m \in Messages, Arrive(m)
  PROVE  ConsumedInOrder'
<1>1. que' = que /\ taken' = taken /\ OnItsWay = <<>>
  BY DEF Arrive, OnItsWay
<1>2. CASE que # NoQueue
  <2>1. OnItsWay' = <<m>> /\ since' = Append(since, m)
    BY <1>1, <1>2 DEF Arrive, OnItsWay
  <2>2. /\ since \in Seq(Messages) /\ taken \in Seq(Messages) /\ que \in Seq(Messages)
        /\ taken \o que \in Seq(Messages)
    BY <1>2, OrderTypes, ConcatProperties
  <2>3. taken \o que \o <<>> = taken \o que
    BY <2>2, ConcatEmptySeq
  <2>4. Append(taken \o que, m) = taken \o que \o <<m>>
    BY <2>2, ArriveKeeps
  <2>5. CASE taken \o que = since
    BY <1>1, <2>1, <2>4, <2>5 DEF ConsumedInOrder
  <2>6. ASSUME NEW first \in Messages, taken \o que = <<first>> \o since
        PROVE  ConsumedInOrder'
    <3>1. <<first>> \in Seq(Messages)
      BY DEF Messages
    <3>2. Append(<<first>> \o since, m) = <<first>> \o Append(since, m)
      BY <2>2, <3>1, ArriveKeeps
    <3> QED
      BY <1>1, <2>1, <2>4, <2>6, <3>2 DEF ConsumedInOrder
  <2> QED
    BY <1>1, <1>2, <2>3, <2>5, <2>6 DEF ConsumedInOrder
<1>3. CASE que = NoQueue
  BY <1>1, <1>3 DEF ConsumedInOrder
<1> QED
  BY <1>2, <1>3

\* The callback thread puts what was on its way.
LEMMA PutOrder ==
  ASSUME TypeOK, ConsumedInOrder, Put
  PROVE  ConsumedInOrder'
<1>1. CASE que # NoQueue
  <2>1. /\ que' = Append(que, subject) /\ since' = since /\ taken' = taken
        /\ OnItsWay = <<subject>> /\ OnItsWay' = <<>>
    BY <1>1 DEF Put, OnItsWay
  <2>2. subject \in Messages /\ taken \in Seq(Messages) /\ que \in Seq(Messages)
    BY <1>1, OrderTypes DEF Put, TypeOK
  <2>3. taken \o Append(que, subject) \in Seq(Messages)
    BY <2>2, AppendProperties, ConcatProperties
  <2>4. taken' \o que' \o OnItsWay' = taken \o que \o OnItsWay
    BY <2>1, <2>2, <2>3, ArriveKeeps, ConcatEmptySeq
  <2> QED
    BY <1>1, <2>1, <2>4 DEF ConsumedInOrder
<1>2. CASE que = NoQueue
  BY <1>2 DEF Put, ConsumedInOrder
<1> QED
  BY <1>1, <1>2

\* A new queue knows of no message of before but one that is on its way.
LEMMA NewOrder ==
  ASSUME TypeOK', NewQueue
  PROVE  ConsumedInOrder'
<1>1. que' = <<>> /\ since' = <<>> /\ taken' = <<>> /\ <<>> # NoQueue
  BY EmptySeq, QueueAssumption DEF NewQueue
<1>2. CASE lib' \in {"handlers", "put"}
  <2>1. OnItsWay' = <<subject'>> /\ subject' \in Messages
    BY <1>1, <1>2 DEF OnItsWay, TypeOK
  <2>2. <<>> \o <<>> \o <<subject'>> = <<subject'>> \o <<>>
    OBVIOUS
  <2> QED
    BY <1>1, <2>1, <2>2 DEF ConsumedInOrder
<1>3. CASE lib' \notin {"handlers", "put"}
  <2>1. OnItsWay' = <<>>
    BY <1>3 DEF OnItsWay
  <2>2. <<>> \o <<>> \o <<>> = <<>>
    OBVIOUS
  <2> QED
    BY <1>1, <2>1, <2>2 DEF ConsumedInOrder
<1> QED
  BY <1>2, <1>3

\* The consumer takes the first.
LEMMA TakeOrder ==
  ASSUME TypeOK, ConsumedInOrder, que \notin {NoQueue, <<>>}, Take,
         UNCHANGED <<since, lib, subject>>
  PROVE  ConsumedInOrder'
<1>1. que' # NoQueue
  BY TakeType, QueueAssumption
<1>2. OnItsWay' = OnItsWay
  BY <1>1 DEF OnItsWay
<1>3. Append(taken, Head(que)) \o Tail(que) \o OnItsWay = taken \o que \o OnItsWay
  BY OrderTypes, TakeKeeps
<1> QED
  BY <1>2, <1>3 DEF Take, ConsumedInOrder

LEMMA OrderStep ==
  ASSUME TypeOK, TypeOK', ConsumedInOrder, [Next]_vars
  PROVE  ConsumedInOrder'
<1>1. CASE UNCHANGED <<que, since, taken>> /\ (que # NoQueue => OnItsWay' = OnItsWay)
  BY <1>1 DEF ConsumedInOrder
<1>2. ASSUME NEW t \in Tokens, Caller(t) \/ Respond(t)
      PROVE  ConsumedInOrder'
  <2>1. UNCHANGED queueVars /\ OnItsWay' = OnItsWay
    <3>1. CASE Caller(t)
      BY <3>1 DEF Caller, Request, Connect, Send, SendConnect, SendReconnect, Refuse,
         Return, Throw, Apart, libVars, queueVars, OnItsWay
    <3>2. CASE Respond(t)
      BY <3>2 DEF Respond, Complete, queueVars, OnItsWay
    <3> QED
      BY <1>2, <3>1, <3>2
  <2> QED
    BY <1>1, <2>1 DEF queueVars
<1>3. CASE Reconnect \/ ReAdd \/ set_callback \/ disable_callbacks \/ on_connected
  BY <1>1, <1>3 DEF Reconnect, ReAdd, set_callback, disable_callbacks, on_connected,
     Complete, libVars, queueVars, OnItsWay
<1>4. CASE on_message_arrived \/ on_connection_lost
  <2>1. 0 \in Messages /\ events + 1 \in Messages
    BY <1>4, BoundAssumption DEF on_message_arrived, on_connection_lost, Arrive, TypeOK,
       Messages, Null
  <2> QED
    BY <1>4, <2>1, ArriveOrder DEF on_message_arrived, on_connection_lost, Null
<1>5. CASE Signal \/ remove_token \/ delivery_complete \/ TestQueue
  BY <1>1, <1>5 DEF Signal, remove_token, delivery_complete, TestQueue, queueVars, OnItsWay
<1>6. CASE start_consuming \/ stop_consuming \/ EndStart
  BY <1>1, <1>6 DEF start_consuming, stop_consuming, EndStart, libVars, OnItsWay
<1>7. CASE EndStop
  BY <1>7 DEF EndStop, ConsumedInOrder
<1>8. CASE consume_message \/ Wake \/ try_consume_message
  <2>1. UNCHANGED <<since, lib, subject>>
    BY <1>8 DEF consume_message, Wake, try_consume_message, libVars
  <2>2. CASE UNCHANGED <<que, taken>>
    BY <1>1, <2>1, <2>2 DEF OnItsWay
  <2>3. CASE que \notin {NoQueue, <<>>} /\ Take
    BY <2>1, <2>3, TakeOrder
  <2> QED
    BY <1>8, <2>2, <2>3 DEF consume_message, Wake, try_consume_message
<1>9. CASE UNCHANGED vars
  BY <1>1, <1>9 DEF vars, OnItsWay
<1> QED
  BY <1>2, <1>3, <1>4, <1>5, <1>6, <1>7, <1>8, <1>9, PutOrder, NewOrder
     DEF Next, CallbackThread, Consumer

LEMMA QueueInvStep == QueueInv /\ [Next]_vars => QueueInv'
BY TypeStep, OrderStep DEF QueueInv

THEOREM QueueInvariant == Spec => []QueueInv
BY QueueInvInit, QueueInvStep, PTL DEF Spec

\* The consumer reads every message once, in the order of their arrival, with at
\* most one of before in front, whatever the callback thread does while it
\* starts and stops consuming.
THEOREM ConsumedInOrderHolds == Spec => []ConsumedInOrder
<1>1. QueueInv => ConsumedInOrder
  BY DEF QueueInv
<1> QED
  BY <1>1, QueueInvariant, PTL
==============================================================================
