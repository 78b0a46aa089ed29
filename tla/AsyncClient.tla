----------------------------- MODULE AsyncClient -----------------------------
(***************************************************************************)
(* mqtt::async_client (src/src/mqtt_paho/headers/async_client.h): requests *)
(* made by application threads, each tracked by a token, the one callback  *)
(* thread of the C library that completes the tokens and hands over what   *)
(* the server sends, and the queue that a consuming thread reads.          *)
(*                                                                         *)
(* The C library is given the address of a token.  What keeps the token    *)
(* alive until the library uses that address is the client: its lists of   *)
(* pending tokens, and connTok_ for the token of the last connect, which   *)
(* serves again for every reconnect.                                       *)
(*                                                                         *)
(* The lists are under lock_.  connTok_ and que_ are not: connect and      *)
(* reconnect are taken to be called one after the other, and one thread    *)
(* starts, stops and consumes; it does so at any time, also while the      *)
(* callback thread uses que_.                                              *)
(***************************************************************************)
EXTENDS Integers, Sequences, FiniteSets

CONSTANTS Publications, \* the tokens of publish (a bound of the model)
          Requests,     \* those of subscribe, unsubscribe and disconnect
          Conns,        \* those of connect
          NoToken,      \* a null connTok_
          Qos0,         \* the publications whose message has QoS 0
          NoQueue,      \* a null que_
          MaxCalls,     \* bound of the model: calls of the application that
                        \* make a request, or start or stop consuming
          MaxEvents     \* bound of the model: what comes from the server

Tokens == Publications \union Requests \union Conns

ASSUME TokenAssumption ==
  /\ Publications \intersect Requests = {} /\ Qos0 \subseteq Publications
  /\ Conns \intersect (Publications \union Requests) = {}
  /\ NoToken \notin Tokens

ASSUME BoundAssumption ==
  MaxCalls \in Nat /\ MaxEvents \in Nat

VARIABLES stage,     \* how far the call that made each token has got
          pending,   \* how often each token is on the lists
          held,      \* how many answers the C library owes to each token
          done,      \* complete_ of each token
          conn,      \* connTok_
          calls,     \* number of such calls so far (bounded)
          user,      \* whether userCallback_ is set
          hook,      \* whether the C library has on_connected
          installed, \* whether the C library has the two message callbacks
          lib,       \* what the callback thread is doing
          subject,   \* the token or the message it is doing it with
          linked,    \* whether there may have been a connection: a connect
                     \* succeeded, or a reconnect is under way
          events,    \* number of events from the server (bounded)
          que,       \* que_: NoQueue or the messages in the queue
          consumer,  \* the thread that starts, stops and consumes
          delivered, \* history: delivery_complete calls for each token
          acked,     \* history: the publications the server acknowledged
          redone,    \* history: the connect tokens on_connected completed
          since,     \* history: what arrived since start_consuming returned
          taken      \* history: what was consumed since then

tokenVars == <<stage, pending, held, done, conn, linked, delivered, acked, redone>>
requestVars == <<tokenVars, calls>>
setVars == <<user, hook, installed>>
queueVars == <<que, consumer, since, taken>>
libVars == <<lib, subject>>
vars == <<stage, pending, held, done, conn, calls, user, hook, installed, lib,
          subject, linked, events, que, consumer, delivered, acked, redone, since, taken>>

\* The null message that on_connection_lost puts on the queue, and the others.
Null == 0
Messages == Null..MaxEvents

ASSUME QueueAssumption == NoQueue \notin Seq(Messages)

TypeOK ==
  /\ stage \in [Tokens -> {"unused", "added", "sent", "refused", "returned",
                           "thrown", "reset", "readded", "rerefused"}]
  /\ pending \in [Tokens -> Nat] /\ held \in [Tokens -> Nat]
  /\ done \in [Tokens -> BOOLEAN] /\ delivered \in [Tokens -> Nat]
  /\ conn \in Conns \union {NoToken}
  /\ calls \in 0..MaxCalls /\ events \in 0..MaxEvents
  /\ user \in BOOLEAN /\ hook \in BOOLEAN /\ installed \in BOOLEAN
  /\ linked \in BOOLEAN /\ acked \subseteq Publications /\ redone \subseteq Conns
  /\ lib \in {"free", "listener", "notify", "remove", "deliver", "handlers",
              "put", "crashed"}
  /\ lib \in {"listener", "notify", "remove", "deliver"} => subject \in Tokens
  /\ lib \in {"handlers", "put"} => subject \in Messages
  /\ que \in Seq(Messages) \union {NoQueue}
  /\ consumer \in {"idle", "blocked", "starting", "started", "stopping", "crashed"}
  /\ since \in Seq(Messages) /\ taken \in Seq(Messages)

----------------------------------------------------------------------------
(* The lists of pending tokens, each change under lock_.                   *)

add_token(t) == pending' = [pending EXCEPT ![t] = @ + 1]

Mut_EraseUnchecked(t) == pending' = [pending EXCEPT ![t] = @ - 1]

\* The first occurrence is erased, if there is one.
Erase(t) == pending' = [pending EXCEPT ![t] = IF @ > 0 THEN @ - 1 ELSE 0]

\* Whether remove_token goes on to the user's delivery_complete.
Reported(t) ==
  t \in Publications \ Qos0 /\ pending[t] > 0 /\ user

----------------------------------------------------------------------------
(* Requests.  Each call adds its token, makes the C call, and then returns *)
(* or, if the C library refuses, removes the token and throws.             *)

To(t, s) == stage' = [stage EXCEPT ![t] = s]

Call == calls < MaxCalls /\ calls' = calls + 1

\* What no step of a request's call touches.
Apart == <<done, linked, delivered, acked, redone, setVars, events, libVars, queueVars>>

Mut_RequestUnlisted(t) ==
  /\ t \in Publications \union Requests
  /\ stage[t] = "unused" /\ Call
  /\ To(t, "added")
  /\ UNCHANGED <<pending, held, conn, Apart>>

\* publish, subscribe, unsubscribe and disconnect, up to add_token.
Request(t) ==
  /\ t \in Publications \union Requests
  /\ stage[t] = "unused" /\ Call
  /\ To(t, "added")
  /\ add_token(t)
  /\ UNCHANGED <<held, conn, Apart>>

\* No call of connect or reconnect is under way.
Connecting == \E t \in Conns : stage[t] \notin {"unused", "returned", "thrown"}

\* connect, up to add_token: connTok_ becomes the new token, whatever has come
\* of the one before.
Connect(t) ==
  /\ t \in Conns /\ ~Connecting
  /\ stage[t] = "unused" /\ Call
  /\ To(t, "added")
  /\ conn' = t
  /\ add_token(t)
  /\ UNCHANGED <<held, Apart>>

Mut_TakenForRefused(t) ==
  /\ t \notin Conns /\ stage[t] = "added"
  /\ To(t, "refused")
  /\ held' = [held EXCEPT ![t] = @ + 1]
  /\ UNCHANGED <<pending, conn, calls, Apart>>

\* The C library takes the request, with the address of the token ...
Send(t) ==
  /\ t \notin Conns /\ stage[t] = "added"
  /\ To(t, "sent")
  /\ held' = [held EXCEPT ![t] = @ + 1]
  /\ UNCHANGED <<pending, conn, calls, Apart>>

\* ... of a connect, whose callbacks may take the place of those of an earlier
\* one that is still unanswered ...
SendConnect(t) ==
  /\ t \in Conns /\ stage[t] = "added"
  /\ To(t, "sent")
  /\ \E forgotten \in SUBSET (Conns \ {t}) :
       held' = [u \in Tokens |-> IF u = t THEN held[t] + 1
                                 ELSE IF u \in forgotten THEN 0 ELSE held[u]]
  /\ UNCHANGED <<pending, conn, calls, Apart>>

\* ... or the reconnect, which comes without the address: only an answer that
\* the token is still owed may be given once more.
SendReconnect(t) ==
  /\ stage[t] = "readded"
  /\ To(t, "sent")
  /\ UNCHANGED held \/ (held[t] > 0 /\ held' = [held EXCEPT ![t] = @ + 1])
  /\ linked' = TRUE
  /\ UNCHANGED <<pending, done, conn, calls, delivered, acked, redone,
                 setVars, events, libVars, queueVars>>

\* The C library refuses.
Refuse(t) ==
  /\ stage[t] \in {"added", "readded"}
  /\ To(t, IF stage[t] = "added" THEN "refused" ELSE "rerefused")
  /\ UNCHANGED <<pending, held, conn, calls, Apart>>

\* The call returns the token; the answer may have come before.
Return(t) ==
  /\ stage[t] = "sent"
  /\ To(t, "returned")
  /\ UNCHANGED <<pending, held, conn, calls, Apart>>

Mut_ThrowKeepsToken(t) ==
  /\ stage[t] \in {"refused", "rerefused"}
  /\ To(t, IF stage[t] = "refused" THEN "thrown" ELSE "returned")
  /\ delivered' = [delivered EXCEPT ![t] = IF Reported(t) THEN @ + 1 ELSE @]
  /\ conn' = IF stage[t] = "refused" /\ t = conn THEN NoToken ELSE conn
  /\ UNCHANGED <<pending, held, done, calls, linked, acked, redone, setVars,
                 events, libVars, queueVars>>

\* remove_token on the thread of the caller, delivery_complete included;
\* connect gives connTok_ up, reconnect does not.  Then check_ret throws.
Throw(t) ==
  /\ stage[t] \in {"refused", "rerefused"}
  /\ To(t, IF stage[t] = "refused" THEN "thrown" ELSE "returned")
  /\ Erase(t)
  /\ delivered' = [delivered EXCEPT ![t] = IF Reported(t) THEN @ + 1 ELSE @]
  /\ conn' = IF stage[t] = "refused" /\ t = conn THEN NoToken ELSE conn
  /\ UNCHANGED <<held, done, calls, linked, acked, redone, setVars, events,
                 libVars, queueVars>>

\* reconnect: tok->reset() ...
Reconnect ==
  /\ conn # NoToken /\ ~Connecting /\ Call
  /\ To(conn, "reset")
  /\ done' = [done EXCEPT ![conn] = FALSE]
  /\ UNCHANGED <<pending, held, conn, linked, delivered, acked, redone, setVars,
                 events, libVars, queueVars>>

\* ... add_token, and MQTTAsync_setConnected, before MQTTAsync_reconnect.
ReAdd ==
  /\ conn # NoToken /\ stage[conn] = "reset"
  /\ To(conn, "readded")
  /\ add_token(conn)
  /\ hook' = TRUE
  /\ UNCHANGED <<held, done, conn, calls, linked, delivered, acked, redone,
                 user, installed, events, libVars, queueVars>>

\* set_callback; a refusal to take the message callbacks leaves the rest set.
set_callback ==
  /\ user' = TRUE /\ hook' = TRUE /\ installed' \in {installed, TRUE}
  /\ UNCHANGED <<requestVars, events, libVars, queueVars>>

\* disable_callbacks leaves userCallback_ as it is.  A refusal throws, and
\* changes nothing.
disable_callbacks ==
  /\ installed' = FALSE
  /\ UNCHANGED <<requestVars, user, hook, events, libVars, queueVars>>

----------------------------------------------------------------------------
(* The callback thread: answers.                                           *)

\* on_success or on_failure of a token, up to the call of its listener.
Complete(t) ==
  /\ done' = [done EXCEPT ![t] = TRUE]
  /\ lib' = "listener" /\ subject' = t

Respond(t) ==
  /\ lib = "free" /\ held[t] > 0
  /\ held' = [held EXCEPT ![t] = @ - 1]
  /\ Complete(t)
  /\ \/ UNCHANGED <<acked, linked>>
     \/ /\ acked' = acked \union ({t} \intersect Publications)
        /\ linked' = (linked \/ t \in Conns)
  /\ UNCHANGED <<stage, pending, conn, calls, delivered, redone, setVars,
                 events, queueVars>>

\* on_connected completes the token that connTok_ then leads to, after the
\* first connect, a reconnect and every automatic reconnect.  No failure of a
\* reconnect is told to anyone.
on_connected ==
  /\ lib = "free" /\ linked /\ hook /\ events < MaxEvents
  /\ events' = events + 1
  /\ IF conn # NoToken
     THEN Complete(conn) /\ redone' = redone \union {conn}
     ELSE UNCHANGED <<done, libVars, redone>>
  /\ UNCHANGED <<stage, pending, held, conn, calls, linked, delivered,
                 acked, setVars, queueVars>>

\* The listener, and then the threads that wait for the token.
Signal ==
  /\ lib \in {"listener", "notify"}
  /\ lib' = IF lib = "listener" THEN "notify" ELSE "remove"
  /\ UNCHANGED <<requestVars, setVars, events, subject, queueVars>>

\* remove_token: the list under lock_, and the decision to report.
remove_token ==
  /\ lib = "remove"
  /\ lib' = IF Reported(subject) THEN "deliver" ELSE "free"
  /\ Erase(subject)
  /\ UNCHANGED <<stage, held, done, conn, calls, linked, delivered, acked,
                 redone, setVars, events, subject, queueVars>>

\* The user's delivery_complete, after lock_ was given up.
delivery_complete ==
  /\ lib = "deliver"
  /\ lib' = "free"
  /\ delivered' = [delivered EXCEPT ![subject] = @ + 1]
  /\ UNCHANGED <<stage, pending, held, done, conn, calls, linked, acked,
                 redone, setVars, events, subject, queueVars>>

----------------------------------------------------------------------------
(* The callback thread: messages.                                          *)

\* on_message_arrived, and on_connection_lost with a null message, up to the
\* message handler and the user's callback.  While the callbacks are not
\* installed the library drops what comes.
Arrive(m) ==
  /\ lib = "free" /\ installed /\ linked /\ events < MaxEvents
  /\ events' = events + 1
  /\ lib' = "handlers" /\ subject' = m
  /\ since' = IF que # NoQueue THEN Append(since, m) ELSE since
  /\ UNCHANGED <<requestVars, setVars, que, consumer, taken>>

on_message_arrived == Arrive(events + 1)
on_connection_lost == Arrive(Null)

Mut_LostKeepsQuiet ==
  /\ lib = "handlers"
  /\ lib' = IF que # NoQueue /\ subject # Null THEN "put" ELSE "free"
  /\ UNCHANGED <<requestVars, setVars, events, subject, queueVars>>

\* The handlers have returned: que_ is tested ...
TestQueue ==
  /\ lib = "handlers"
  /\ lib' = IF que # NoQueue THEN "put" ELSE "free"
  /\ UNCHANGED <<requestVars, setVars, events, subject, queueVars>>

\* ... and used.
Put ==
  /\ lib = "put"
  /\ \/ que # NoQueue /\ que' = Append(que, subject) /\ lib' = "free"
     \/ que = NoQueue /\ lib' = "crashed" /\ UNCHANGED que
  /\ UNCHANGED <<requestVars, setVars, events, subject, consumer, since, taken>>

----------------------------------------------------------------------------
(* The consuming thread.                                                   *)

\* start_consuming begins with disable_callbacks, and throws at once if that
\* is refused.
start_consuming ==
  /\ consumer = "idle" /\ Call
  /\ consumer' = "starting" /\ installed' = FALSE
  /\ UNCHANGED <<tokenVars, user, hook, events, libVars, que, since, taken>>

\* que_ is destroyed under the callback thread, which may be using it.
Destroyed ==
  /\ lib' \in IF lib = "put" THEN {"put", "crashed"} ELSE {lib}
  /\ UNCHANGED subject

Mut_KeepsOldQueue ==
  /\ consumer = "starting"
  /\ consumer' = "started"
  /\ que' = (IF que = NoQueue THEN <<>> ELSE que) /\ since' = <<>> /\ taken' = <<>>
  /\ Destroyed
  /\ UNCHANGED <<requestVars, setVars, events>>

\* Then the queue is replaced by a new one and the callbacks are installed
\* again, unless the C library refuses to.
NewQueue ==
  /\ consumer = "starting"
  /\ consumer' = "started"
  /\ que' = <<>> /\ since' = <<>> /\ taken' = <<>>
  /\ Destroyed
  /\ UNCHANGED <<requestVars, setVars, events>>

EndStart ==
  /\ consumer = "started"
  /\ consumer' = "idle"
  /\ installed' \in {installed, TRUE}
  /\ UNCHANGED <<requestVars, user, hook, events, libVars, que, since, taken>>

\* stop_consuming begins with disable_callbacks as well; the queue is thrown
\* away with what it holds, also when that is refused.
stop_consuming ==
  /\ consumer = "idle" /\ Call
  /\ consumer' = "stopping" /\ installed' \in {installed, FALSE}
  /\ UNCHANGED <<tokenVars, user, hook, events, libVars, que, since, taken>>

EndStop ==
  /\ consumer = "stopping"
  /\ consumer' = "idle"
  /\ que' = NoQueue
  /\ since' = <<>> /\ taken' = <<>>
  /\ Destroyed
  /\ UNCHANGED <<requestVars, setVars, events>>

Take ==
  /\ que' = Tail(que)
  /\ taken' = Append(taken, Head(que))

\* consume_message, up to the wait for a message or to the end.
consume_message ==
  /\ consumer = "idle"
  /\ \/ que = NoQueue /\ consumer' = "crashed" /\ UNCHANGED <<que, taken>>
     \/ que = <<>> /\ consumer' = "blocked" /\ UNCHANGED <<que, taken>>
     \/ que \notin {NoQueue, <<>>} /\ Take /\ UNCHANGED consumer
  /\ UNCHANGED <<requestVars, setVars, events, libVars, since>>

\* A message has come for the waiting consumer.
Wake ==
  /\ consumer = "blocked" /\ que \notin {NoQueue, <<>>}
  /\ consumer' = "idle"
  /\ Take
  /\ UNCHANGED <<requestVars, setVars, events, libVars, since>>

\* The try_consume calls, when their time is over.
try_consume_message ==
  /\ consumer = "idle"
  /\ \/ que = NoQueue /\ consumer' = "crashed" /\ UNCHANGED <<que, taken>>
     \/ que = <<>> /\ UNCHANGED <<que, consumer, taken>>
     \/ que \notin {NoQueue, <<>>} /\ Take /\ UNCHANGED consumer
  /\ UNCHANGED <<requestVars, setVars, events, libVars, since>>

----------------------------------------------------------------------------
Init ==
  /\ stage = [t \in Tokens |-> "unused"]
  /\ pending = [t \in Tokens |-> 0] /\ held = [t \in Tokens |-> 0]
  /\ done = [t \in Tokens |-> FALSE] /\ delivered = [t \in Tokens |-> 0]
  /\ conn = NoToken /\ calls = 0 /\ acked = {} /\ redone = {}
  /\ user = FALSE /\ hook = FALSE /\ installed = FALSE
  /\ lib = "free" /\ subject = NoToken
  /\ linked = FALSE /\ events = 0
  /\ que = NoQueue /\ consumer = "idle" /\ since = <<>> /\ taken = <<>>

Caller(t) == \/ Request(t) \/ Connect(t) \/ Send(t) \/ SendConnect(t)
             \/ SendReconnect(t) \/ Refuse(t) \/ Return(t) \/ Throw(t)

CallbackThread == Signal \/ remove_token \/ delivery_complete \/ TestQueue \/ Put

Consumer == \/ start_consuming \/ stop_consuming \/ NewQueue \/ EndStart \/ EndStop
            \/ consume_message \/ Wake \/ try_consume_message

Next ==
  \/ \E t \in Tokens : Caller(t) \/ Respond(t)
  \/ Reconnect \/ ReAdd \/ set_callback \/ disable_callbacks
  \/ on_connected \/ on_message_arrived \/ on_connection_lost
  \/ CallbackThread \/ Consumer

Spec == Init /\ [][Next]_vars

\* The callback thread goes on with what it began (the user's callbacks
\* return), each request that is not a connect is answered in the end, a thread
\* whose call was refused leaves it, and a consumer with something to read
\* reads it.  A connect need not be answered: a later one may take its place.
FairSpec ==
  /\ Spec
  /\ WF_vars(CallbackThread) /\ WF_vars(Wake)
  /\ \A t \in Publications \union Requests : WF_vars(Respond(t)) /\ WF_vars(Throw(t))

----------------------------------------------------------------------------
(* Safety.                                                                 *)

\* The removals that are still to come for a token: by the answers the C
\* library owes it, by the answer at hand, and by a call that may be refused.
Owed(t) ==
  held[t] + (IF lib \in {"listener", "notify", "remove"} /\ subject = t THEN 1 ELSE 0)
          + (IF stage[t] \in {"added", "refused", "readded", "rerefused"} THEN 1 ELSE 0)

\* Another connect was called.
OtherConnect(t) == \E u \in Conns \ {t} : stage[u] # "unused"

\* The client keeps a token as long as it is needed.  A publication or another
\* request is on a list exactly as often as it will be removed, and so while
\* the C library has its address, however an answer, a refusal and the caller's
\* return meet.  Neither a reconnect nor a later connect waits for the answer of
\* the connect before: still only on_connected takes off the list a connect
\* token whose address the library has, and only another connect makes connTok_
\* give it up.  (The two together can destroy it.)
KeptWhileNeeded ==
  /\ \A t \in Publications \union Requests : pending[t] = Owed(t)
  /\ \A t \in Conns :
       held[t] > 0 => /\ pending[t] > 0 \/ t \in redone
                      /\ conn = t \/ OtherConnect(t)

\* get_pending_delivery_tokens tells of every message that publish() has
\* returned a token for and that is not complete.
get_pending_delivery_tokens == {t \in Publications : pending[t] > 0}

InFlightListed ==
  \A t \in Publications :
    stage[t] = "returned" /\ ~done[t] => t \in get_pending_delivery_tokens

\* delivery_complete is called at most once for a message, and only when no
\* answer is to come and the token is off the list.
ReportedOnce ==
  \A t \in Publications :
    /\ delivered[t] <= 1
    /\ delivered[t] = 1 => t \notin Qos0 /\ held[t] = 0 /\ pending[t] = 0

\* delivery_complete is "called when delivery for a message has been completed,
\* and all acknowledgments have been received".
ReportedWhenAcknowledged ==
  \A t \in Publications : delivered[t] > 0 => t \in acked

\* What is on its way to the queue.
OnItsWay == IF lib \in {"handlers", "put"} /\ que # NoQueue THEN <<subject>> ELSE <<>>

\* The consumer reads all that arrives after start_consuming, a lost
\* connection included, once and in order, at whatever time it starts and
\* stops; at most one message of before, which the callback thread had in its
\* hands, comes in front of it.
ConsumedInOrder ==
  que # NoQueue =>
    \/ taken \o que \o OnItsWay = since
    \/ \E m \in Messages : taken \o que \o OnItsWay = <<m>> \o since

----------------------------------------------------------------------------
(* Refinement.                                                             *)

Deliveries == INSTANCE Delivery WITH
  Messages <- Publications, Reportable <- Publications \ Qos0,
  offered <- {t \in Publications : stage[t] # "unused"},
  taken <- {t \in Publications : stage[t] \in {"sent", "returned"}},
  pending <- get_pending_delivery_tokens,
  complete <- {t \in Publications : done[t]},
  reports <- [t \in Publications |-> delivered[t]]

\* What the application sees of its messages, in the list of pending tokens,
\* in the tokens and in delivery_complete, is what Delivery promises, however
\* the answers overtake the calls.
TracksDeliveries == Deliveries!Spec

----------------------------------------------------------------------------
(* Liveness.                                                               *)

\* A request that is not a connect does not stay on the lists for ever, refused
\* or answered.  (A connect token may: a reconnect that fails leaves it there.)
RequestLeaves ==
  \A t \in Publications \union Requests :
    stage[t] \in {"sent", "refused"} ~> pending[t] = 0

\* A consumer that waits when the connection is lost, or when a message
\* comes, gets to know of it.
ConsumerWakes ==
  consumer = "blocked" /\ lib = "handlers" ~> consumer # "blocked"
==============================================================================
