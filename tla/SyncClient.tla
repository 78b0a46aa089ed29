------------------------------ MODULE SyncClient ------------------------------
(***************************************************************************)
(* mqtt::client (src/src/mqtt_paho/headers/client.h): blocking calls made  *)
(* over the asynchronous client, and the user's callback object called     *)
(* back from the one callback thread of the library.                       *)
(*                                                                         *)
(* connected, connection_lost and delivery_complete start the user's       *)
(* method with std::async and drop the future it returns; the destructor   *)
(* of such a future waits for the task, so the callback thread is held     *)
(* until the user's method has returned.  message_arrived calls the user's *)
(* method on the callback thread itself.                                   *)
(*                                                                         *)
(* connect, reconnect, subscribe and unsubscribe wait twice: wait_for with *)
(* the client's time limit, and then, in the getter of the response,       *)
(* without one.  A reconnect resets the token of connect and waits for it; *)
(* nothing but on_connected completes it then, and when the attempt fails  *)
(* nothing does.                                                           *)
(*                                                                         *)
(* The callback thread is also the thread that completes the tokens the    *)
(* blocking calls wait on.  Every caller is modelled: the application      *)
(* threads, the task of std::async, and the callback thread while it is    *)
(* inside message_arrived.                                                 *)
(***************************************************************************)
EXTENDS Integers, Sequences, FiniteSets

CONSTANTS Apps,        \* application threads
          Task,        \* the thread of std::async, as a caller
          Lib,         \* the callback thread, as a caller
          Ops,         \* the requests that may be made (a bound of the model)
          ConnOp,      \* the one of them that connect and reconnect track
          NoOp,        \* no request
          UntimedCallers, \* who calls publish(const message&), without limit
          MaxEvents,   \* bound of the model: events from the network
          MaxReconnects \* bound of the model: calls of reconnect

ASSUME CallerAssumption ==
  /\ Task # Lib /\ {Task, Lib} \intersect Apps = {}
  /\ UntimedCallers \subseteq Apps \union {Task, Lib}
  /\ NoOp \notin Ops /\ ConnOp \in Ops

ASSUME EventBound == MaxEvents \in Nat /\ MaxReconnects \in Nat

VARIABLES inbox,    \* what the callback thread has yet to process, in order
          status,   \* each request: "unused", "sent", "failed" (a reconnect of
                    \* which nothing will be heard), "acked" or "complete"
          waitsFor, \* the request each caller is blocked on, or NoOp
          timed,    \* the callers whose wait is limited by timeout_
          wants,    \* the callers that will ask for the response after it
          borrowed, \* the requests whose message the library does not own
          again,    \* how often reconnect was called
          lib,      \* the callback thread: "idle", "joining" or "calling"
          task,     \* the task of std::async: "none", "launched", "running"
          event,    \* the event the callback thread has last taken up
          arrived,  \* history: the events, in the order they came
          before,   \* history: the events that came before each answer
          begun     \* history: the callbacks, in the order they began

netVars == <<inbox, status, arrived, before>>
callVars == <<waitsFor, timed, wants, borrowed, again>>
threadVars == <<lib, task, event, begun>>
vars == <<inbox, status, waitsFor, timed, wants, borrowed, again,
          lib, task, event, arrived, before, begun>>

Callers == Apps \union {Task, Lib}

Launched == {"connected", "connection_lost", "delivery_complete"}
Events == Launched \union {"message_arrived"}

\* What the network hands to the callback thread; n is history, the number
\* of events that came up to then.
Ack(o, n) == [kind |-> "ack", op |-> o, at |-> n]
Event(e, n) == [kind |-> "event", name |-> e, at |-> n]

Stamps == 0..MaxEvents
Items == {Ack(o, n) : o \in Ops, n \in Stamps} \union
         {Event(e, n) : e \in Events, n \in Stamps}

TypeOK ==
  /\ inbox \in Seq(Items)
  /\ status \in [Ops -> {"unused", "sent", "failed", "acked", "complete"}]
  /\ waitsFor \in [Callers -> Ops \union {NoOp}]
  /\ waitsFor[Task] # NoOp => task = "running"
  /\ waitsFor[Lib] # NoOp => lib = "calling"
  /\ timed \subseteq Callers /\ wants \subseteq Callers
  /\ borrowed \subseteq Ops \ {ConnOp}
  /\ again \in Nat
  /\ lib \in {"idle", "joining", "calling"}
  /\ task \in {"none", "launched", "running"}
  /\ event \in Events \union {"none"}
  /\ arrived \in Seq(Events)
  /\ before \in [Ops -> Stamps]
  /\ begun \in Seq(Events)

----------------------------------------------------------------------------
(* The blocking calls.                                                     *)

\* Application threads run at any time, the other two inside a callback only.
Running(c) ==
  /\ waitsFor[c] = NoOp
  /\ c = Task => task = "running"
  /\ c = Lib => lib = "calling"

\* A request goes out, and its caller waits for it.  An answer that is on its
\* way to the token will complete it, although the token was reset.
Send(c, o) ==
  /\ Running(c)
  /\ status' = [status EXCEPT ![o] = IF @ = "acked" THEN @ ELSE "sent"]
  /\ waitsFor' = [waitsFor EXCEPT ![c] = o]
  /\ UNCHANGED <<inbox, arrived, before, threadVars>>

Begin(c, o) == status[o] = "unused" /\ Send(c, o)

\* publish(top, payload, ...), publish(const_message_ptr) and disconnect:
\* wait_for alone.
Publish(c, o) ==
  /\ o # ConnOp /\ Begin(c, o)
  /\ timed' = timed \union {c} /\ wants' = wants \ {c}
  /\ UNCHANGED <<borrowed, again>>

Mut_PublishRefTimed(c, o) ==
  /\ c \in UntimedCallers /\ o # ConnOp /\ Begin(c, o)
  /\ timed' = timed \union {c} /\ wants' = wants \ {c}
  /\ borrowed' = borrowed \union {o}
  /\ UNCHANGED again

\* publish(const message&): wait, with no limit.
PublishRef(c, o) ==
  /\ c \in UntimedCallers /\ o # ConnOp /\ Begin(c, o)
  /\ timed' = timed \ {c} /\ wants' = wants \ {c}
  /\ borrowed' = borrowed \union {o}
  /\ UNCHANGED again

\* The response is asked for at once, without wait_for.
Mut_ResponseAtOnce(c, o) ==
  /\ o # ConnOp /\ Begin(c, o)
  /\ timed' = timed \ {c} /\ wants' = wants \ {c}
  /\ UNCHANGED <<borrowed, again>>

\* subscribe and unsubscribe: wait_for, and then the response.
Subscribe(c, o) ==
  /\ o # ConnOp /\ Begin(c, o)
  /\ timed' = timed \union {c} /\ wants' = wants \union {c}
  /\ UNCHANGED <<borrowed, again>>

connect(c) ==
  /\ Begin(c, ConnOp)
  /\ timed' = timed \union {c} /\ wants' = wants \union {c}
  /\ UNCHANGED <<borrowed, again>>

\* reconnect resets the token of connect, if there is one, whether or not it
\* is complete and whoever waits for it.
reconnect(c) ==
  /\ again < MaxReconnects
  /\ status[ConnOp] # "unused" /\ Send(c, ConnOp)
  /\ timed' = timed \union {c} /\ wants' = wants \union {c}
  /\ again' = again + 1
  /\ UNCHANGED borrowed

\* wait_for has returned true: the getter waits on, without a limit.
AskResponse(c) ==
  /\ waitsFor[c] # NoOp /\ c \in wants
  /\ status[waitsFor[c]] = "complete"
  /\ wants' = wants \ {c} /\ timed' = timed \ {c}
  /\ UNCHANGED <<waitsFor, borrowed, again, netVars, threadVars>>

EndCall(c) ==
  /\ waitsFor' = [waitsFor EXCEPT ![c] = NoOp]
  /\ timed' = timed \ {c} /\ wants' = wants \ {c}
  /\ UNCHANGED <<borrowed, again, netVars, threadVars>>

Return(c) ==
  /\ waitsFor[c] # NoOp /\ c \notin wants
  /\ status[waitsFor[c]] = "complete"
  /\ EndCall(c)

\* wait in place of wait_for.
Mut_NoTimeout(c) ==
  /\ waitsFor[c] # NoOp /\ c \in timed
  /\ status[waitsFor[c]] = "unused"
  /\ EndCall(c)

\* wait_for gives up with the request still under way.
TimeoutError(c) ==
  /\ waitsFor[c] # NoOp /\ c \in timed
  /\ status[waitsFor[c]] # "complete"
  /\ EndCall(c)

----------------------------------------------------------------------------
(* The network and the callback thread.                                    *)

\* The server acknowledges a request.
Acknowledge(o) ==
  /\ status[o] = "sent"
  /\ status' = [status EXCEPT ![o] = "acked"]
  /\ inbox' = Append(inbox, Ack(o, Len(arrived)))
  /\ before' = [before EXCEPT ![o] = Len(arrived)]
  /\ UNCHANGED <<arrived, callVars, threadVars>>

\* The attempt of a reconnect fails.  MQTTAsync_reconnect was given no callback
\* to tell the token by.
ReconnectFails ==
  /\ again > 0 /\ status[ConnOp] = "sent"
  /\ status' = [status EXCEPT ![ConnOp] = "failed"]
  /\ UNCHANGED <<inbox, before, arrived, callVars, threadVars>>

Happen(e) ==
  /\ Len(arrived) < MaxEvents
  /\ arrived' = Append(arrived, e)
  /\ inbox' = Append(inbox, Event(e, Len(arrived) + 1))
  /\ UNCHANGED <<status, before, callVars, threadVars>>

\* The token of a request is completed.
CompleteToken ==
  /\ lib = "idle" /\ inbox # <<>> /\ Head(inbox).kind = "ack"
  /\ inbox' = Tail(inbox)
  /\ status' = [status EXCEPT ![Head(inbox).op] = "complete"]
  /\ UNCHANGED <<arrived, before, callVars, threadVars>>

NextEvent(names) ==
  /\ lib = "idle" /\ inbox # <<>> /\ Head(inbox).kind = "event"
  /\ Head(inbox).name \in names
  /\ event' = Head(inbox).name
  /\ inbox' = Tail(inbox)

\* The future is kept: nobody waits for the task.
Mut_LaunchDetached ==
  /\ NextEvent(Launched)
  /\ task' = "launched"
  /\ UNCHANGED <<status, arrived, before, callVars, lib, begun>>

\* connected, connection_lost, delivery_complete: std::async(...), and then
\* the destructor of the future.
Launch ==
  /\ NextEvent(Launched)
  /\ task' = "launched"
  /\ lib' = "joining"
  /\ UNCHANGED <<status, arrived, before, callVars, begun>>

\* The user's method begins, on the thread of the task.
RunTask ==
  /\ task = "launched"
  /\ task' = "running"
  /\ begun' = Append(begun, event)
  /\ UNCHANGED <<netVars, callVars, lib, event>>

\* message_arrived: the user's method, on the callback thread.
message_arrived ==
  /\ NextEvent({"message_arrived"})
  /\ lib' = "calling"
  /\ begun' = Append(begun, event')
  /\ UNCHANGED <<status, arrived, before, callVars, task>>

\* The task ends while the call it made is still blocked.
Mut_TaskAbandoned ==
  /\ task = "running"
  /\ task' = "none"
  /\ UNCHANGED <<netVars, callVars, lib, event, begun>>

\* The user's method returns; an exception it throws is kept by the future.
TaskReturns ==
  /\ task = "running" /\ waitsFor[Task] = NoOp
  /\ task' = "none"
  /\ UNCHANGED <<netVars, callVars, lib, event, begun>>

Join ==
  /\ lib = "joining" /\ task = "none"
  /\ lib' = "idle"
  /\ UNCHANGED <<netVars, callVars, task, event, begun>>

CallbackReturns ==
  /\ lib = "calling" /\ waitsFor[Lib] = NoOp
  /\ lib' = "idle"
  /\ UNCHANGED <<netVars, callVars, task, event, begun>>

----------------------------------------------------------------------------
Init ==
  /\ inbox = <<>> /\ status = [o \in Ops |-> "unused"]
  /\ waitsFor = [c \in Callers |-> NoOp]
  /\ timed = {} /\ wants = {} /\ borrowed = {} /\ again = 0
  /\ lib = "idle" /\ task = "none" /\ event = "none"
  /\ arrived = <<>> /\ begun = <<>> /\ before = [o \in Ops |-> 0]

CallbackThread == CompleteToken \/ Launch \/ message_arrived \/ Join \/ CallbackReturns

Next ==
  \/ \E c \in Callers, o \in Ops : Publish(c, o) \/ PublishRef(c, o) \/ Subscribe(c, o)
  \/ \E c \in Callers : \/ connect(c) \/ reconnect(c)
                        \/ AskResponse(c) \/ Return(c) \/ TimeoutError(c)
  \/ \E o \in Ops : Acknowledge(o)
  \/ ReconnectFails
  \/ \E e \in Events : Happen(e)
  \/ CallbackThread \/ RunTask \/ TaskReturns

Spec == Init /\ [][Next]_vars

\* A request comes to an end: it is answered, or it is a reconnect that fails.
RequestEnds(o) == Acknowledge(o) \/ (o = ConnOp /\ ReconnectFails)

\* Requests end, threads run, deadlines pass, and the user's methods return
\* unless a call they make blocks them.
FairSpec ==
  /\ Spec
  /\ WF_vars(CallbackThread) /\ WF_vars(RunTask) /\ WF_vars(TaskReturns)
  /\ \A o \in Ops : WF_vars(RequestEnds(o))
  /\ \A c \in Callers :
       WF_vars(AskResponse(c)) /\ WF_vars(Return(c)) /\ WF_vars(TimeoutError(c))

----------------------------------------------------------------------------
(* Safety.                                                                 *)

\* The user's methods begin in the order of the events they report, although
\* they run on different threads.
CallbackOrder == begun = SubSeq(arrived, 1, Len(begun))

\* Two of the user's methods never run at the same time.
CallbacksApart == ~ (task = "running" /\ lib = "calling")

Inside == IF task = "running" \/ lib = "calling" THEN 1 ELSE 0

\* A request is complete, and its caller free to go on, only when the user's
\* methods have returned for all the events that came before the answer.
AnswerAfterEvents ==
  \A o \in Ops : status[o] = "complete" => Len(begun) - Inside >= before[o]

\* "This version will not timeout since that could leave the library with a
\* reference to memory that could disappear while the library is still using
\* it": the caller that owns the message of a request that is under way is
\* still inside the call.
BorrowedHeld ==
  \A o \in borrowed : status[o] # "complete" => \E c \in Callers : waitsFor[c] = o

\* A blocking call made inside a callback never sees its answer, for it holds
\* the thread that would bring it; so, unless it is publish(const message&),
\* it must still have its time limit, also in the calls that wait twice.
OnlyTimeoutEnds ==
  \A c \in {Task, Lib} : waitsFor[c] # NoOp =>
    /\ status[waitsFor[c]] # "complete"
    /\ c \in timed \union UntimedCallers

----------------------------------------------------------------------------
(* Refinement.                                                             *)

Executor == INSTANCE SerialExecutor WITH
  Jobs <- Events, Requests <- Ops, submitted <- arrived, running <- Inside = 1,
  fence <- [o \in Ops |-> IF status[o] = "acked" THEN before[o] ELSE -1]

\* The user's methods, on the callback thread or on one of their own, and the
\* completion of the requests, are run one after the other in the order in
\* which the network brought them.
RunsSerially == Executor!Spec

----------------------------------------------------------------------------
(* Liveness.                                                               *)

\* The callback thread always gets out of the user's methods.
CallbackThreadReturns == lib # "idle" ~> lib = "idle"

\* The getter of the connect response is waiting, without a limit, for a token
\* that was reset after wait_for had found it complete.
ResetUnder(c) ==
  waitsFor[c] = ConnOp /\ c \notin timed /\ status[ConnOp] # "complete"

\* No blocking call, timed or not, made by whatever thread, lasts for ever,
\* but for a connect or reconnect whose token another reconnect resets between
\* its two waits.
CallsReturn ==
  \A c \in Callers : waitsFor[c] # NoOp ~> waitsFor[c] = NoOp \/ ResetUnder(c)

\* "Set the maximum time to wait for an action to complete": connect and
\* reconnect, which wait with that limit, end.
TimeoutIsMaximum ==
  \A c \in Callers : waitsFor[c] = ConnOp ~> waitsFor[c] # ConnOp

\* "Most are launched in a separate thread, for convenience": a method that
\* runs on a thread of its own may make a blocking call.
TaskCallReturns == waitsFor[Task] # NoOp ~> waitsFor[Task] = NoOp
==============================================================================
