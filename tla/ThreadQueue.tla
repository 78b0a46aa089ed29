----------------------------- MODULE ThreadQueue -----------------------------
(***************************************************************************)
(* mqtt::thread_queue<T> (src/src/mqtt_paho/headers/thread_queue.h): a     *)
(* queue under one mutex with two condition variables.                     *)
(*                                                                         *)
(* Everything a thread does while it holds lock_ is one action; the wait   *)
(* on a condition variable ends the action and the return from the wait    *)
(* starts another; notify_one(), which the code calls after it has         *)
(* released lock_, is an action of its own.  A try_ call that fails and    *)
(* the observers empty(), size() and capacity() change nothing and are     *)
(* stuttering steps.                                                       *)
(***************************************************************************)
EXTENDS Integers, Sequences, FiniteSets

CONSTANTS Producers,    \* threads that put
          Consumers,    \* threads that get (a thread may do both)
          Values,       \* the values of type T the producers put
          NoItem,       \* the argument of a thread that is in no put
          MaxCapacity,  \* MAX_CAPACITY, the largest size_type
          CtorArgs,     \* arguments given to the constructor
          NewCapacities,\* arguments given to capacity(cap)
          MaxPuts       \* bound of the model: calls of put and its variants

ASSUME CapacityAssumption ==
  /\ MaxCapacity \in Nat \ {0}
  /\ CtorArgs \subseteq 0..MaxCapacity
  /\ NewCapacities \subseteq 0..MaxCapacity

ASSUME BoundAssumption == MaxPuts \in Nat

VARIABLES que,          \* que_
          cap,          \* cap_
          notEmptyCond, \* the threads waiting in notEmptyCond_
          notFullCond,  \* the threads waiting in notFullCond_
          pc,           \* where each thread is
          item,         \* the argument of each thread's blocked put
          deadline,     \* the time limit of each thread's blocked call
          sent, rcvd    \* history: what entered the queue, what left it

callVars == <<notEmptyCond, notFullCond, pc, item, deadline>>
vars == <<que, cap, notEmptyCond, notFullCond, pc, item, deadline, sent, rcvd>>

Threads == Producers \union Consumers

\* try_put_for and try_put_until take a T*, and hand that pointer itself to
\* que_.emplace: what they enqueue is built from the address of the value.
AddressOf(v) == [addr |-> v]
Items == Values \union {AddressOf(v) : v \in Values}

\* "put" and "get": inside the blocked call, waiting or just woken.
Positions == {"idle", "put", "get", "notifyNotEmpty", "notifyNotFull"}
Blocked(t) == pc[t] \in {"put", "get"}

TypeOK ==
  /\ que \in Seq(Items)
  /\ cap \in 0..MaxCapacity
  /\ pc \in [Threads -> Positions]
  /\ item \in [Threads -> Items \union {NoItem}]
  /\ \A t \in Threads : pc[t] = "put" => item[t] \in Items
  /\ deadline \in [Threads -> {"none", "ahead", "passed"}]
  /\ notEmptyCond \subseteq {t \in Threads : pc[t] = "get"}
  /\ notFullCond \subseteq {t \in Threads : pc[t] = "put"}
  /\ sent \in Seq(Items)
  /\ rcvd \in Seq(Items)

----------------------------------------------------------------------------
(* The pieces the operations share.                                        *)

\* The constructor raises its argument to 1; the setter does not.
Constructed(n) == IF n < 1 THEN 1 ELSE n

Full == Len(que) >= cap

Mut_WasEmptyAfterEmplace == Len(que) + 1 = 0

\* wasEmpty, taken before the emplace: only then is a getter notified.
WakesGetter == que = <<>>

Mut_NotifyAtCapacity == Len(que) - 1 = cap

\* que_.size() == cap_-1 after the pop, in unsigned arithmetic.
WakesPutter == Len(que) - 1 = (cap - 1) % (MaxCapacity + 1)

\* notify_one: one of the waiting threads, if there is one, stops waiting.
WakeOne(waiting) ==
  IF waiting = {} THEN {{}} ELSE {waiting \ {w} : w \in waiting}

\* The thread is out of the call that blocked it, if one did.
Unblock(t) ==
  /\ item' = [item EXCEPT ![t] = NoItem]
  /\ deadline' = [deadline EXCEPT ![t] = "none"]

Push(t, x) ==
  /\ que' = Append(que, x)
  /\ sent' = Append(sent, x)
  /\ pc' = [pc EXCEPT ![t] = IF WakesGetter THEN "notifyNotEmpty" ELSE "idle"]
  /\ Unblock(t)
  /\ UNCHANGED <<cap, rcvd, notEmptyCond, notFullCond>>

Mut_PopKeepsFront(t) ==
  /\ que' = que
  /\ rcvd' = Append(rcvd, Head(que))
  /\ pc' = [pc EXCEPT ![t] = IF WakesPutter THEN "notifyNotFull" ELSE "idle"]
  /\ Unblock(t)
  /\ UNCHANGED <<cap, sent, notEmptyCond, notFullCond>>

Pop(t) ==
  /\ que' = Tail(que)
  /\ rcvd' = Append(rcvd, Head(que))
  /\ pc' = [pc EXCEPT ![t] = IF WakesPutter THEN "notifyNotFull" ELSE "idle"]
  /\ Unblock(t)
  /\ UNCHANGED <<cap, sent, notEmptyCond, notFullCond>>

\* The call finds the queue full (empty) and waits, with or without a limit.
BlockInPut(t, x, limit) ==
  /\ pc' = [pc EXCEPT ![t] = "put"]
  /\ item' = [item EXCEPT ![t] = x]
  /\ deadline' = [deadline EXCEPT ![t] = limit]
  /\ notFullCond' = notFullCond \union {t}
  /\ UNCHANGED <<que, cap, sent, rcvd, notEmptyCond>>

BlockInGet(t, limit) ==
  /\ pc' = [pc EXCEPT ![t] = "get"]
  /\ deadline' = [deadline EXCEPT ![t] = limit]
  /\ notEmptyCond' = notEmptyCond \union {t}
  /\ UNCHANGED <<que, cap, sent, rcvd, item, notFullCond>>

\* The bound of the model: no new put once MaxPuts were made.
MayPut(t) ==
  /\ pc[t] = "idle"
  /\ Len(sent) + Cardinality({p \in Producers : pc[p] = "put"}) < MaxPuts

----------------------------------------------------------------------------
(* The operations, up to their wait or their end.                          *)

Put(t, v) ==
  /\ MayPut(t)
  /\ \/ Full /\ BlockInPut(t, v, "none")
     \/ ~Full /\ Push(t, v)

TryPut(t, v) ==
  /\ MayPut(t)
  /\ ~Full
  /\ Push(t, v)

TimedPut(t, v) ==
  /\ MayPut(t)
  /\ \/ Full /\ BlockInPut(t, AddressOf(v), "ahead")
     \/ ~Full /\ Push(t, AddressOf(v))

Get(t) ==
  /\ pc[t] = "idle"
  /\ \/ que = <<>> /\ BlockInGet(t, "none")
     \/ que # <<>> /\ Pop(t)

TryGet(t) ==
  /\ pc[t] = "idle"
  /\ que # <<>>
  /\ Pop(t)

TimedGet(t) ==
  /\ pc[t] = "idle"
  /\ \/ que = <<>> /\ BlockInGet(t, "ahead")
     \/ que # <<>> /\ Pop(t)

SetCapacity(n) ==
  /\ cap' = n
  /\ UNCHANGED <<que, sent, rcvd, callVars>>

----------------------------------------------------------------------------
(* A blocked call: how its wait ends, and what it does with the lock back. *)

\* The waiting thread re-tests the predicate of its wait: it goes on if it
\* holds, gives up if its deadline has passed, and waits again otherwise.
Mut_RestartTimer(t) ==
  /\ deadline[t] = "passed"
  /\ deadline' = [deadline EXCEPT ![t] = "ahead"]
  /\ UNCHANGED <<que, cap, sent, rcvd, pc, item, notEmptyCond, notFullCond>>

GiveUp(t) ==
  /\ deadline[t] = "passed"
  /\ pc' = [pc EXCEPT ![t] = "idle"]
  /\ Unblock(t)
  /\ UNCHANGED <<que, cap, sent, rcvd, notEmptyCond, notFullCond>>

Mut_WaitWithoutPredicate(t) ==
  /\ pc[t] = "put" /\ t \notin notFullCond
  /\ Push(t, item[t])

Mut_PutWithoutWaking(t) ==
  /\ pc[t] = "put" /\ ~Full
  /\ Push(t, item[t])

ResumePut(t) ==
  /\ pc[t] = "put" /\ t \notin notFullCond
  /\ \/ ~Full /\ Push(t, item[t])
     \/ Full /\ GiveUp(t)
     \/ Full /\ deadline[t] # "passed" /\ BlockInPut(t, item[t], deadline[t])

ResumeGet(t) ==
  /\ pc[t] = "get" /\ t \notin notEmptyCond
  /\ \/ que # <<>> /\ Pop(t)
     \/ que = <<>> /\ GiveUp(t)
     \/ que = <<>> /\ deadline[t] # "passed" /\ BlockInGet(t, deadline[t])

NotifyNotEmpty(t) ==
  /\ pc[t] = "notifyNotEmpty"
  /\ pc' = [pc EXCEPT ![t] = "idle"]
  /\ notEmptyCond' \in WakeOne(notEmptyCond)
  /\ UNCHANGED <<que, cap, sent, rcvd, item, deadline, notFullCond>>

NotifyNotFull(t) ==
  /\ pc[t] = "notifyNotFull"
  /\ pc' = [pc EXCEPT ![t] = "idle"]
  /\ notFullCond' \in WakeOne(notFullCond)
  /\ UNCHANGED <<que, cap, sent, rcvd, item, deadline, notEmptyCond>>

\* A condition variable may wake a thread nobody notified.
SpuriousWake(t) ==
  /\ t \in notEmptyCond \union notFullCond
  /\ notEmptyCond' = notEmptyCond \ {t}
  /\ notFullCond' = notFullCond \ {t}
  /\ UNCHANGED <<que, cap, sent, rcvd, pc, item, deadline>>

\* wait_for and wait_until return at the deadline, notified or not.
Timeout(t) ==
  /\ deadline[t] = "ahead"
  /\ deadline' = [deadline EXCEPT ![t] = "passed"]
  /\ notEmptyCond' = notEmptyCond \ {t}
  /\ notFullCond' = notFullCond \ {t}
  /\ UNCHANGED <<que, cap, sent, rcvd, pc, item>>

----------------------------------------------------------------------------
Init ==
  /\ que = <<>>
  /\ cap \in {Constructed(n) : n \in CtorArgs}
  /\ pc = [t \in Threads |-> "idle"]
  /\ item = [t \in Threads |-> NoItem]
  /\ deadline = [t \in Threads |-> "none"]
  /\ notEmptyCond = {} /\ notFullCond = {}
  /\ sent = <<>> /\ rcvd = <<>>

Produce(t) == \E v \in Values : Put(t, v) \/ TryPut(t, v) \/ TimedPut(t, v)
Consume(t) == Get(t) \/ TryGet(t) \/ TimedGet(t)
Proceed(t) ==
  \/ ResumePut(t)
  \/ ResumeGet(t)
  \/ NotifyNotEmpty(t)
  \/ NotifyNotFull(t)

Next ==
  \/ \E t \in Producers : Produce(t)
  \/ \E t \in Consumers : Consume(t)
  \/ \E t \in Threads : Proceed(t) \/ SpuriousWake(t) \/ Timeout(t)
  \/ \E n \in NewCapacities : SetCapacity(n)

Spec == Init /\ [][Next]_vars

\* Fairness of the runtime: a woken thread gets the lock and goes on, a
\* thread that released the lock gets to its notify_one, deadlines pass.
\* Nobody owes a call, and the implementation owes no spurious wakeup.
Fairness == \A t \in Threads : WF_vars(Proceed(t)) /\ WF_vars(Timeout(t))
FairSpec == Spec /\ Fairness

\* The capacity is raised only while no put waits.
CarefulTuning == cap' > cap => notFullCond = {}
TunedSpec == Init /\ [][Next /\ CarefulTuning]_vars
FairTunedSpec == TunedSpec /\ Fairness

----------------------------------------------------------------------------
(* Safety.                                                                 *)

\* Nothing is lost, duplicated or reordered between the puts and the gets,
\* whichever of them blocked, timed out or was woken for nothing.
FifoInv == sent = rcvd \o que

\* Somebody is about to wake a waiting get, or a woken one is on its way.
GetterStirs ==
  \E t \in Threads : \/ pc[t] = "notifyNotEmpty"
                     \/ pc[t] = "get" /\ t \notin notEmptyCond

PutterStirs ==
  \E t \in Threads : \/ pc[t] = "notifyNotFull"
                     \/ pc[t] = "put" /\ t \notin notFullCond

\* No get sleeps beside a value: put notifies only when the queue was empty,
\* and that must be enough for the getters that wait.
NoLostGetWakeup == notEmptyCond # {} /\ que # <<>> => GetterStirs

\* No put sleeps beside room for its value: get notifies only when it brings
\* the size to cap_-1, and that must be enough for the putters that wait.
NoLostPutWakeup == notFullCond # {} /\ ~Full => PutterStirs

(* Refinement: the queue is the channel of FifoChannel. *)
Channel == INSTANCE FifoChannel
             WITH Items <- Items, Limits <- 0..MaxCapacity, limit <- cap
ImplementsChannel == Channel!ChanSpec

----------------------------------------------------------------------------
(* Liveness.                                                               *)

\* "block indefinitely until a value is added": a blocked get does not stay
\* blocked while the queue stays nonempty.
GetReturns ==
  \A t \in Threads :
    pc[t] = "get" /\ que # <<>> ~> pc[t] # "get" \/ que = <<>>

\* "block the caller until items are removed bringing the size less than the
\* capacity": a blocked put does not stay blocked while there stays room.
PutReturns ==
  \A t \in Threads : pc[t] = "put" /\ ~Full ~> pc[t] # "put" \/ Full

\* A call with a time limit always comes back.
TimedCallReturns == \A t \in Threads : deadline[t] = "ahead" ~> ~Blocked(t)
==============================================================================
