-------------------------- MODULE ThreadQueueProofs --------------------------
(***************************************************************************)
(* Proofs about ThreadQueue, for any threads, values and capacities.       *)
(***************************************************************************)
EXTENDS ThreadQueue, SequenceTheorems, TLAPS

\* What a thread that is not waiting may rely on.
LEMMA NotWaiting ==
  ASSUME TypeOK, NEW t \in Threads, pc[t] \notin {"put", "get"}
  PROVE  t \notin notEmptyCond /\ t \notin notFullCond
BY DEF TypeOK

\* Adding an item and leaving the call keeps the types.
LEMMA PushType ==
  ASSUME TypeOK, NEW t \in Threads, NEW x \in Items,
         t \notin notEmptyCond, t \notin notFullCond, Push(t, x)
  PROVE  TypeOK'
<1>1. que' \in Seq(Items) /\ sent' \in Seq(Items)
  BY AppendProperties DEF TypeOK, Push
<1>2. pc' \in [Threads -> Positions]
  BY DEF TypeOK, Push, Positions
<1>3. item' \in [Threads -> Items \union {NoItem}]
  BY DEF TypeOK, Push, Unblock
<1>4. deadline' \in [Threads -> {"none", "ahead", "passed"}]
  BY DEF TypeOK, Push, Unblock
<1>5. \A s \in Threads : s # t => pc'[s] = pc[s] /\ item'[s] = item[s]
  BY DEF TypeOK, Push, Unblock
<1>6. pc'[t] \in {"notifyNotEmpty", "idle"}
  BY DEF TypeOK, Push
<1>7. UNCHANGED <<cap, rcvd, notEmptyCond, notFullCond>>
  BY DEF Push
<1> QED
  BY <1>1, <1>2, <1>3, <1>4, <1>5, <1>6, <1>7 DEF TypeOK

\* So does removing one.
LEMMA PopType ==
  ASSUME TypeOK, NEW t \in Threads, que # <<>>,
         t \notin notEmptyCond, t \notin notFullCond, Pop(t)
  PROVE  TypeOK'
<1>1. que' \in Seq(Items) /\ rcvd' \in Seq(Items)
  BY HeadTailProperties, AppendProperties DEF TypeOK, Pop
<1>2. pc' \in [Threads -> Positions]
  BY DEF TypeOK, Pop, Positions
<1>3. item' \in [Threads -> Items \union {NoItem}]
  BY DEF TypeOK, Pop, Unblock
<1>4. deadline' \in [Threads -> {"none", "ahead", "passed"}]
  BY DEF TypeOK, Pop, Unblock
<1>5. \A s \in Threads : s # t => pc'[s] = pc[s] /\ item'[s] = item[s]
  BY DEF TypeOK, Pop, Unblock
<1>6. pc'[t] \in {"notifyNotFull", "idle"}
  BY DEF TypeOK, Pop
<1>7. UNCHANGED <<cap, sent, notEmptyCond, notFullCond>>
  BY DEF Pop
<1> QED
  BY <1>1, <1>2, <1>3, <1>4, <1>5, <1>6, <1>7 DEF TypeOK

----------------------------------------------------------------------------
(* The critical sections, freed of the operation they belong to.           *)

\* Only producers are blocked in a put and only consumers in a get.
Roles == \A t \in Threads : /\ pc[t] = "put" => t \in Producers
                            /\ pc[t] = "get" => t \in Consumers

Awake(t) == t \notin notEmptyCond /\ t \notin notFullCond

PushStep(t, x) ==
  /\ t \in Producers /\ x \in Items
  /\ pc[t] \in {"idle", "put"} /\ Awake(t)
  /\ ~Full /\ Push(t, x)

PopStep(t) ==
  /\ t \in Consumers
  /\ pc[t] \in {"idle", "get"} /\ Awake(t)
  /\ que # <<>> /\ Pop(t)

BlockInPutStep(t, x, limit) ==
  /\ t \in Producers /\ x \in Items /\ limit \in {"none", "ahead"}
  /\ pc[t] \in {"idle", "put"} /\ Awake(t)
  /\ Full /\ BlockInPut(t, x, limit)

BlockInGetStep(t, limit) ==
  /\ t \in Consumers /\ limit \in {"none", "ahead"}
  /\ pc[t] \in {"idle", "get"} /\ Awake(t)
  /\ que = <<>> /\ BlockInGet(t, limit)

GiveUpStep(t) ==
  /\ t \in Threads /\ Awake(t)
  /\ \/ pc[t] = "put" /\ Full
     \/ pc[t] = "get" /\ que = <<>>
  /\ GiveUp(t)

\* Every step is one of the critical sections, a notification, a wakeup, a
\* deadline that passes, or a change of the capacity.
LEMMA StepCases ==
  ASSUME TypeOK, Roles, Next
  PROVE  \/ \E t \in Threads, x \in Items : PushStep(t, x)
         \/ \E t \in Threads : PopStep(t)
         \/ \E t \in Threads, x \in Items, limit \in {"none", "ahead"} :
              BlockInPutStep(t, x, limit)
         \/ \E t \in Threads, limit \in {"none", "ahead"} :
              BlockInGetStep(t, limit)
         \/ \E t \in Threads : GiveUpStep(t)
         \/ \E t \in Threads : NotifyNotEmpty(t) \/ NotifyNotFull(t)
         \/ \E t \in Threads : SpuriousWake(t) \/ Timeout(t)
         \/ \E n \in NewCapacities : SetCapacity(n)
<1> USE DEF Threads
<1>1. ASSUME NEW t \in Producers, Produce(t)
      PROVE  \E x \in Items : \/ PushStep(t, x)
                              \/ \E l \in {"none", "ahead"} : BlockInPutStep(t, x, l)
  <2>1. pc[t] = "idle" /\ Awake(t)
    BY <1>1, NotWaiting DEF Produce, Put, TryPut, TimedPut, MayPut, Awake
  <2>2. PICK v \in Values : Put(t, v) \/ TryPut(t, v) \/ TimedPut(t, v)
    BY <1>1 DEF Produce
  <2>3. v \in Items /\ AddressOf(v) \in Items
    BY DEF Items
  <2>4. \/ ~Full /\ (Push(t, v) \/ Push(t, AddressOf(v)))
        \/ Full /\ (BlockInPut(t, v, "none") \/ BlockInPut(t, AddressOf(v), "ahead"))
    BY <2>2 DEF Put, TryPut, TimedPut
  <2> QED
    BY <2>1, <2>3, <2>4 DEF PushStep, BlockInPutStep
<1>2. ASSUME NEW t \in Consumers, Consume(t)
      PROVE  PopStep(t) \/ \E l \in {"none", "ahead"} : BlockInGetStep(t, l)
  <2>1. pc[t] = "idle" /\ Awake(t)
    BY <1>2, NotWaiting DEF Consume, Get, TryGet, TimedGet, Awake
  <2>2. \/ que # <<>> /\ Pop(t)
        \/ que = <<>> /\ (BlockInGet(t, "none") \/ BlockInGet(t, "ahead"))
    BY <1>2 DEF Consume, Get, TryGet, TimedGet
  <2> QED
    BY <2>1, <2>2 DEF PopStep, BlockInGetStep
<1>3. ASSUME NEW t \in Threads, ResumePut(t)
      PROVE  \/ \E x \in Items : \/ PushStep(t, x)
                                 \/ \E l \in {"none", "ahead"} : BlockInPutStep(t, x, l)
             \/ GiveUpStep(t)
  <2>1. pc[t] = "put" /\ Awake(t) /\ t \in Producers /\ item[t] \in Items
    BY <1>3 DEF ResumePut, TypeOK, Roles, Awake
  <2>2. deadline[t] # "passed" => deadline[t] \in {"none", "ahead"}
    BY DEF TypeOK
  <2> QED
    BY <1>3, <2>1, <2>2 DEF ResumePut, PushStep, BlockInPutStep, GiveUpStep
<1>4. ASSUME NEW t \in Threads, ResumeGet(t)
      PROVE  \/ PopStep(t)
             \/ \E l \in {"none", "ahead"} : BlockInGetStep(t, l)
             \/ GiveUpStep(t)
  <2>1. pc[t] = "get" /\ Awake(t) /\ t \in Consumers
    BY <1>4 DEF ResumeGet, TypeOK, Roles, Awake
  <2>2. deadline[t] # "passed" => deadline[t] \in {"none", "ahead"}
    BY DEF TypeOK
  <2> QED
    BY <1>4, <2>1, <2>2 DEF ResumeGet, PopStep, BlockInGetStep, GiveUpStep
<1> QED
  BY <1>1, <1>2, <1>3, <1>4 DEF Next, Proceed

----------------------------------------------------------------------------
(* Type correctness.                                                       *)

\* Every step keeps the types and the roles.
LEMMA TypeStep ==
  ASSUME TypeOK, Roles, [Next]_vars
  PROVE  TypeOK' /\ Roles'
<1>1. CASE UNCHANGED vars
  BY <1>1 DEF TypeOK, Roles, vars
<1>2. ASSUME NEW t \in Threads, NEW x \in Items, PushStep(t, x)
      PROVE  TypeOK' /\ Roles'
  <2>1. TypeOK'
    BY <1>2, PushType DEF PushStep, Awake
  <2>2. Roles'
    BY <1>2 DEF PushStep, Push, Roles, TypeOK
  <2> QED
    BY <2>1, <2>2
<1>3. ASSUME NEW t \in Threads, PopStep(t)
      PROVE  TypeOK' /\ Roles'
  <2>1. TypeOK'
    BY <1>3, PopType DEF PopStep, Awake
  <2>2. Roles'
    BY <1>3 DEF PopStep, Pop, Roles, TypeOK
  <2> QED
    BY <2>1, <2>2
<1>4. ASSUME NEW t \in Threads, NEW x \in Items, NEW limit \in {"none", "ahead"},
             BlockInPutStep(t, x, limit)
      PROVE  TypeOK' /\ Roles'
  <2>1. Roles'
    BY <1>4 DEF BlockInPutStep, BlockInPut, Roles, TypeOK
  <2>2. TypeOK'
    BY <1>4 DEF BlockInPutStep, BlockInPut, TypeOK, Positions, Awake
  <2> QED
    BY <2>1, <2>2
<1>5. ASSUME NEW t \in Threads, NEW limit \in {"none", "ahead"},
             BlockInGetStep(t, limit)
      PROVE  TypeOK' /\ Roles'
  BY <1>5 DEF BlockInGetStep, BlockInGet, Roles, TypeOK, Positions, Awake
<1>6. ASSUME NEW t \in Threads, GiveUpStep(t)
      PROVE  TypeOK' /\ Roles'
  BY <1>6 DEF GiveUpStep, GiveUp, Unblock, Roles, TypeOK, Positions, Awake
<1>7. ASSUME NEW t \in Threads, NotifyNotEmpty(t) \/ NotifyNotFull(t)
      PROVE  TypeOK' /\ Roles'
  <2>1. notEmptyCond' \subseteq notEmptyCond /\ notFullCond' \subseteq notFullCond
    BY <1>7 DEF NotifyNotEmpty, NotifyNotFull, WakeOne
  <2>2. /\ pc' = [pc EXCEPT ![t] = "idle"]
        /\ pc[t] \notin {"put", "get"}
        /\ UNCHANGED <<que, cap, sent, rcvd, item, deadline>>
    BY <1>7 DEF NotifyNotEmpty, NotifyNotFull
  <2> QED
    BY <2>1, <2>2 DEF TypeOK, Roles, Positions
<1>8. ASSUME NEW t \in Threads, SpuriousWake(t) \/ Timeout(t)
      PROVE  TypeOK' /\ Roles'
  BY <1>8 DEF SpuriousWake, Timeout, TypeOK, Roles
<1>9. ASSUME NEW n \in NewCapacities, SetCapacity(n)
      PROVE  TypeOK' /\ Roles'
  BY <1>9, CapacityAssumption DEF SetCapacity, callVars, TypeOK, Roles
<1> QED
  BY <1>1, <1>2, <1>3, <1>4, <1>5, <1>6, <1>7, <1>8, <1>9, StepCases

\* The constructor establishes them.
LEMMA TypeInit == Init => TypeOK /\ Roles
<1> SUFFICES ASSUME Init PROVE TypeOK /\ Roles
  OBVIOUS
<1>1. cap \in 0..MaxCapacity
  BY CapacityAssumption DEF Init, Constructed
<1> QED
  BY <1>1, EmptySeq DEF Init, TypeOK, Roles, Positions

\* The state keeps its types, and a thread waits in a condition variable only
\* inside the call that made it wait.
THEOREM TypeCorrect == Spec => []TypeOK
<1>1. Spec => [](TypeOK /\ Roles)
  BY TypeInit, TypeStep, PTL DEF Spec
<1> QED
  BY <1>1, PTL

----------------------------------------------------------------------------
(* First in, first out.                                                    *)

\* The steps that touch no end of the queue.
LEMMA OtherSteps ==
  ASSUME TypeOK, Roles, [Next]_vars,
         ~ \E t \in Threads, x \in Items : PushStep(t, x),
         ~ \E t \in Threads : PopStep(t)
  PROVE  UNCHANGED <<que, sent, rcvd>>
<1>1. CASE UNCHANGED vars
  BY <1>1 DEF vars
<1>2. CASE Next
  BY <1>2, StepCases DEF BlockInPutStep, BlockInPut, BlockInGetStep, BlockInGet,
       GiveUpStep, GiveUp, NotifyNotEmpty, NotifyNotFull, SpuriousWake, Timeout,
       SetCapacity
<1> QED
  BY <1>1, <1>2

\* Every step keeps what was put equal to what was got and what is held.
LEMMA FifoStep ==
  ASSUME TypeOK, Roles, FifoInv, [Next]_vars
  PROVE  FifoInv'
<1>1. ASSUME NEW t \in Threads, NEW x \in Items, PushStep(t, x)
      PROVE  FifoInv'
  <2>1. /\ que' = Append(que, x)
        /\ sent' = Append(sent, x)
        /\ rcvd' = rcvd
    BY <1>1 DEF PushStep, Push
  <2>2. <<x>> \in Seq(Items)
    OBVIOUS
  <2>3. que' = que \o <<x>> /\ sent' = sent \o <<x>>
    BY <2>1, AppendIsConcat DEF TypeOK
  <2>4. (rcvd \o que) \o <<x>> = rcvd \o (que \o <<x>>)
    BY <2>2, ConcatAssociative DEF TypeOK
  <2> QED
    BY <2>1, <2>3, <2>4 DEF FifoInv
<1>2. ASSUME NEW t \in Threads, PopStep(t)
      PROVE  FifoInv'
  <2>1. /\ que # <<>>
        /\ que' = Tail(que)
        /\ rcvd' = Append(rcvd, Head(que))
        /\ sent' = sent
    BY <1>2 DEF PopStep, Pop
  <2>2. Head(que) \in Items /\ Tail(que) \in Seq(Items)
    BY <2>1, HeadTailProperties DEF TypeOK
  <2>3. que = <<Head(que)>> \o Tail(que)
    BY <2>1, HeadTailProperties DEF TypeOK
  <2>4. rcvd' = rcvd \o <<Head(que)>>
    BY <2>1, <2>2, AppendIsConcat DEF TypeOK
  <2>5. (rcvd \o <<Head(que)>>) \o Tail(que) = rcvd \o (<<Head(que)>> \o Tail(que))
    BY <2>2, ConcatAssociative DEF TypeOK
  <2> QED
    BY <2>1, <2>3, <2>4, <2>5 DEF FifoInv
<1>3. CASE UNCHANGED <<que, sent, rcvd>>
  BY <1>3 DEF FifoInv
<1> QED
  BY <1>1, <1>2, <1>3, OtherSteps

\* Whatever the threads do, what was put is what was got followed by what is
\* in the queue: nothing is lost, duplicated or overtaken.
THEOREM FifoCorrect == Spec => []FifoInv
<1>1. Init => FifoInv
  BY ConcatEmptySeq, EmptySeq DEF Init, FifoInv
<1>2. Spec => [](TypeOK /\ Roles /\ FifoInv)
  BY <1>1, TypeInit, TypeStep, FifoStep, PTL DEF Spec
<1> QED
  BY <1>2, PTL

----------------------------------------------------------------------------
(* The queue implements the channel.                                       *)

\* Every step is a step of the channel, or leaves its history alone.
LEMMA ChannelStep ==
  ASSUME TypeOK, Roles, FifoInv, [Next]_vars
  PROVE  [Channel!ChanNext]_(Channel!chanVars)
<1> USE DEF Channel!ChanNext, Channel!chanVars
<1>1. Len(sent) - Len(rcvd) = Len(que)
  <2>1. Len(sent) = Len(rcvd) + Len(que)
    BY ConcatProperties DEF TypeOK, FifoInv
  <2> QED
    BY <2>1, LenProperties DEF TypeOK
<1>2. ASSUME NEW t \in Threads, NEW x \in Items, PushStep(t, x)
      PROVE  Channel!Send(x)
  <2>1. Len(que) < cap
    BY <1>2, LenProperties DEF PushStep, Full, TypeOK
  <2> QED
    BY <1>1, <1>2, <2>1 DEF PushStep, Push, Channel!Send, Channel!InTransit
<1>3. ASSUME NEW t \in Threads, PopStep(t)
      PROVE  Channel!Receive
  <2>1. que # <<>> /\ rcvd' = Append(rcvd, Head(que)) /\ UNCHANGED <<sent, cap>>
    BY <1>3 DEF PopStep, Pop
  <2>2. Len(que) > 0
    BY <2>1, EmptySeq DEF TypeOK
  <2>3. Len(que) \in Nat /\ Len(rcvd) \in Nat
    BY LenProperties DEF TypeOK
  <2>4. (rcvd \o que)[Len(rcvd) + 1] = que[(Len(rcvd) + 1) - Len(rcvd)]
    BY <2>2, <2>3, ConcatProperties DEF TypeOK
  <2>5. Head(que) = que[1]
    BY <2>1, <2>2 DEF TypeOK
  <2>6. (Len(rcvd) + 1) - Len(rcvd) = 1
    BY <2>3
  <2>7. Head(que) = sent[Len(rcvd) + 1]
    BY <2>4, <2>5, <2>6 DEF FifoInv
  <2> QED
    BY <1>1, <2>1, <2>2, <2>7 DEF Channel!Receive, Channel!InTransit
<1>4. CASE UNCHANGED <<que, sent, rcvd>>
  <2>1. CASE cap' = cap
    BY <1>4, <2>1
  <2>2. CASE cap' # cap
    <3>1. TypeOK'
      BY TypeStep
    <3>2. cap' \in 0..MaxCapacity
      BY <3>1 DEF TypeOK
    <3>3. Channel!SetLimit(cap')
      BY <1>4 DEF Channel!SetLimit
    <3> QED
      BY <3>2, <3>3
  <2> QED
    BY <2>1, <2>2
<1> QED
  BY <1>2, <1>3, <1>4, OtherSteps

\* Every behaviour of the queue is one of the bounded first-in first-out
\* channel: items are delivered once, in order, and one is accepted only
\* while fewer than the capacity are in transit, also after a wait.
THEOREM QueueImplementsChannel == Spec => ImplementsChannel
<1>1. Init => Channel!ChanInit
  BY TypeInit DEF Init, Channel!ChanInit, TypeOK
<1>2. Init => FifoInv
  BY ConcatEmptySeq, EmptySeq DEF Init, FifoInv
<1>3. TypeOK /\ Roles /\ FifoInv /\ [Next]_vars
        => [Channel!ChanNext]_(Channel!chanVars)
  BY ChannelStep
<1> QED
  BY <1>1, <1>2, <1>3, TypeInit, TypeStep, FifoStep, PTL
     DEF Spec, ImplementsChannel, Channel!ChanSpec

----------------------------------------------------------------------------
(* One consumer: no get sleeps beside a value.                             *)

GetterNotified ==
  notEmptyCond # {} /\ que # <<>>
    => \E t \in Threads : pc[t] = "notifyNotEmpty"

\* The notification owed to a single sleeping consumer is never lost.
LEMMA GetterStep ==
  ASSUME NEW c, Consumers = {c},
         TypeOK, Roles, GetterNotified, [Next]_vars
  PROVE  GetterNotified'
<1>0. notEmptyCond \subseteq {c}
  BY DEF TypeOK, Roles
<1>1. CASE UNCHANGED vars
  BY <1>1 DEF vars, GetterNotified
<1>2. ASSUME NEW t \in Threads, NEW x \in Items, PushStep(t, x)
      PROVE  GetterNotified'
  <2>1. CASE que = <<>>
    <3>1. pc'[t] = "notifyNotEmpty"
      BY <1>2, <2>1 DEF PushStep, Push, WakesGetter, TypeOK
    <3> QED
      BY <3>1 DEF GetterNotified
  <2>2. CASE que # <<>>
    <3>1. \A s \in Threads : pc[s] = "notifyNotEmpty" => pc'[s] = "notifyNotEmpty"
      BY <1>2 DEF PushStep, Push, TypeOK
    <3>2. notEmptyCond' = notEmptyCond
      BY <1>2 DEF PushStep, Push
    <3> QED
      BY <2>2, <3>1, <3>2 DEF GetterNotified
  <2> QED
    BY <2>1, <2>2
<1>3. ASSUME NEW t \in Threads, PopStep(t)
      PROVE  GetterNotified'
  <2>1. notEmptyCond' = {}
    BY <1>0, <1>3 DEF PopStep, Pop, Awake
  <2> QED
    BY <2>1 DEF GetterNotified
<1>4. ASSUME NEW t \in Threads, NEW x \in Items, NEW limit \in {"none", "ahead"},
             BlockInPutStep(t, x, limit)
      PROVE  GetterNotified'
  BY <1>4 DEF BlockInPutStep, BlockInPut, GetterNotified, TypeOK
<1>5. ASSUME NEW t \in Threads, NEW limit \in {"none", "ahead"},
             BlockInGetStep(t, limit)
      PROVE  GetterNotified'
  BY <1>5 DEF BlockInGetStep, BlockInGet, GetterNotified
<1>6. ASSUME NEW t \in Threads, GiveUpStep(t)
      PROVE  GetterNotified'
  BY <1>6 DEF GiveUpStep, GiveUp, GetterNotified, TypeOK
<1>7. ASSUME NEW t \in Threads, NotifyNotEmpty(t)
      PROVE  GetterNotified'
  <2>1. notEmptyCond' = {}
    BY <1>0, <1>7 DEF NotifyNotEmpty, WakeOne
  <2> QED
    BY <2>1 DEF GetterNotified
<1>8. ASSUME NEW t \in Threads, NotifyNotFull(t)
      PROVE  GetterNotified'
  BY <1>8 DEF NotifyNotFull, GetterNotified, TypeOK
<1>9. ASSUME NEW t \in Threads, SpuriousWake(t) \/ Timeout(t)
      PROVE  GetterNotified'
  BY <1>9 DEF SpuriousWake, Timeout, GetterNotified
<1>10. ASSUME NEW n \in NewCapacities, SetCapacity(n)
       PROVE  GetterNotified'
  BY <1>10 DEF SetCapacity, callVars, GetterNotified
<1> QED
  BY <1>1, <1>2, <1>3, <1>4, <1>5, <1>6, <1>7, <1>8, <1>9, <1>10, StepCases

\* With one consumer, whatever the number of producers and whatever is done
\* to the capacity, a get never sleeps beside a value that nobody tells it of.
THEOREM OneConsumerWakeup ==
  ASSUME NEW c, Consumers = {c}
  PROVE  Spec => []NoLostGetWakeup
<1>1. Init => GetterNotified
  BY DEF Init, GetterNotified
<1>2. TypeOK /\ Roles /\ GetterNotified /\ [Next]_vars => GetterNotified'
  BY GetterStep
<1>3. GetterNotified => NoLostGetWakeup
  BY DEF GetterNotified, NoLostGetWakeup, GetterStirs
<1> QED
  BY <1>1, <1>2, <1>3, TypeInit, TypeStep, PTL DEF Spec

----------------------------------------------------------------------------
(* One producer: no put sleeps beside room for its value.                  *)

PutterNotified ==
  notFullCond # {} /\ ~Full => \E t \in Threads : pc[t] = "notifyNotFull"

\* Unsigned cap_-1 is cap-1 as soon as the capacity is not 0.
LEMMA CapacityMinusOne ==
  ASSUME NEW n \in 1..MaxCapacity
  PROVE  (n - 1) % (MaxCapacity + 1) = n - 1
BY CapacityAssumption

\* A pop that makes room where there was none gives notice of it.
LEMMA PopGivesNotice ==
  ASSUME TypeOK, NEW t \in Threads, PopStep(t), Full, ~Full'
  PROVE  pc'[t] = "notifyNotFull"
<1>1. Len(que) \in Nat /\ Len(que') = Len(que) - 1 /\ cap' = cap /\ cap \in Nat
  BY HeadTailProperties, LenProperties DEF PopStep, Pop, TypeOK
<1>2. Len(que) = cap /\ cap \in 1..MaxCapacity
  BY <1>1, CapacityAssumption, EmptySeq DEF PopStep, Full, TypeOK
<1>3. WakesPutter
  BY <1>2, CapacityMinusOne DEF WakesPutter
<1> QED
  BY <1>3 DEF PopStep, Pop, TypeOK

\* Nor is the one owed to a single sleeping producer.
LEMMA PutterStep ==
  ASSUME NEW p, Producers = {p},
         TypeOK, Roles, PutterNotified, [Next /\ CarefulTuning]_vars
  PROVE  PutterNotified'
<1>0. notFullCond \subseteq {p}
  BY DEF TypeOK, Roles
<1>1. CASE UNCHANGED vars
  BY <1>1 DEF vars, PutterNotified, Full
<1>2. ASSUME NEW t \in Threads, NEW x \in Items, PushStep(t, x)
      PROVE  PutterNotified'
  <2>1. notFullCond' = {}
    BY <1>0, <1>2 DEF PushStep, Push, Awake
  <2> QED
    BY <2>1 DEF PutterNotified
<1>3. ASSUME NEW t \in Threads, PopStep(t)
      PROVE  PutterNotified'
  <2>1. CASE Full
    BY <1>3, <2>1, PopGivesNotice DEF PutterNotified
  <2>2. CASE ~Full
    <3>1. \A s \in Threads : pc[s] = "notifyNotFull" => pc'[s] = "notifyNotFull"
      BY <1>3 DEF PopStep, Pop, TypeOK
    <3>2. notFullCond' = notFullCond
      BY <1>3 DEF PopStep, Pop
    <3> QED
      BY <2>2, <3>1, <3>2 DEF PutterNotified
  <2> QED
    BY <2>1, <2>2
<1>4. ASSUME NEW t \in Threads, NEW x \in Items, NEW limit \in {"none", "ahead"},
             BlockInPutStep(t, x, limit)
      PROVE  PutterNotified'
  BY <1>4 DEF BlockInPutStep, BlockInPut, PutterNotified, Full
<1>5. ASSUME NEW t \in Threads, NEW limit \in {"none", "ahead"},
             BlockInGetStep(t, limit)
      PROVE  PutterNotified'
  BY <1>5 DEF BlockInGetStep, BlockInGet, PutterNotified, Full, TypeOK
<1>6. ASSUME NEW t \in Threads, GiveUpStep(t)
      PROVE  PutterNotified'
  BY <1>6 DEF GiveUpStep, GiveUp, PutterNotified, Full, TypeOK
<1>7. ASSUME NEW t \in Threads, NotifyNotFull(t)
      PROVE  PutterNotified'
  <2>1. notFullCond' = {}
    BY <1>0, <1>7 DEF NotifyNotFull, WakeOne
  <2> QED
    BY <2>1 DEF PutterNotified
<1>8. ASSUME NEW t \in Threads, NotifyNotEmpty(t)
      PROVE  PutterNotified'
  BY <1>8 DEF NotifyNotEmpty, PutterNotified, Full, TypeOK
<1>9. ASSUME NEW t \in Threads, SpuriousWake(t) \/ Timeout(t)
      PROVE  PutterNotified'
  BY <1>9 DEF SpuriousWake, Timeout, PutterNotified, Full
<1>10. ASSUME NEW n \in NewCapacities, SetCapacity(n), CarefulTuning
       PROVE  PutterNotified'
  <2>1. UNCHANGED <<que, pc, notFullCond>>
    BY <1>10 DEF SetCapacity, callVars
  <2>2. CASE notFullCond = {}
    BY <2>1, <2>2 DEF PutterNotified
  <2>3. CASE ~(cap' > cap)
    <3>1. cap \in Nat /\ cap' \in Nat /\ Len(que) \in Nat
      BY <1>10, CapacityAssumption, LenProperties DEF SetCapacity, TypeOK
    <3>2. ~Full' => ~Full
      BY <2>1, <2>3, <3>1 DEF Full
    <3> QED
      BY <2>1, <3>2 DEF PutterNotified
  <2> QED
    BY <1>10, <2>2, <2>3 DEF CarefulTuning
<1> QED
  BY <1>1, <1>2, <1>3, <1>4, <1>5, <1>6, <1>7, <1>8, <1>9, <1>10, StepCases

\* With one producer, whatever the number of consumers, a put never sleeps
\* beside room that nobody tells it of, provided the capacity is not raised
\* while it sleeps; the capacity may be lowered at any time, also to 0.
THEOREM OneProducerWakeup ==
  ASSUME NEW p, Producers = {p}
  PROVE  TunedSpec => []NoLostPutWakeup
<1>1. Init => PutterNotified
  BY DEF Init, PutterNotified
<1>2. TypeOK /\ Roles /\ PutterNotified /\ [Next /\ CarefulTuning]_vars
        => PutterNotified'
  BY PutterStep
<1>3. PutterNotified => NoLostPutWakeup
  BY DEF PutterNotified, NoLostPutWakeup, PutterStirs
<1>4. [Next /\ CarefulTuning]_vars => [Next]_vars
  OBVIOUS
<1> QED
  BY <1>1, <1>2, <1>3, <1>4, TypeInit, TypeStep, PTL DEF TunedSpec

----------------------------------------------------------------------------
(* Capacity 1: one notification per transition is enough for everybody.    *)

Single == cap = 1 /\ Len(que) <= 1

SingleInv == Single /\ NoLostGetWakeup /\ NoLostPutWakeup

\* With one slot, each transition between empty and full is announced, and
\* a notified thread is on its way until it has taken its turn.
LEMMA SingleStep ==
  ASSUME NewCapacities = {}, TypeOK, Roles, SingleInv, [Next]_vars
  PROVE  SingleInv'
<1>0. Len(que) \in Nat /\ (Full <=> que # <<>>)
  BY LenProperties, EmptySeq DEF SingleInv, Single, Full, TypeOK
<1>1. CASE UNCHANGED vars
  BY <1>1 DEF vars, SingleInv, Single, NoLostGetWakeup, NoLostPutWakeup,
       GetterStirs, PutterStirs, Full
<1>2. ASSUME NEW t \in Threads, NEW x \in Items, PushStep(t, x)
      PROVE  SingleInv'
  <2>1. que = <<>> /\ que' = Append(que, x) /\ cap' = cap
    BY <1>0, <1>2 DEF PushStep, Push
  <2>2. Len(que') = 1
    BY <2>1, AppendProperties, EmptySeq DEF TypeOK
  <2>3. Single' /\ Full'
    BY <2>1, <2>2 DEF SingleInv, Single, Full
  <2>4. pc'[t] = "notifyNotEmpty"
    BY <1>2, <2>1 DEF PushStep, Push, WakesGetter, TypeOK
  <2> QED
    BY <2>3, <2>4 DEF SingleInv, NoLostGetWakeup, NoLostPutWakeup, GetterStirs
<1>3. ASSUME NEW t \in Threads, PopStep(t)
      PROVE  SingleInv'
  <2>1. que # <<>> /\ que' = Tail(que) /\ cap' = cap
    BY <1>3 DEF PopStep, Pop
  <2>2. Len(que') = 0 /\ que' = <<>>
    <3>1. Len(que) = 1
      <4>1. que # <<>>
        BY <2>1
      <4>2. Len(que) >= 1 /\ Len(que) <= 1
        BY <1>0, <4>1 DEF SingleInv, Single, Full
      <4>3. Len(que) \in Nat
        BY <1>0
      <4>4. \A n \in Nat : n >= 1 /\ n <= 1 => n = 1
        OBVIOUS
      <4> QED
        BY <4>2, <4>3, <4>4
    <3>2. que' \in Seq(Items) /\ Len(que') = 0
      BY <2>1, <3>1, HeadTailProperties DEF TypeOK
    <3>3. \A s \in Seq(Items) : Len(s) = 0 => s = <<>>
      BY EmptySeq
    <3> QED
      BY <3>2, <3>3
  <2>3. Single' /\ ~Full'
    BY <2>1, <2>2 DEF SingleInv, Single, Full
  <2>4. pc'[t] = "notifyNotFull"
    BY <1>0, <1>3, <2>1, <2>3, PopGivesNotice
  <2> QED
    BY <2>2, <2>3, <2>4 DEF SingleInv, NoLostGetWakeup, NoLostPutWakeup, PutterStirs
<1>4. ASSUME NEW t \in Threads, NEW x \in Items, NEW limit \in {"none", "ahead"},
             BlockInPutStep(t, x, limit)
      PROVE  SingleInv'
  <2>1. /\ Full /\ UNCHANGED <<que, cap, notEmptyCond>>
        /\ pc[t] \in {"idle", "put"}
        /\ pc' = [pc EXCEPT ![t] = "put"]
    BY <1>4 DEF BlockInPutStep, BlockInPut
  <2>2. GetterStirs => GetterStirs'
    BY <2>1 DEF GetterStirs, TypeOK
  <2> QED
    BY <2>1, <2>2 DEF SingleInv, Single, NoLostGetWakeup, NoLostPutWakeup, Full
<1>5. ASSUME NEW t \in Threads, NEW limit \in {"none", "ahead"},
             BlockInGetStep(t, limit)
      PROVE  SingleInv'
  <2>1. /\ que = <<>> /\ UNCHANGED <<que, cap, notFullCond>>
        /\ pc[t] \in {"idle", "get"}
        /\ pc' = [pc EXCEPT ![t] = "get"]
    BY <1>5 DEF BlockInGetStep, BlockInGet
  <2>2. PutterStirs => PutterStirs'
    BY <2>1 DEF PutterStirs, TypeOK
  <2> QED
    BY <2>1, <2>2 DEF SingleInv, Single, NoLostGetWakeup, NoLostPutWakeup, Full
<1>6. ASSUME NEW t \in Threads, GiveUpStep(t)
      PROVE  SingleInv'
  <2>1. /\ UNCHANGED <<que, cap, notEmptyCond, notFullCond>>
        /\ pc' = [pc EXCEPT ![t] = "idle"]
        /\ \/ pc[t] = "put" /\ Full
           \/ pc[t] = "get" /\ que = <<>>
    BY <1>6 DEF GiveUpStep, GiveUp
  <2>2. CASE pc[t] = "put" /\ Full
    <3>1. GetterStirs => GetterStirs'
      BY <2>1, <2>2 DEF GetterStirs, TypeOK
    <3> QED
      BY <2>1, <2>2, <3>1 DEF SingleInv, Single, NoLostGetWakeup, NoLostPutWakeup, Full
  <2>3. CASE pc[t] = "get" /\ que = <<>>
    <3>1. PutterStirs => PutterStirs'
      BY <2>1, <2>3 DEF PutterStirs, TypeOK
    <3> QED
      BY <2>1, <2>3, <3>1 DEF SingleInv, Single, NoLostGetWakeup, NoLostPutWakeup, Full
  <2> QED
    BY <2>1, <2>2, <2>3
<1>7. ASSUME NEW t \in Threads, NotifyNotEmpty(t)
      PROVE  SingleInv'
  <2>1. /\ UNCHANGED <<que, cap, notFullCond>>
        /\ pc[t] = "notifyNotEmpty" /\ pc' = [pc EXCEPT ![t] = "idle"]
        /\ notEmptyCond' \in WakeOne(notEmptyCond)
    BY <1>7 DEF NotifyNotEmpty
  <2>2. PutterStirs => PutterStirs'
    BY <2>1 DEF PutterStirs, TypeOK
  <2>3. CASE notEmptyCond = {}
    BY <2>1, <2>2, <2>3
       DEF WakeOne, SingleInv, Single, NoLostGetWakeup, NoLostPutWakeup, Full
  <2>4. CASE notEmptyCond # {}
    <3>1. PICK w \in notEmptyCond : notEmptyCond' = notEmptyCond \ {w}
      BY <2>1, <2>4 DEF WakeOne
    <3>2. w \in Threads /\ pc[w] = "get"
      BY DEF TypeOK
    <3>3. pc'[w] = "get" /\ w \notin notEmptyCond'
      BY <2>1, <3>1, <3>2 DEF TypeOK
    <3>4. GetterStirs'
      BY <3>2, <3>3 DEF GetterStirs
    <3> QED
      BY <2>1, <2>2, <3>4 DEF SingleInv, Single, NoLostGetWakeup, NoLostPutWakeup, Full
  <2> QED
    BY <2>3, <2>4
<1>8. ASSUME NEW t \in Threads, NotifyNotFull(t)
      PROVE  SingleInv'
  <2>1. /\ UNCHANGED <<que, cap, notEmptyCond>>
        /\ pc[t] = "notifyNotFull" /\ pc' = [pc EXCEPT ![t] = "idle"]
        /\ notFullCond' \in WakeOne(notFullCond)
    BY <1>8 DEF NotifyNotFull
  <2>2. GetterStirs => GetterStirs'
    BY <2>1 DEF GetterStirs, TypeOK
  <2>3. CASE notFullCond = {}
    BY <2>1, <2>2, <2>3
       DEF WakeOne, SingleInv, Single, NoLostGetWakeup, NoLostPutWakeup, Full
  <2>4. CASE notFullCond # {}
    <3>1. PICK w \in notFullCond : notFullCond' = notFullCond \ {w}
      BY <2>1, <2>4 DEF WakeOne
    <3>2. w \in Threads /\ pc[w] = "put"
      BY DEF TypeOK
    <3>3. pc'[w] = "put" /\ w \notin notFullCond'
      BY <2>1, <3>1, <3>2 DEF TypeOK
    <3>4. PutterStirs'
      BY <3>2, <3>3 DEF PutterStirs
    <3> QED
      BY <2>1, <2>2, <3>4 DEF SingleInv, Single, NoLostGetWakeup, NoLostPutWakeup, Full
  <2> QED
    BY <2>3, <2>4
<1>9. ASSUME NEW t \in Threads, SpuriousWake(t) \/ Timeout(t)
      PROVE  SingleInv'
  <2>1. /\ UNCHANGED <<que, cap, pc>>
        /\ notEmptyCond' = notEmptyCond \ {t}
        /\ notFullCond' = notFullCond \ {t}
    BY <1>9 DEF SpuriousWake, Timeout
  <2>2. (GetterStirs => GetterStirs') /\ (PutterStirs => PutterStirs')
    BY <2>1 DEF GetterStirs, PutterStirs
  <2> QED
    BY <2>1, <2>2 DEF SingleInv, Single, NoLostGetWakeup, NoLostPutWakeup, Full
<1> QED
  BY <1>1, <1>2, <1>3, <1>4, <1>5, <1>6, <1>7, <1>8, <1>9, StepCases

\* A queue built with capacity 1 (or 0, which the constructor raises) that
\* keeps it: for any number of producers and consumers, no get sleeps beside
\* the value and no put beside the room unless somebody is on the way.
THEOREM SingleSlotWakeup ==
  ASSUME NewCapacities = {}, CtorArgs \subseteq {0, 1}
  PROVE  Spec => [](NoLostGetWakeup /\ NoLostPutWakeup)
<1>1. Init => SingleInv
  BY EmptySeq DEF Init, Constructed, SingleInv, Single, NoLostGetWakeup, NoLostPutWakeup
<1>2. TypeOK /\ Roles /\ SingleInv /\ [Next]_vars => SingleInv'
  BY SingleStep
<1>3. SingleInv => NoLostGetWakeup /\ NoLostPutWakeup
  BY DEF SingleInv
<1> QED
  BY <1>1, <1>2, <1>3, TypeInit, TypeStep, PTL DEF Spec
----------------------------------------------------------------------------
(* Getters and putters together.                                           *)

\* A get and a put never sleep beside each other unless some thread is on its
\* way to wake one of them.  A capacity of 0 leaves no item and no room.
NobodyStuck ==
  cap > 0 /\ notEmptyCond # {} /\ notFullCond # {} => GetterStirs \/ PutterStirs

\* A queue that has neither an item for the getter nor room for the putter has
\* the capacity 0, so one of the two is owed a notification.
LEMMA OneIsOwed ==
  ASSUME TypeOK, NoLostGetWakeup, NoLostPutWakeup
  PROVE  NobodyStuck
<1>1. CASE que = <<>>
  <2>1. cap > 0 => ~Full
    BY <1>1, EmptySeq DEF Full, TypeOK
  <2> QED
    BY <2>1 DEF NobodyStuck, NoLostPutWakeup
<1>2. CASE que # <<>>
  BY <1>2 DEF NobodyStuck, NoLostGetWakeup
<1> QED
  BY <1>1, <1>2

\* Between one producer and one consumer, which is how the asynchronous client
\* uses the queue, the two never wait for each other, provided the capacity is
\* not raised while a put sleeps.
THEOREM PairNeverStuck ==
  ASSUME NEW p, Producers = {p}, NEW c, Consumers = {c}
  PROVE  TunedSpec => []NobodyStuck
<1>1. TunedSpec => Spec
  <2>1. [Next /\ CarefulTuning]_vars => [Next]_vars
    OBVIOUS
  <2> QED
    BY <2>1, PTL DEF TunedSpec, Spec
<1>2. Spec => []NoLostGetWakeup
  BY OneConsumerWakeup
<1>3. TunedSpec => []NoLostPutWakeup
  BY OneProducerWakeup
<1>4. TypeOK /\ NoLostGetWakeup /\ NoLostPutWakeup => NobodyStuck
  BY OneIsOwed
<1> QED
  BY <1>1, <1>2, <1>3, <1>4, TypeCorrect, PTL

\* With capacity 1 the same for any number of producers and consumers.
THEOREM SlotNeverStuck ==
  ASSUME NewCapacities = {}, CtorArgs \subseteq {0, 1}
  PROVE  Spec => []NobodyStuck
<1>1. Spec => [](NoLostGetWakeup /\ NoLostPutWakeup)
  BY SingleSlotWakeup
<1>2. TypeOK /\ NoLostGetWakeup /\ NoLostPutWakeup => NobodyStuck
  BY OneIsOwed
<1> QED
  BY <1>1, <1>2, TypeCorrect, PTL
==============================================================================
