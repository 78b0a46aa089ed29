---------------------------- MODULE AbstractProofs ----------------------------
(***************************************************************************)
(* What the abstract specifications mean: an invariant of each, which the  *)
(* component that implements it inherits by the refinement.  The four      *)
(* share no variable.                                                      *)
(***************************************************************************)
EXTENDS Integers, Sequences, SequenceTheorems, TLAPS

CONSTANTS Items, Limits, Askers, Jobs, Requests, Messages, Reportable

VARIABLES sent, rcvd, limit,
          verdict, action, answer,
          submitted, begun, running, fence,
          offered, taken, pending, complete, reports

Channel == INSTANCE FifoChannel
Promised == INSTANCE Promise
Executor == INSTANCE SerialExecutor
Deliveries == INSTANCE Delivery

\* The front of a sequence is what it was when the sequence grows.
IsFront(s, t) == Len(s) <= Len(t) /\ \A i \in 1..Len(s) : s[i] = t[i]

LEMMA FrontGrows ==
  ASSUME NEW S, NEW s \in Seq(S), NEW t \in Seq(S), IsFront(s, t)
  PROVE  /\ \A x \in S : Append(t, x) \in Seq(S) /\ IsFront(s, Append(t, x))
         /\ Len(s) < Len(t) =>
              /\ Append(s, t[Len(s) + 1]) \in Seq(S)
              /\ IsFront(Append(s, t[Len(s) + 1]), t)
<1>1. ASSUME NEW x \in S
      PROVE  Append(t, x) \in Seq(S) /\ IsFront(s, Append(t, x))
  <2>1. /\ Append(t, x) \in Seq(S) /\ Len(Append(t, x)) = Len(t) + 1
        /\ \A i \in 1..Len(t) : Append(t, x)[i] = t[i]
    BY AppendProperties
  <2> QED
    BY <2>1 DEF IsFront
<1>2. ASSUME Len(s) < Len(t)
      PROVE  /\ Append(s, t[Len(s) + 1]) \in Seq(S)
             /\ IsFront(Append(s, t[Len(s) + 1]), t)
  <2> DEFINE y == t[Len(s) + 1]
  <2>1. Len(s) + 1 \in 1..Len(t) /\ y \in S
    BY <1>2
  <2>2. /\ Append(s, y) \in Seq(S) /\ Len(Append(s, y)) = Len(s) + 1
        /\ \A i \in 1..Len(s) : Append(s, y)[i] = s[i]
        /\ Append(s, y)[Len(s) + 1] = y
    BY <2>1, AppendProperties
  <2>3. ASSUME NEW i \in 1..Len(Append(s, y))
        PROVE  Append(s, y)[i] = t[i]
    <3>1. i \in 1..Len(s) \/ i = Len(s) + 1
      BY <2>2
    <3> QED
      BY <3>1, <2>2 DEF IsFront
  <2> QED
    BY <1>2, <2>2, <2>3 DEF IsFront
<1> QED
  BY <1>1, <1>2

----------------------------------------------------------------------------
(* FifoChannel.                                                            *)

Delivered ==
  /\ sent \in Seq(Items) /\ rcvd \in Seq(Items) /\ limit \in Limits
  /\ IsFront(rcvd, sent)

\* A thread_queue delivers what was put into it, each item once and in the
\* order of the puts, and never an item that is not there.
THEOREM ChannelDelivers == Channel!ChanSpec => []Delivered
<1>1. Channel!ChanInit => Delivered
  BY EmptySeq DEF Channel!ChanInit, Delivered, IsFront
<1>2. Delivered /\ [Channel!ChanNext]_(Channel!chanVars) => Delivered'
  <2> SUFFICES ASSUME Delivered, [Channel!ChanNext]_(Channel!chanVars) PROVE Delivered'
    OBVIOUS
  <2>1. ASSUME NEW x \in Items, Channel!Send(x)
        PROVE  Delivered'
    BY <2>1, FrontGrows DEF Channel!Send, Delivered
  <2>2. CASE Channel!Receive
    <3>1. Len(rcvd) < Len(sent)
      BY <2>2 DEF Channel!Receive, Channel!InTransit, Delivered
    <3> QED
      BY <2>2, <3>1, FrontGrows DEF Channel!Receive, Delivered
  <2>3. ASSUME NEW n \in Limits, Channel!SetLimit(n)
        PROVE  Delivered'
    BY <2>3 DEF Channel!SetLimit, Delivered
  <2>4. CASE UNCHANGED Channel!chanVars
    BY <2>4 DEF Channel!chanVars, Delivered
  <2> QED
    BY <2>1, <2>2, <2>3, <2>4 DEF Channel!ChanNext
<1> QED
  BY <1>1, <1>2, PTL DEF Channel!ChanSpec

Bounded == Channel!InTransit <= limit

LEMMA BoundedStep ==
  ASSUME Limits \subseteq Nat, Delivered, Bounded, Delivered',
         [Channel!ChanNext]_(Channel!chanVars), [limit' >= limit]_limit
  PROVE  Bounded'
<1>0. /\ Len(sent) \in Nat /\ Len(rcvd) \in Nat /\ limit \in Nat /\ limit' \in Nat
      /\ Len(sent') \in Nat /\ Len(rcvd') \in Nat
  BY DEF Delivered
<1>1. ASSUME NEW x \in Items, Channel!Send(x)
      PROVE  Bounded'
  <2>1. Len(sent') = Len(sent) + 1
    BY <1>1 DEF Channel!Send, Delivered
  <2> QED
    BY <1>0, <1>1, <2>1 DEF Channel!Send, Channel!InTransit, Bounded
<1>2. CASE Channel!Receive
  <2>1. Len(rcvd') = Len(rcvd) + 1
    BY <1>2 DEF Channel!Receive, Delivered
  <2> QED
    BY <1>0, <1>2, <2>1 DEF Channel!Receive, Channel!InTransit, Bounded
<1>3. ASSUME NEW n \in Limits, Channel!SetLimit(n)
      PROVE  Bounded'
  BY <1>0, <1>3 DEF Channel!SetLimit, Channel!InTransit, Bounded
<1>4. CASE UNCHANGED Channel!chanVars
  BY <1>4 DEF Channel!chanVars, Channel!InTransit, Bounded
<1> QED
  BY <1>1, <1>2, <1>3, <1>4 DEF Channel!ChanNext

\* If the limit only rises, no more than the limit is ever in transit.
THEOREM ChannelBounded ==
  ASSUME Limits \subseteq Nat
  PROVE  Channel!ChanSpec /\ [][limit' >= limit]_limit => []Bounded
<1>1. Channel!ChanInit => Bounded
  <2>1. Channel!ChanInit => Delivered
    BY EmptySeq DEF Channel!ChanInit, Delivered, IsFront
  <2> QED
    BY <2>1 DEF Channel!ChanInit, Channel!InTransit, Bounded
<1>2. Delivered /\ Bounded /\ Delivered' /\ [Channel!ChanNext]_(Channel!chanVars)
        => ([limit' >= limit]_limit => Bounded')
  BY BoundedStep
<1> QED
  BY <1>1, <1>2, ChannelDelivers, PTL DEF Channel!ChanSpec

----------------------------------------------------------------------------
(* Promise.                                                                *)

Final == {"true", "threw"}

\* An answer about an action that has ended says how, and an answer is never
\* about an action to come.
Told ==
  /\ action \in Nat /\ verdict \in Final \union {"none"}
  /\ answer \in [Askers -> [how : Final \union {"none", "false"}, action : Nat]]
  /\ \A a \in Askers :
       /\ answer[a].action <= action
       /\ answer[a].how \in Final /\ answer[a].action = action
            => answer[a].how = verdict

\* Who is told how an action ended is told the same, even if the token has
\* been used for another action in between.
Consistent ==
  \A a, b \in Askers :
    answer[a].how \in Final /\ answer[b].how \in Final
      => (answer[a].action = answer[b].action => answer[a].how = answer[b].how)

LEMMA TellTells ==
  ASSUME NEW a \in Askers, Told, Consistent, Promised!Tell(a, verdict) \/ Promised!Tell(a, "false"),
         verdict # "none" \/ Promised!Tell(a, "false"), UNCHANGED <<verdict, action>>
  PROVE  Told' /\ Consistent'
<1>1. PICK how \in Final \union {"false"} :
         /\ answer' = [answer EXCEPT ![a] = [how |-> how, action |-> action]]
         /\ how \in Final => how = verdict
  BY DEF Promised!Tell, Told, Final
<1>2. /\ answer' \in [Askers -> [how : Final \union {"none", "false"}, action : Nat]]
      /\ answer'[a].how = how /\ answer'[a].action = action
      /\ \A b \in Askers \ {a} : answer'[b] = answer[b]
  BY <1>1 DEF Told
<1>3. Told'
  BY <1>1, <1>2 DEF Told
<1>4. Consistent'
  <2> SUFFICES ASSUME NEW b \in Askers, NEW c \in Askers,
                      answer'[b].how \in Final, answer'[c].how \in Final,
                      answer'[b].action = answer'[c].action
               PROVE  answer'[b].how = answer'[c].how
    BY DEF Consistent
  <2>1. CASE b # a /\ c # a
    BY <1>2, <2>1 DEF Consistent
  <2>2. CASE b = a \/ c = a
    <3>1. answer'[b].how = verdict /\ answer'[c].how = verdict
      BY <1>1, <1>2, <2>2 DEF Told
    <3> QED
      BY <3>1
  <2> QED
    BY <2>1, <2>2
<1> QED
  BY <1>3, <1>4

\* All the threads that ask a token about one action are told the same.
THEOREM PromiseConsistent == Promised!Spec => []Consistent
<1>1. Promised!Init => Told /\ Consistent
  <2> SUFFICES ASSUME Promised!Init PROVE Told /\ Consistent
    OBVIOUS
  <2>1. \A a \in Askers : answer[a].how = "none" /\ answer[a].action = 0
    BY DEF Promised!Init
  <2>2. "none" \notin Final
    BY DEF Final
  <2>3. answer \in [Askers -> [how : Final \union {"none", "false"}, action : Nat]]
    BY DEF Promised!Init
  <2> QED
    BY <2>1, <2>2, <2>3 DEF Promised!Init, Told, Consistent
<1>2. Told /\ Consistent /\ [Promised!Next]_(Promised!vars) => Told' /\ Consistent'
  <2> SUFFICES ASSUME Told, Consistent, [Promised!Next]_(Promised!vars)
               PROVE  Told' /\ Consistent'
    OBVIOUS
  <2>1. CASE Promised!Decide
    BY <2>1 DEF Promised!Decide, Told, Consistent, Final
  <2>2. CASE Promised!Again
    BY <2>2 DEF Promised!Again, Told, Consistent, Final
  <2>3. ASSUME NEW a \in Askers, Promised!Answer(a) \/ Promised!GiveUp(a)
        PROVE  Told' /\ Consistent'
    BY <2>3, TellTells DEF Promised!Answer, Promised!GiveUp
  <2>4. CASE UNCHANGED Promised!vars
    BY <2>4 DEF Promised!vars, Told, Consistent
  <2> QED
    BY <2>1, <2>2, <2>3, <2>4 DEF Promised!Next
<1> QED
  BY <1>1, <1>2, PTL DEF Promised!Spec

----------------------------------------------------------------------------
(* SerialExecutor.                                                         *)

\* Jobs begin in the order of submission, and an answer that has not been
\* passed on yet stands at its place: no job that came after it has begun.
InTurn ==
  /\ submitted \in Seq(Jobs) /\ begun \in Seq(Jobs) /\ running \in BOOLEAN
  /\ IsFront(begun, submitted)
  /\ fence \in [Requests -> Nat \union {Executor!NoFence}]
  /\ \A r \in Requests :
       fence[r] # Executor!NoFence => fence[r] \in Len(begun)..Len(submitted)

\* The callbacks begin in the order of the events, and no callback for an
\* event behind an answer begins before the request it answers has gone on.
THEOREM ExecutorKeepsTurns == Executor!Spec => []InTurn
<1>1. Executor!Init => InTurn
  <2> SUFFICES ASSUME Executor!Init PROVE InTurn
    OBVIOUS
  <2>1. <<>> \in Seq(Jobs) /\ IsFront(<<>>, <<>>)
    BY EmptySeq DEF IsFront
  <2> QED
    BY <2>1 DEF Executor!Init, InTurn
<1>2. InTurn /\ [Executor!Next]_(Executor!vars) => InTurn'
  <2> SUFFICES ASSUME InTurn, [Executor!Next]_(Executor!vars) PROVE InTurn'
    OBVIOUS
  <2>0. /\ Len(begun) \in Nat /\ Len(submitted) \in Nat
        /\ Len(begun) <= Len(submitted)
    BY DEF InTurn, IsFront
  <2>1. ASSUME NEW j \in Jobs, Executor!Submit(j)
        PROVE  InTurn'
    <3>1. submitted' \in Seq(Jobs) /\ IsFront(begun, submitted')
      BY <2>1, FrontGrows DEF Executor!Submit, InTurn
    <3>2. Len(submitted') = Len(submitted) + 1
      BY <2>1 DEF Executor!Submit, InTurn
    <3> QED
      BY <2>0, <2>1, <3>1, <3>2 DEF Executor!Submit, InTurn
  <2>2. CASE Executor!Begin
    <3>1. begun' \in Seq(Jobs) /\ IsFront(begun', submitted)
      BY <2>2, FrontGrows DEF Executor!Begin, InTurn
    <3>2. Len(begun') = Len(begun) + 1
      BY <2>2, <2>0 DEF Executor!Begin, InTurn
    <3>3. ASSUME NEW r \in Requests, fence[r] # Executor!NoFence
          PROVE  fence[r] \in Len(begun')..Len(submitted)
      BY <2>0, <2>2, <3>2, <3>3 DEF Executor!Begin, InTurn, Executor!NoFence
    <3> QED
      BY <2>2, <3>1, <3>3 DEF Executor!Begin, InTurn
  <2>3. CASE Executor!End
    BY <2>3 DEF Executor!End, InTurn
  <2>4. ASSUME NEW r \in Requests, Executor!Answer(r)
        PROVE  InTurn'
    BY <2>0, <2>4 DEF Executor!Answer, InTurn
  <2>5. ASSUME NEW r \in Requests, Executor!GoOn(r)
        PROVE  InTurn'
    BY <2>5 DEF Executor!GoOn, InTurn, Executor!NoFence
  <2>6. CASE UNCHANGED Executor!vars
    BY <2>6 DEF Executor!vars, InTurn
  <2> QED
    BY <2>1, <2>2, <2>3, <2>4, <2>5, <2>6 DEF Executor!Next
<1> QED
  BY <1>1, <1>2, PTL DEF Executor!Spec

----------------------------------------------------------------------------
(* Delivery.                                                               *)

\* A message that the library has and that is not complete is pending; one
\* that was reported is not pending, and was complete if the library had it.
Accounted ==
  /\ taken \subseteq offered /\ pending \subseteq offered /\ complete \subseteq taken
  /\ taken \ complete \subseteq pending
  /\ reports \in [Messages -> 0..1]
  /\ \A m \in Messages : reports[m] = 1 =>
       /\ m \in Reportable \intersect offered /\ m \notin pending
       /\ m \in taken => m \in complete

\* What an application sees of its messages always adds up: nothing that is in
\* flight is missing from the pending deliveries, nothing is reported twice or
\* while it is still pending.
THEOREM DeliveryAccounts == Deliveries!Spec => []Accounted
<1>1. Deliveries!Init => Accounted
  BY DEF Deliveries!Init, Accounted
<1>2. Accounted /\ [Deliveries!Next]_(Deliveries!vars) => Accounted'
  <2> SUFFICES ASSUME Accounted, [Deliveries!Next]_(Deliveries!vars) PROVE Accounted'
    OBVIOUS
  <2>1. ASSUME NEW m \in Messages, Deliveries!Offer(m)
        PROVE  Accounted'
    BY <2>1 DEF Deliveries!Offer, Accounted
  <2>2. ASSUME NEW m \in Messages, Deliveries!Take(m)
        PROVE  Accounted'
    BY <2>2 DEF Deliveries!Take, Accounted
  <2>3. ASSUME NEW m \in Messages, Deliveries!Withdraw(m)
        PROVE  Accounted'
    BY <2>3 DEF Deliveries!Withdraw, Deliveries!Report, Accounted
  <2>4. ASSUME NEW m \in Messages, Deliveries!Complete(m)
        PROVE  Accounted'
    BY <2>4 DEF Deliveries!Complete, Accounted
  <2>5. ASSUME NEW m \in Messages, Deliveries!Leave(m)
        PROVE  Accounted'
    BY <2>5 DEF Deliveries!Leave, Accounted
  <2>6. ASSUME NEW m \in Messages, Deliveries!DeliveryComplete(m)
        PROVE  Accounted'
    BY <2>6 DEF Deliveries!DeliveryComplete, Deliveries!Report, Accounted
  <2>7. CASE UNCHANGED Deliveries!vars
    BY <2>7 DEF Deliveries!vars, Accounted
  <2> QED
    BY <2>1, <2>2, <2>3, <2>4, <2>5, <2>6, <2>7 DEF Deliveries!Next
<1> QED
  BY <1>1, <1>2, PTL DEF Deliveries!Spec
===============================================================================
