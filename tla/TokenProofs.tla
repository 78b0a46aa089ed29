----------------------------- MODULE TokenProofs -----------------------------
(***************************************************************************)
(* Proofs about Token, for any waiting threads, listeners and responses.   *)
(***************************************************************************)
EXTENDS Token, TLAPS

\* What a step does to the waits: it leaves them alone, or one thread w
\* returns with the outcome, returns false, blocks, or stops sleeping.
Hows == {"none", "true", "false", "threw", "missing"}
Results == [how : Hows, round : Nat, codes : Nat]

\* A result of the current action matches its outcome, and a result is never
\* newer than the action.
ResultOK(w) ==
  /\ result[w].round <= round
  /\ result[w].round = round /\ result[w].how \in {"true", "threw"}
       => /\ complete
          /\ result[w].how = IF Throws(outcome) THEN "threw" ELSE "true"

ResultsOK == \A w \in Waiters : ResultOK(w)

\* Only the token of a connect is used again, and an acknowledgment without
\* codes leaves none.
OneAction ==
  /\ request.type # "connect" => round = 1
  /\ ~HasCodes => response \in {0, NoResponse}

IInv ==
  TypeOK /\ ResultsOK /\ Agreement /\ NoLostCompletion /\ OneAction /\ CodePerTopic

----------------------------------------------------------------------------
\* A thread that waits or polls keeps the types.
LEMMA ReturnType ==
  ASSUME TypeOK, NEW w \in Waiters, w \notin waiting, NEW wanted \in BOOLEAN,
         Return(w, wanted) \/ ReturnFalse(w),
         UNCHANGED <<waiting, tokenVars, libVars>>
  PROVE  TypeOK'
<1>1. pc' \in [Waiters -> {"idle", "wait"}] /\ \A v \in Waiters : v # w => pc'[v] = pc[v]
  BY DEF TypeOK, Return, ReturnFalse
<1>2. deadline' \in [Waiters -> {"none", "ahead", "passed"}]
  BY DEF TypeOK, Return, ReturnFalse
<1>3. result' \in [Waiters -> Results]
  <2>1. CASE ReturnFalse(w)
    BY <2>1 DEF TypeOK, ReturnFalse, Results, Hows
  <2>2. CASE Return(w, wanted)
    <3>1. Ending(wanted) \in Hows
      BY DEF Ending, Hows
    <3>2. wanted /\ Ending(wanted) = "true" => response \in Nat
      BY DEF Ending, TypeOK
    <3>3. [how |-> Ending(wanted), round |-> round,
           codes |-> IF wanted /\ Ending(wanted) = "true" THEN response ELSE 0] \in Results
      BY <3>1, <3>2 DEF Results, TypeOK
    <3>4. result \in [Waiters -> Results]
      BY DEF TypeOK, Results, Hows
    <3> QED
      BY <2>2, <3>3, <3>4 DEF Return
  <2> QED
    BY <2>1, <2>2
<1>4. asking' \subseteq {v \in Waiters : pc'[v] = "wait"}
  BY <1>1 DEF TypeOK, Return, ReturnFalse
<1> QED
  BY <1>1, <1>2, <1>3, <1>4 DEF TypeOK, tokenVars, libVars, Results, Hows

\* A thread that blocks keeps the types.
LEMMA BlockType ==
  ASSUME TypeOK, NEW w \in Waiters, NEW limit \in {"none", "ahead"},
         NEW wanted \in BOOLEAN,
         Block(w, limit, wanted), UNCHANGED <<tokenVars, libVars>>
  PROVE  TypeOK'
<1>1. pc' \in [Waiters -> {"idle", "wait"}] /\ pc'[w] = "wait"
  BY DEF TypeOK, Block
<1>2. \A v \in Waiters : v # w => pc'[v] = pc[v]
  BY DEF TypeOK, Block
<1>3. deadline' \in [Waiters -> {"none", "ahead", "passed"}]
  BY DEF TypeOK, Block
<1>4. waiting' \subseteq {v \in Waiters : pc'[v] = "wait"}
  BY <1>1, <1>2 DEF TypeOK, Block
<1>5. asking' \subseteq {v \in Waiters : pc'[v] = "wait"}
  BY <1>1, <1>2 DEF TypeOK, Block
<1> QED
  BY <1>1, <1>3, <1>4, <1>5 DEF TypeOK, Block, tokenVars, libVars

\* Every step of a waiting thread returns, gives up, blocks, or ends a sleep.
LEMMA WaiterSteps ==
  ASSUME TypeOK, NEW w \in Waiters,
         \/ Wait(w) \/ WaitFor(w) \/ TryWait(w) \/ GetResponse(w)
         \/ Resume(w) \/ Timeout(w) \/ SpuriousWake(w)
  PROVE  /\ UNCHANGED <<tokenVars, libVars>>
         /\ \/ complete /\ w \notin waiting /\ UNCHANGED waiting
                  /\ \E wanted \in BOOLEAN : Return(w, wanted)
            \/ ~complete /\ w \notin waiting /\ ReturnFalse(w) /\ UNCHANGED waiting
            \/ ~complete /\ \E limit \in {"none", "ahead"}, wanted \in BOOLEAN : Block(w, limit, wanted)
            \/ /\ waiting' = waiting \ {w}
               /\ UNCHANGED <<pc, result>>
               /\ UNCHANGED asking
               /\ deadline' \in [Waiters -> {"none", "ahead", "passed"}]
<1>1. pc[w] = "idle" => w \notin waiting
  BY DEF TypeOK
<1>2. deadline[w] # "passed" => deadline[w] \in {"none", "ahead"}
  BY DEF TypeOK
<1>3. CASE Wait(w) \/ WaitFor(w) \/ GetResponse(w)
  BY <1>1, <1>3 DEF Wait, WaitFor, GetResponse, BeginWait
<1>4. CASE TryWait(w)
  BY <1>1, <1>4 DEF TryWait
<1>5. CASE Resume(w)
  <2> DEFINE wanted == w \in asking
  <2>1. wanted \in BOOLEAN
    OBVIOUS
  <2>2. /\ w \notin waiting /\ UNCHANGED <<tokenVars, libVars>>
        /\ \/ complete /\ Return(w, wanted) /\ UNCHANGED waiting
           \/ ~complete /\ ReturnFalse(w) /\ UNCHANGED waiting
           \/ ~complete /\ deadline[w] # "passed" /\ Block(w, deadline[w], wanted)
    BY <1>5 DEF Resume
  <2> HIDE DEF wanted
  <2> QED
    BY <1>2, <2>1, <2>2
<1>6. CASE Timeout(w) \/ SpuriousWake(w)
  BY <1>6 DEF Timeout, SpuriousWake, TypeOK, tokenVars, libVars
<1> QED
  BY <1>3, <1>4, <1>5, <1>6

\* What a completed wait may end with.
LEMMA EndingFacts ==
  ASSUME NEW wanted \in BOOLEAN
  PROVE  /\ Ending(wanted) \in {"threw", "missing", "true"}
         /\ Ending(wanted) = "threw" <=> Throws(outcome)
         /\ Ending(wanted) = "missing" => wanted /\ response = NoResponse
BY DEF Ending

\* A response holds a natural number of codes: for a subscribe in any version
\* and an unsubscribe in v5, one for each topic, whatever the library counts.
LEMMA CodesOfResponse ==
  ASSUME TypeOK, NEW count \in AckCounts
  PROVE  /\ Codes(count) \in Nat
         /\ Codes(count) = IF HasCodes THEN request.topics ELSE 0
<1>1. request.topics \in Nat \ {0} /\ request.v5 \in BOOLEAN
  BY RequestAssumption DEF TypeOK
<1>2. count \in Nat
  BY <1>1 DEF AckCounts
<1>3. CodesV5(count) = request.topics /\ CodesV3 = request.topics
  BY <1>1, <1>2 DEF CodesV5, CodesV3, Listed, AckCounts
<1>4. request.type \in {"connect", "subscribe", "unsubscribe"}
  BY RequestAssumption DEF TypeOK
<1> QED
  BY <1>1, <1>3, <1>4 DEF Codes, HasCodes

----------------------------------------------------------------------------
\* Every step keeps the types.
LEMMA TypeStep ==
  ASSUME TypeOK, [Next]_vars
  PROVE  TypeOK'
<1>1. CASE UNCHANGED vars
  BY <1>1 DEF vars, TypeOK
<1>2. ASSUME NEW w \in Waiters,
             \/ Wait(w) \/ WaitFor(w) \/ TryWait(w) \/ GetResponse(w)
             \/ Resume(w) \/ Timeout(w) \/ SpuriousWake(w)
      PROVE  TypeOK'
  <2>1. CASE /\ w \notin waiting /\ UNCHANGED waiting
             /\ ReturnFalse(w) \/ \E wanted \in BOOLEAN : Return(w, wanted)
    BY <1>2, <2>1, ReturnType, WaiterSteps
  <2>2. CASE \E limit \in {"none", "ahead"}, wanted \in BOOLEAN : Block(w, limit, wanted)
    BY <1>2, <2>2, BlockType, WaiterSteps
  <2>3. CASE /\ waiting' = waiting \ {w}
             /\ UNCHANGED <<pc, result, asking>>
             /\ deadline' \in [Waiters -> {"none", "ahead", "passed"}]
    <3>1. UNCHANGED <<tokenVars, libVars>>
      BY <1>2, WaiterSteps
    <3> QED
      BY <2>3, <3>1 DEF TypeOK, tokenVars, libVars
  <2> QED
    BY <1>2, <2>1, <2>2, <2>3, WaiterSteps
<1>3. ASSUME NEW l \in Listeners, SetActionCallback(l)
      PROVE  TypeOK'
  BY <1>3 DEF SetActionCallback, TypeOK, threadVars, libVars
<1>4. CASE Respond
  <2>1. PICK o \in Outcomes : Complete(o)
    BY <1>4 DEF Respond
  <2> QED
    <3>1. response' \in Nat \union {NoResponse}
      BY <2>1, CodesOfResponse DEF Complete, TypeOK
    <3> QED
      BY <2>1, <3>1 DEF Complete, TypeOK, threadVars
<1>5. CASE CallListener \/ Signal
  BY <1>5 DEF CallListener, Signal, TypeOK, tokenVars, threadVars
<1>6. CASE Reset
  <2>1. outcome' \in Outcomes \union {NoOutcome}
    BY <1>6 DEF Reset
  <2>2. round' \in Nat
    BY <1>6 DEF Reset, TypeOK
  <2>3. UNCHANGED <<request, response, listener, waiting, pc, asking, deadline,
                    result, lib, calling>>
    BY <1>6 DEF Reset, threadVars
  <2>4. complete' \in BOOLEAN
    BY <1>6 DEF Reset
  <2> QED
    BY <2>1, <2>2, <2>3, <2>4 DEF TypeOK
<1> QED
  BY <1>1, <1>2, <1>3, <1>4, <1>5, <1>6 DEF Next

\* No thread waits for the first action yet.
LEMMA InvInit == Init => IInv
<1> SUFFICES ASSUME Init PROVE IInv
  OBVIOUS
<1>1. TypeOK
  BY DEF Init, TypeOK, NoOutcome, NoResult, NoResponse
<1>2. \A w \in Waiters : result[w].how = "none" /\ result[w].round = 0
  BY DEF Init, NoResult
<1>3. ResultsOK /\ Agreement
  BY <1>2 DEF ResultsOK, ResultOK, Agreement, Init
<1>4. OneAction /\ CodePerTopic
  BY DEF OneAction, CodePerTopic, Init, NoResult, HasCodes
<1> QED
  BY <1>1, <1>3, <1>4 DEF IInv, NoLostCompletion, Init

\* The notification owed to the sleeping threads of a completed action.
LEMMA NotifyStep ==
  ASSUME TypeOK, NoLostCompletion, [Next]_vars
  PROVE  NoLostCompletion'
<1>1. CASE UNCHANGED vars
  BY <1>1 DEF vars, NoLostCompletion
<1>2. ASSUME NEW w \in Waiters,
             \/ Wait(w) \/ WaitFor(w) \/ TryWait(w) \/ GetResponse(w)
             \/ Resume(w) \/ Timeout(w) \/ SpuriousWake(w)
      PROVE  NoLostCompletion'
  <2>1. complete' = complete /\ lib' = lib
    BY <1>2, WaiterSteps DEF tokenVars, libVars
  <2>2. complete => waiting' \subseteq waiting
    BY <1>2, WaiterSteps
  <2> QED
    BY <2>1, <2>2 DEF NoLostCompletion
<1>3. ASSUME NEW l \in Listeners, SetActionCallback(l)
      PROVE  NoLostCompletion'
  BY <1>3 DEF SetActionCallback, NoLostCompletion, threadVars, libVars
<1>4. CASE Respond
  BY <1>4 DEF Respond, Complete, NoLostCompletion
<1>5. CASE CallListener \/ Signal
  BY <1>5 DEF CallListener, Signal, NoLostCompletion, tokenVars, threadVars
<1>6. CASE Reset
  BY <1>6 DEF Reset, NoLostCompletion
<1> QED
  BY <1>1, <1>2, <1>3, <1>4, <1>5, <1>6 DEF Next

\* Results match the outcome they were taken from, and so each other.
LEMMA ResultStep ==
  ASSUME TypeOK, ResultsOK, Agreement, [Next]_vars
  PROVE  ResultsOK' /\ Agreement'
<1>0. round \in Nat /\ \A v \in Waiters : result[v].round \in Nat
  BY DEF TypeOK
<1>1. CASE UNCHANGED vars
  BY <1>1 DEF vars, ResultsOK, ResultOK, Agreement
<1>2. ASSUME NEW w \in Waiters,
             \/ Wait(w) \/ WaitFor(w) \/ TryWait(w) \/ GetResponse(w)
             \/ Resume(w) \/ Timeout(w) \/ SpuriousWake(w)
      PROVE  ResultsOK' /\ Agreement'
  <2>0. UNCHANGED <<complete, outcome, round>>
    BY <1>2, WaiterSteps DEF tokenVars, libVars
  <2>1. ASSUME complete, NEW wanted \in BOOLEAN, Return(w, wanted)
        PROVE  ResultsOK' /\ Agreement'
    <3>1. \A v \in Waiters : v # w => result'[v] = result[v]
      BY <2>1 DEF TypeOK, Return
    <3>2. result'[w].round = round
      BY <2>1 DEF TypeOK, Return
    <3>3. /\ result'[w].how \in {"true", "threw", "missing"}
          /\ result'[w].how = "threw" <=> Throws(outcome)
      BY <2>1, EndingFacts DEF TypeOK, Return
    <3>4. ResultsOK'
      BY <1>0, <2>0, <2>1, <3>1, <3>2, <3>3 DEF ResultsOK, ResultOK, Throws
    <3>5. Agreement'
      BY <2>0, <3>1, <3>2, <3>3 DEF ResultsOK, ResultOK, Agreement
    <3> QED
      BY <3>4, <3>5
  <2>2. CASE ReturnFalse(w)
    <3>1. \A v \in Waiters : v # w => result'[v] = result[v]
      BY <2>2 DEF TypeOK, ReturnFalse
    <3>2. result'[w].round = round /\ result'[w].how = "false"
      BY <2>2 DEF TypeOK, ReturnFalse
    <3> QED
      BY <1>0, <2>0, <3>1, <3>2 DEF ResultsOK, ResultOK, Agreement, Throws
  <2>3. CASE UNCHANGED result
    BY <2>0, <2>3 DEF ResultsOK, ResultOK, Agreement, Throws
  <2> QED
    BY <1>2, <2>1, <2>2, <2>3, WaiterSteps DEF Block
<1>3. ASSUME NEW l \in Listeners, SetActionCallback(l)
      PROVE  ResultsOK' /\ Agreement'
  BY <1>3 DEF SetActionCallback, ResultsOK, ResultOK, Agreement, threadVars, libVars, Throws
<1>4. CASE Respond
  BY <1>4 DEF Respond, Complete, ResultsOK, ResultOK, Agreement, threadVars
<1>5. CASE CallListener \/ Signal
  BY <1>5 DEF CallListener, Signal, ResultsOK, ResultOK, Agreement, tokenVars,
       threadVars, Throws
<1>6. CASE Reset
  BY <1>0, <1>6 DEF Reset, ResultsOK, ResultOK, Agreement, threadVars
<1> QED
  BY <1>1, <1>2, <1>3, <1>4, <1>5, <1>6 DEF Next

\* The responses and what is read of them.
LEMMA CodesStep ==
  ASSUME TypeOK, OneAction, CodePerTopic, [Next]_vars
  PROVE  OneAction' /\ CodePerTopic'
<1>1. CASE UNCHANGED vars
  BY <1>1 DEF vars, OneAction, CodePerTopic, HasCodes
<1>2. ASSUME NEW w \in Waiters,
             \/ Wait(w) \/ WaitFor(w) \/ TryWait(w) \/ GetResponse(w)
             \/ Resume(w) \/ Timeout(w) \/ SpuriousWake(w)
      PROVE  OneAction' /\ CodePerTopic'
  <2>0. UNCHANGED <<request, complete, outcome, response, round>>
    BY <1>2, WaiterSteps DEF tokenVars, libVars
  <2>1. ASSUME complete, NEW wanted \in BOOLEAN, Return(w, wanted)
        PROVE  OneAction' /\ CodePerTopic'
    <3>1. \A v \in Waiters : v # w => result'[v] = result[v]
      BY <2>1 DEF TypeOK, Return
    <3>2. /\ result'[w].how = Ending(wanted)
          /\ result'[w].codes = IF wanted /\ Ending(wanted) = "true"
                                THEN response ELSE 0
      BY <2>1 DEF TypeOK, Return
    <3>3. Throws(outcome) \/ outcome.success
      BY FailureAssumption, OutcomeAssumption DEF TypeOK, Throws, NoOutcome, GrantedQos2
    <3>4. ~Throws(outcome) => response = request.topics \/ ~HasCodes
      BY <2>1, <3>3 DEF CodePerTopic
    <3>5. request.topics # NoResponse
      BY RequestAssumption DEF TypeOK, NoResponse
    <3>6. result'[w].how = "missing" => ~HasCodes
      BY <3>2, <3>4, <3>5, EndingFacts
    <3>7. result'[w].codes # 0 => result'[w].codes = request.topics
      BY <3>2, <3>4, EndingFacts DEF OneAction, Ending
    <3> QED
      BY <2>0, <3>1, <3>6, <3>7 DEF OneAction, CodePerTopic, HasCodes
  <2>2. CASE ReturnFalse(w)
    <3>1. \A v \in Waiters : v # w => result'[v] = result[v]
      BY <2>2 DEF TypeOK, ReturnFalse
    <3>2. result'[w].how = "false" /\ result'[w].codes = 0
      BY <2>2 DEF TypeOK, ReturnFalse
    <3> QED
      BY <2>0, <3>1, <3>2 DEF OneAction, CodePerTopic, HasCodes
  <2>3. CASE UNCHANGED result
    BY <2>0, <2>3 DEF OneAction, CodePerTopic, HasCodes
  <2> QED
    BY <1>2, <2>1, <2>2, <2>3, WaiterSteps DEF Block
<1>3. ASSUME NEW l \in Listeners, SetActionCallback(l)
      PROVE  OneAction' /\ CodePerTopic'
  BY <1>3 DEF SetActionCallback, OneAction, CodePerTopic, HasCodes, threadVars, libVars
<1>4. CASE Respond
  <2>1. PICK o \in Outcomes : Complete(o)
    BY <1>4 DEF Respond
  <2>2. HasCodes => round = 1
    BY DEF OneAction, HasCodes
  <2>3. outcome' = o /\ UNCHANGED <<request, round, result>>
    BY <2>1 DEF Complete, threadVars
  <2>4. /\ o.success /\ HasCodes => response' = request.topics
        /\ ~HasCodes => response' \in {0, NoResponse}
    BY <2>1, <2>2, CodesOfResponse DEF Complete, OneAction
  <2> QED
    BY <2>3, <2>4 DEF OneAction, CodePerTopic, HasCodes
<1>5. CASE CallListener \/ Signal
  BY <1>5 DEF CallListener, Signal, OneAction, CodePerTopic, HasCodes, tokenVars,
       threadVars
<1>6. CASE Reset
  BY <1>6 DEF Reset, OneAction, CodePerTopic, HasCodes, threadVars
<1> QED
  BY <1>1, <1>2, <1>3, <1>4, <1>5, <1>6 DEF Next

\* The invariant of the token.
LEMMA Invariance == Spec => []IInv
<1>1. IInv /\ [Next]_vars => IInv'
  BY TypeStep, NotifyStep, ResultStep, CodesStep DEF IInv
<1> QED
  BY <1>1, InvInit, PTL DEF Spec

----------------------------------------------------------------------------
\* No thread sleeps on a completed action unless the callback thread is still
\* on its way to the notification, for any number of threads and of rounds.
THEOREM NoLostCompletionHolds == Spec => []NoLostCompletion
BY Invariance, PTL DEF IInv

\* Threads that wait for the same action never disagree on its outcome.
THEOREM AgreementHolds == Spec => []Agreement
BY Invariance, PTL DEF IInv

\* The variables keep their types, also across resets of the token.
THEOREM TypeOKHolds == Spec => []TypeOK
BY Invariance, PTL DEF IInv

\* A subscribe with any number of topics gets a code for each of them, and its
\* response is never missing: the two sources of the codes in the constructors
\* of the responses meet at the right number.
THEOREM CodePerTopicHolds == Spec => []CodePerTopic
BY Invariance, PTL DEF IInv

\* A timeout is never reported for an action that has completed.
THEOREM TimeoutMeansPendingHolds == Spec => TimeoutMeansPending
<1>1. ASSUME TypeOK, [Next]_vars
      PROVE  [\A w \in Waiters : pc[w] = "wait" /\ pc'[w] = "idle" /\ complete
                => result'[w].how # "false"]_vars
  <2> SUFFICES ASSUME Next, NEW w \in Waiters,
                      pc[w] = "wait", pc'[w] = "idle", complete
               PROVE  result'[w].how # "false"
    BY <1>1
  <2>1. CASE \E v \in Waiters : \/ Wait(v) \/ WaitFor(v) \/ TryWait(v) \/ GetResponse(v)
                                \/ Resume(v) \/ Timeout(v) \/ SpuriousWake(v)
    <3>1. PICK v \in Waiters : \/ Wait(v) \/ WaitFor(v) \/ TryWait(v) \/ GetResponse(v)
                               \/ Resume(v) \/ Timeout(v) \/ SpuriousWake(v)
      BY <2>1
    <3>2. ASSUME NEW wanted \in BOOLEAN, Return(v, wanted)
          PROVE  result'[w].how # "false"
      <4>1. v = w
        BY <1>1, <3>2 DEF Return, TypeOK
      <4> QED
        BY <1>1, <3>2, <4>1, EndingFacts DEF Return, TypeOK
    <3>3. CASE UNCHANGED pc
      BY <3>3
    <3> QED
      BY <1>1, <3>1, <3>2, <3>3, WaiterSteps
  <2>2. CASE UNCHANGED pc
    BY <2>2
  <2> QED
    BY <2>1, <2>2 DEF Next, SetActionCallback, Respond, Complete, CallListener,
         Signal, Reset, threadVars
<1>2. Init => TypeOK
  BY InvInit DEF IInv
<1> QED
  BY <1>1, <1>2, TypeStep, PTL DEF Spec, TimeoutMeansPending

----------------------------------------------------------------------------
\* What a waiting thread is told is what the promise allows.
LEMMA WaiterKeepsPromise ==
  ASSUME TypeOK, NEW w \in Waiters,
         \/ Wait(w) \/ WaitFor(w) \/ TryWait(w) \/ GetResponse(w)
         \/ Resume(w) \/ Timeout(w) \/ SpuriousWake(w)
  PROVE  [Promised!Next]_(Promised!vars)
<1> DEFINE answer == [v \in Waiters |-> Told(result[v])]
<1>1. UNCHANGED <<Verdict, round>>
  BY WaiterSteps DEF tokenVars, libVars, Verdict, Throws
<1>2. ASSUME complete, NEW wanted \in BOOLEAN, Return(w, wanted)
      PROVE  Promised!Answer(w)
  <2>1. Verdict = IF Throws(outcome) THEN "threw" ELSE "true"
    BY <1>2 DEF Verdict
  <2>2. result'[w].how = Ending(wanted) /\ result'[w].round = round
    BY <1>2 DEF Return, TypeOK
  <2>3. \A v \in Waiters \ {w} : result'[v] = result[v]
    BY <1>2 DEF Return, TypeOK
  <2>4. Told(result'[w]) = [how |-> Verdict, action |-> round]
    BY <2>1, <2>2, EndingFacts DEF Told
  <2>5. answer' = [answer EXCEPT ![w] = [how |-> Verdict, action |-> round]]
    BY <2>3, <2>4
  <2> QED
    BY <1>1, <2>1, <2>5 DEF Promised!Answer, Promised!Tell
<1>3. ASSUME ~complete, ReturnFalse(w)
      PROVE  Promised!GiveUp(w)
  <2>1. result'[w].how = "false" /\ result'[w].round = round
    BY <1>3 DEF ReturnFalse, TypeOK
  <2>2. \A v \in Waiters \ {w} : result'[v] = result[v]
    BY <1>3 DEF ReturnFalse, TypeOK
  <2>3. Told(result'[w]) = [how |-> "false", action |-> round]
    BY <2>1 DEF Told
  <2>4. answer' = [answer EXCEPT ![w] = [how |-> "false", action |-> round]]
    BY <2>2, <2>3
  <2>5. Verdict = "none"
    BY <1>3 DEF Verdict
  <2> QED
    BY <1>1, <2>4, <2>5 DEF Promised!GiveUp, Promised!Tell
<1>4. CASE UNCHANGED result
  BY <1>1, <1>4 DEF Promised!vars
<1> QED
  BY <1>2, <1>3, <1>4, WaiterSteps DEF Block, Promised!Next

\* Every step of the token is a step of the promise, or none.
LEMMA StepKeepsPromise ==
  ASSUME TypeOK, [Next]_vars
  PROVE  [Promised!Next]_(Promised!vars)
<1>1. ASSUME NEW w \in Waiters,
             \/ Wait(w) \/ WaitFor(w) \/ TryWait(w) \/ GetResponse(w)
             \/ Resume(w) \/ Timeout(w) \/ SpuriousWake(w)
      PROVE  [Promised!Next]_(Promised!vars)
  BY <1>1, WaiterKeepsPromise
<1>2. CASE Respond
  <2>1. PICK o \in Outcomes : Complete(o)
    BY <1>2 DEF Respond
  <2>2. Verdict = "none" /\ Verdict' \in {"true", "threw"}
    BY <2>1 DEF Complete, Verdict
  <2>3. UNCHANGED <<round, result>>
    BY <2>1 DEF Complete, threadVars
  <2> QED
    BY <2>2, <2>3 DEF Promised!Next, Promised!Decide
<1>3. CASE Reset
  BY <1>3 DEF Reset, threadVars, Verdict, Promised!Next, Promised!Again
<1>4. CASE \/ \E l \in Listeners : SetActionCallback(l)
           \/ CallListener \/ Signal \/ UNCHANGED vars
  <2>1. UNCHANGED <<complete, outcome, round, result>>
    BY <1>4 DEF SetActionCallback, CallListener, Signal, vars, tokenVars,
         threadVars, libVars
  <2> QED
    BY <2>1 DEF Promised!vars, Verdict, Throws
<1> QED
  BY <1>1, <1>2, <1>3, <1>4 DEF Next

\* The token implements the promise, for any threads, listeners and outcomes.
THEOREM PromiseKept == Spec => KeepsPromise
<1>1. Init => Promised!Init
  BY DEF Init, Promised!Init, Verdict, Told, NoResult
<1>2. TypeOK /\ [Next]_vars => [Promised!Next]_(Promised!vars)
  BY StepKeepsPromise
<1> QED
  BY <1>1, <1>2, TypeOKHolds, PTL DEF Spec, KeepsPromise, Promised!Spec

----------------------------------------------------------------------------
\* If the library reported no code above those of a granted QoS with a
\* success, no wait for an action that succeeded would throw: the test of
\* check_ret is too narrow for the other success codes only.
THEOREM SuccessThrowsForHighCodesOnly ==
  ASSUME \A o \in Outcomes : o.success => o.rc = 0 /\ o.reason \in 0..GrantedQos2
  PROVE  Spec => []SuccessNeverThrows
<1>1. IInv => SuccessNeverThrows
  <2> SUFFICES ASSUME IInv, complete, outcome.success,
                      NEW w \in Waiters, result[w].round = round
               PROVE  result[w].how # "threw"
    BY DEF SuccessNeverThrows
  <2>1. ~Throws(outcome)
    BY DEF IInv, TypeOK, NoOutcome, Throws, GrantedQos2
  <2> QED
    BY <2>1 DEF IInv, ResultsOK, ResultOK
<1> QED
  BY <1>1, Invariance, PTL
==============================================================================
