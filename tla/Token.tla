-------------------------------- MODULE Token --------------------------------
(***************************************************************************)
(* mqtt::token (src/src/mqtt_paho/headers/token.h): what application       *)
(* threads wait on while the callback thread of the C library completes    *)
(* an action.  One token, any number of waiting threads, a listener that   *)
(* may be registered or replaced at any time, and reset(), which makes the *)
(* connect token serve again for a reconnect.                              *)
(*                                                                         *)
(* Completion has three steps on the callback thread: the outcome and the  *)
(* response of the server (server_response.h) are stored and complete_ set *)
(* under lock_; then, outside the lock, the listener is called; then the   *)
(* waiting threads are notified.  A thread waits for the action alone, or  *)
(* for its response (get_connect_response and its like).                   *)
(***************************************************************************)
EXTENDS Integers, FiniteSets

CONSTANTS Waiters,     \* application threads
          Listeners,   \* action callbacks they may register
          NoListener,  \* the null listener_
          Outcomes,    \* how the C library may report the action ended
          Requests,    \* what the token may have been created for
          MaxRounds    \* bound of the model: actions tracked by the token

\* rc is the return code, reason the MQTT v5 reason code of a response, and
\* success tells which of on_success and on_failure the library calls.
ASSUME OutcomeAssumption ==
  Outcomes \subseteq [success : BOOLEAN, rc : Int, reason : 0..255]

\* A failure has an error code of the library or a reason code of the server.
ASSUME FailureAssumption ==
  \A o \in Outcomes : ~o.success => o.rc # 0 \/ o.reason >= 128

\* The type of the action, the version of the protocol, and the number of
\* topics of a subscribe or an unsubscribe.
ASSUME RequestAssumption ==
  Requests \subseteq [type : {"connect", "subscribe", "unsubscribe"},
                      v5 : BOOLEAN, topics : Nat \ {0}]

ASSUME RoundsAssumption == MaxRounds \in Nat

ASSUME ListenerAssumption == NoListener \notin Listeners

VARIABLES request,   \* type_, nExpected_ and the version of the connection
          complete,  \* complete_
          outcome,   \* rc_ and reasonCode_
          response,  \* connRsp_, subRsp_ or unsubRsp_: the codes it holds
          listener,  \* listener_
          waiting,   \* the threads waiting in cond_
          pc,        \* "idle" or "wait", for each thread
          asking,    \* those that wait for the response
          deadline,  \* the time limit of each thread's wait
          result,    \* how each thread's last wait ended, and in which round
          lib,       \* where the callback thread is
          calling,   \* the listener it took under the lock
          round      \* history: the number of the action tracked now

tokenVars == <<request, complete, outcome, response, listener>>
libVars == <<lib, calling, round>>
threadVars == <<waiting, pc, asking, deadline, result>>
vars == <<request, complete, outcome, response, listener,
          waiting, pc, asking, deadline, result, lib, calling, round>>

\* rc_ and reasonCode_ of a token that has not completed.
NoOutcome == [success |-> TRUE, rc |-> 0, reason |-> 0]
NoResult == [how |-> "none", round |-> 0, codes |-> 0]
NoResponse == -1

TypeOK ==
  /\ request \in Requests
  /\ complete \in BOOLEAN
  /\ outcome \in Outcomes \union {NoOutcome}
  /\ response \in Nat \union {NoResponse}
  /\ listener \in Listeners \union {NoListener}
  /\ pc \in [Waiters -> {"idle", "wait"}]
  /\ waiting \subseteq {w \in Waiters : pc[w] = "wait"}
  /\ asking \subseteq {w \in Waiters : pc[w] = "wait"}
  /\ deadline \in [Waiters -> {"none", "ahead", "passed"}]
  /\ result \in [Waiters -> [how : {"none", "true", "false", "threw", "missing"},
                             round : Nat, codes : Nat]]
  /\ lib \in {"free", "calling", "signalling"}
  /\ calling \in Listeners \union {NoListener}
  /\ round \in Nat

----------------------------------------------------------------------------
GrantedQos2 == 2

\* check_ret: whether a completed wait throws.
Throws(o) == o.rc # 0 \/ o.reason > GrantedQos2

\* How a completed wait ends, for a thread that does or does not want the
\* response: "missing" is the exception missing_response.
Ending(wanted) ==
  IF Throws(outcome) THEN "threw"
  ELSE IF wanted /\ response = NoResponse THEN "missing" ELSE "true"

Mut_ReturnsPlainTrue(w, wanted) ==
  /\ pc' = [pc EXCEPT ![w] = "idle"]
  /\ deadline' = [deadline EXCEPT ![w] = "none"]
  /\ asking' = asking \ {w}
  /\ result' = [result EXCEPT ![w] = [how |-> "true", round |-> round, codes |-> 0]]

\* The wait of w ends with the action: check_ret, then true or the response.
Return(w, wanted) ==
  /\ pc' = [pc EXCEPT ![w] = "idle"]
  /\ deadline' = [deadline EXCEPT ![w] = "none"]
  /\ asking' = asking \ {w}
  /\ result' = [result EXCEPT ![w] =
                  [how |-> Ending(wanted), round |-> round,
                   codes |-> IF wanted /\ Ending(wanted) = "true"
                             THEN response ELSE 0]]

\* The wait of w ends without it.
ReturnFalse(w) ==
  /\ pc' = [pc EXCEPT ![w] = "idle"]
  /\ deadline' = [deadline EXCEPT ![w] = "none"]
  /\ asking' = asking \ {w}
  /\ result' = [result EXCEPT ![w] = [how |-> "false", round |-> round, codes |-> 0]]

Block(w, limit, wanted) ==
  /\ pc' = [pc EXCEPT ![w] = "wait"]
  /\ deadline' = [deadline EXCEPT ![w] = limit]
  /\ asking' = IF wanted THEN asking \union {w} ELSE asking \ {w}
  /\ waiting' = waiting \union {w}
  /\ UNCHANGED result

Mut_WaitWithoutPredicate(w, limit, wanted) ==
  /\ pc[w] = "idle"
  /\ Block(w, limit, wanted)
  /\ UNCHANGED <<tokenVars, libVars>>

\* wait, wait_for, wait_until and the getters of the responses, up to the
\* wait on cond_ or the end.
BeginWait(w, limit, wanted) ==
  /\ pc[w] = "idle"
  /\ \/ complete /\ Return(w, wanted) /\ UNCHANGED waiting
     \/ ~complete /\ Block(w, limit, wanted)
  /\ UNCHANGED <<tokenVars, libVars>>

Wait(w) == BeginWait(w, "none", FALSE)
WaitFor(w) == BeginWait(w, "ahead", FALSE)

\* get_connect_response, get_subscribe_response, get_unsubscribe_response.
GetResponse(w) == BeginWait(w, "none", TRUE)

Mut_TryWaitUnchecked(w) ==
  /\ pc[w] = "idle"
  /\ \/ complete /\ Mut_ReturnsPlainTrue(w, FALSE)
     \/ ~complete /\ ReturnFalse(w)
  /\ UNCHANGED <<waiting, tokenVars, libVars>>

TryWait(w) ==
  /\ pc[w] = "idle"
  /\ \/ complete /\ Return(w, FALSE)
     \/ ~complete /\ ReturnFalse(w)
  /\ UNCHANGED <<waiting, tokenVars, libVars>>

Mut_TimeoutWins(w) ==
  /\ pc[w] = "wait" /\ w \notin waiting
  /\ \/ deadline[w] = "passed" /\ ReturnFalse(w) /\ UNCHANGED waiting
     \/ complete /\ deadline[w] # "passed" /\ Return(w, w \in asking) /\ UNCHANGED waiting
     \/ ~complete /\ deadline[w] # "passed" /\ Block(w, deadline[w], w \in asking)
  /\ UNCHANGED <<tokenVars, libVars>>

Mut_TimerRestarts(w) ==
  /\ pc[w] = "wait" /\ w \notin waiting
  /\ \/ complete /\ Return(w, w \in asking) /\ UNCHANGED waiting
     \/ ~complete /\ deadline[w] = "passed" /\ Block(w, "ahead", w \in asking)
     \/ ~complete /\ deadline[w] # "passed" /\ Block(w, deadline[w], w \in asking)
  /\ UNCHANGED <<tokenVars, libVars>>

Mut_PollInsteadOfWait(w) ==
  /\ pc[w] = "wait" /\ complete
  /\ Return(w, w \in asking)
  /\ UNCHANGED <<waiting, tokenVars, libVars>>

\* A woken thread has lock_ again and tests complete_ before its deadline.
Resume(w) ==
  /\ pc[w] = "wait" /\ w \notin waiting
  /\ \/ complete /\ Return(w, w \in asking) /\ UNCHANGED waiting
     \/ ~complete /\ deadline[w] = "passed" /\ ReturnFalse(w) /\ UNCHANGED waiting
     \/ ~complete /\ deadline[w] # "passed" /\ Block(w, deadline[w], w \in asking)
  /\ UNCHANGED <<tokenVars, libVars>>

\* The deadline of wait_for passes, and a wait may end for no reason.
Timeout(w) ==
  /\ deadline[w] = "ahead"
  /\ deadline' = [deadline EXCEPT ![w] = "passed"]
  /\ waiting' = waiting \ {w}
  /\ UNCHANGED <<tokenVars, pc, asking, result, libVars>>

SpuriousWake(w) ==
  /\ w \in waiting
  /\ waiting' = waiting \ {w}
  /\ UNCHANGED <<tokenVars, pc, asking, deadline, result, libVars>>

SetActionCallback(l) ==
  /\ listener' = l
  /\ UNCHANGED <<request, complete, outcome, response, threadVars, libVars>>

----------------------------------------------------------------------------
(* The callback thread of the library.                                     *)

\* How many codes the library may say a response has: for one topic the code
\* has a field of its own, and a count nobody relies on.
AckCounts == IF request.topics = 1 THEN {0, 1} ELSE {request.topics}

\* The list of codes is there when there is more than one.
Listed(count) == IF request.topics > 1 THEN count ELSE 0

Mut_CountBelowOne(count) == IF count < 1 THEN 1 ELSE Listed(count)

\* subscribe_response and unsubscribe_response of v5: one code from its own
\* field, or as many as the list has.
CodesV5(count) == IF count < 2 THEN 1 ELSE Listed(count)

\* subscribe_response of v3 looks at the number of topics the token expects,
\* which only a subscribe to a collection of topics sets.
CodesV3 == LET n == request.topics IN IF n < 2 THEN 1 ELSE Listed(n)

\* connect_response has no codes; nor has unsubscribe_response in v3.
Codes(count) ==
  IF request.v5 THEN IF request.type = "connect" THEN 0 ELSE CodesV5(count)
  ELSE IF request.type = "subscribe" THEN CodesV3 ELSE 0

\* on_success, on_failure: the critical section, once for each action.  A
\* failure carries no response, nor does the success of a reconnect, which
\* reaches the token through on_connected; but the answer to the connect may
\* come after the reset.
Complete(o) ==
  /\ lib = "free" /\ ~complete
  /\ outcome' = o
  /\ \/ o.success /\ \E count \in AckCounts : response' = Codes(count)
     \/ (o.success => round > 1) /\ UNCHANGED response
  /\ complete' = TRUE
  /\ calling' = listener
  /\ lib' = "calling"
  /\ UNCHANGED <<request, listener, threadVars, round>>

\* The listener is called outside the lock, after complete_ is set ...
CallListener ==
  /\ lib = "calling"
  /\ lib' = "signalling"
  /\ UNCHANGED <<tokenVars, threadVars, calling, round>>

\* ... and before the token is signaled.
Signal ==
  /\ lib = "signalling"
  /\ lib' = "free"
  /\ waiting' = {}
  /\ UNCHANGED <<tokenVars, pc, asking, deadline, result, calling, round>>

\* reconnect takes the token of connect back, whatever its state: the callback
\* thread may still be busy with the old action, or not have ended it.  The
\* response is left as it is.
Reset ==
  /\ request.type = "connect"
  /\ round < MaxRounds
  /\ complete' = FALSE
  /\ outcome' = NoOutcome
  /\ round' = round + 1
  /\ UNCHANGED <<request, response, listener, threadVars, lib, calling>>

----------------------------------------------------------------------------
Init ==
  /\ request \in Requests
  /\ complete = FALSE /\ outcome = NoOutcome /\ listener = NoListener
  /\ response = NoResponse
  /\ waiting = {} /\ asking = {}
  /\ pc = [w \in Waiters |-> "idle"]
  /\ deadline = [w \in Waiters |-> "none"]
  /\ result = [w \in Waiters |-> NoResult]
  /\ lib = "free" /\ calling = NoListener
  /\ round = 1

Respond == \E o \in Outcomes : Complete(o)

Next ==
  \/ \E w \in Waiters : \/ Wait(w) \/ WaitFor(w) \/ TryWait(w) \/ GetResponse(w)
                        \/ Resume(w) \/ Timeout(w) \/ SpuriousWake(w)
  \/ \E l \in Listeners : SetActionCallback(l)
  \/ Respond \/ CallListener \/ Signal \/ Reset

Spec == Init /\ [][Next]_vars

\* The callback thread goes on with what it began (listeners return), woken
\* threads run, deadlines pass.  No response is owed.
FairSpec ==
  /\ Spec
  /\ WF_vars(CallListener) /\ WF_vars(Signal)
  /\ \A w \in Waiters : WF_vars(Resume(w)) /\ WF_vars(Timeout(w))

----------------------------------------------------------------------------
(* Safety.                                                                 *)

\* Whoever sleeps on a completed action is still going to be notified: the
\* test of complete_ and the wait leave no gap for the signal to fall into,
\* also when the token was reset while the signal was on its way.
NoLostCompletion ==
  complete /\ waiting # {} => lib \in {"calling", "signalling"}

\* Two threads that wait for the same action agree on how it ended, whether
\* they waited, polled, timed out late or came after it.
Agreement ==
  \A v, w \in Waiters :
    /\ result[v].round = result[w].round
    /\ {result[v].how, result[w].how} \subseteq {"true", "threw"}
    => result[v].how = result[w].how

\* A wait reports a timeout only while the action has not completed: an
\* answer that comes before the thread has the lock again is not dropped.
TimeoutMeansPending ==
  [][\A w \in Waiters : pc[w] = "wait" /\ pc'[w] = "idle" /\ complete
       => result'[w].how # "false"]_vars

\* Acknowledgments with reason codes: an unsubscribe has them in v5 only.
HasCodes ==
  \/ request.type = "subscribe"
  \/ request.type = "unsubscribe" /\ request.v5

\* "On a subscribe ack there is a reason code for each topic that was sent in
\* the subscribe packet" (server_response.h:162): whoever asks for the response
\* of a subscribe that succeeded, before or after it completes, gets as many
\* codes as there were topics, for one topic and for several, in either version
\* of the protocol; the same for an unsubscribe in v5.  No response is missing.
CodePerTopic ==
  /\ complete /\ outcome.success /\ HasCodes => response = request.topics
  /\ \A w \in Waiters :
       /\ result[w].codes # 0 => result[w].codes = request.topics
       /\ result[w].how = "missing" => ~HasCodes

\* The comment of on_success in iaction_listener.h: "invoked when an action
\* has completed successfully"; that of check_ret: "throw an exception if it
\* is not a success code".
SuccessNeverThrows ==
  complete /\ outcome.success =>
    \A w \in Waiters : result[w].round = round => result[w].how # "threw"

----------------------------------------------------------------------------
(* Refinement.                                                             *)

\* The exception missing_response follows a completion without error.
Verdict ==
  IF ~complete THEN "none" ELSE IF Throws(outcome) THEN "threw" ELSE "true"

Told(r) ==
  [how |-> IF r.how = "missing" THEN "true" ELSE r.how, action |-> r.round]

Promised == INSTANCE Promise WITH
  Askers <- Waiters, verdict <- Verdict, action <- round,
  answer <- [w \in Waiters |-> Told(result[w])]

\* The token, with its lock, signals, deadlines and resets, keeps the promise:
\* each action ends once and each wait is answered by the action it was for.
KeepsPromise == Promised!Spec

----------------------------------------------------------------------------
(* Liveness.                                                               *)

\* A wait for an action that completed comes back, unless the token is taken
\* for the next action first.
WaitReturns ==
  \A w \in Waiters : pc[w] = "wait" /\ complete ~> pc[w] = "idle" \/ ~complete

\* wait_for and wait_until come back whether or not the action completes.
TimedWaitReturns == \A w \in Waiters : deadline[w] = "ahead" ~> pc[w] = "idle"
==============================================================================
