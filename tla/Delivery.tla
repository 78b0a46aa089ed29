------------------------------- MODULE Delivery -------------------------------
(***************************************************************************)
(* What mqtt::async_client promises an application about the messages it   *)
(* publishes, as its calls and callbacks show it: a message is among the   *)
(* pending deliveries from before the C library knows of it until after    *)
(* its token is complete, or until the call that published it has failed;  *)
(* only then is its delivery reported, and only once.  A report does not   *)
(* say that the server has the message: a message that failed or was       *)
(* refused may be reported as well, which is what the code does, though    *)
(* callback.h:69-73 says otherwise.                                        *)
(***************************************************************************)
EXTENDS Integers

CONSTANTS Messages,
          Reportable   \* those whose delivery may be reported

VARIABLES offered,    \* the messages that were given to publish()
          taken,      \* those the C library has accepted
          pending,    \* get_pending_delivery_tokens()
          complete,   \* those whose token is_complete()
          reports     \* the number of delivery_complete() calls for each

vars == <<offered, taken, pending, complete, reports>>

Init ==
  /\ offered = {} /\ taken = {} /\ pending = {} /\ complete = {}
  /\ reports = [m \in Messages |-> 0]

Offer(m) ==
  /\ m \notin offered
  /\ offered' = offered \union {m} /\ pending' = pending \union {m}
  /\ UNCHANGED <<taken, complete, reports>>

Take(m) ==
  /\ m \in pending \ taken
  /\ taken' = taken \union {m}
  /\ UNCHANGED <<offered, pending, complete, reports>>

Report(m) ==
  /\ m \in Reportable /\ reports[m] = 0
  /\ reports' = [reports EXCEPT ![m] = 1]

\* A message that the library refuses is no longer pending, and may be
\* reported all the same.
Withdraw(m) ==
  /\ m \in pending \ taken
  /\ pending' = pending \ {m}
  /\ Report(m) \/ UNCHANGED reports
  /\ UNCHANGED <<offered, taken, complete>>

Complete(m) ==
  /\ m \in taken \ complete
  /\ complete' = complete \union {m}
  /\ UNCHANGED <<offered, taken, pending, reports>>

Leave(m) ==
  /\ m \in pending \intersect complete
  /\ pending' = pending \ {m}
  /\ UNCHANGED <<offered, taken, complete, reports>>

DeliveryComplete(m) ==
  /\ m \in complete \ pending
  /\ Report(m)
  /\ UNCHANGED <<offered, taken, pending, complete>>

Next ==
  \E m \in Messages : \/ Offer(m) \/ Take(m) \/ Withdraw(m)
                      \/ Complete(m) \/ Leave(m) \/ DeliveryComplete(m)

Spec == Init /\ [][Next]_vars
===============================================================================
