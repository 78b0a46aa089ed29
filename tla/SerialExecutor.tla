---------------------------- MODULE SerialExecutor ----------------------------
(***************************************************************************)
(* What mqtt::client promises about the user's callbacks and the blocking  *)
(* calls, whatever threads it runs them on: one job at a time, in the      *)
(* order in which they were submitted; and a request goes on, once its     *)
(* answer has come, exactly between the jobs submitted before the answer   *)
(* and those submitted after it.  SyncClient implements it.                *)
(***************************************************************************)
EXTENDS Integers, Sequences

CONSTANTS Jobs, Requests

VARIABLES submitted, \* the jobs, in the order they were submitted
          begun,     \* the jobs that have begun, in the order they did
          running,   \* whether the last of them has yet to end
          fence      \* for each request that is answered and has not gone on,
                     \* how many jobs were submitted before its answer

vars == <<submitted, begun, running, fence>>

NoFence == -1

Init ==
  /\ submitted = <<>> /\ begun = <<>> /\ running = FALSE
  /\ fence = [r \in Requests |-> NoFence]

Submit(j) ==
  /\ submitted' = Append(submitted, j)
  /\ UNCHANGED <<begun, running, fence>>

\* The next job begins when the one before it has ended, and nobody waits for
\* an answer that came before it.
Begin ==
  /\ ~running /\ Len(begun) < Len(submitted)
  /\ \A r \in Requests : fence[r] = NoFence \/ fence[r] > Len(begun)
  /\ begun' = Append(begun, submitted[Len(begun) + 1])
  /\ running' = TRUE
  /\ UNCHANGED <<submitted, fence>>

End ==
  /\ running
  /\ running' = FALSE
  /\ UNCHANGED <<submitted, begun, fence>>

Answer(r) ==
  /\ fence[r] = NoFence
  /\ fence' = [fence EXCEPT ![r] = Len(submitted)]
  /\ UNCHANGED <<submitted, begun, running>>

GoOn(r) ==
  /\ fence[r] # NoFence /\ ~running /\ fence[r] = Len(begun)
  /\ fence' = [fence EXCEPT ![r] = NoFence]
  /\ UNCHANGED <<submitted, begun, running>>

Next ==
  \/ \E j \in Jobs : Submit(j)
  \/ Begin \/ End
  \/ \E r \in Requests : Answer(r) \/ GoOn(r)

Spec == Init /\ [][Next]_vars
===============================================================================
