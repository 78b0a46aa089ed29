------------------------------- MODULE Promise -------------------------------
(***************************************************************************)
(* What mqtt::token promises the threads that wait on it, whatever it does *)
(* with locks, signals and deadlines: an action ends at most once, well or *)
(* badly; from then on, and until the next action, every thread that asks  *)
(* is told the same, and before that a thread may only be told that it has *)
(* not ended.  Token implements it.                                        *)
(***************************************************************************)
EXTENDS Integers

CONSTANT Askers

VARIABLES verdict,  \* "none" until the action has ended, "true" or "threw"
          action,   \* the number of the action
          answer    \* the last answer each asker got, and about which action

vars == <<verdict, action, answer>>

Tell(a, how) == answer' = [answer EXCEPT ![a] = [how |-> how, action |-> action]]

Init ==
  /\ verdict = "none" /\ action = 1
  /\ answer = [a \in Askers |-> [how |-> "none", action |-> 0]]

Decide ==
  /\ verdict = "none"
  /\ verdict' \in {"true", "threw"}
  /\ UNCHANGED <<action, answer>>

Again ==
  /\ verdict' = "none"
  /\ action' = action + 1
  /\ UNCHANGED answer

Answer(a) ==
  /\ verdict # "none"
  /\ Tell(a, verdict)
  /\ UNCHANGED <<verdict, action>>

GiveUp(a) ==
  /\ verdict = "none"
  /\ Tell(a, "false")
  /\ UNCHANGED <<verdict, action>>

Next == Decide \/ Again \/ \E a \in Askers : Answer(a) \/ GiveUp(a)

Spec == Init /\ [][Next]_vars
==============================================================================
