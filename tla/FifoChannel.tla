----------------------------- MODULE FifoChannel -----------------------------
(***************************************************************************)
(* What mqtt::thread_queue promises its callers, whatever threads use it:  *)
(* a bounded channel that delivers every item exactly once, in the order   *)
(* in which the items were accepted, and never accepts one when it already *)
(* holds as many as its limit.  The history of the channel is its state.   *)
(***************************************************************************)
EXTENDS Integers, Sequences

CONSTANTS Items,    \* what may be sent
          Limits    \* the limits the channel may be given

VARIABLES sent,     \* the items accepted so far, in order
          rcvd,     \* the items delivered so far, in order
          limit     \* the bound on the number of items in transit

chanVars == <<sent, rcvd, limit>>

InTransit == Len(sent) - Len(rcvd)

ChanInit ==
  /\ sent = <<>>
  /\ rcvd = <<>>
  /\ limit \in Limits

Send(x) ==
  /\ InTransit < limit
  /\ sent' = Append(sent, x)
  /\ UNCHANGED <<rcvd, limit>>

Receive ==
  /\ InTransit > 0
  /\ rcvd' = Append(rcvd, sent[Len(rcvd) + 1])
  /\ UNCHANGED <<sent, limit>>

\* The limit may be moved at any time, also below the number in transit.
SetLimit(n) ==
  /\ limit' = n
  /\ UNCHANGED <<sent, rcvd>>

ChanNext ==
  \/ \E x \in Items : Send(x)
  \/ Receive
  \/ \E n \in Limits : SetLimit(n)

ChanSpec == ChanInit /\ [][ChanNext]_chanVars
==============================================================================
