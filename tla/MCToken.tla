------------------------------- MODULE MCToken -------------------------------
(* Instances of Token for TLC. *)
EXTENDS Token

CONSTANTS w1, w2, l1

\* A success, a refusal by the server, a failure of the client library.
Plain == { [success |-> TRUE, rc |-> 0, reason |-> 1],
           [success |-> FALSE, rc |-> 0, reason |-> 135],
           [success |-> FALSE, rc |-> -1, reason |-> 0] }

\* The token of a connect, which a reconnect takes again, and of subscribes
\* and unsubscribes with one topic and with several.
Connect == [type |-> "connect", v5 |-> TRUE, topics |-> 1]
Kinds ==
  {Connect} \union [type : {"subscribe", "unsubscribe"}, v5 : BOOLEAN, topics : 1..3]
==============================================================================
