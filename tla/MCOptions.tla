------------------------------ MODULE MCOptions ------------------------------
(* An instance of Options for TLC. *)
EXTENDS Options, TLC

CONSTANTS o1, o2, o3, b1, b2, b3, v1, v2

\* The kinds that one behaviour is about.
Related ==
  { {"properties", "message", "will", "topic"}, {"message", "will", "topic", CStruct},
    {"message", "will", "connect_will"},
    {"properties", "disconnect"}, {"properties", "response"}, {"properties", "connect"},
    {"headers", "connect_headers"}, {"ssl", "connect_ssl"},
    {"strings"}, {"connect_strings"}, {"connect_data"}, {"response_subs"},
    {"create"}, {"subscribe"} }

WithConnect == {{"properties", "connect"}}

Alike == Permutations(Objects) \union Permutations(Blocks) \union Permutations(Values)
==============================================================================
