---------------------------- MODULE MCExplorerApp ----------------------------
(* An instance of ExplorerApp for TLC: the defaults of ui/mainwindow.ui, and *)
(* what a user may type in their place.                                      *)
EXTENDS ExplorerApp

TypedProtocols == {<<"tcp", "://">>, <<"tcp">>, <<"foo", "://">>}
TypedHosts == {<<"localhost", ":">>, <<"localhost">>}
TypedPorts == {<<"1883">>, <<>>}
KnownSchemes == {"tcp", "ssl", "ws", "wss"}
RunningBrokers == {<<"tcp", "://", "localhost", ":", "1883">>}
===============================================================================
