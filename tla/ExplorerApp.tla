----------------------------- MODULE ExplorerApp -----------------------------
(***************************************************************************)
(* The application itself (src/src/main.cpp, mainwindow.cpp, mainmenu.cpp):*)
(* a form with the address of a broker, a Connect button, and a menu       *)
(* window that opens after it was clicked.                                 *)
(*                                                                         *)
(* The slot on_connectBroker_clicked runs on the GUI thread and holds the  *)
(* event loop until it returns.  It creates an mqtt::async_client on its   *)
(* stack and calls connect(), which only starts the attempt; what becomes  *)
(* of it is decided later, by the client library's own thread and the      *)
(* network, while the slot goes on.                                        *)
(***************************************************************************)
EXTENDS Sequences, FiniteSets, Naturals

CONSTANTS Protocols, Hosts, Ports,  \* what may be typed, each a sequence
          Schemes,      \* the protocols the client library knows
          Brokers       \* the addresses that lead to a broker

VARIABLES visible,   \* the windows on the screen
          menus,     \* how many menu windows were created
          step,      \* where the GUI thread is
          address,   \* the address handed to the client
          client,    \* the state of the client object
          brokerUp,  \* whether the broker can be reached
          printed    \* the last line printed: output of the slot

vars == <<visible, menus, step, address, client, brokerUp, printed>>

Addresses == {p \o h \o n : p \in Protocols, h \in Hosts, n \in Ports}

Slot == {"construct", "connect", "hide", "create", "show", "display", "return"}

TypeOK ==
  /\ visible \subseteq {"main", "menu"}
  /\ menus \in Nat
  /\ step \in Slot \union {"loop", "exited", "aborted"}
  /\ address \in Addresses \union {<<>>}
  /\ client \in {"none", "created", "connecting", "connected", "failed"}
  /\ client # "none" => step \in Slot  \* it is a local variable of the slot
  /\ brokerUp \in BOOLEAN
  /\ printed \in {"nothing", "success", "error", "ok"}

----------------------------------------------------------------------------
(* The client library, as the slot uses it.                                *)

Separator == "://"

\* An address without a protocol is taken as it is; one with a protocol the
\* library does not know is refused by the constructor of the client.
Accepted(a) ==
  (\E i \in DOMAIN a : a[i] = Separator) => Head(a) \in Schemes

\* The answer to the connect request, or its failure.
Connack ==
  /\ client = "connecting"
  /\ client' = IF brokerUp /\ address \in Brokers THEN "connected" ELSE "failed"
  /\ UNCHANGED <<visible, menus, step, address, brokerUp, printed>>

\* No automatic reconnect is asked for.
ConnectionLost ==
  /\ client = "connected" /\ ~brokerUp
  /\ client' = "failed"
  /\ UNCHANGED <<visible, menus, step, address, brokerUp, printed>>

BrokerChanges ==
  /\ brokerUp' = ~brokerUp
  /\ UNCHANGED <<visible, menus, step, address, client, printed>>

----------------------------------------------------------------------------
(* on_connectBroker_clicked.                                               *)

\* The button is in the main window; the three fields are put together with
\* nothing between them.
Click ==
  /\ step = "loop" /\ "main" \in visible
  /\ step' = "construct"
  /\ \E p \in Protocols, h \in Hosts, n \in Ports : address' = p \o h \o n
  /\ UNCHANGED <<visible, menus, client, brokerUp, printed>>

\* An exception leaves the slot and ends the process.
Throw ==
  /\ step' = "aborted"
  /\ client' = "none"
  /\ UNCHANGED <<visible, menus, address, brokerUp>>

Construct ==
  /\ step = "construct"
  /\ \/ /\ Accepted(address)
        /\ client' = "created"
        /\ step' = "connect"
        /\ UNCHANGED <<visible, menus, address, brokerUp, printed>>
     \/ ~Accepted(address) /\ Throw /\ UNCHANGED printed

\* connect(connOpts)->wait(): the slot goes on when the answer is there.
Mut_ConnectAndWait ==
  /\ step = "connect"
  /\ \/ /\ client = "created"
        /\ client' = "connecting" /\ UNCHANGED <<step, printed>>
     \/ /\ client \in {"connected", "failed"}
        /\ step' = "hide" /\ printed' = "success" /\ UNCHANGED client
  /\ UNCHANGED <<visible, menus, address, brokerUp>>

\* connect() queues the request and returns a token nobody keeps; "Success."
\* is printed at once.  It throws if the request could not be made.
Connect ==
  /\ step = "connect"
  /\ \/ /\ client' = "connecting"
        /\ step' = "hide"
        /\ printed' = "success"
        /\ UNCHANGED <<visible, menus, address, brokerUp>>
     \/ Throw /\ printed' = "error"

\* The main window stays open.
Mut_HideNothing ==
  /\ step = "hide"
  /\ step' = "create"
  /\ UNCHANGED <<visible, menus, address, client, brokerUp, printed>>

Hide ==
  /\ step = "hide"
  /\ visible' = visible \ {"main"}
  /\ step' = "create"
  /\ UNCHANGED <<menus, address, client, brokerUp, printed>>

\* The new window replaces the pointer to the last one.
CreateMenu ==
  /\ step = "create"
  /\ menus' = menus + 1
  /\ step' = "show"
  /\ UNCHANGED <<visible, address, client, brokerUp, printed>>

\* The window is created and never shown.
Mut_ShowNothing ==
  /\ step = "show"
  /\ step' = "display"
  /\ UNCHANGED <<visible, menus, address, client, brokerUp, printed>>

ShowMenu ==
  /\ step = "show"
  /\ visible' = visible \union {"menu"}
  /\ step' = "display"
  /\ UNCHANGED <<menus, address, client, brokerUp, printed>>

\* display_topics takes the client, but subscribes to nothing.
display_topics ==
  /\ step = "display"
  /\ printed' = "ok"
  /\ step' = "return"
  /\ UNCHANGED <<visible, menus, address, client, brokerUp>>

\* A client made with new, which nobody deletes.
Mut_LeakClient ==
  /\ step = "return"
  /\ step' = "loop"
  /\ UNCHANGED <<visible, menus, address, client, brokerUp, printed>>

\* The end of the scope: the client is destroyed, whatever it was doing.
ReturnFromSlot ==
  /\ step = "return"
  /\ client' = "none"
  /\ step' = "loop"
  /\ UNCHANGED <<visible, menus, address, brokerUp, printed>>

\* The process ends when the last window without a parent is closed; the
\* menu has the main window as its parent.
Close(w) ==
  /\ step = "loop" /\ w \in visible
  /\ visible' = visible \ {w}
  /\ step' = IF "main" \in visible' THEN "loop" ELSE "exited"
  /\ UNCHANGED <<menus, address, client, brokerUp, printed>>

----------------------------------------------------------------------------
Init ==
  /\ visible = {"main"} /\ menus = 0
  /\ step = "loop" /\ address = <<>> /\ client = "none"
  /\ brokerUp \in BOOLEAN /\ printed = "nothing"

Connecting == Construct \/ Connect
Switching == Hide \/ CreateMenu \/ ShowMenu \/ display_topics
InSlot == Connecting \/ Switching \/ ReturnFromSlot

Next ==
  \/ Click \/ InSlot \/ \E w \in {"main", "menu"} : Close(w)
  \/ Connack \/ ConnectionLost \/ BrokerChanges

Spec == Init /\ [][Next]_vars

\* The GUI thread runs.  The network owes nothing.
FairSpec == Spec /\ WF_vars(InSlot)

----------------------------------------------------------------------------
\* Whenever the user may act there is a window to act on: the main window is
\* hidden only to be replaced.
NeverHeadless == step = "loop" => visible # {}

\* The button is out of reach once it was used with success: the one pointer
\* main_menu never has to stand for two windows.
OneMenu == menus <= 1 /\ (menus = 1 /\ step = "loop" => "main" \notin visible)

\* The event loop runs again after a click, or the process has ended, with or
\* without an answer from the broker.
GuiStaysResponsive == step \in Slot ~> step \in {"loop", "aborted"}
==============================================================================
