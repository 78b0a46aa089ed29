-------------------------- MODULE ExplorerAppProofs --------------------------
(***************************************************************************)
(* Proofs about ExplorerApp, for anything that may be typed and any set of *)
(* brokers.                                                                *)
(***************************************************************************)
EXTENDS ExplorerApp, TLAPS

\* Where the windows are at each point of the slot.
Windows ==
  /\ step \in {"construct", "connect", "hide"} => visible = {"main"} /\ menus = 0
  /\ step = "create" => visible = {} /\ menus = 0
  /\ step = "show" => visible = {} /\ menus = 1
  /\ step \in {"display", "return"} => visible = {"menu"} /\ menus = 1
  /\ step = "loop" => \/ visible = {"main"} /\ menus = 0
                      \/ visible = {"menu"} /\ menus = 1
  /\ step \in {"exited", "aborted"} => menus \in {0, 1}

IInv == TypeOK /\ Windows

\* The windows follow the steps of the slot.
LEMMA WindowsStep == IInv /\ [Next]_vars => Windows'
<1> SUFFICES ASSUME IInv, [Next]_vars PROVE Windows'
  OBVIOUS
<1> USE DEF IInv, TypeOK, Windows, Slot
<1>1. CASE Click
  BY <1>1 DEF Click
<1>2. CASE Construct
  BY <1>2 DEF Construct, Throw
<1>3. CASE Connect
  BY <1>3 DEF Connect, Throw
<1>4. CASE Hide
  BY <1>4 DEF Hide
<1>5. CASE CreateMenu
  BY <1>5 DEF CreateMenu
<1>6. CASE ShowMenu
  BY <1>6 DEF ShowMenu
<1>7. CASE display_topics
  BY <1>7 DEF display_topics
<1>8. CASE ReturnFromSlot
  BY <1>8 DEF ReturnFromSlot
<1>9. CASE \E w \in {"main", "menu"} : Close(w)
  BY <1>9 DEF Close
<1>10. CASE Connack \/ ConnectionLost \/ BrokerChanges
  BY <1>10 DEF Connack, ConnectionLost, BrokerChanges
<1>11. CASE UNCHANGED vars
  BY <1>11 DEF vars
<1> QED
  BY <1>1, <1>2, <1>3, <1>4, <1>5, <1>6, <1>7, <1>8, <1>9, <1>10, <1>11
     DEF Next, InSlot, Connecting, Switching

\* The client object lives inside the slot, and everything has its type.
LEMMA TypeStep == TypeOK /\ [Next]_vars => TypeOK'
<1> SUFFICES ASSUME TypeOK, [Next]_vars PROVE TypeOK'
  OBVIOUS
<1> USE DEF TypeOK, Slot
<1>1. CASE Click
  <2>1. address' \in Addresses
    BY <1>1 DEF Click, Addresses
  <2> QED
    BY <1>1, <2>1 DEF Click
<1>2. CASE InSlot
  <2>1. CASE Construct
    BY <2>1 DEF Construct, Throw
  <2>2. CASE Connect
    BY <2>2 DEF Connect, Throw
  <2>3. CASE Hide
    BY <2>3 DEF Hide
  <2>4. CASE CreateMenu
    BY <2>4 DEF CreateMenu
  <2>5. CASE ShowMenu
    BY <2>5 DEF ShowMenu
  <2>6. CASE display_topics
    BY <2>6 DEF display_topics
  <2>7. CASE ReturnFromSlot
    BY <2>7 DEF ReturnFromSlot
  <2> QED
    BY <1>2, <2>1, <2>2, <2>3, <2>4, <2>5, <2>6, <2>7
       DEF InSlot, Connecting, Switching
<1>3. CASE \E w \in {"main", "menu"} : Close(w)
  BY <1>3 DEF Close
<1>4. CASE Connack \/ ConnectionLost \/ BrokerChanges
  BY <1>4 DEF Connack, ConnectionLost, BrokerChanges
<1>5. CASE UNCHANGED vars
  BY <1>5 DEF vars
<1> QED
  BY <1>1, <1>2, <1>3, <1>4, <1>5 DEF Next

\* The invariant of the application.
LEMMA Inductive == Spec => []IInv
<1>1. Init => IInv
  BY DEF Init, IInv, TypeOK, Windows, Slot
<1>2. IInv /\ [Next]_vars => IInv'
  BY TypeStep, WindowsStep DEF IInv
<1> QED
  BY <1>1, <1>2, PTL DEF Spec

\* Whenever the event loop runs there is a window on the screen.
THEOREM AlwaysAWindow == Spec => []NeverHeadless
<1>1. IInv => NeverHeadless
  BY DEF IInv, Windows, NeverHeadless
<1> QED
  BY <1>1, Inductive, PTL

\* The slot succeeds at most once, so main_menu stands for one window.
THEOREM MenuIsUnique == Spec => []OneMenu
<1>1. IInv => OneMenu
  BY DEF IInv, Windows, TypeOK, OneMenu, Slot
<1> QED
  BY <1>1, Inductive, PTL

\* Every variable has its type; the client lives inside the slot only.
THEOREM TypeOKHolds == Spec => []TypeOK
<1>1. IInv => TypeOK
  BY DEF IInv
<1> QED
  BY <1>1, Inductive, PTL

\* What the user can act on: no client, and the menu once it was opened.
MenuLosesClient ==
  step = "loop" => client = "none" /\ (menus = 1 <=> "menu" \in visible)

\* Whenever the event loop runs the client is gone, with every broker and any
\* address: no menu window on the screen, which "opens new window with topics and
\* messages" (main.cpp:42) makes, ever has one.
THEOREM MenuNeverHasClient == Spec => []MenuLosesClient
<1>1. IInv => MenuLosesClient
  BY DEF IInv, TypeOK, Slot, Windows, MenuLosesClient
<1> QED
  BY <1>1, Inductive, PTL
==============================================================================
