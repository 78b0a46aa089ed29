------------------------------- MODULE Options -------------------------------
(***************************************************************************)
(* The classes of src/src/mqtt_paho/headers that wrap a C structure:       *)
(* properties.h, string_collection.h, message.h, topic.h, will_options.h,  *)
(* ssl_options.h, connect_options.h, disconnect_options.h,                 *)
(* response_options.h, subscribe_options.h and create_options.h.           *)
(*                                                                         *)
(* Such an object keeps its data in C++ members and a C structure, for the *)
(* library to read, whose pointers lead into those members.  Every copy,   *)
(* move, assignment and setter has to leave each pointer where the data    *)
(* is.  An object is modelled one pointer at a time, for no pointer of a   *)
(* structure depends on another: the kind of an object is its class and    *)
(* the pointer in question, as in "connect_will" for willProperties.       *)
(***************************************************************************)
EXTENDS Integers, FiniteSets

CONSTANTS Objects,  \* the variables of a program, temporaries included
          Blocks,   \* addresses of the heap; a freed one is used again
          Null,
          Free,     \* what is found at an address that is not allocated
          Values,   \* one property, one string, one header
          Numbers,  \* what the application passes for a number: a QoS, a time
          Families  \* the sets of kinds that one behaviour is about: kinds that
                    \* are not in one family share nothing but the heap

\* A message as C has it, of the library or of the application; no class of
\* the wrapper manages it.
CStruct == "MQTTAsync_message"

AllKinds == {"properties", "strings", "headers", "message", "topic", "will", "ssl",
             "create", "subscribe", "disconnect", "response", "response_subs",
             "connect", "connect_will", "connect_ssl", "connect_headers",
             "connect_strings", "connect_data", CStruct}

ASSUME FamilyAssumption == Families \subseteq SUBSET AllKinds
ASSUME AddressAssumption ==
  /\ Objects \intersect Blocks = {} /\ Null \notin Objects \union Blocks
  /\ \A c \in SUBSET Values : c # Free
ASSUME NumberAssumption == Numbers \subseteq Int

VARIABLES kind,     \* of each object, "none" before it is constructed
          building, \* whether it is held by a builder
          own,      \* the block of its member, Null when there is none
          view,     \* what the pointer of its C structure leads to: a block,
                    \* the member of an object, or Null
          num,      \* its field of the C structure that is a number
          heap,     \* what each block holds
          origin,   \* how it came by its data: "set" in place, "copied", "built"
                    \* by a builder, or "moved" to another object
          asked,    \* history: the data that the application gave it
          family    \* the kinds this behaviour is about

vars == <<kind, building, own, view, num, heap, origin, asked, family>>

Contents == SUBSET Values
Empty == {}

\* The C structures without a pointer ...
PlainKinds == {"topic", "create", "subscribe"}

\* ... with a pointer to a member of the C++ object, and not to its block ...
MemberPointers == {"connect", "connect_will", "connect_ssl"}

\* ... with the array of properties, copied with its count ...
PropertyHolders == {"message", "will", "disconnect", "response", "connect"}

\* ... and with pointers to strings, or to an array.
StringHolders == {"ssl", "connect_strings", "connect_data", "response_subs"}

\* The pointer that goes with member block b of object o.
Pointing(k, o, b) ==
  IF k \notin MemberPointers \/ (k = "connect_will" /\ b = Null) THEN b ELSE o

\* Classes whose copies, assignments and moves copy opts_ and leave this
\* pointer as it was in the source, ...
KeepsPointer == {"connect", "connect_headers", "disconnect"}

\* ... that leave the member out of copies and assignments, ...
ForgetsMember == {"disconnect", "response_subs"}

\* ... and that have no move, or one that does not empty the source.
MovesByCopy == ForgetsMember \union {"response", "connect_data"}

\* Kinds whose pointer goes with the member when it is moved out.
Emptied == {"properties", "will", "strings", "headers"}

TypeOK ==
  /\ family \in Families
  /\ kind \in [Objects -> AllKinds \union {"none"}]
  /\ \A o \in Objects : kind[o] \in PlainKinds \union {"none"} => own[o] = Null
  /\ building \in [Objects -> BOOLEAN]
  /\ own \in [Objects -> Blocks \union {Null}]
  /\ view \in [Objects -> Blocks \union Objects \union {Null}]
  /\ num \in [Objects -> Int]
  /\ heap \in [Blocks -> {Free} \union Contents]
  /\ origin \in [Objects -> {"set", "copied", "built", "moved"}]
  /\ asked \in [Objects -> Contents]

----------------------------------------------------------------------------
(* Memory.                                                                 *)

Content(b) == IF b = Null THEN Empty ELSE heap[b]

\* The blocks that may take c once block x is free; nothing needs none.
BlocksFor(c, x) == IF c = Empty THEN {Null} ELSE {b \in Blocks : heap[b] = Free \/ b = x}

\* The heap when block x is freed and block b made to hold c.
Freed(x, b, c) ==
  [a \in Blocks |-> IF a = b THEN c ELSE IF a = x THEN Free ELSE heap[a]]

\* The member of o is freed, and replaced by block b, which holds c.
Replace(o, b, c) ==
  /\ own' = [own EXCEPT ![o] = b]
  /\ heap' = Freed(own[o], b, c)

\* The member of o is freed, and takes over that of s.
Transfer(o, s) ==
  /\ own' = [own EXCEPT ![o] = own[s], ![s] = Null]
  /\ heap' = Freed(own[o], Null, Empty)

\* What the library finds behind the pointer of o.
Read(o) ==
  LET p == view[o]
  IN  IF p = Null THEN Empty
      ELSE IF p \in Blocks THEN heap[p]
      ELSE IF kind[p] = kind[o] THEN Content(own[p]) ELSE Free

----------------------------------------------------------------------------
(* Setters.                                                                *)

\* A new value c, and the pointer set to it.
SetTo(o, c, meant) ==
  /\ \E b \in BlocksFor(c, own[o]) :
       /\ Replace(o, b, c)
       /\ view' = [view EXCEPT ![o] = Pointing(kind[o], o, b)]
  /\ origin' = [origin EXCEPT ![o] = "set"]
  /\ asked' = [asked EXCEPT ![o] = meant]
  /\ UNCHANGED <<kind, building, num, family>>

SetCopy(o, s) == o # s /\ SetTo(o, Content(own[s]), asked[s])

SetMove(o, s) ==
  /\ o # s
  /\ Transfer(o, s)
  /\ view' = [view EXCEPT ![o] = Pointing(kind[o], o, own[s]), ![s] = Null]
  /\ origin' = [origin EXCEPT ![o] = "set"]
  /\ asked' = [asked EXCEPT ![o] = asked[s], ![s] = Empty]
  /\ UNCHANGED <<kind, building, num, family>>

SetNumber(o, n) ==
  /\ num' = [num EXCEPT ![o] = n]
  /\ UNCHANGED <<kind, building, own, view, heap, origin, asked, family>>

\* Any number is taken.
SetAnyNumber(o) == \E n \in Numbers : SetNumber(o, n)

\* message::validate_qos throws before anything is changed.
validate_qos(n) == n \in 0..2

SetQos(o) == \E n \in Numbers : validate_qos(n) /\ SetNumber(o, n)

set_properties(o) ==
  /\ kind[o] \in PropertyHolders
  /\ \E p \in Objects : kind[p] = "properties" /\ (SetCopy(o, p) \/ SetMove(o, p))

\* Another string takes the place of the first.
set_string(o) == kind[o] \in StringHolders /\ \E c \in Contents : SetTo(o, c, c)

\* One more, or none.
Grow(o) ==
  \/ \E v \in Values : SetTo(o, Content(own[o]) \union {v}, asked[o] \union {v})
  \/ SetTo(o, Empty, Empty)

\* properties::add and clear; the library may move the array to grow it.
add(o) == kind[o] = "properties" /\ Grow(o)

\* push_back and clear, insert and clear: the C array is made anew.
strings_setters(o) == kind[o] = "strings" /\ Grow(o)
headers_setters(o) == kind[o] = "headers" /\ Grow(o)

message_setters(o) == kind[o] = "message" /\ (set_properties(o) \/ SetQos(o))

topic_setters(o) == kind[o] = "topic" /\ SetQos(o)

will_setters(o) == kind[o] = "will" /\ (set_properties(o) \/ SetAnyNumber(o))

ssl_setters(o) == kind[o] = "ssl" /\ (set_string(o) \/ SetAnyNumber(o))

disconnect_setters(o) == kind[o] = "disconnect" /\ (set_properties(o) \/ SetAnyNumber(o))

response_setters(o) ==
  \/ kind[o] = "response" /\ set_properties(o)
  \/ kind[o] = "response_subs" /\ set_string(o)

create_setters(o) == kind[o] = "create" /\ SetAnyNumber(o)

subscribe_setters(o) == kind[o] = "subscribe" /\ SetAnyNumber(o)

\* User name, password, servers; and the fields that are numbers.
connect_fields(o) ==
  \/ kind[o] = "connect_strings" /\ set_string(o)
  \/ kind[o] = "connect" /\ SetAnyNumber(o)

\* The will, also from a message, and the SSL options, copied even if moved.
connect_members(o) ==
  \E s \in Objects :
    \/ kind[o] = "connect_will" /\ kind[s] = "will" /\ (SetCopy(o, s) \/ SetMove(o, s))
    \/ kind[o] = "connect_will" /\ kind[s] = "message" /\ SetCopy(o, s)
    \/ kind[o] = "connect_ssl" /\ kind[s] = "ssl" /\ SetCopy(o, s)

connect_v5(o) ==
  \/ kind[o] = "connect" /\ set_properties(o)
  \/ kind[o] = "connect_headers" /\ \E s \in Objects :
       kind[s] = "headers" /\ (SetCopy(o, s) \/ SetMove(o, s))

connect_data_setters(o) == kind[o] = "connect_data" /\ set_string(o)

Setter(o) ==
  \/ add(o) \/ strings_setters(o) \/ headers_setters(o)
  \/ message_setters(o) \/ topic_setters(o) \/ will_setters(o) \/ ssl_setters(o)
  \/ disconnect_setters(o) \/ response_setters(o) \/ create_setters(o)
  \/ subscribe_setters(o) \/ connect_fields(o) \/ connect_members(o)
  \/ connect_v5(o) \/ connect_data_setters(o)

----------------------------------------------------------------------------
(* Builders.  Their methods forward to the setters of what they hold.      *)

message_ptr_builder(o) == message_setters(o)
ssl_options_builder(o) == ssl_setters(o)
disconnect_options_builder(o) == disconnect_setters(o)
response_options_builder(o) == response_setters(o)
create_options_builder(o) == create_setters(o)
connect_builder_fields(o) == connect_fields(o) \/ connect_members(o)
connect_builder_v5(o) == connect_v5(o)

BuilderMethod(o) ==
  \/ message_ptr_builder(o) \/ ssl_options_builder(o) \/ disconnect_options_builder(o)
  \/ response_options_builder(o) \/ create_options_builder(o)
  \/ connect_builder_fields(o) \/ connect_builder_v5(o)

BuiltKinds == {"message", "ssl", "disconnect", "response", "response_subs", "create",
               "connect", "connect_will", "connect_ssl", "connect_headers",
               "connect_strings"}

----------------------------------------------------------------------------
(* Construction and destruction.                                           *)

\* Object o is made with number n and a copy of c.
New(o, k, n, c, meant) ==
  /\ kind[o] = "none" /\ k \in family
  /\ kind' = [kind EXCEPT ![o] = k]
  /\ num' = [num EXCEPT ![o] = n]
  /\ \E b \in BlocksFor(c, Null) :
       /\ Replace(o, b, c)
       /\ view' = [view EXCEPT ![o] = IF b = Null THEN Null ELSE Pointing(k, o, b)]
  /\ origin' = [origin EXCEPT ![o] = "set"]
  /\ asked' = [asked EXCEPT ![o] = meant]
  /\ UNCHANGED family

\* Without arguments; a builder makes what it holds in this way.
Default(o, k) ==
  /\ New(o, k, 0, Empty, Empty)
  /\ \E b \in BOOLEAN : (b => k \in BuiltKinds) /\ building' = [building EXCEPT ![o] = b]

NewPlain(o, k, n, c, meant) == New(o, k, n, c, meant) /\ UNCHANGED building

\* From properties p or without any.
GivenProperties(o, k, n) ==
  \/ NewPlain(o, k, n, Empty, Empty)
  \/ \E p \in Objects : kind[p] = "properties"
                        /\ NewPlain(o, k, n, Content(own[p]), asked[p])

message(o) == \E n \in Numbers : validate_qos(n) /\ GivenProperties(o, "message", n)

Mut_UncheckedMessage(o) ==
  \E s \in Objects : kind[s] \in {"topic", "will"}
                     /\ NewPlain(o, "message", num[s], Empty, Empty)

\* A C structure is filled in by whoever made it, with any number.
c_struct(o) == \E n \in Numbers, c \in Contents : NewPlain(o, CStruct, n, c, c)

\* The message that is made of one takes over its QoS without a test, and its
\* properties.
message_of_struct(o) ==
  \E s \in Objects : /\ kind[s] = CStruct
                     /\ NewPlain(o, "message", num[s], Content(own[s]), asked[s])

\* topic::publish and will_options::get_message: without the properties.
message_create(o) ==
  \E s \in Objects : /\ kind[s] \in {"topic", "will"} /\ validate_qos(num[s])
                     /\ NewPlain(o, "message", num[s], Empty, Empty)

will_options(o) ==
  \/ \E n \in Numbers : GivenProperties(o, "will", n)
  \/ \E m \in Objects : kind[m] = "message"
                        /\ NewPlain(o, "will", num[m], Content(own[m]), asked[m])

topic(o) == \E n \in Numbers : NewPlain(o, "topic", n, Empty, Empty)

string_collection(o) == \E c \in Contents : NewPlain(o, "strings", 0, c, c)

name_value_collection(o) == \E c \in Contents : NewPlain(o, "headers", 0, c, c)

options(o) ==
  \E k \in AllKinds \ {"message", "will", "topic", "strings", "headers", CStruct} :
    Default(o, k)

Constructor(o) ==
  \/ options(o) \/ message(o) \/ Default(o, "message") \/ message_create(o)
  \/ will_options(o) \/ topic(o) \/ string_collection(o) \/ name_value_collection(o)
  \/ c_struct(o) \/ message_of_struct(o)

Mut_MemberKept(o) ==
  /\ kind[o] # "none"
  /\ kind' = [kind EXCEPT ![o] = "none"]
  /\ building' = [building EXCEPT ![o] = FALSE]
  /\ heap' = Freed(own[o], Null, Empty) /\ UNCHANGED own
  /\ view' = [view EXCEPT ![o] = Null] /\ num' = [num EXCEPT ![o] = 0]
  /\ origin' = [origin EXCEPT ![o] = "set"] /\ asked' = [asked EXCEPT ![o] = Empty]
  /\ UNCHANGED family

Mut_NotFreed(o) ==
  /\ kind[o] # "none"
  /\ kind' = [kind EXCEPT ![o] = "none"]
  /\ building' = [building EXCEPT ![o] = FALSE]
  /\ own' = [own EXCEPT ![o] = Null]
  /\ view' = [view EXCEPT ![o] = Null] /\ num' = [num EXCEPT ![o] = 0]
  /\ origin' = [origin EXCEPT ![o] = "set"] /\ asked' = [asked EXCEPT ![o] = Empty]
  /\ UNCHANGED <<heap, family>>

\* The destructor, in the end that of properties, of strings or of a vector.
Destroy(o) ==
  /\ kind[o] # "none"
  /\ kind' = [kind EXCEPT ![o] = "none"]
  /\ building' = [building EXCEPT ![o] = FALSE]
  /\ Replace(o, Null, Empty)
  /\ view' = [view EXCEPT ![o] = Null] /\ num' = [num EXCEPT ![o] = 0]
  /\ origin' = [origin EXCEPT ![o] = "set"] /\ asked' = [asked EXCEPT ![o] = Empty]
  /\ UNCHANGED family

----------------------------------------------------------------------------
(* Copies, moves and assignments of whole objects, o from s.               *)

\* The pointer of o, given the block b that o has now.
CopiedPointer(o, s, b) ==
  IF kind[s] \in KeepsPointer THEN view[s] ELSE Pointing(kind[s], o, b)

\* What is copied of the member of s.
CopiedMember(s) == IF kind[s] \in ForgetsMember THEN Empty ELSE Content(own[s])

\* A copy is what its source was meant to be.
CopyMade(o, s, how) ==
  /\ kind[o] = "none" /\ kind[s] \notin {"none", CStruct}
  /\ kind' = [kind EXCEPT ![o] = kind[s]]
  /\ num' = [num EXCEPT ![o] = num[s]]
  /\ \E b \in BlocksFor(CopiedMember(s), Null) :
       /\ Replace(o, b, CopiedMember(s))
       /\ view' = [view EXCEPT ![o] = CopiedPointer(o, s, b)]
  /\ origin' = [origin EXCEPT ![o] = how]
  /\ asked' = [asked EXCEPT ![o] = asked[s]]
  /\ UNCHANGED <<building, family>>

CopyConstruct(o, s) == ~building[s] /\ CopyMade(o, s, "copied")

\* finalize() returns a copy, and the builder stays; message_ptr_builder
\* gives out the message itself.
finalize(o, s) ==
  /\ building[s]
  /\ IF kind[s] = "message"
     THEN /\ o = s
          /\ building' = [building EXCEPT ![s] = FALSE]
          /\ UNCHANGED <<kind, own, view, num, heap, origin, asked, family>>
     ELSE CopyMade(o, s, "built")

\* What becomes of the source of a move: the pointer goes with the member, or
\* it is left behind.
MovedOut(o, s, v) ==
  /\ view' = [view EXCEPT ![o] = v, ![s] = IF kind[s] \in Emptied THEN Null ELSE @]
  /\ origin' = [origin EXCEPT ![o] = "copied",
                              ![s] = IF kind[s] \in Emptied THEN @ ELSE "moved"]
  /\ asked' = [asked EXCEPT ![o] = asked[s], ![s] = Empty]

MoveConstruct(o, s) ==
  /\ kind[o] = "none" /\ kind[s] \notin {"none", CStruct} \union MovesByCopy /\ ~building[s]
  /\ kind' = [kind EXCEPT ![o] = kind[s]]
  /\ num' = [num EXCEPT ![o] = num[s]]
  /\ Transfer(o, s)
  /\ MovedOut(o, s, CopiedPointer(o, s, own[s]))
  /\ UNCHANGED <<building, family>>

Assignable(o, s) ==
  kind[o] = kind[s] /\ kind[s] \notin {"none", CStruct} /\ ~building[o] /\ ~building[s]

Mut_SelfUnchecked(o, s) ==
  /\ Assignable(o, s) /\ kind[s] \notin ForgetsMember
  /\ num' = [num EXCEPT ![o] = num[s]]
  /\ LET c == IF o = s THEN Empty ELSE CopiedMember(s)
     IN  \E b \in BlocksFor(c, own[o]) :
           /\ Replace(o, b, c)
           /\ view' = [view EXCEPT ![o] = CopiedPointer(o, s, b)]
  /\ origin' = [origin EXCEPT ![o] = "copied"]
  /\ asked' = [asked EXCEPT ![o] = asked[s]]
  /\ UNCHANGED <<kind, building, family>>

\* Assigned to itself, an object stays as it is.
CopyAssign(o, s) ==
  /\ Assignable(o, s) /\ o # s
  /\ num' = [num EXCEPT ![o] = num[s]]
  /\ IF kind[s] \in ForgetsMember
     THEN /\ view' = [view EXCEPT ![o] = CopiedPointer(o, s, own[o])]
          /\ UNCHANGED <<own, heap>>
     ELSE \E b \in BlocksFor(CopiedMember(s), own[o]) :
            /\ Replace(o, b, CopiedMember(s))
            /\ view' = [view EXCEPT ![o] = CopiedPointer(o, s, b)]
  /\ origin' = [origin EXCEPT ![o] = "copied"]
  /\ asked' = [asked EXCEPT ![o] = asked[s]]
  /\ UNCHANGED <<kind, building, family>>

Mut_MemberShared(o, s) ==
  /\ Assignable(o, s) /\ o # s
  /\ kind[s] \notin MovesByCopy \union {"connect_ssl"}
  /\ num' = [num EXCEPT ![o] = num[s]]
  /\ own' = [own EXCEPT ![o] = own[s]]
  /\ heap' = Freed(own[o], Null, Empty)
  /\ MovedOut(o, s, CopiedPointer(o, s, own[s]))
  /\ UNCHANGED <<kind, building, family>>

\* The SSL options of connect options are copied.
MoveAssign(o, s) ==
  /\ Assignable(o, s) /\ o # s
  /\ kind[s] \notin MovesByCopy \union {"connect_ssl"}
  /\ num' = [num EXCEPT ![o] = num[s]]
  /\ Transfer(o, s)
  /\ MovedOut(o, s, CopiedPointer(o, s, own[s]))
  /\ UNCHANGED <<kind, building, family>>

----------------------------------------------------------------------------
Init ==
  /\ family \in Families
  /\ kind = [o \in Objects |-> "none"] /\ building = [o \in Objects |-> FALSE]
  /\ own = [o \in Objects |-> Null] /\ view = [o \in Objects |-> Null]
  /\ num = [o \in Objects |-> 0]
  /\ heap = [b \in Blocks |-> Free]
  /\ origin = [o \in Objects |-> "set"] /\ asked = [o \in Objects |-> Empty]

Next ==
  \E o \in Objects :
    \/ Constructor(o) \/ Destroy(o)
    \/ ~building[o] /\ Setter(o)
    \/ building[o] /\ BuilderMethod(o)
    \/ \E s \in Objects : \/ CopyConstruct(o, s) \/ MoveConstruct(o, s) \/ finalize(o, s)
                          \/ CopyAssign(o, s) \/ MoveAssign(o, s)

Spec == Init /\ [][Next]_vars

----------------------------------------------------------------------------
(* Safety.                                                                 *)

\* No block is freed twice: it belongs to one object, and is allocated.
OwnedOnce ==
  \A o \in Objects : own[o] # Null =>
    /\ heap[own[o]] # Free
    /\ \A p \in Objects \ {o} : own[p] # own[o]

\* None is lost: what is allocated belongs to an object.
NoLeak ==
  \A b \in Blocks : heap[b] # Free => \E o \in Objects : kind[o] # "none" /\ own[o] = b

\* The library reads what the application gave, neither more nor freed
\* memory, from any object that was not moved away; but where a class leaves
\* out the member or the pointer, only from one that was set in place.
ReadAsAsked ==
  \A o \in Objects :
    \/ kind[o] = "none" \/ origin[o] = "moved"
    \/ kind[o] \in KeepsPointer \union ForgetsMember /\ origin[o] # "set"
    \/ Read(o) = asked[o]

\* A QoS that MQTT does not know, in a message.
UnknownQos(o) == kind[o] = "message" /\ num[o] \notin 0..2

\* Topics and wills take any QoS, and messages are made of them: still the one
\* way in for an unknown one is a message of C, whose QoS nothing tests.  A
\* message that gets one has it from there, or from a message that had it.
MessageQos ==
  [][\A o \in Objects : UnknownQos(o)' =>
       \E s \in Objects : kind[s] \in {"message", CStruct} /\ num[s] = num'[o]]_vars

\* What the documentation says of every builder: "@return The option struct
\* as built."
BuiltAsAsked ==
  \A o \in Objects : kind[o] # "none" /\ origin[o] = "built" => Read(o) = asked[o]
=============================================================================
