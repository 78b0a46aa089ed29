---------------------------- MODULE OptionsProofs ----------------------------
(***************************************************************************)
(* Proofs about Options: the memory of the objects, and what the library   *)
(* finds behind their pointers, for every set of objects, blocks, values,  *)
(* numbers and families.                                                   *)
(***************************************************************************)
EXTENDS Options, TLAPS

\* The members and the heap agree.
MemOK ==
  /\ own \in [Objects -> Blocks \union {Null}]
  /\ heap \in [Blocks -> {Free} \union Contents]
  /\ OwnedOnce
  /\ \A b \in Blocks : heap[b] # Free => \E o \in Objects : own[o] = b

\* The member of o holds what was asked, unless its class left it out.
DataKept(o) ==
  \/ kind[o] \in ForgetsMember /\ origin[o] # "set"
  \/ Content(own[o]) = asked[o]

\* The pointer of o leads to its own member, unless its class keeps the old one.
PointerKept(o) ==
  \/ kind[o] = "none" \/ origin[o] = "moved"
  \/ kind[o] \in KeepsPointer /\ origin[o] # "set"
  \/ view[o] = Pointing(kind[o], o, own[o])
  \/ view[o] = Null /\ own[o] = Null

IInv == /\ TypeOK /\ MemOK
        /\ \A o \in Objects : DataKept(o) /\ PointerKept(o)

\* Kinds with a member on the heap.
Holder(k) == k \notin PlainKinds \union {"none"}

----------------------------------------------------------------------------
(* Memory.                                                                 *)

\* The content of a member is a set of values.
LEMMA ContentType ==
  ASSUME MemOK, NEW o \in Objects
  PROVE  Content(own[o]) \in Contents
<1>1. CASE own[o] = Null
  BY <1>1 DEF Content, Contents, Empty
<1>2. CASE own[o] # Null
  BY <1>2 DEF MemOK, OwnedOnce, Content
<1> QED BY <1>1, <1>2

\* A member that is replaced holds the new content, and the others theirs.
LEMMA ReplaceKeeps ==
  ASSUME MemOK, NEW o \in Objects, NEW c \in Contents,
         NEW b \in BlocksFor(c, own[o]), Replace(o, b, c)
  PROVE  /\ MemOK'
         /\ own'[o] = b /\ Content(own[o])' = c
         /\ \A p \in Objects \ {o} : own'[p] = own[p] /\ Content(own[p])' = Content(own[p])
<1> USE AddressAssumption
<1>1. /\ own \in [Objects -> Blocks \union {Null}]
      /\ heap \in [Blocks -> {Free} \union Contents]
      /\ \A p \in Objects : own[p] # Null => heap[own[p]] # Free
      /\ \A p, q \in Objects : p # q /\ own[p] # Null => own[q] # own[p]
      /\ \A a \in Blocks : heap[a] # Free => \E p \in Objects : own[p] = a
  BY DEF MemOK, OwnedOnce
<1>2. c # Free
  BY DEF Contents
<1>3. /\ own' = [own EXCEPT ![o] = b]
      /\ heap' = [a \in Blocks |-> IF a = b THEN c ELSE IF a = own[o] THEN Free ELSE heap[a]]
  BY DEF Replace, Freed
<1>4. \/ c = Empty /\ b = Null
      \/ c # Empty /\ b \in Blocks /\ (heap[b] = Free \/ b = own[o])
  BY DEF BlocksFor
<1>5. Null \notin Blocks
  OBVIOUS
<1>6. own' \in [Objects -> Blocks \union {Null}] /\ own'[o] = b
  BY <1>1, <1>3, <1>4
<1>7. heap' \in [Blocks -> {Free} \union Contents]
  BY <1>1, <1>3
<1>8. \A p \in Objects \ {o} : own'[p] = own[p]
  BY <1>1, <1>3
<1>9. \A p \in Objects \ {o} : own[p] # Null => own[p] # b /\ own[p] # own[o]
  BY <1>1, <1>4
<1>10. \A p \in Objects \ {o} : own[p] # Null => heap'[own[p]] = heap[own[p]]
  BY <1>1, <1>3, <1>9
<1>11. Content(own[o])' = c
  BY <1>6, <1>3, <1>4, <1>5 DEF Content
<1>12. \A p \in Objects \ {o} : Content(own[p])' = Content(own[p])
  BY <1>10, <1>8 DEF Content
<1>13. OwnedOnce'
  <2> SUFFICES ASSUME NEW p \in Objects, own'[p] # Null
               PROVE  heap'[own'[p]] # Free /\ \A q \in Objects \ {p} : own'[q] # own'[p]
    BY DEF OwnedOnce
  <2>1. CASE p = o
    BY <2>1, <1>2, <1>3, <1>4, <1>6, <1>8, <1>9
  <2>2. CASE p # o
    BY <2>2, <1>1, <1>6, <1>8, <1>9, <1>10
  <2> QED BY <2>1, <2>2
<1>14. ASSUME NEW a \in Blocks, heap'[a] # Free
       PROVE  \E p \in Objects : own'[p] = a
  <2>1. CASE a = b
    BY <2>1, <1>6
  <2>2. CASE a # b
    <3>1. heap[a] # Free /\ a # own[o]
      BY <2>2, <1>3, <1>14
    <3>2. PICK p \in Objects : own[p] = a
      BY <3>1, <1>1
    <3> QED BY <3>1, <3>2, <1>8
  <2> QED BY <2>1, <2>2
<1> QED BY <1>6, <1>7, <1>8, <1>11, <1>12, <1>13, <1>14 DEF MemOK

\* A member that is taken over holds what it held, and its source nothing.
LEMMA TransferKeeps ==
  ASSUME MemOK, NEW o \in Objects, NEW s \in Objects, o # s, Transfer(o, s)
  PROVE  /\ MemOK'
         /\ own'[o] = own[s] /\ own'[s] = Null
         /\ Content(own[o])' = Content(own[s]) /\ Content(own[s])' = Empty
         /\ \A p \in Objects \ {o, s} :
              own'[p] = own[p] /\ Content(own[p])' = Content(own[p])
<1> USE AddressAssumption
<1>1. /\ own \in [Objects -> Blocks \union {Null}]
      /\ heap \in [Blocks -> {Free} \union Contents]
      /\ \A p \in Objects : own[p] # Null => heap[own[p]] # Free
      /\ \A p, q \in Objects : p # q /\ own[p] # Null => own[q] # own[p]
      /\ \A a \in Blocks : heap[a] # Free => \E p \in Objects : own[p] = a
  BY DEF MemOK, OwnedOnce
<1>2. /\ own' = [own EXCEPT ![o] = own[s], ![s] = Null]
      /\ heap' = [a \in Blocks |-> IF a = Null THEN Empty
                                   ELSE IF a = own[o] THEN Free ELSE heap[a]]
  BY DEF Transfer, Freed
<1>3. heap' = [a \in Blocks |-> IF a = own[o] THEN Free ELSE heap[a]]
  BY <1>2
<1>4. own' \in [Objects -> Blocks \union {Null}] /\ own'[o] = own[s] /\ own'[s] = Null
  BY <1>1, <1>2
<1>5. heap' \in [Blocks -> {Free} \union Contents]
  BY <1>1, <1>3
<1>6. \A p \in Objects \ {o, s} : own'[p] = own[p]
  BY <1>1, <1>2
<1>7. \A p \in Objects \ {o} : own[p] # Null => heap'[own[p]] = heap[own[p]]
  BY <1>1, <1>3
<1>8. \A p \in Objects \ {o} : own[p] = Null \/ heap'[own[p]] = heap[own[p]]
  BY <1>7
<1>9. \A p \in Objects \ {o, s} : Content(own[p])' = Content(own[p])
  BY <1>6, <1>8 DEF Content
<1>10. Content(own[o])' = Content(own[s]) /\ Content(own[s])' = Empty
  BY <1>4, <1>8 DEF Content
<1>11. OwnedOnce'
  <2> SUFFICES ASSUME NEW p \in Objects, own'[p] # Null
               PROVE  heap'[own'[p]] # Free /\ \A q \in Objects \ {p} : own'[q] # own'[p]
    BY DEF OwnedOnce
  <2>1. CASE p = o
    BY <2>1, <1>1, <1>4, <1>6, <1>7
  <2>2. CASE p # o
    BY <2>2, <1>1, <1>4, <1>6, <1>7
  <2> QED BY <2>1, <2>2
<1>12. ASSUME NEW a \in Blocks, heap'[a] # Free
       PROVE  \E p \in Objects : own'[p] = a
  <2>1. heap[a] # Free /\ a # own[o]
    BY <1>3, <1>12
  <2>2. PICK p \in Objects : own[p] = a
    BY <2>1, <1>1
  <2>3. CASE p = s
    BY <2>2, <2>3, <1>4
  <2>4. CASE p # s
    BY <2>1, <2>2, <2>4, <1>6
  <2> QED BY <2>3, <2>4
<1> QED BY <1>4, <1>5, <1>6, <1>9, <1>10, <1>11, <1>12 DEF MemOK

----------------------------------------------------------------------------
(* Setters.                                                                *)

\* An object that a step does not touch keeps its data and its pointer.
LEMMA Untouched ==
  ASSUME NEW p \in Objects, DataKept(p), PointerKept(p),
         kind'[p] = kind[p], origin'[p] = origin[p], asked'[p] = asked[p],
         view'[p] = view[p], own'[p] = own[p], Content(own[p])' = Content(own[p])
  PROVE  DataKept(p)' /\ PointerKept(p)'
<1>1. DataKept(p)'
  BY DEF DataKept
<1>2. PointerKept(p)'
  BY DEF PointerKept, Pointing
<1> QED BY <1>1, <1>2

LEMMA SetToKeeps ==
  ASSUME IInv, NEW o \in Objects, NEW c \in Contents, Holder(kind[o]), SetTo(o, c, c)
  PROVE  IInv'
<1> USE AddressAssumption
<1>1. PICK b \in BlocksFor(c, own[o]) :
        Replace(o, b, c) /\ view' = [view EXCEPT ![o] = Pointing(kind[o], o, b)]
  BY DEF SetTo
<1>2. /\ origin' = [origin EXCEPT ![o] = "set"]
      /\ asked' = [asked EXCEPT ![o] = c]
      /\ UNCHANGED <<kind, building, num, family>>
  BY DEF SetTo
<1>3. /\ MemOK'
      /\ own'[o] = b /\ Content(own[o])' = c
      /\ \A p \in Objects \ {o} : own'[p] = own[p] /\ Content(own[p])' = Content(own[p])
  BY <1>1, ReplaceKeeps DEF IInv
<1>4. b \in Blocks \union {Null}
  BY DEF BlocksFor
<1>5. TypeOK'
  <2>1. view' \in [Objects -> Blocks \union Objects \union {Null}]
    BY <1>1, <1>4 DEF IInv, TypeOK, Pointing
  <2>2. \A p \in Objects : kind'[p] \in PlainKinds \union {"none"} => own'[p] = Null
    BY <1>2, <1>3 DEF IInv, TypeOK, Holder
  <2>3. own' \in [Objects -> Blocks \union {Null}] /\ heap' \in [Blocks -> {Free} \union Contents]
    BY <1>3 DEF MemOK
  <2>4. /\ origin' \in [Objects -> {"set", "copied", "built", "moved"}]
        /\ asked' \in [Objects -> Contents]
    BY <1>2 DEF IInv, TypeOK
  <2>5. /\ family' \in Families /\ kind' \in [Objects -> AllKinds \union {"none"}]
        /\ building' \in [Objects -> BOOLEAN] /\ num' \in [Objects -> Int]
    BY <1>2 DEF IInv, TypeOK
  <2> QED BY <2>1, <2>2, <2>3, <2>4, <2>5 DEF TypeOK
<1>7. ASSUME NEW p \in Objects PROVE DataKept(p)' /\ PointerKept(p)'
  <2>1. CASE p = o
    <3>1. asked'[o] = c /\ view'[o] = Pointing(kind[o], o, b)
      BY <1>1, <1>2 DEF IInv, TypeOK
    <3>2. DataKept(o)'
      BY <3>1, <1>3 DEF DataKept
    <3>3. PointerKept(o)'
      BY <3>1, <1>2, <1>3 DEF PointerKept, Pointing
    <3> QED BY <2>1, <3>2, <3>3
  <2>2. CASE p # o
    <3>1. /\ kind'[p] = kind[p] /\ origin'[p] = origin[p] /\ asked'[p] = asked[p]
          /\ view'[p] = view[p] /\ own'[p] = own[p] /\ Content(own[p])' = Content(own[p])
      BY <2>2, <1>1, <1>2, <1>3 DEF IInv, TypeOK
    <3> QED BY <3>1, Untouched DEF IInv
  <2> QED BY <2>1, <2>2
<1> QED BY <1>3, <1>5, <1>7 DEF IInv

LEMMA SetMoveKeeps ==
  ASSUME IInv, NEW o \in Objects, NEW s \in Objects,
         Holder(kind[o]), kind[s] \notin ForgetsMember, SetMove(o, s)
  PROVE  IInv'
<1> USE AddressAssumption
<1>1. /\ o # s /\ Transfer(o, s)
      /\ view' = [view EXCEPT ![o] = Pointing(kind[o], o, own[s]), ![s] = Null]
      /\ origin' = [origin EXCEPT ![o] = "set"]
      /\ asked' = [asked EXCEPT ![o] = asked[s], ![s] = Empty]
      /\ UNCHANGED <<kind, building, num, family>>
  BY DEF SetMove
<1>2. /\ MemOK'
      /\ own'[o] = own[s] /\ own'[s] = Null
      /\ Content(own[o])' = Content(own[s]) /\ Content(own[s])' = Empty
      /\ \A p \in Objects \ {o, s} :
           own'[p] = own[p] /\ Content(own[p])' = Content(own[p])
  BY <1>1, TransferKeeps DEF IInv
<1>3. Content(own[s]) = asked[s]
  BY DEF IInv, DataKept
<1>4. Empty \in Contents
  BY DEF Empty, Contents
<1>5. TypeOK'
  <2>1. view' \in [Objects -> Blocks \union Objects \union {Null}]
    BY <1>1 DEF IInv, TypeOK, Pointing
  <2>2. \A p \in Objects : kind'[p] \in PlainKinds \union {"none"} => own'[p] = Null
    BY <1>1, <1>2 DEF IInv, TypeOK, Holder
  <2>3. own' \in [Objects -> Blocks \union {Null}] /\ heap' \in [Blocks -> {Free} \union Contents]
    BY <1>2 DEF MemOK
  <2>4. /\ origin' \in [Objects -> {"set", "copied", "built", "moved"}]
        /\ asked' \in [Objects -> Contents]
    BY <1>1, <1>4 DEF IInv, TypeOK
  <2>5. /\ family' \in Families /\ kind' \in [Objects -> AllKinds \union {"none"}]
        /\ building' \in [Objects -> BOOLEAN] /\ num' \in [Objects -> Int]
    BY <1>1 DEF IInv, TypeOK
  <2> QED BY <2>1, <2>2, <2>3, <2>4, <2>5 DEF TypeOK
<1>7. ASSUME NEW p \in Objects PROVE DataKept(p)' /\ PointerKept(p)'
  <2>1. /\ asked'[o] = asked[s] /\ view'[o] = Pointing(kind[o], o, own[s])
        /\ asked'[s] = Empty /\ view'[s] = Null
    BY <1>1 DEF IInv, TypeOK
  <2>2. CASE p = o
    <3>1. DataKept(o)'
      BY <2>1, <1>2, <1>3 DEF DataKept
    <3>2. PointerKept(o)'
      BY <2>1, <1>1, <1>2 DEF PointerKept, Pointing
    <3> QED BY <2>2, <3>1, <3>2
  <2>3. CASE p = s
    BY <2>3, <2>1, <1>2 DEF DataKept, PointerKept
  <2>4. CASE p \notin {o, s}
    <3>1. /\ kind'[p] = kind[p] /\ origin'[p] = origin[p] /\ asked'[p] = asked[p]
          /\ view'[p] = view[p] /\ own'[p] = own[p] /\ Content(own[p])' = Content(own[p])
      BY <2>4, <1>1, <1>2 DEF IInv, TypeOK
    <3> QED BY <3>1, Untouched DEF IInv
  <2> QED BY <2>2, <2>3, <2>4
<1> QED BY <1>2, <1>5, <1>7 DEF IInv

LEMMA SetNumberKeeps ==
  ASSUME IInv, NEW o \in Objects, NEW n \in Int, SetNumber(o, n)
  PROVE  IInv'
<1>1. /\ num' = [num EXCEPT ![o] = n]
      /\ UNCHANGED <<kind, building, own, view, heap, origin, asked, family>>
  BY DEF SetNumber
<1>2. TypeOK'
  BY <1>1 DEF IInv, TypeOK
<1>3. MemOK'
  BY <1>1 DEF IInv, MemOK, OwnedOnce
<1>5. \A p \in Objects : DataKept(p)' /\ PointerKept(p)'
  BY <1>1 DEF IInv, DataKept, PointerKept, Content, Pointing
<1> QED BY <1>2, <1>3, <1>5 DEF IInv

----------------------------------------------------------------------------
(* Construction and destruction.                                           *)

LEMMA NewKeeps ==
  ASSUME IInv, NEW o \in Objects, NEW k \in AllKinds, NEW n \in Int, NEW c \in Contents,
         New(o, k, n, c, c), building' \in [Objects -> BOOLEAN],
         k \in PlainKinds => c = Empty
  PROVE  IInv'
<1> USE AddressAssumption
<1>1. /\ kind[o] = "none"
      /\ kind' = [kind EXCEPT ![o] = k]
      /\ num' = [num EXCEPT ![o] = n]
      /\ origin' = [origin EXCEPT ![o] = "set"]
      /\ asked' = [asked EXCEPT ![o] = c]
      /\ UNCHANGED family
  BY DEF New
<1>2. PICK b \in BlocksFor(c, Null) :
        /\ Replace(o, b, c)
        /\ view' = [view EXCEPT ![o] = IF b = Null THEN Null ELSE Pointing(k, o, b)]
  BY DEF New
<1>3. own[o] = Null
  BY <1>1 DEF IInv, TypeOK
<1>4. /\ MemOK'
      /\ own'[o] = b /\ Content(own[o])' = c
      /\ \A p \in Objects \ {o} : own'[p] = own[p] /\ Content(own[p])' = Content(own[p])
  BY <1>2, <1>3, ReplaceKeeps DEF IInv
<1>5. b \in Blocks \union {Null} /\ (c = Empty => b = Null)
  BY DEF BlocksFor
<1>6. TypeOK'
  <2>1. view' \in [Objects -> Blocks \union Objects \union {Null}]
    BY <1>2, <1>5 DEF IInv, TypeOK, Pointing
  <2>2. \A p \in Objects : kind'[p] \in PlainKinds \union {"none"} => own'[p] = Null
    BY <1>1, <1>4, <1>5 DEF IInv, TypeOK, AllKinds, CStruct
  <2>3. own' \in [Objects -> Blocks \union {Null}] /\ heap' \in [Blocks -> {Free} \union Contents]
    BY <1>4 DEF MemOK
  <2>4. /\ origin' \in [Objects -> {"set", "copied", "built", "moved"}]
        /\ asked' \in [Objects -> Contents]
    BY <1>1 DEF IInv, TypeOK
  <2>5. /\ family' \in Families /\ kind' \in [Objects -> AllKinds \union {"none"}]
        /\ building' \in [Objects -> BOOLEAN] /\ num' \in [Objects -> Int]
    BY <1>1 DEF IInv, TypeOK
  <2> QED BY <2>1, <2>2, <2>3, <2>4, <2>5 DEF TypeOK
<1>8. ASSUME NEW p \in Objects PROVE DataKept(p)' /\ PointerKept(p)'
  <2>1. CASE p = o
    <3>1. /\ asked'[o] = c /\ kind'[o] = k
          /\ view'[o] = IF b = Null THEN Null ELSE Pointing(k, o, b)
      BY <1>1, <1>2 DEF IInv, TypeOK
    <3>2. DataKept(o)'
      BY <3>1, <1>4 DEF DataKept
    <3>3. PointerKept(o)'
      BY <3>1, <1>4 DEF PointerKept, Pointing
    <3> QED BY <2>1, <3>2, <3>3
  <2>2. CASE p # o
    <3>1. /\ kind'[p] = kind[p] /\ origin'[p] = origin[p] /\ asked'[p] = asked[p]
          /\ view'[p] = view[p] /\ own'[p] = own[p] /\ Content(own[p])' = Content(own[p])
      BY <2>2, <1>1, <1>2, <1>4 DEF IInv, TypeOK
    <3> QED BY <3>1, Untouched DEF IInv
  <2> QED BY <2>1, <2>2
<1> QED BY <1>4, <1>6, <1>8 DEF IInv

LEMMA DestroyKeeps ==
  ASSUME IInv, NEW o \in Objects, Destroy(o)
  PROVE  IInv'
<1> USE AddressAssumption
<1>1. /\ kind' = [kind EXCEPT ![o] = "none"]
      /\ building' = [building EXCEPT ![o] = FALSE]
      /\ Replace(o, Null, Empty)
      /\ view' = [view EXCEPT ![o] = Null] /\ num' = [num EXCEPT ![o] = 0]
      /\ origin' = [origin EXCEPT ![o] = "set"] /\ asked' = [asked EXCEPT ![o] = Empty]
      /\ UNCHANGED family
  BY DEF Destroy
<1>2. Empty \in Contents /\ Null \in BlocksFor(Empty, own[o])
  BY DEF Empty, Contents, BlocksFor
<1>3. /\ MemOK'
      /\ own'[o] = Null /\ Content(own[o])' = Empty
      /\ \A p \in Objects \ {o} : own'[p] = own[p] /\ Content(own[p])' = Content(own[p])
  BY <1>1, <1>2, ReplaceKeeps DEF IInv
<1>4. TypeOK'
  <2>1. view' \in [Objects -> Blocks \union Objects \union {Null}]
    BY <1>1 DEF IInv, TypeOK
  <2>2. \A p \in Objects : kind'[p] \in PlainKinds \union {"none"} => own'[p] = Null
    BY <1>1, <1>3 DEF IInv, TypeOK
  <2>3. own' \in [Objects -> Blocks \union {Null}] /\ heap' \in [Blocks -> {Free} \union Contents]
    BY <1>3 DEF MemOK
  <2>4. /\ origin' \in [Objects -> {"set", "copied", "built", "moved"}]
        /\ asked' \in [Objects -> Contents]
    BY <1>1, <1>2 DEF IInv, TypeOK
  <2>5. /\ family' \in Families /\ kind' \in [Objects -> AllKinds \union {"none"}]
        /\ building' \in [Objects -> BOOLEAN] /\ num' \in [Objects -> Int]
    BY <1>1 DEF IInv, TypeOK
  <2> QED BY <2>1, <2>2, <2>3, <2>4, <2>5 DEF TypeOK
<1>6. ASSUME NEW p \in Objects PROVE DataKept(p)' /\ PointerKept(p)'
  <2>1. CASE p = o
    <3>1. asked'[o] = Empty /\ kind'[o] = "none"
      BY <1>1 DEF IInv, TypeOK
    <3> QED BY <2>1, <3>1, <1>3 DEF DataKept, PointerKept
  <2>2. CASE p # o
    <3>1. /\ kind'[p] = kind[p] /\ origin'[p] = origin[p] /\ asked'[p] = asked[p]
          /\ view'[p] = view[p] /\ own'[p] = own[p] /\ Content(own[p])' = Content(own[p])
      BY <2>2, <1>1, <1>3 DEF IInv, TypeOK
    <3> QED BY <3>1, Untouched DEF IInv
  <2> QED BY <2>1, <2>2
<1> QED BY <1>3, <1>4, <1>6 DEF IInv

----------------------------------------------------------------------------
(* Copies, moves and assignments.                                          *)

\* What is copied of a member is a set of values, and what the source was
\* asked to be, unless the class forgets the member.
LEMMA CopiedType ==
  ASSUME IInv, NEW s \in Objects
  PROVE  /\ CopiedMember(s) \in Contents
         /\ kind[s] \in PlainKinds => CopiedMember(s) = Empty
         /\ kind[s] \notin ForgetsMember => CopiedMember(s) = asked[s]
<1>1. Content(own[s]) \in Contents
  BY ContentType DEF IInv
<1>2. kind[s] \in PlainKinds => Content(own[s]) = Empty
  BY DEF IInv, TypeOK, Content
<1>3. kind[s] \notin ForgetsMember => Content(own[s]) = asked[s]
  BY DEF IInv, DataKept
<1> QED BY <1>1, <1>2, <1>3 DEF CopiedMember, Empty, Contents

LEMMA CopyMadeKeeps ==
  ASSUME IInv, NEW o \in Objects, NEW s \in Objects,
         NEW how \in {"copied", "built"}, CopyMade(o, s, how)
  PROVE  IInv'
<1> USE AddressAssumption
<1>1. /\ kind[o] = "none" /\ kind[s] # "none"
      /\ kind' = [kind EXCEPT ![o] = kind[s]]
      /\ num' = [num EXCEPT ![o] = num[s]]
      /\ origin' = [origin EXCEPT ![o] = how]
      /\ asked' = [asked EXCEPT ![o] = asked[s]]
      /\ UNCHANGED <<building, family>>
  BY DEF CopyMade
<1> DEFINE c == CopiedMember(s)
<1>2. PICK b \in BlocksFor(c, Null) :
        Replace(o, b, c) /\ view' = [view EXCEPT ![o] = CopiedPointer(o, s, b)]
  BY DEF CopyMade
<1>3. /\ c \in Contents /\ (kind[s] \in PlainKinds => c = Empty)
      /\ (kind[s] \notin ForgetsMember => c = asked[s])
  BY CopiedType
<1> HIDE DEF c
<1>4. own[o] = Null
  BY <1>1 DEF IInv, TypeOK
<1>5. /\ MemOK'
      /\ own'[o] = b /\ Content(own[o])' = c
      /\ \A p \in Objects \ {o} : own'[p] = own[p] /\ Content(own[p])' = Content(own[p])
  BY <1>2, <1>3, <1>4, ReplaceKeeps DEF IInv
<1>6. b \in Blocks \union {Null} /\ (c = Empty => b = Null)
  BY DEF BlocksFor
<1>7. TypeOK'
  <2>1. view' \in [Objects -> Blocks \union Objects \union {Null}]
    BY <1>2, <1>6 DEF IInv, TypeOK, CopiedPointer, Pointing
  <2>2. \A p \in Objects : kind'[p] \in PlainKinds \union {"none"} => own'[p] = Null
    BY <1>1, <1>3, <1>5, <1>6 DEF IInv, TypeOK
  <2>3. own' \in [Objects -> Blocks \union {Null}] /\ heap' \in [Blocks -> {Free} \union Contents]
    BY <1>5 DEF MemOK
  <2>4. /\ origin' \in [Objects -> {"set", "copied", "built", "moved"}]
        /\ asked' \in [Objects -> Contents]
    BY <1>1 DEF IInv, TypeOK
  <2>5. /\ family' \in Families /\ kind' \in [Objects -> AllKinds \union {"none"}]
        /\ building' \in [Objects -> BOOLEAN] /\ num' \in [Objects -> Int]
    BY <1>1 DEF IInv, TypeOK
  <2> QED BY <2>1, <2>2, <2>3, <2>4, <2>5 DEF TypeOK
<1>9. ASSUME NEW p \in Objects PROVE DataKept(p)' /\ PointerKept(p)'
  <2>1. CASE p = o
    <3>1. /\ asked'[o] = asked[s] /\ kind'[o] = kind[s] /\ origin'[o] # "set"
          /\ view'[o] = CopiedPointer(o, s, b)
      BY <1>1, <1>2 DEF IInv, TypeOK
    <3>2. DataKept(o)'
      BY <3>1, <1>3, <1>5 DEF DataKept
    <3>3. PointerKept(o)'
      BY <3>1, <1>5 DEF PointerKept, CopiedPointer, Pointing
    <3> QED BY <2>1, <3>2, <3>3
  <2>2. CASE p # o
    <3>1. /\ kind'[p] = kind[p] /\ origin'[p] = origin[p] /\ asked'[p] = asked[p]
          /\ view'[p] = view[p] /\ own'[p] = own[p] /\ Content(own[p])' = Content(own[p])
      BY <2>2, <1>1, <1>2, <1>5 DEF IInv, TypeOK
    <3> QED BY <3>1, Untouched DEF IInv
  <2> QED BY <2>1, <2>2
<1> QED BY <1>5, <1>7, <1>9 DEF IInv

LEMMA finalizeKeeps ==
  ASSUME IInv, NEW o \in Objects, NEW s \in Objects, finalize(o, s)
  PROVE  IInv'
<1>1. CASE kind[s] = "message"
  <2>1. building' = [building EXCEPT ![s] = FALSE]
        /\ UNCHANGED <<kind, own, view, num, heap, origin, asked, family>>
    BY <1>1 DEF finalize
  <2>2. TypeOK'
    BY <2>1 DEF IInv, TypeOK
  <2>3. MemOK'
    BY <2>1 DEF IInv, MemOK, OwnedOnce
  <2>4. \A p \in Objects : DataKept(p)' /\ PointerKept(p)'
    BY <2>1 DEF IInv, DataKept, PointerKept, Content, Pointing
  <2> QED BY <2>2, <2>3, <2>4 DEF IInv
<1>2. CASE kind[s] # "message"
  BY <1>2, CopyMadeKeeps DEF finalize
<1> QED BY <1>1, <1>2

\* What is common to the two moves: o takes over the member of s, which is of
\* the same kind now.
LEMMA MovedKeeps ==
  ASSUME IInv, NEW o \in Objects, NEW s \in Objects, o # s,
         kind[s] \notin {"none"} \union MovesByCopy,
         kind' = [kind EXCEPT ![o] = kind[s]], num' = [num EXCEPT ![o] = num[s]],
         Transfer(o, s), MovedOut(o, s, CopiedPointer(o, s, own[s])),
         UNCHANGED <<building, family>>
  PROVE  IInv'
<1> USE AddressAssumption
<1> DEFINE left == IF kind[s] \in Emptied THEN Null ELSE view[s]
           how == IF kind[s] \in Emptied THEN origin[s] ELSE "moved"
<1>1. /\ view' = [view EXCEPT ![o] = CopiedPointer(o, s, own[s]), ![s] = left]
      /\ origin' = [origin EXCEPT ![o] = "copied", ![s] = how]
      /\ asked' = [asked EXCEPT ![o] = asked[s], ![s] = Empty]
  BY DEF MovedOut, IInv, TypeOK
<1>2. /\ MemOK'
      /\ own'[o] = own[s] /\ own'[s] = Null
      /\ Content(own[o])' = Content(own[s]) /\ Content(own[s])' = Empty
      /\ \A p \in Objects \ {o, s} :
           own'[p] = own[p] /\ Content(own[p])' = Content(own[p])
  BY TransferKeeps DEF IInv
<1>3. kind[s] \notin ForgetsMember /\ Content(own[s]) = asked[s]
  BY DEF IInv, DataKept, MovesByCopy
<1>4. Empty \in Contents
  BY DEF Empty, Contents
<1>5. kind'[s] = kind[s] /\ kind'[o] = kind[s]
  BY DEF IInv, TypeOK
<1>6. left \in Blocks \union Objects \union {Null} /\ how \in {"set", "copied", "built", "moved"}
  BY DEF IInv, TypeOK
<1>7. kind[s] \notin Emptied => how = "moved"
  OBVIOUS
<1>8. kind[s] \in Emptied => left = Null
  OBVIOUS
<1> HIDE DEF left, how
<1>9. TypeOK'
  <2>1. view' \in [Objects -> Blocks \union Objects \union {Null}]
    BY <1>1, <1>6 DEF IInv, TypeOK, CopiedPointer, Pointing
  <2>2. \A p \in Objects : kind'[p] \in PlainKinds \union {"none"} => own'[p] = Null
    BY <1>2 DEF IInv, TypeOK
  <2>3. own' \in [Objects -> Blocks \union {Null}] /\ heap' \in [Blocks -> {Free} \union Contents]
    BY <1>2 DEF MemOK
  <2>4. /\ origin' \in [Objects -> {"set", "copied", "built", "moved"}]
        /\ asked' \in [Objects -> Contents]
    BY <1>1, <1>4, <1>6 DEF IInv, TypeOK
  <2>5. /\ family' \in Families /\ kind' \in [Objects -> AllKinds \union {"none"}]
        /\ building' \in [Objects -> BOOLEAN] /\ num' \in [Objects -> Int]
    BY DEF IInv, TypeOK
  <2> QED BY <2>1, <2>2, <2>3, <2>4, <2>5 DEF TypeOK
<1>11. ASSUME NEW p \in Objects PROVE DataKept(p)' /\ PointerKept(p)'
  <2>1. /\ asked'[o] = asked[s] /\ view'[o] = CopiedPointer(o, s, own[s])
        /\ asked'[s] = Empty /\ view'[s] = left
        /\ origin'[o] = "copied" /\ origin'[s] = how
    BY <1>1 DEF IInv, TypeOK
  <2>2. CASE p = o
    <3>1. DataKept(o)'
      BY <2>1, <1>2, <1>3 DEF DataKept
    <3>2. PointerKept(o)'
      BY <2>1, <1>2, <1>5 DEF PointerKept, CopiedPointer, Pointing
    <3> QED BY <2>2, <3>1, <3>2
  <2>3. CASE p = s
    BY <2>3, <2>1, <1>2, <1>7, <1>8 DEF DataKept, PointerKept
  <2>4. CASE p \notin {o, s}
    <3>1. /\ kind'[p] = kind[p] /\ origin'[p] = origin[p] /\ asked'[p] = asked[p]
          /\ view'[p] = view[p] /\ own'[p] = own[p] /\ Content(own[p])' = Content(own[p])
      BY <2>4, <1>1, <1>2 DEF IInv, TypeOK
    <3> QED BY <3>1, Untouched DEF IInv
  <2> QED BY <2>2, <2>3, <2>4
<1> QED BY <1>2, <1>9, <1>11 DEF IInv

LEMMA MoveKeeps ==
  ASSUME IInv, NEW o \in Objects, NEW s \in Objects,
         MoveConstruct(o, s) \/ MoveAssign(o, s)
  PROVE  IInv'
<1>1. CASE MoveConstruct(o, s)
  BY <1>1, MovedKeeps DEF MoveConstruct
<1>2. CASE MoveAssign(o, s)
  <2>1. kind[o] = kind[s] /\ kind' = [kind EXCEPT ![o] = kind[s]]
    BY <1>2 DEF MoveAssign, Assignable, IInv, TypeOK
  <2> QED BY <1>2, <2>1, MovedKeeps DEF MoveAssign, Assignable
<1> QED BY <1>1, <1>2

LEMMA CopyAssignKeeps ==
  ASSUME IInv, NEW o \in Objects, NEW s \in Objects, CopyAssign(o, s)
  PROVE  IInv'
<1> USE AddressAssumption
<1>1. /\ kind[o] = kind[s] /\ kind[s] # "none" /\ o # s
      /\ num' = [num EXCEPT ![o] = num[s]]
      /\ origin' = [origin EXCEPT ![o] = "copied"]
      /\ asked' = [asked EXCEPT ![o] = asked[s]]
      /\ UNCHANGED <<kind, building, family>>
  BY DEF CopyAssign, Assignable
<1>2. PICK b \in Blocks \union {Null} :
        /\ view' = [view EXCEPT ![o] = CopiedPointer(o, s, b)]
        /\ MemOK' /\ own'[o] = b
        /\ kind[s] \notin ForgetsMember => Content(own[o])' = asked[s]
        /\ kind[s] \in PlainKinds => b = Null
        /\ \A p \in Objects \ {o} : own'[p] = own[p] /\ Content(own[p])' = Content(own[p])
  <2>1. CASE kind[s] \in ForgetsMember
    <3>1. view' = [view EXCEPT ![o] = CopiedPointer(o, s, own[o])] /\ UNCHANGED <<own, heap>>
      BY <2>1 DEF CopyAssign
    <3>2. MemOK'
      BY <3>1 DEF IInv, MemOK, OwnedOnce
    <3>3. \A p \in Objects \ {o} : own'[p] = own[p] /\ Content(own[p])' = Content(own[p])
      BY <3>1 DEF Content
    <3>4. own[o] \in Blocks \union {Null} /\ (kind[s] \in PlainKinds => own[o] = Null)
      BY <1>1 DEF IInv, TypeOK
    <3> QED BY <2>1, <3>1, <3>2, <3>3, <3>4
  <2>2. CASE kind[s] \notin ForgetsMember
    <3>1. PICK b \in BlocksFor(CopiedMember(s), own[o]) :
            /\ Replace(o, b, CopiedMember(s))
            /\ view' = [view EXCEPT ![o] = CopiedPointer(o, s, b)]
      BY <2>2 DEF CopyAssign
    <3>2. /\ CopiedMember(s) \in Contents /\ CopiedMember(s) = asked[s]
          /\ kind[s] \in PlainKinds => CopiedMember(s) = Empty
      BY <2>2, CopiedType
    <3>3. b \in Blocks \union {Null} /\ (CopiedMember(s) = Empty => b = Null)
      BY DEF BlocksFor
    <3>4. /\ MemOK' /\ own'[o] = b /\ Content(own[o])' = CopiedMember(s)
          /\ \A p \in Objects \ {o} : own'[p] = own[p] /\ Content(own[p])' = Content(own[p])
      BY <3>1, <3>2, ReplaceKeeps DEF IInv
    <3> QED BY <3>1, <3>2, <3>3, <3>4
  <2> QED BY <2>1, <2>2
<1>3. TypeOK'
  <2>1. view' \in [Objects -> Blocks \union Objects \union {Null}]
    BY <1>2 DEF IInv, TypeOK, CopiedPointer, Pointing
  <2>2. \A p \in Objects : kind'[p] \in PlainKinds \union {"none"} => own'[p] = Null
    BY <1>1, <1>2 DEF IInv, TypeOK
  <2>3. own' \in [Objects -> Blocks \union {Null}] /\ heap' \in [Blocks -> {Free} \union Contents]
    BY <1>2 DEF MemOK
  <2>4. /\ origin' \in [Objects -> {"set", "copied", "built", "moved"}]
        /\ asked' \in [Objects -> Contents]
    BY <1>1 DEF IInv, TypeOK
  <2>5. /\ family' \in Families /\ kind' \in [Objects -> AllKinds \union {"none"}]
        /\ building' \in [Objects -> BOOLEAN] /\ num' \in [Objects -> Int]
    BY <1>1 DEF IInv, TypeOK
  <2> QED BY <2>1, <2>2, <2>3, <2>4, <2>5 DEF TypeOK
<1>5. ASSUME NEW p \in Objects PROVE DataKept(p)' /\ PointerKept(p)'
  <2>1. CASE p = o
    <3>1. /\ asked'[o] = asked[s] /\ kind'[o] = kind[s] /\ origin'[o] # "set"
          /\ view'[o] = CopiedPointer(o, s, b)
      BY <1>1, <1>2 DEF IInv, TypeOK
    <3>2. DataKept(o)'
      BY <3>1, <1>2 DEF DataKept
    <3>3. PointerKept(o)'
      BY <3>1, <1>2 DEF PointerKept, CopiedPointer, Pointing
    <3> QED BY <2>1, <3>2, <3>3
  <2>2. CASE p # o
    <3>1. /\ kind'[p] = kind[p] /\ origin'[p] = origin[p] /\ asked'[p] = asked[p]
          /\ view'[p] = view[p] /\ own'[p] = own[p] /\ Content(own[p])' = Content(own[p])
      BY <2>2, <1>1, <1>2 DEF IInv, TypeOK
    <3> QED BY <3>1, Untouched DEF IInv
  <2> QED BY <2>1, <2>2
<1> QED BY <1>2, <1>3, <1>5 DEF IInv

----------------------------------------------------------------------------
(* Every setter has one of three forms, and every constructor one.         *)

LEMMA InitHolds == Init => IInv
<1> SUFFICES ASSUME Init PROVE IInv
  OBVIOUS
<1> USE DEF Init, Empty, Contents
<1>1. TypeOK
  BY DEF TypeOK
<1>2. MemOK
  BY DEF MemOK, OwnedOnce
<1>4. \A o \in Objects : DataKept(o) /\ PointerKept(o)
  BY DEF DataKept, PointerKept, Content
<1> QED BY <1>1, <1>2, <1>4 DEF IInv

LEMMA SetCopyKeeps ==
  ASSUME IInv, NEW o \in Objects, NEW s \in Objects, Holder(kind[o]),
         kind[s] \notin ForgetsMember, SetCopy(o, s)
  PROVE  IInv'
<1>1. Content(own[s]) = asked[s] /\ asked[s] \in Contents
  BY DEF IInv, DataKept, TypeOK
<1> QED BY <1>1, SetToKeeps DEF SetCopy

LEMMA SetPropertiesKeeps ==
  ASSUME IInv, NEW o \in Objects, set_properties(o)
  PROVE  IInv'
<1>1. PICK p \in Objects : kind[p] = "properties" /\ (SetCopy(o, p) \/ SetMove(o, p))
  BY DEF set_properties
<1>2. Holder(kind[o]) /\ kind[p] \notin ForgetsMember
  BY <1>1 DEF set_properties, PropertyHolders, Holder, PlainKinds, ForgetsMember
<1> QED BY <1>1, <1>2, SetCopyKeeps, SetMoveKeeps

LEMMA SetStringKeeps ==
  ASSUME IInv, NEW o \in Objects, set_string(o)
  PROVE  IInv'
<1>1. PICK c \in Contents : SetTo(o, c, c)
  BY DEF set_string
<1>2. Holder(kind[o])
  BY DEF set_string, StringHolders, Holder, PlainKinds
<1> QED BY <1>1, <1>2, SetToKeeps

LEMMA GrowKeeps ==
  ASSUME IInv, NEW o \in Objects, kind[o] \in {"properties", "strings", "headers"}, Grow(o)
  PROVE  IInv'
<1>1. Holder(kind[o]) /\ kind[o] \notin ForgetsMember
  BY DEF Holder, PlainKinds, ForgetsMember
<1>2. Content(own[o]) = asked[o] /\ asked[o] \in Contents
  BY <1>1 DEF IInv, DataKept, TypeOK
<1>3. ASSUME NEW v \in Values, SetTo(o, Content(own[o]) \union {v}, asked[o] \union {v})
      PROVE  IInv'
  <2>1. asked[o] \union {v} \in Contents
    BY <1>2 DEF Contents
  <2> QED BY <1>1, <1>2, <1>3, <2>1, SetToKeeps
<1>4. CASE SetTo(o, Empty, Empty)
  BY <1>1, <1>4, SetToKeeps DEF Empty, Contents
<1> QED BY <1>3, <1>4 DEF Grow

LEMMA QosKeeps ==
  ASSUME IInv, NEW o \in Objects, SetQos(o)
  PROVE  IInv'
BY NumberAssumption, SetNumberKeeps DEF SetQos

LEMMA AnyNumberKeeps ==
  ASSUME IInv, NEW o \in Objects, SetAnyNumber(o)
  PROVE  IInv'
BY NumberAssumption, SetNumberKeeps DEF SetAnyNumber

LEMMA ConnectMembersKeep ==
  ASSUME IInv, NEW o \in Objects, connect_members(o) \/ connect_v5(o)
  PROVE  IInv'
<1> USE DEF Holder, PlainKinds, ForgetsMember
<1>1. ASSUME NEW s \in Objects, kind[o] \in {"connect_will", "connect_ssl", "connect_headers"},
             kind[s] \in {"will", "message", "ssl", "headers"}, SetCopy(o, s) \/ SetMove(o, s)
      PROVE  IInv'
  BY <1>1, SetCopyKeeps, SetMoveKeeps
<1>2. CASE connect_members(o)
  BY <1>1, <1>2 DEF connect_members
<1>3. CASE connect_v5(o)
  BY <1>1, <1>3, SetPropertiesKeeps DEF connect_v5
<1> QED BY <1>2, <1>3

LEMMA SetterKeeps ==
  ASSUME IInv, NEW o \in Objects, Setter(o) \/ BuilderMethod(o)
  PROVE  IInv'
<1>1. CASE add(o) \/ strings_setters(o) \/ headers_setters(o)
  BY <1>1, GrowKeeps DEF add, strings_setters, headers_setters
<1>2. CASE message_setters(o)
  BY <1>2, SetPropertiesKeeps, QosKeeps DEF message_setters
<1>3. CASE topic_setters(o)
  BY <1>3, QosKeeps DEF topic_setters
<1>4. CASE will_setters(o)
  BY <1>4, SetPropertiesKeeps, AnyNumberKeeps DEF will_setters
<1>5. CASE ssl_setters(o)
  BY <1>5, SetStringKeeps, AnyNumberKeeps DEF ssl_setters
<1>6. CASE disconnect_setters(o)
  BY <1>6, SetPropertiesKeeps, AnyNumberKeeps DEF disconnect_setters
<1>7. CASE response_setters(o)
  BY <1>7, SetPropertiesKeeps, SetStringKeeps DEF response_setters
<1>8. CASE create_setters(o) \/ subscribe_setters(o)
  BY <1>8, AnyNumberKeeps DEF create_setters, subscribe_setters
<1>9. CASE connect_fields(o)
  BY <1>9, SetStringKeeps, AnyNumberKeeps DEF connect_fields
<1>10. CASE connect_members(o) \/ connect_v5(o)
  BY <1>10, ConnectMembersKeep
<1>11. CASE connect_data_setters(o)
  BY <1>11, SetStringKeeps DEF connect_data_setters
<1>12. CASE BuilderMethod(o)
  BY <1>12, <1>2, <1>5, <1>6, <1>7, <1>8, <1>9, <1>10
     DEF BuilderMethod, message_ptr_builder, ssl_options_builder,
         disconnect_options_builder, response_options_builder, create_options_builder,
         connect_builder_fields, connect_builder_v5
<1> QED BY <1>1, <1>2, <1>3, <1>4, <1>5, <1>6, <1>7, <1>8, <1>9, <1>10, <1>11, <1>12
        DEF Setter

LEMMA PlainKeeps ==
  ASSUME IInv, NEW o \in Objects, NEW k \in AllKinds, NEW n \in Int, NEW c \in Contents,
         NewPlain(o, k, n, c, c),
         k \in PlainKinds => c = Empty
  PROVE  IInv'
<1>1. New(o, k, n, c, c) /\ building' \in [Objects -> BOOLEAN]
  BY DEF NewPlain, IInv, TypeOK
<1> QED BY <1>1, NewKeeps

LEMMA DefaultKeeps ==
  ASSUME IInv, NEW o \in Objects, NEW k \in AllKinds, Default(o, k)
  PROVE  IInv'
<1>1. New(o, k, 0, Empty, Empty) /\ building' \in [Objects -> BOOLEAN]
  BY DEF Default, IInv, TypeOK
<1>2. Empty \in Contents
  BY DEF Empty, Contents
<1> QED BY <1>1, <1>2, NewKeeps

LEMMA GivenKeeps ==
  ASSUME IInv, NEW o \in Objects, NEW k \in {"message", "will"}, NEW n \in Int,
         GivenProperties(o, k, n)
  PROVE  IInv'
<1>1. k \in AllKinds /\ k \notin PlainKinds
  BY DEF AllKinds, PlainKinds
<1>2. CASE NewPlain(o, k, n, Empty, Empty)
  BY <1>1, <1>2, PlainKeeps DEF Empty, Contents
<1>3. ASSUME NEW p \in Objects, kind[p] = "properties",
             NewPlain(o, k, n, Content(own[p]), asked[p])
      PROVE  IInv'
  <2>1. Content(own[p]) = asked[p] /\ asked[p] \in Contents
    BY <1>3 DEF IInv, DataKept, TypeOK, ForgetsMember
  <2> QED BY <1>1, <1>3, <2>1, PlainKeeps
<1> QED BY <1>2, <1>3 DEF GivenProperties

LEMMA ConstructorKeeps ==
  ASSUME IInv, NEW o \in Objects, Constructor(o)
  PROVE  IInv'
<1> USE NumberAssumption
<1>0. /\ {"message", "will", "topic", "strings", "headers", CStruct} \subseteq AllKinds
      /\ PlainKinds \intersect {"message", "will", "strings", "headers", CStruct} = {}
      /\ CStruct \notin ForgetsMember
  BY DEF AllKinds, PlainKinds, ForgetsMember, CStruct
<1>1. Empty \in Contents /\ \A s \in Objects : num[s] \in Int
  BY DEF Empty, Contents, IInv, TypeOK
<1>2. CASE options(o) \/ Default(o, "message")
  BY <1>0, <1>2, DefaultKeeps DEF options
<1>3. CASE message(o)
  BY <1>3, GivenKeeps DEF message
<1>4. CASE message_create(o)
  BY <1>0, <1>1, <1>4, PlainKeeps DEF message_create
<1>5. CASE will_options(o)
  <2>1. CASE \E n \in Numbers : GivenProperties(o, "will", n)
    BY <2>1, GivenKeeps
  <2>2. ASSUME NEW m \in Objects, kind[m] = "message",
               NewPlain(o, "will", num[m], Content(own[m]), asked[m])
        PROVE  IInv'
    <3>1. Content(own[m]) = asked[m] /\ asked[m] \in Contents
      BY <2>2 DEF IInv, DataKept, TypeOK, ForgetsMember
    <3> QED BY <1>0, <1>1, <2>2, <3>1, PlainKeeps
  <2> QED BY <1>5, <2>1, <2>2 DEF will_options
<1>6. CASE topic(o)
  BY <1>0, <1>1, <1>6, PlainKeeps DEF topic
<1>7. CASE string_collection(o) \/ name_value_collection(o)
  BY <1>0, <1>7, PlainKeeps DEF string_collection, name_value_collection
<1>8. CASE c_struct(o)
  BY <1>0, <1>8, PlainKeeps DEF c_struct
<1>9. CASE message_of_struct(o)
  <2>1. PICK s \in Objects : /\ kind[s] = CStruct
                            /\ NewPlain(o, "message", num[s], Content(own[s]), asked[s])
    BY <1>9 DEF message_of_struct
  <2>2. Content(own[s]) = asked[s] /\ asked[s] \in Contents
    BY <1>0, <2>1 DEF IInv, DataKept, TypeOK
  <2> QED BY <1>0, <1>1, <2>1, <2>2, PlainKeeps
<1> QED BY <1>2, <1>3, <1>4, <1>5, <1>6, <1>7, <1>8, <1>9 DEF Constructor

----------------------------------------------------------------------------
(* Theorems.                                                               *)

LEMMA StepKeeps == IInv /\ [Next]_vars => IInv'
<1> SUFFICES ASSUME IInv, [Next]_vars PROVE IInv'
  OBVIOUS
<1>1. CASE Next
  <2>1. PICK o \in Objects :
          \/ Constructor(o) \/ Destroy(o) \/ Setter(o) \/ BuilderMethod(o)
          \/ \E s \in Objects : \/ CopyConstruct(o, s) \/ MoveConstruct(o, s) \/ finalize(o, s)
                                \/ CopyAssign(o, s) \/ MoveAssign(o, s)
    BY <1>1 DEF Next
  <2>2. CASE Constructor(o)
    BY <2>2, ConstructorKeeps
  <2>3. CASE Destroy(o)
    BY <2>3, DestroyKeeps
  <2>4. CASE Setter(o) \/ BuilderMethod(o)
    BY <2>4, SetterKeeps
  <2>5. ASSUME NEW s \in Objects, CopyConstruct(o, s)
        PROVE  IInv'
    BY <2>5, CopyMadeKeeps DEF CopyConstruct
  <2>6. ASSUME NEW s \in Objects, MoveConstruct(o, s) \/ MoveAssign(o, s)
        PROVE  IInv'
    BY <2>6, MoveKeeps
  <2>7. ASSUME NEW s \in Objects, finalize(o, s)
        PROVE  IInv'
    BY <2>7, finalizeKeeps
  <2>8. ASSUME NEW s \in Objects, CopyAssign(o, s)
        PROVE  IInv'
    BY <2>8, CopyAssignKeeps
  <2> QED BY <2>1, <2>2, <2>3, <2>4, <2>5, <2>6, <2>7, <2>8
<1>2. CASE UNCHANGED vars
  <2> USE <1>2 DEF vars
  <2>1. TypeOK'
    BY DEF IInv, TypeOK
  <2>2. MemOK'
    BY DEF IInv, MemOK, OwnedOnce
  <2>3. \A o \in Objects : DataKept(o)' /\ PointerKept(o)'
    BY DEF IInv, DataKept, PointerKept, Content, Pointing
  <2> QED BY <2>1, <2>2, <2>3 DEF IInv
<1> QED BY <1>1, <1>2

\* In every reachable state the members and the heap agree, each member holds
\* what the application gave, and each pointer leads to its own member or is
\* one that its class is known to keep.
THEOREM OptionsInvariant == Spec => []IInv
BY InitHolds, StepKeeps, PTL DEF Spec

\* Every variable has its type, and objects without a member own no block.
THEOREM TypeOKHolds == Spec => []TypeOK
<1>1. IInv => TypeOK
  BY DEF IInv
<1> QED BY <1>1, OptionsInvariant, PTL

\* No copy, move, assignment or setter leaves two objects with one block, or
\* an object with a freed one: no destructor frees memory twice.
THEOREM OwnedOnceHolds == Spec => []OwnedOnce
<1>1. IInv => OwnedOnce
  BY DEF IInv, MemOK
<1> QED BY <1>1, OptionsInvariant, PTL

\* No copy, move, assignment or setter loses a block.
THEOREM NoLeakHolds == Spec => []NoLeak
<1>1. IInv => NoLeak
  <2> SUFFICES ASSUME IInv, NEW b \in Blocks, heap[b] # Free
               PROVE  \E o \in Objects : kind[o] # "none" /\ own[o] = b
    BY DEF NoLeak
  <2>1. PICK o \in Objects : own[o] = b
    BY DEF IInv, MemOK
  <2>2. kind[o] # "none"
    BY <2>1, AddressAssumption DEF IInv, TypeOK
  <2> QED BY <2>1, <2>2
<1> QED BY <1>1, OptionsInvariant, PTL

\* Where the QoS of a message has come from in one step: it is tested, or it is
\* that of a message or of a structure of C.
QosFrom(n) ==
  n \in 0..2 \/ \E s \in Objects : kind[s] \in {"message", CStruct} /\ num[s] = n

\* A new message has its QoS from one of these.
LEMMA ConstructorQos ==
  ASSUME TypeOK, NEW o \in Objects, Constructor(o), kind'[o] = "message"
  PROVE  QosFrom(num'[o])
<1>1. ASSUME NEW k, NEW n, NEW c, NEW meant, New(o, k, n, c, meant)
      PROVE  kind'[o] = k /\ num'[o] = n
  BY <1>1 DEF New, TypeOK
<1>2. CASE options(o) \/ Default(o, "message")
  BY <1>1, <1>2 DEF options, Default, QosFrom
<1>3. CASE message(o)
  BY <1>1, <1>3 DEF message, GivenProperties, NewPlain, validate_qos, QosFrom
<1>4. CASE message_create(o)
  BY <1>1, <1>4 DEF message_create, NewPlain, validate_qos, QosFrom
<1>5. CASE message_of_struct(o)
  BY <1>1, <1>5 DEF message_of_struct, NewPlain, QosFrom
<1>6. ~(\/ will_options(o) \/ topic(o) \/ string_collection(o)
        \/ name_value_collection(o) \/ c_struct(o))
  BY <1>1 DEF will_options, GivenProperties, topic, string_collection,
     name_value_collection, c_struct, NewPlain, CStruct
<1> QED
  BY <1>2, <1>3, <1>4, <1>5, <1>6 DEF Constructor

\* A setter that is for messages tests the number.
LEMMA SetterQos ==
  ASSUME TypeOK, NEW o \in Objects, Setter(o) \/ BuilderMethod(o)
  PROVE  /\ kind' = kind
         /\ \A p \in Objects : kind[p] = "message" => num'[p] \in 0..2 \/ num'[p] = num[p]
<1>1. ASSUME SetQos(o)
      PROVE  /\ kind' = kind
             /\ \A p \in Objects : num'[p] \in 0..2 \/ num'[p] = num[p]
  BY <1>1 DEF SetQos, validate_qos, SetNumber, TypeOK
<1>2. ASSUME SetAnyNumber(o), kind[o] # "message"
      PROVE  /\ kind' = kind
             /\ \A p \in Objects : kind[p] = "message" => num'[p] = num[p]
  BY <1>2 DEF SetAnyNumber, SetNumber, TypeOK
<1>3. ASSUME \/ set_properties(o) \/ set_string(o) \/ Grow(o)
             \/ connect_members(o) \/ connect_v5(o)
      PROVE  UNCHANGED <<kind, num>>
  BY <1>3 DEF set_properties, set_string, Grow, connect_members, connect_v5,
     SetCopy, SetMove, SetTo
<1>4. CASE \/ will_setters(o) \/ ssl_setters(o) \/ disconnect_setters(o)
           \/ response_setters(o) \/ create_setters(o) \/ subscribe_setters(o)
           \/ connect_fields(o) \/ connect_data_setters(o)
  BY <1>2, <1>3, <1>4 DEF will_setters, ssl_setters, disconnect_setters, response_setters,
     create_setters, subscribe_setters, connect_fields, connect_data_setters
<1>5. CASE \/ add(o) \/ strings_setters(o) \/ headers_setters(o)
           \/ message_setters(o) \/ topic_setters(o)
  BY <1>1, <1>3, <1>5 DEF add, strings_setters, headers_setters, message_setters, topic_setters
<1> QED
  BY <1>3, <1>4, <1>5 DEF Setter, BuilderMethod, message_ptr_builder, ssl_options_builder,
     disconnect_options_builder, response_options_builder, create_options_builder,
     connect_builder_fields, connect_builder_v5

\* A copy, a move or an assignment gives an object the number of one of its kind.
LEMMA CopyQos ==
  ASSUME TypeOK, NEW o \in Objects, NEW s \in Objects,
         \/ CopyConstruct(o, s) \/ MoveConstruct(o, s) \/ finalize(o, s)
         \/ CopyAssign(o, s) \/ MoveAssign(o, s)
  PROVE  \A p \in Objects : \/ kind'[p] = kind[p] /\ num'[p] = num[p]
                            \/ kind'[p] = kind[s] /\ num'[p] = num[s]
BY DEF CopyConstruct, MoveConstruct, finalize, CopyMade, CopyAssign, MoveAssign,
   Assignable, TypeOK

\* However many topics, wills, messages and copies of them there are, an unknown
\* QoS enters a message only from a message of C.
THEOREM MessageQosHolds == Spec => MessageQos
<1>1. ASSUME TypeOK, [Next]_vars, NEW p \in Objects, UnknownQos(p)'
      PROVE  \E s \in Objects : kind[s] \in {"message", CStruct} /\ num[s] = num'[p]
  <2>1. QosFrom(num'[p])
    <3>1. kind'[p] = "message"
      BY <1>1 DEF UnknownQos
    <3>2. CASE kind[p] = "message" /\ num'[p] = num[p]
      BY <3>2 DEF QosFrom
    <3>3. CASE UNCHANGED vars
      BY <3>1, <3>2, <3>3 DEF vars
    <3>4. ASSUME NEW o \in Objects, Constructor(o)
          PROVE  QosFrom(num'[p])
      <4>1. CASE p = o
        BY <1>1, <3>1, <3>4, <4>1, ConstructorQos
      <4>2. CASE p # o
        <5>1. kind'[p] = kind[p] /\ num'[p] = num[p]
          BY <1>1, <3>4, <4>2 DEF Constructor, options, Default, message, GivenProperties,
             message_create, will_options, topic, string_collection,
             name_value_collection, c_struct, message_of_struct, NewPlain, New, TypeOK
        <5> QED
          BY <3>1, <3>2, <5>1
      <4> QED
        BY <4>1, <4>2
    <3>5. ASSUME NEW o \in Objects, Destroy(o)
          PROVE  QosFrom(num'[p])
      <4>1. kind'[p] = kind[p] /\ num'[p] = num[p]
        BY <1>1, <3>1, <3>5 DEF Destroy, TypeOK
      <4> QED
        BY <3>1, <3>2, <4>1
    <3>6. ASSUME NEW o \in Objects, Setter(o) \/ BuilderMethod(o)
          PROVE  QosFrom(num'[p])
      BY <1>1, <3>1, <3>2, <3>6, SetterQos DEF QosFrom
    <3>7. ASSUME NEW o \in Objects, NEW s \in Objects,
                 \/ CopyConstruct(o, s) \/ MoveConstruct(o, s) \/ finalize(o, s)
                 \/ CopyAssign(o, s) \/ MoveAssign(o, s)
          PROVE  QosFrom(num'[p])
      BY <1>1, <3>1, <3>2, <3>7, CopyQos DEF QosFrom
    <3> QED
      BY <1>1, <3>3, <3>4, <3>5, <3>6, <3>7 DEF Next
  <2> QED
    BY <1>1, <2>1 DEF UnknownQos, QosFrom
<1>2. TypeOK /\ [Next]_vars =>
        [\A o \in Objects : UnknownQos(o)' =>
           \E s \in Objects : kind[s] \in {"message", CStruct} /\ num[s] = num'[o]]_vars
  BY <1>1
<1> QED
  BY <1>2, TypeOKHolds, PTL DEF Spec, MessageQos

\* What the library finds behind the pointer of an object is what the
\* application gave it, through any number of copies, moves and assignments,
\* outside the classes that leave a member or a pointer behind.
THEOREM ReadAsAskedHolds == Spec => []ReadAsAsked
<1>1. IInv => ReadAsAsked
  <2> SUFFICES ASSUME IInv, NEW o \in Objects, kind[o] # "none", origin[o] # "moved",
                      ~(kind[o] \in KeepsPointer \union ForgetsMember /\ origin[o] # "set")
               PROVE  Read(o) = asked[o]
    BY DEF ReadAsAsked
  <2> USE AddressAssumption
  <2>1. Content(own[o]) = asked[o]
    BY DEF IInv, DataKept
  <2>2. view[o] = Pointing(kind[o], o, own[o]) \/ (view[o] = Null /\ own[o] = Null)
    BY DEF IInv, PointerKept
  <2>3. own[o] \in Blocks \union {Null}
    BY DEF IInv, TypeOK
  <2>4. CASE view[o] = own[o]
    BY <2>1, <2>3, <2>4 DEF Read, Content
  <2>5. CASE view[o] = o
    BY <2>1, <2>5 DEF Read
  <2> QED BY <2>2, <2>4, <2>5 DEF Pointing
<1> QED BY <1>1, OptionsInvariant, PTL

----------------------------------------------------------------------------
\* A behaviour keeps to the kinds of its family.
InFamily == family \in Families /\ \A o \in Objects : kind[o] \in family \union {"none"}

\* Nothing is constructed of another kind, and copies are of the same.
LEMMA FamilyStep ==
  ASSUME TypeOK, InFamily, [Next]_vars
  PROVE  InFamily'
<1>1. family' = family /\ \A p \in Objects :
        \/ kind'[p] \in family \union {"none"} \/ kind'[p] = kind[p]
        \/ \E s \in Objects : kind'[p] = kind[s]
  <2>1. CASE UNCHANGED vars
    BY <2>1 DEF vars
  <2>2. ASSUME NEW o \in Objects, Constructor(o)
        PROVE  family' = family /\ \A p \in Objects :
                 kind'[p] \in family \/ kind'[p] = kind[p]
    <3>1. \E k \in family : kind' = [kind EXCEPT ![o] = k] /\ family' = family
      BY <2>2 DEF Constructor, options, Default, message, GivenProperties,
           message_create, will_options, topic, string_collection,
           name_value_collection, c_struct, message_of_struct, NewPlain, New
    <3> QED
      BY <3>1 DEF TypeOK
  <2>3. ASSUME NEW o \in Objects, Destroy(o)
        PROVE  family' = family /\ \A p \in Objects :
                 kind'[p] = "none" \/ kind'[p] = kind[p]
    BY <2>3 DEF Destroy, TypeOK
  <2>4. ASSUME NEW o \in Objects, NEW s \in Objects,
               \/ CopyConstruct(o, s) \/ MoveConstruct(o, s) \/ finalize(o, s)
               \/ CopyAssign(o, s) \/ MoveAssign(o, s)
        PROVE  family' = family /\ \A p \in Objects :
                 kind'[p] = kind[s] \/ kind'[p] = kind[p]
    BY <2>4 DEF CopyConstruct, MoveConstruct, finalize, CopyMade, CopyAssign,
         MoveAssign, TypeOK
  <2>5. ASSUME NEW o \in Objects, Setter(o) \/ BuilderMethod(o)
        PROVE  UNCHANGED <<kind, family>>
    BY <2>5 DEF Setter, BuilderMethod, message_ptr_builder, ssl_options_builder,
         disconnect_options_builder, response_options_builder,
         create_options_builder, connect_builder_fields, connect_builder_v5,
         add, strings_setters, headers_setters, message_setters, topic_setters,
         will_setters, ssl_setters, disconnect_setters, response_setters,
         create_setters, subscribe_setters, connect_fields, connect_members,
         connect_v5, connect_data_setters, set_properties, set_string, Grow,
         SetQos, SetAnyNumber, SetNumber, SetCopy, SetMove, SetTo
  <2> QED
    BY <2>1, <2>2, <2>3, <2>4, <2>5 DEF Next
<1> QED
  BY <1>1 DEF InFamily

\* The builders of every class that neither keeps a pointer nor forgets a
\* member hand out what was asked of them: the documented promise can fail for
\* objects of those classes only.
THEOREM BuildersOutsideKeepPromise ==
  ASSUME \A f \in Families : f \intersect (KeepsPointer \union ForgetsMember) = {}
  PROVE  Spec => []BuiltAsAsked
<1>1. Init => InFamily
  BY DEF Init, InFamily
<1>2. TypeOK /\ InFamily /\ [Next]_vars => InFamily'
  BY FamilyStep
<1>3. ReadAsAsked /\ InFamily => BuiltAsAsked
  BY DEF ReadAsAsked, InFamily, BuiltAsAsked
<1> QED
  BY <1>1, <1>2, <1>3, TypeOKHolds, ReadAsAskedHolds, PTL DEF Spec
=============================================================================
