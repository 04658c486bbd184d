-------------------------- MODULE AioLibraryProofs --------------------------
(***************************************************************************)
(* Proofs about AioLibrary, for every finite directory of nodes, any       *)
(* number of threads, every set of calls and whatever may fail.            *)
(***************************************************************************)
EXTENDS AioLibrary, FiniteSetTheorems, TLAPS

-----------------------------------------------------------------------------
(* Facts about the operators of the model. *)

(* The descriptor of a node is one, and not None. *)
LEMMA DescriptorType ==
  ASSUME NEW n \in Nodes
  PROVE  /\ default_bar(n) \in Bars
         /\ CardDescriptor(n) \in Descriptors /\ CardDescriptor(n) # None
         /\ CardDescriptor(n).card = n /\ CardDescriptor(n).port_base = default_bar(n)
<1>1. default_bar(n) \in Bars
  BY DEF default_bar, Bars
<1>2. CardDescriptor(n) \in Descriptors
  BY <1>1 DEF CardDescriptor, Descriptors
<1> QED
  BY <1>1, <1>2, LibraryAssumption DEF CardDescriptor

(* What an access of a few bytes leaves is again four bytes. *)
LEMMA DataTypes ==
  /\ Zeroes \in Data
  /\ \A a, b \in Data : \A n \in Nat : Overlay(a, b, n) \in Data
  BY DEF Zeroes, Data, Byte, Overlay

(* The file of a number stays the same when more files are opened, and the    *)
(* next number is that of the file just opened.                               *)
LEMMA FilesStay ==
  ASSUME fds \in Seq(Nodes), NEW n \in Nodes, fds' = Append(fds, n)
  PROVE  /\ Len(fds) \in Nat /\ Len(fds') = Len(fds) + 1 /\ fds' \in Seq(Nodes)
         /\ \A fd \in -1..Fd(Len(fds)) : FileOf(fd)' = FileOf(fd)
         /\ FileOf(Fd(Len(fds)))' = n
<1>1. /\ Len(fds) \in Nat /\ Len(fds') = Len(fds) + 1 /\ fds' \in Seq(Nodes)
      /\ \A i \in 1..Len(fds) : fds'[i] = fds[i]
      /\ fds'[Len(fds) + 1] = n
  OBVIOUS
<1>2. ASSUME NEW fd \in -1..Fd(Len(fds))
      PROVE  FileOf(fd)' = FileOf(fd)
  BY <1>1 DEF FileOf, Fd
<1>3. FileOf(Fd(Len(fds)))' = n
  BY <1>1 DEF FileOf, Fd
<1> QED
  BY <1>1, <1>2, <1>3

(* As long as a node is still to be listed there is a slot for it. *)
LEMMA SlotLeft ==
  ASSUME TypeOK, WithinCards, phase = "scan", NEW n \in unread \cap PciNamed
  PROVE  /\ num_cards \in 0..Slots - 1
         /\ num_cards + 1 + Cardinality((unread \ {n}) \cap PciNamed) <= Slots
         /\ num_cards + Cardinality((unread \ {n}) \cap PciNamed) <= Slots
<1> DEFINE S == unread \cap PciNamed
<1>1. IsFiniteSet(S)
  BY FS_Subset, LibraryAssumption DEF TypeOK
<1>2. Cardinality(S \ {n}) = Cardinality(S) - 1 /\ IsFiniteSet(S \ {n})
  BY <1>1, FS_RemoveElement
<1>3. Cardinality(S) \in Nat /\ Cardinality(S \ {n}) \in Nat
  BY <1>1, <1>2, FS_CardinalityType
<1>4. (unread \ {n}) \cap PciNamed = S \ {n}
  OBVIOUS
<1>5. num_cards + Cardinality(S) <= Slots
  BY DEF WithinCards
<1>6. num_cards \in Nat /\ Slots \in Nat
  BY LibraryAssumption DEF TypeOK
<1> HIDE DEF S
<1> QED
  BY <1>2, <1>3, <1>4, <1>5, <1>6

-----------------------------------------------------------------------------
(* What the steps of AiowdmInit store. *)

(* The slot num_cards gets a file and a descriptor, and no other. *)
Fills(fd, d) ==
  /\ \A i \in 0..Slots - 1 : i # num_cards => cards'[i] = cards[i]
  /\ cards'[num_cards] = [fd |-> fd, descriptor |-> d]

LEMMA OpenFailsFills ==
  ASSUME IInv, NEW n \in Nodes, InitOpenFails(n)
  PROVE  Fills(-1, cards[num_cards].descriptor) /\ DOMAIN cards' = 0..Slots - 1
<1>1. num_cards \in 0..Slots - 1
  BY SlotLeft DEF IInv, InitOpenFails
<1>2. cards[num_cards] \in [fd : -1..Fd(Len(fds)), descriptor : Descriptors \cup {None}]
  BY <1>1 DEF IInv, TypeOK
<1> QED
  BY <1>1, <1>2 DEF IInv, TypeOK, InitOpenFails, Fills

LEMMA IoctlFailsFills ==
  ASSUME IInv, NEW n \in Nodes, InitIoctlFails(n)
  PROVE  Fills(Fd(Len(fds')), None)
<1>1. num_cards \in 0..Slots - 1
  BY SlotLeft DEF IInv, InitIoctlFails
<1> QED
  BY <1>1 DEF IInv, TypeOK, InitIoctlFails, Fills

LEMMA CardFills ==
  ASSUME IInv, NEW n \in Nodes, InitCard(n)
  PROVE  Fills(Fd(Len(fds')), CardDescriptor(n))
<1>1. num_cards \in 0..Slots - 1
  BY SlotLeft DEF IInv, InitCard
<1> QED
  BY <1>1 DEF IInv, TypeOK, InitCard, Fills

-----------------------------------------------------------------------------
(* The constructor leaves the calls alone, the calls the array. *)
LEMMA ScanFrame ==
  ASSUME AiowdmInit
  PROVE  phase = "scan" /\ UNCHANGED <<callVars, regs>>
  BY DEF AiowdmInit, InitNoDir, InitComplete, InitSkip, InitOpenFails,
         InitIoctlFails, InitCard

LEMMA ThreadFrame ==
  ASSUME NEW t \in Threads, Thread(t)
  PROVE  UNCHANGED libVars
  BY DEF Thread, RelCall, IoctlEnter, IoctlRead, IoctlCopy, IoctlWrite

(* The types of the array are kept by a slot filled with a known file. *)
LEMMA FillsType ==
  ASSUME TypeOK, NEW fd, NEW d \in Descriptors \cup {None}, Fills(fd, d),
         num_cards \in 0..Slots - 1, NEW L \in Int, L >= Fd(Len(fds)), fd \in -1..L,
         cards' = [cards EXCEPT ![num_cards] = cards'[num_cards]]
  PROVE  cards' \in [0..Slots - 1 -> [fd : -1..L, descriptor : Descriptors \cup {None}]]
<1> DEFINE R == [fd : -1..L, descriptor : Descriptors \cup {None}]
<1>1. ASSUME NEW i \in 0..Slots - 1 PROVE cards'[i] \in R
  <2>1. CASE i = num_cards
    BY <2>1 DEF Fills
  <2>2. CASE i # num_cards
    <3>1. cards'[i] = cards[i]
      BY <2>2 DEF Fills
    <3>2. cards[i] \in [fd : -1..Fd(Len(fds)), descriptor : Descriptors \cup {None}]
      BY DEF TypeOK
    <3>3. Fd(Len(fds)) \in Int
      BY DEF TypeOK, Fd
    <3> QED
      BY <3>1, <3>2, <3>3
  <2> QED
    BY <2>1, <2>2
<1> HIDE DEF R
<1>2. cards' \in [0..Slots - 1 -> R]
  BY <1>1 DEF TypeOK
<1> QED
  BY <1>2 DEF R

(* The part of TypeOK about the array, and the part about the calls. *)
LibType ==
  /\ phase \in {"scan", "ready"} /\ unread \subseteq Nodes
  /\ fds \in Seq(Nodes) /\ num_cards \in 0..Slots
  /\ cards \in [0..Slots - 1 -> [fd : -1..Fd(Len(fds)),
                                 descriptor : Descriptors \cup {None}]]
  /\ failed \subseteq Nodes

CallTypes ==
  /\ regs \in [Nodes \X Bars -> [Bytes -> Byte]]
  /\ pc \in [Threads -> {"idle", "ioctl", "access", "copy"}]
  /\ call \in [Threads -> CallType]
  /\ context \in [Threads -> Data] /\ kernel \in [Threads -> Data]
  /\ status \in [Threads -> {0, -1}]
  /\ touched \in [Threads -> Nodes \cup {None}] /\ seen \in [Threads -> Data]

LEMMA TypeParts == TypeOK <=> LibType /\ CallTypes
  BY DEF TypeOK, LibType, CallTypes

LEMMA ScanTypes ==
  ASSUME IInv, AiowdmInit
  PROVE  LibType'
<1>a. LibType /\ TypeOK /\ WithinCards /\ phase = "scan"
  BY TypeParts, ScanFrame DEF IInv
<1>b. /\ Len(fds) \in Nat /\ Fd(Len(fds)) \in Int
      /\ cards \in [0..Slots - 1 -> [fd : -1..Fd(Len(fds)),
                                     descriptor : Descriptors \cup {None}]]
  BY <1>a DEF LibType, Fd
<1>1. CASE InitNoDir
  BY <1>1, <1>a DEF InitNoDir, LibType
<1>2. CASE InitComplete
  BY <1>2, <1>a DEF InitComplete, LibType
<1>3. ASSUME NEW n \in Nodes, InitSkip(n) PROVE LibType'
  BY <1>3, <1>a DEF InitSkip, LibType
<1>4. ASSUME NEW n \in Nodes, InitOpenFails(n) PROVE LibType'
  <2>1. num_cards \in 0..Slots - 1
    BY <1>4, <1>a, SlotLeft DEF InitOpenFails
  <2>2. cards' \in [0..Slots - 1 -> [fd : -1..Fd(Len(fds)),
                                     descriptor : Descriptors \cup {None}]]
    <3>1. cards[num_cards].descriptor \in Descriptors \cup {None}
      BY <1>b, <2>1
    <3>2. Fills(-1, cards[num_cards].descriptor)
      BY <1>4, OpenFailsFills
    <3>3. cards' = [cards EXCEPT ![num_cards] = cards'[num_cards]]
      BY <1>4, <1>b, <2>1 DEF InitOpenFails
    <3>4. Fd(Len(fds)) >= -1
      BY <1>b DEF Fd
    <3> QED
      BY <1>a, <1>b, <2>1, <3>1, <3>2, <3>3, <3>4, FillsType
  <2> QED
    BY <1>4, <1>a, <2>1, <2>2 DEF InitOpenFails, LibType
<1>5. ASSUME NEW n \in Nodes, InitIoctlFails(n) PROVE LibType'
  <2>1. num_cards \in 0..Slots - 1
    BY <1>5, <1>a, SlotLeft DEF InitIoctlFails
  <2>2. Len(fds') = Len(fds) + 1 /\ fds' \in Seq(Nodes)
    BY <1>5, <1>a, FilesStay DEF InitIoctlFails, LibType
  <2>3. cards' \in [0..Slots - 1 -> [fd : -1..Fd(Len(fds')),
                                     descriptor : Descriptors \cup {None}]]
    <3>1. Fills(Fd(Len(fds')), None)
      BY <1>5, IoctlFailsFills
    <3>2. cards' = [cards EXCEPT ![num_cards] = cards'[num_cards]]
      BY <1>5, <1>b, <2>1 DEF InitIoctlFails
    <3>3. Fd(Len(fds')) \in Int /\ Fd(Len(fds')) >= Fd(Len(fds)) /\ Fd(Len(fds')) >= -1
      BY <1>b, <2>2 DEF Fd
    <3> QED
      BY <1>a, <1>b, <2>1, <3>1, <3>2, <3>3, FillsType
  <2> QED
    BY <1>5, <1>a, <2>1, <2>2, <2>3 DEF InitIoctlFails, LibType, Advance
<1>6. ASSUME NEW n \in Nodes, InitCard(n) PROVE LibType'
  <2>1. num_cards \in 0..Slots - 1
    BY <1>6, <1>a, SlotLeft DEF InitCard
  <2>2. Len(fds') = Len(fds) + 1 /\ fds' \in Seq(Nodes)
    BY <1>6, <1>a, FilesStay DEF InitCard, LibType
  <2>3. cards' \in [0..Slots - 1 -> [fd : -1..Fd(Len(fds')),
                                     descriptor : Descriptors \cup {None}]]
    <3>1. Fills(Fd(Len(fds')), CardDescriptor(n)) /\ CardDescriptor(n) \in Descriptors
      BY <1>6, CardFills, DescriptorType
    <3>2. cards' = [cards EXCEPT ![num_cards] = cards'[num_cards]]
      BY <1>6, <1>b, <2>1 DEF InitCard
    <3>3. Fd(Len(fds')) \in Int /\ Fd(Len(fds')) >= Fd(Len(fds)) /\ Fd(Len(fds')) >= -1
      BY <1>b, <2>2 DEF Fd
    <3> QED
      BY <1>a, <1>b, <2>1, <3>1, <3>2, <3>3, FillsType
  <2>4. num_cards' = num_cards + 1
    BY <1>6 DEF InitCard, Advance
  <2>5. Slots \in Nat
    BY LibraryAssumption
  <2> QED
    BY <1>6, <1>a, <2>1, <2>2, <2>3, <2>4, <2>5 DEF InitCard, LibType
<1> QED
  BY <1>1, <1>2, <1>3, <1>4, <1>5, <1>6 DEF AiowdmInit

-----------------------------------------------------------------------------
(* The types of the calls. *)

(* A number leads to a node or to no file of the driver. *)
LEMMA TargetType ==
  ASSUME fds \in Seq(Nodes), NEW t \in Threads
  PROVE  Target(t) \in Nodes \cup {None}
  BY DEF Target, FileOf

(* What the access of a RelIn finds. *)
Found(t) ==
  [i \in 1..4 |-> IF i <= call[t].size
                  THEN regs[<<Target(t), default_bar(Target(t))>>][call[t].offset + i - 1]
                  ELSE 0]

(* An access stays inside the BAR, so it finds bytes. *)
LEMMA FoundType ==
  ASSUME CallTypes, NEW t \in Threads, Target(t) \in Nodes
  PROVE  Found(t) \in Data
<1> DEFINE bar == regs[<<Target(t), default_bar(Target(t))>>]
<1>1. bar \in [Bytes -> Byte]
  BY DescriptorType DEF CallTypes
<1>2. /\ call[t].offset \in 0..3 /\ call[t].size \in {1, 2, 4}
      /\ call[t].offset + call[t].size - 1 \in 0..3
  BY DEF CallTypes, CallType, Bytes
<1> HIDE DEF bar
<1>3. ASSUME NEW i \in 1..4, i <= call[t].size
      PROVE  bar[call[t].offset + i - 1] \in Byte
  <2>1. call[t].offset + i - 1 \in Bytes
    BY <1>2, <1>3 DEF Bytes
  <2> QED
    BY <1>1, <2>1
<1>4. 0 \in Byte
  BY DEF Byte
<1> QED
  BY <1>3, <1>4 DEF Found, Data, bar

(* The BAR after a write is one of bytes. *)
LEMMA WrittenType ==
  ASSUME CallTypes, NEW t \in Threads, NEW bar \in [Bytes -> Byte]
  PROVE  [b \in Bytes |-> IF b \in Span(call[t].size, call[t].offset)
                          THEN kernel[t][b - call[t].offset + 1]
                          ELSE bar[b]] \in [Bytes -> Byte]
<1>1. /\ call[t].offset \in 0..3 /\ call[t].size \in {1, 2, 4}
      /\ kernel[t] \in [1..4 -> Byte]
  BY DEF CallTypes, CallType, Bytes, Data
<1>2. ASSUME NEW b \in Bytes, b \in Span(call[t].size, call[t].offset)
      PROVE  kernel[t][b - call[t].offset + 1] \in Byte
  <2>1. b - call[t].offset + 1 \in 1..4
    BY <1>1, <1>2 DEF Bytes, Span
  <2> QED
    BY <1>1, <2>1
<1> QED
  BY <1>2

LEMMA ReturnTypes ==
  ASSUME CallTypes, NEW t \in Threads, NEW st \in {0, -1}, Return(t, st)
  PROVE  /\ pc' \in [Threads -> {"idle", "ioctl", "access", "copy"}]
         /\ status' \in [Threads -> {0, -1}]
         /\ kernel' \in [Threads -> Data]
  BY DataTypes DEF CallTypes, Return

LEMMA ThreadTypes ==
  ASSUME IInv, NEW t \in Threads, Thread(t)
  PROVE  CallTypes'
<1>a. CallTypes /\ LibType /\ ThreadInv
  BY TypeParts DEF IInv
<1>b. pc[t] \in {"access", "copy"} => Target(t) \in Nodes
  BY <1>a, TargetType DEF LibType, ThreadInv, TargetOk
<1>1. ASSUME NEW c \in Calls, RelCall(t, c) PROVE CallTypes'
  <2>1. c \in CallType /\ c.value \in Data /\ c.size \in Nat
    BY LibraryAssumption DEF CallType
  <2>2. (IF c.read THEN Zeroes ELSE Overlay(c.value, Zeroes, c.size)) \in Data
    BY <2>1, DataTypes
  <2> QED
    BY <1>1, <1>a, <2>1, <2>2, DataTypes DEF RelCall, CallTypes
<1>2. CASE IoctlEnter(t)
  <2>1. CASE Return(t, -1)
    BY <1>2, <1>a, <2>1, ReturnTypes DEF IoctlEnter, CallTypes
  <2>2. CASE ~Return(t, -1)
    BY <1>2, <1>a, <2>2 DEF IoctlEnter, CallTypes
  <2> QED
    BY <2>1, <2>2
<1>3. CASE IoctlRead(t)
  <2>1. Found(t) \in Data
    BY <1>3, <1>a, <1>b, FoundType DEF IoctlRead
  <2>2. ReadIn(t, Found(t)) \in Data
    BY <1>a, <2>1, DataTypes DEF ReadIn, CallTypes, CallType
  <2>3. /\ kernel' = [kernel EXCEPT ![t] = ReadIn(t, Found(t))]
        /\ seen' = [seen EXCEPT ![t] = Found(t)]
    BY <1>3 DEF IoctlRead, Found
  <2> HIDE DEF ReadIn, Found
  <2> QED
    BY <1>3, <1>a, <1>b, <2>1, <2>2, <2>3 DEF IoctlRead, CallTypes
<1>4. CASE IoctlCopy(t)
  <2>1. PICK st \in {0, -1} : Return(t, st)
    BY <1>4 DEF IoctlCopy
  <2> QED
    BY <1>4, <1>a, <2>1, ReturnTypes DEF IoctlCopy, CallTypes
<1>5. CASE IoctlWrite(t)
  <2> DEFINE at == <<Target(t), default_bar(Target(t))>>
             new == [b \in Bytes |-> IF b \in Span(call[t].size, call[t].offset)
                                     THEN kernel[t][b - call[t].offset + 1]
                                     ELSE regs[at][b]]
  <2>1. Target(t) \in Nodes /\ at \in Nodes \X Bars
    BY <1>5, <1>b, DescriptorType DEF IoctlWrite
  <2>2. new \in [Bytes -> Byte]
    BY <1>a, <2>1, WrittenType DEF CallTypes
  <2>3. regs' = [regs EXCEPT ![at] = new]
    BY <1>5 DEF IoctlWrite
  <2>4. Return(t, 0)
    BY <1>5 DEF IoctlWrite, WriteDone
  <2> HIDE DEF at, new
  <2>5. regs' \in [Nodes \X Bars -> [Bytes -> Byte]]
    BY <1>a, <2>1, <2>2, <2>3 DEF CallTypes
  <2> QED
    BY <1>5, <1>a, <2>1, <2>4, <2>5, ReturnTypes DEF IoctlWrite, CallTypes
<1> QED
  BY <1>1, <1>2, <1>3, <1>4, <1>5 DEF Thread

LEMMA TypeStep ==
  ASSUME IInv, Next
  PROVE  TypeOK'
<1>a. LibType /\ CallTypes
  BY TypeParts DEF IInv
<1>b. LibType' /\ CallTypes' => TypeOK'
  BY DEF TypeOK, LibType, CallTypes
<1>1. CASE AiowdmInit
  <2>1. CallTypes'
    BY <1>1, <1>a, ScanFrame DEF CallTypes, callVars
  <2> QED
    BY <1>1, <1>b, <2>1, ScanTypes
<1>2. ASSUME NEW t \in Threads, Thread(t) PROVE TypeOK'
  <2>1. LibType'
    BY <1>2, <1>a, ThreadFrame DEF LibType, libVars
  <2> QED
    BY <1>2, <1>b, <2>1, ThreadTypes
<1> QED
  BY <1>1, <1>2 DEF Next

-----------------------------------------------------------------------------
(* The array *)

(* Below num_cards a step of AiowdmInit changes nothing that is reached       *)
(* through a number.                                                          *)
NumbersStay ==
  \A i \in 0..num_cards - 1 : /\ cards'[i] = cards[i]
                              /\ FileOf(cards[i].fd)' = FileOf(cards[i].fd)

LEMMA OpenFailsStay ==
  ASSUME IInv, NEW n \in Nodes, InitOpenFails(n)
  PROVE  NumbersStay
<1>1. Fills(-1, cards[num_cards].descriptor) /\ num_cards \in 0..Slots - 1
  BY OpenFailsFills, SlotLeft DEF IInv, InitOpenFails
<1>2. \A i \in 0..num_cards - 1 : cards'[i] = cards[i]
  BY <1>1, LibraryAssumption DEF Fills
<1>3. fds' = fds
  BY DEF InitOpenFails
<1> QED
  BY <1>2, <1>3 DEF NumbersStay, FileOf

LEMMA OpensStay ==
  ASSUME IInv, NEW n \in Nodes, NEW fd, NEW d, Fills(fd, d),
         num_cards \in 0..Slots - 1, fds' = Append(fds, n)
  PROVE  NumbersStay
<1>1. TypeOK
  BY DEF IInv
<1>2. ASSUME NEW i \in 0..num_cards - 1
      PROVE  /\ cards'[i] = cards[i]
             /\ FileOf(cards[i].fd)' = FileOf(cards[i].fd)
  <2>1. i \in 0..Slots - 1 /\ i # num_cards
    BY LibraryAssumption
  <2>2. cards'[i] = cards[i]
    BY <2>1 DEF Fills
  <2>3. cards[i].fd \in -1..Fd(Len(fds))
    BY <1>1, <2>1 DEF TypeOK
  <2>4. ASSUME NEW k \in -1..Fd(Len(fds)) PROVE FileOf(k)' = FileOf(k)
    BY <1>1, FilesStay DEF TypeOK
  <2> QED
    BY <2>2, <2>3, <2>4 DEF FileOf
<1> QED
  BY <1>2 DEF NumbersStay

LEMMA ListStep ==
  ASSUME IInv, Next
  PROVE  ListInv'
<1>a. ListInv /\ num_cards \in Nat
  BY LibraryAssumption DEF IInv, TypeOK
<1>1. CASE InitNoDir
  BY <1>1, <1>a, LibraryAssumption DEF InitNoDir, ListInv, CardOf
<1>2. CASE InitComplete
  BY <1>2, <1>a DEF InitComplete, ListInv, CardOf, FileOf
<1>3. ASSUME NEW n \in Nodes, InitSkip(n) PROVE ListInv'
  BY <1>3, <1>a DEF InitSkip, ListInv, CardOf, FileOf
<1>4. ASSUME NEW n \in Nodes, InitOpenFails(n) PROVE ListInv'
  <2>1. NumbersStay
    BY <1>4, OpenFailsStay
  <2> QED
    BY <1>4, <1>a, <2>1 DEF InitOpenFails, ListInv, NumbersStay, CardOf
<1>5. ASSUME NEW n \in Nodes, InitIoctlFails(n) PROVE ListInv'
  <2>1. NumbersStay
    BY <1>5, IoctlFailsFills, OpensStay, SlotLeft DEF InitIoctlFails, IInv
  <2>2. num_cards' = num_cards
    BY <1>5 DEF InitIoctlFails, Advance
  <2> QED
    BY <1>5, <1>a, <2>1, <2>2 DEF InitIoctlFails, ListInv, NumbersStay, CardOf
<1>6. ASSUME NEW n \in Nodes, InitCard(n) PROVE ListInv'
  <2>a. /\ num_cards' = num_cards + 1 /\ UNCHANGED <<phase, failed>>
        /\ phase = "scan" /\ n \in unread \cap PciNamed /\ unread' = unread \ {n}
        /\ fds' = Append(fds, n)
    BY <1>6 DEF InitCard, Advance
  <2>b. Fills(Fd(Len(fds')), CardDescriptor(n))
    BY <1>6, CardFills
  <2>1. NumbersStay
    BY <2>a, <2>b, OpensStay, SlotLeft DEF IInv
  <2>2. PICK k \in Nat : k = num_cards
    BY <1>a
  <2>3. /\ CardOf(k)' = n
        /\ cards'[k].descriptor = CardDescriptor(n)
        /\ cards'[k].fd = Fd(Len(fds'))
    BY <2>b, <2>2, DescriptorType DEF Fills, CardOf
  <2>4. FileOf(cards[k].fd)' = n
    <3>1. FileOf(Fd(Len(fds)))' = n
      BY <2>a, FilesStay DEF IInv, TypeOK
    <3> QED
      BY <2>3, <3>1 DEF FileOf
  <2>5. \A i \in 0..k - 1 :
          /\ CardOf(i)' = CardOf(i) /\ cards'[i].descriptor = cards[i].descriptor
          /\ FileOf(cards[i].fd)' = FileOf(cards[i].fd)
    BY <2>1, <2>2 DEF NumbersStay, CardOf
  <2>6. \A i \in 0..num_cards' - 1 : i = k \/ i \in 0..k - 1
    BY <2>a, <2>2
  <2>7. \A i \in 0..k - 1 :
          /\ CardOf(i) \in PciNamed \ (unread \cup failed)
          /\ cards[i].descriptor = CardDescriptor(CardOf(i))
          /\ FileOf(cards[i].fd) = CardOf(i)
          /\ \A j \in 0..k - 1 : i # j => CardOf(i) # CardOf(j)
    BY <1>a, <2>2 DEF ListInv
  <2>8. n \in PciNamed \ (unread' \cup failed')
    BY <1>a, <2>a DEF ListInv
  <2>9. ASSUME NEW i \in 0..num_cards' - 1
        PROVE  /\ CardOf(i)' \in PciNamed \ (unread' \cup failed')
               /\ cards'[i].descriptor = CardDescriptor(CardOf(i)')
               /\ FileOf(cards[i].fd)' = CardOf(i)'
               /\ \A j \in 0..num_cards' - 1 : i # j => CardOf(i)' # CardOf(j)'
    BY <2>a, <2>3, <2>4, <2>5, <2>6, <2>7, <2>8
  <2>10. ASSUME NEW p \in PciNamed \ (unread' \cup failed')
         PROVE  \E i \in 0..num_cards' - 1 : CardOf(i)' = p
    <3>1. CASE p = n
      BY <2>a, <2>2, <2>3, <3>1
    <3>2. CASE p # n
      <4>1. PICK i \in 0..k - 1 : CardOf(i) = p
        BY <1>a, <2>a, <2>2, <3>2 DEF ListInv
      <4> QED
        BY <2>a, <2>2, <2>5, <4>1
    <3> QED
      BY <3>1, <3>2
  <2>11. phase' = "scan" /\ unread' \cap failed' = {}
    BY <1>a, <2>a DEF ListInv
  <2> QED
    BY <2>9, <2>10, <2>11 DEF ListInv
<1>7. ASSUME NEW t \in Threads, Thread(t) PROVE ListInv'
  BY <1>7, <1>a, ThreadFrame DEF ListInv, libVars, CardOf, FileOf
<1> QED
  BY <1>1, <1>2, <1>3, <1>4, <1>5, <1>6, <1>7 DEF Next, AiowdmInit

LEMMA SpareStep ==
  ASSUME IInv, Next
  PROVE  SpareInv'
<1>a. /\ SpareInv /\ TypeOK /\ WithinCards /\ num_cards \in Nat /\ Slots \in Nat
      /\ failed \subseteq Nodes /\ fds \in Seq(Nodes)
  BY LibraryAssumption DEF IInv, TypeOK
<1>1. CASE InitNoDir
  BY <1>1, <1>a DEF InitNoDir, SpareInv, FileOf
<1>2. CASE InitComplete
  BY <1>2, <1>a DEF InitComplete, SpareInv, FileOf
<1>3. ASSUME NEW n \in Nodes, InitSkip(n) PROVE SpareInv'
  BY <1>3, <1>a DEF InitSkip, SpareInv, FileOf
<1>4. ASSUME NEW n \in Nodes, InitOpenFails(n) PROVE SpareInv'
  <2>1. Fills(-1, cards[num_cards].descriptor) /\ num_cards' = num_cards /\ fds' = fds
    BY <1>4, OpenFailsFills DEF InitOpenFails
  <2>2. FileOf(cards[num_cards].fd)' = None
    BY <1>a, <2>1 DEF Fills, FileOf
  <2>3. \A i \in num_cards' + 1..Slots - 1 : cards'[i] = NoCard
    BY <1>a, <2>1 DEF Fills, SpareInv
  <2> QED
    BY <2>2, <2>3 DEF SpareInv
<1>5. ASSUME NEW n \in Nodes, InitIoctlFails(n) PROVE SpareInv'
  <2>1. /\ Fills(Fd(Len(fds')), None) /\ num_cards' = num_cards
        /\ fds' = Append(fds, n) /\ n \in failed'
    BY <1>5, IoctlFailsFills DEF InitIoctlFails, Advance
  <2>2. FileOf(Fd(Len(fds)))' = n
    BY <1>a, <2>1, FilesStay
  <2>3. FileOf(cards[num_cards].fd)' = n
    BY <2>1, <2>2 DEF Fills, FileOf
  <2>4. \A i \in num_cards' + 1..Slots - 1 : cards'[i] = NoCard
    BY <1>a, <2>1 DEF Fills, SpareInv
  <2> QED
    BY <2>1, <2>3, <2>4 DEF SpareInv
<1>6. ASSUME NEW n \in Nodes, InitCard(n) PROVE SpareInv'
  <2>1. /\ Fills(Fd(Len(fds')), CardDescriptor(n)) /\ num_cards' = num_cards + 1
        /\ fds' = Append(fds, n)
    BY <1>6, CardFills DEF InitCard, Advance
  <2>2. \A i \in num_cards'..Slots - 1 : cards'[i] = NoCard
    BY <1>a, <2>1 DEF Fills, SpareInv
  <2>3. num_cards' < Slots => FileOf(cards[num_cards].fd)' = None
    <3>1. num_cards' < Slots => cards'[num_cards'].fd = 0
      BY <1>a, <2>1, <2>2 DEF NoCard
    <3> QED
      BY <3>1 DEF FileOf
  <2> QED
    BY <1>a, <2>1, <2>2, <2>3 DEF SpareInv
<1>7. ASSUME NEW t \in Threads, Thread(t) PROVE SpareInv'
  BY <1>7, <1>a, ThreadFrame DEF SpareInv, libVars, FileOf
<1> QED
  BY <1>1, <1>2, <1>3, <1>4, <1>5, <1>6, <1>7 DEF Next, AiowdmInit

LEMMA WithinStep ==
  ASSUME IInv, Next
  PROVE  WithinCards'
<1>a. WithinCards /\ TypeOK
  BY DEF IInv
<1>1. CASE InitNoDir \/ InitComplete
  BY <1>1 DEF InitNoDir, InitComplete, WithinCards
<1>2. ASSUME NEW n \in Nodes, InitSkip(n) PROVE WithinCards'
  <2>1. unread' \cap PciNamed = unread \cap PciNamed
    BY <1>2 DEF InitSkip
  <2> QED
    BY <1>2, <1>a, <2>1 DEF InitSkip, WithinCards
<1>3. ASSUME NEW n \in Nodes, InitOpenFails(n) \/ InitIoctlFails(n) \/ InitCard(n)
      PROVE  WithinCards'
  <2>1. /\ phase = "scan" /\ n \in unread \cap PciNamed /\ unread' = unread \ {n}
        /\ num_cards' = num_cards \/ num_cards' = num_cards + 1
    BY <1>3 DEF InitOpenFails, InitIoctlFails, InitCard, Advance
  <2>2. num_cards' + Cardinality(unread' \cap PciNamed) <= Slots
    BY <1>a, <2>1, SlotLeft
  <2> QED
    BY <2>2 DEF WithinCards
<1>4. ASSUME NEW t \in Threads, Thread(t) PROVE WithinCards'
  BY <1>4, <1>a, ThreadFrame DEF WithinCards, libVars
<1> QED
  BY <1>1, <1>2, <1>3, <1>4 DEF Next, AiowdmInit

-----------------------------------------------------------------------------
(* The calls *)

(* A step of thread t changes the call of no other. *)
OthersStay(t) ==
  \A u \in Threads \ {t} :
    /\ pc'[u] = pc[u] /\ call'[u] = call[u] /\ context'[u] = context[u]
    /\ kernel'[u] = kernel[u] /\ status'[u] = status[u]
    /\ touched'[u] = touched[u] /\ seen'[u] = seen[u]

LEMMA ThreadOthers ==
  ASSUME IInv, NEW t \in Threads, Thread(t)
  PROVE  OthersStay(t) /\ \A u \in Threads \ {t} : Target(u)' = Target(u)
<1>1. CallTypes
  BY TypeParts DEF IInv
<1>2. OthersStay(t)
  BY <1>1 DEF Thread, RelCall, IoctlEnter, IoctlRead, IoctlCopy, IoctlWrite, Return,
              WriteDone, CallTypes, OthersStay
<1>3. UNCHANGED libVars
  BY ThreadFrame
<1> QED
  BY <1>2, <1>3 DEF OthersStay, Target, FileOf, libVars

(* So its part of the invariant stays true. *)
LEMMA ThreadKeepsOthers ==
  ASSUME IInv, NEW t \in Threads, Thread(t), NEW u \in Threads \ {t}
  PROVE  TargetOk(u)' /\ ReadOk(u)'
<1>1. TargetOk(u) /\ ReadOk(u)
  BY DEF IInv, ThreadInv
<1>2. OthersStay(t) /\ Target(u)' = Target(u)
  BY ThreadOthers
<1> QED
  BY <1>1, <1>2 DEF OthersStay, TargetOk, ReadOk

(* What the read of a RelIn leaves in the kernel's copy is all it found. *)
LEMMA ReadInWhole ==
  ASSUME CallTypes, NEW t \in Threads, kernel[t] = Zeroes
  PROVE  ReadIn(t, Found(t)) = Found(t)
<1>1. \A i \in 1..4 : ~(i <= call[t].size) => Found(t)[i] = 0 /\ Zeroes[i] = 0
  BY DEF Found, Zeroes
<1>2. ReadIn(t, Found(t)) =
        [i \in 1..4 |-> IF i <= call[t].size THEN Found(t)[i] ELSE Zeroes[i]]
  BY DEF ReadIn, Overlay
<1>3. Found(t) = [i \in 1..4 |-> Found(t)[i]]
  BY DEF Found
<1> QED
  BY <1>1, <1>2, <1>3

LEMMA ThreadKeepsOwn ==
  ASSUME IInv, NEW t \in Threads, Thread(t)
  PROVE  TargetOk(t)' /\ ReadOk(t)'
<1>a. CallTypes /\ fds \in Seq(Nodes) /\ TargetOk(t) /\ ReadOk(t)
  BY TypeParts DEF IInv, LibType, ThreadInv
<1>b. UNCHANGED libVars
  BY ThreadFrame
<1>c. call'[t] = call[t] => Target(t)' = Target(t)
  BY <1>b DEF libVars, Target, FileOf
<1>d. Target(t) \in Nodes \cup {None}
  BY <1>a, TargetType
<1> USE DEF CallTypes, TargetOk, ReadOk
<1>1. ASSUME NEW c \in Calls, RelCall(t, c) PROVE TargetOk(t)' /\ ReadOk(t)'
  BY <1>1, <1>a DEF RelCall
<1>2. CASE IoctlEnter(t)
  <2>1. call'[t] = call[t] /\ touched'[t] = touched[t] /\ context'[t] = context[t]
    BY <1>2 DEF IoctlEnter
  <2>2. \/ pc'[t] = "idle" /\ status'[t] = -1
        \/ pc'[t] = "access" /\ kernel'[t] = context[t] /\ Target(t) # None
    BY <1>2, <1>a DEF IoctlEnter, Return
  <2>3. pc[t] = "ioctl"
    BY <1>2 DEF IoctlEnter
  <2> QED
    BY <1>a, <1>c, <2>1, <2>2, <2>3
<1>3. CASE IoctlRead(t)
  <2>1. /\ call'[t] = call[t] /\ call[t].read /\ pc[t] = "access" /\ pc'[t] = "copy"
        /\ touched'[t] = Target(t) /\ context'[t] = context[t]
        /\ kernel'[t] = ReadIn(t, Found(t)) /\ seen'[t] = Found(t)
    BY <1>3, <1>a DEF IoctlRead, Found
  <2>2. kernel'[t] = seen'[t]
    BY <1>a, <2>1, ReadInWhole
  <2> QED
    BY <1>a, <1>c, <2>1, <2>2
<1>4. CASE IoctlCopy(t)
  <2>1. /\ call'[t] = call[t] /\ pc[t] = "copy" /\ pc'[t] = "idle"
        /\ touched'[t] = touched[t] /\ seen'[t] = seen[t]
        /\ \/ context'[t] = kernel[t] /\ status'[t] = 0
           \/ context'[t] = context[t] /\ status'[t] = -1
    BY <1>4, <1>a DEF IoctlCopy, Return
  <2> QED
    BY <1>a, <1>c, <2>1
<1>5. CASE IoctlWrite(t)
  <2>1. /\ call'[t] = call[t] /\ ~call[t].read /\ pc'[t] = "idle"
        /\ touched'[t] = Target(t) /\ status'[t] = 0
    BY <1>5, <1>a DEF IoctlWrite, WriteDone, Return
  <2> QED
    BY <1>c, <2>1
<1> QED
  BY <1>1, <1>2, <1>3, <1>4, <1>5 DEF Thread

LEMMA ThreadStep ==
  ASSUME IInv, Next
  PROVE  ThreadInv'
<1>a. ThreadInv
  BY DEF IInv
<1>1. CASE AiowdmInit
  <2>1. /\ UNCHANGED callVars
        /\ \A t \in Threads : pc[t] = "idle" /\ touched[t] = None /\ ReadOk(t)
    BY <1>1, <1>a, ScanFrame DEF ThreadInv
  <2> QED
    BY <2>1 DEF ThreadInv, TargetOk, ReadOk, callVars
<1>2. ASSUME NEW t \in Threads, Thread(t) PROVE ThreadInv'
  <2>1. phase' = "ready"
    <3>1. phase = "ready" /\ phase' = phase
      BY <1>2, <1>a, ThreadFrame
      DEF ThreadInv, libVars, Thread, RelCall, IoctlEnter, IoctlRead, IoctlCopy,
          IoctlWrite, IInv, TypeOK
    <3> QED
      BY <3>1
  <2>2. ASSUME NEW u \in Threads PROVE TargetOk(u)' /\ ReadOk(u)'
    BY <1>2, ThreadKeepsOwn, ThreadKeepsOthers
  <2> QED
    BY <2>1, <2>2 DEF ThreadInv
<1> QED
  BY <1>1, <1>2 DEF Next

-----------------------------------------------------------------------------
(* Together *)

LEMMA InitInv == Init => IInv
<1> SUFFICES ASSUME Init PROVE IInv
  OBVIOUS
<1>1. NoCall \in CallType
  BY LibraryAssumption, DataTypes DEF NoCall, CallType, Bytes
<1>2. TypeOK
  <2>1. Len(fds) = 0 /\ fds \in Seq(Nodes)
    BY DEF Init
  <2>2. NoCard \in [fd : -1..Fd(Len(fds)), descriptor : Descriptors \cup {None}]
    BY <2>1 DEF NoCard, Fd
  <2>3. cards \in [0..Slots - 1 -> [fd : -1..Fd(Len(fds)),
                                    descriptor : Descriptors \cup {None}]]
    BY <2>2 DEF Init
  <2>4. [b \in Bytes |-> 0] \in [Bytes -> Byte]
    BY DEF Byte
  <2>5. regs \in [Nodes \X Bars -> [Bytes -> Byte]]
    BY <2>4 DEF Init
  <2>6. LibType
    BY <2>1, <2>3, LibraryAssumption DEF Init, LibType
  <2>7. CallTypes
    BY <1>1, <2>5, DataTypes DEF Init, CallTypes
  <2> QED
    BY <2>6, <2>7, TypeParts
<1>3. ListInv
  BY LibraryAssumption DEF Init, ListInv
<1>4. SpareInv
  <2>1. FileOf(0) = None
    BY DEF Init, FileOf
  <2> QED
    BY <2>1, LibraryAssumption DEF Init, SpareInv, NoCard
<1>5. WithinCards
  <2>1. unread \cap PciNamed = PciNamed /\ num_cards = 0
    BY LibraryAssumption DEF Init
  <2>2. Cardinality(PciNamed) \in Nat
    BY FS_Subset, FS_CardinalityType, LibraryAssumption
  <2>3. Cardinality(PciNamed) <= Slots
    BY LibraryAssumption
  <2>4. num_cards + Cardinality(unread \cap PciNamed) <= Slots
    BY <2>1, <2>2, <2>3
  <2> QED
    BY <2>4 DEF WithinCards
<1>6. ThreadInv
  BY DEF Init, ThreadInv, TargetOk, ReadOk
<1> QED
  BY <1>2, <1>3, <1>4, <1>5, <1>6 DEF IInv

(* The invariant holds in every state of the library. *)
THEOREM LibraryInvariant == Spec => []IInv
<1>1. IInv /\ [Next]_vars => IInv'
  <2>1. ASSUME IInv, Next PROVE IInv'
    BY <2>1, TypeStep, ListStep, SpareStep, WithinStep, ThreadStep DEF IInv
  <2>2. ASSUME IInv, UNCHANGED vars PROVE IInv'
    BY <2>2
    DEF vars, IInv, TypeOK, ListInv, SpareInv, WithinCards, ThreadInv, TargetOk,
        ReadOk, Target, FileOf, CardOf
  <2> QED
    BY <2>1, <2>2
<1> QED
  BY <1>1, InitInv, PTL DEF Spec

(* Every variable has its type. *)
THEOREM LibraryTypes == Spec => []TypeOK
<1>1. IInv => TypeOK
  BY DEF IInv
<1> QED
  BY <1>1, LibraryInvariant, PTL

(* A card number stands for one card, whatever AiowdmInit met: the one        *)
(* QueryCardInfo describes is the one RelIn and RelOut reach.                 *)
THEOREM LibraryNumbersAreCards == Spec => []NumbersAreCards
<1>1. ASSUME IInv PROVE NumbersAreCards
  <2>1. ListInv /\ TypeOK /\ num_cards \in Nat
    BY <1>1, LibraryAssumption DEF IInv, TypeOK
  <2>2. ASSUME NEW i \in 0..num_cards - 1
        PROVE  /\ QueryCardInfo(i) = CardDescriptor(CardOf(i))
               /\ CardOf(i) \in PciNamed \ failed
               /\ QueryCardInfo(i) # None
               /\ QueryCardInfo(i).card = CardOf(i)
               /\ QueryCardInfo(i).port_base = default_bar(CardOf(i))
               /\ FileOf(cards[i].fd) = CardOf(i)
    <3>1. /\ QueryCardInfo(i) = CardDescriptor(CardOf(i))
          /\ CardOf(i) \in PciNamed \ failed /\ CardOf(i) \in Nodes
          /\ FileOf(cards[i].fd) = CardOf(i)
      BY <2>1, LibraryAssumption DEF ListInv, QueryCardInfo
    <3> QED
      BY <3>1, DescriptorType
  <2>3. ASSUME NEW i \in 0..num_cards - 1, NEW j \in 0..num_cards - 1, i # j
        PROVE  QueryCardInfo(j) # QueryCardInfo(i)
    <3>1. CardOf(i) # CardOf(j)
      BY <2>1, <2>3 DEF ListInv
    <3> QED
      BY <2>2, <3>1
  <2>4. ASSUME phase = "ready" PROVE Listed = PciNamed \ failed
    <3>1. \A n \in PciNamed \ failed : \E i \in 0..num_cards - 1 : CardOf(i) = n
      BY <2>1, <2>4 DEF ListInv
    <3> QED
      BY <2>2, <3>1 DEF Listed
  <2> QED
    BY <2>2, <2>3, <2>4 DEF NumbersAreCards
<1> QED
  BY <1>1, LibraryInvariant, PTL

(* A stray number reaches a card only through the slot that a failed          *)
(* CARD_DESCRIPTOR_GET left behind.                                           *)
THEOREM LibraryStrayNumbers == Spec => []StrayNumbers
<1>1. ASSUME IInv PROVE StrayNumbers
  <2> SUFFICES ASSUME NEW t \in Threads, call[t].num >= num_cards, touched[t] # None
               PROVE  call[t].num = num_cards /\ touched[t] \in failed
    BY DEF StrayNumbers
  <2>1. /\ touched[t] = FileOf(cards[call[t].num].fd) /\ SpareInv
        /\ call[t].num \in 0..Slots - 1 /\ fds \in Seq(Nodes)
        /\ num_cards \in Nat /\ Slots \in Nat
    BY <1>1, LibraryAssumption
    DEF IInv, ThreadInv, TargetOk, Target, TypeOK, CallType
  <2>2. call[t].num = num_cards
    <3>1. call[t].num # num_cards => cards[call[t].num] = NoCard
      BY <2>1 DEF SpareInv
    <3>2. FileOf(NoCard.fd) = None
      BY <2>1 DEF FileOf, NoCard
    <3> QED
      BY <2>1, <3>1, <3>2
  <2> QED
    BY <2>1, <2>2 DEF SpareInv
<1> QED
  BY <1>1, LibraryInvariant, PTL

(* AiowdmInit stays inside the array cards. *)
THEOREM LibraryWithinCards == Spec => []WithinCards
<1>1. IInv => WithinCards
  BY DEF IInv
<1> QED
  BY <1>1, LibraryInvariant, PTL

(* A call that ended well reached the card of its number, a failed one has    *)
(* written nothing.                                                           *)
THEOREM LibraryErrorMeansUnwritten == Spec => []ErrorMeansUnwritten
<1>1. ASSUME IInv PROVE ErrorMeansUnwritten
  <2> SUFFICES ASSUME NEW t \in Threads, pc[t] = "idle"
               PROVE  /\ status[t] = -1 => touched[t] = None \/ call[t].read
                      /\ touched[t] # None /\ call[t].num < num_cards =>
                           touched[t] = QueryCardInfo(call[t].num).card
    BY DEF ErrorMeansUnwritten
  <2>1. TargetOk(t) /\ ListInv /\ call[t].num \in Nat /\ num_cards \in Nat
    BY <1>1, LibraryAssumption DEF IInv, ThreadInv, TypeOK, CallType
  <2>2. call[t].num < num_cards =>
          /\ QueryCardInfo(call[t].num).card = CardOf(call[t].num)
          /\ Target(t) = CardOf(call[t].num)
    BY <2>1 DEF ListInv, QueryCardInfo, CardOf, Target
  <2> QED
    BY <2>1, <2>2 DEF TargetOk
<1> QED
  BY <1>1, LibraryInvariant, PTL

(* A RelIn returns all the bytes the register held, or 0 if its ioctl failed. *)
THEOREM LibraryReadsAreWhole == Spec => []ReadsAreWhole
<1>1. IInv => ReadsAreWhole
  BY DEF IInv, ThreadInv, ReadOk, ReadsAreWhole
<1> QED
  BY <1>1, LibraryInvariant, PTL

=============================================================================
