---------------------------- MODULE AioLibrary ----------------------------
(***************************************************************************)
(* The library src/aiowdm/aiowdm.cpp of one process and the two ioctls it  *)
(* needs from the driver: the constructor AiowdmInit, which turns the      *)
(* device nodes into card numbers with CARD_DESCRIPTOR_GET, and the        *)
(* functions RelIn... and RelOut..., which reach a register of a card      *)
(* number through REGISTER_IO.  Threads of the process call them           *)
(* concurrently.                                                           *)
(*                                                                         *)
(* A register file is a few bytes per BAR; a byte, word or dword access    *)
(* touches 1, 2 or 4 of them.                                              *)
(*                                                                         *)
(* An operator whose name contains Bug is a faulty variant of the          *)
(* definition after it; the specification never uses it.                   *)
(***************************************************************************)
EXTENDS Integers, Sequences, FiniteSets

CONSTANTS
  Nodes,      \* entries of /dev/accesio_pci/
  PciNamed,   \* the entries whose name contains "pci"
  IoBars,     \* the I/O port BARs of the card behind each node
  Override,   \* nodes of cards whose device id is in the switch of probe
  Slots,      \* size of the array cards
  Threads,    \* threads that use the library
  Calls,      \* the calls they make: [read, num, size, offset, value]
  MayFail,    \* what may fail
  None

Bars  == 0..2
Bytes == 0..3      \* offsets in a BAR

Byte  == 0..255
Data  == [1..4 -> Byte]                       \* the union data
Descriptors == [card : Nodes, port_base : Bars]

(* What the arguments of the six Rel functions can be. *)
CallType ==
  {c \in [read : BOOLEAN, num : 0..Slots - 1, size : {1, 2, 4}, offset : Bytes,
          value : Data] : c.offset + c.size - 1 \in Bytes}

ASSUME LibraryAssumption ==
  /\ IsFiniteSet(Nodes) /\ Slots \in Nat \ {0}
  /\ PciNamed \subseteq Nodes /\ Override \subseteq Nodes
  /\ Cardinality(PciNamed) <= Slots
  /\ Calls \subseteq CallType
  /\ None \notin Nodes /\ None \notin Descriptors

VARIABLES
  \* the library
  phase,       \* "scan" in AiowdmInit, then "ready"
  unread,      \* entries readdir has still to return
  fds,         \* the node behind each open file, in the order of opening
  cards,       \* the array cards
  num_cards,
  \* the driver and the cards
  regs,        \* bytes of each BAR of each card
  \* the calls in progress
  pc,          \* "idle", "ioctl", "access", "copy"
  call,        \* the call of each thread
  context,     \* the data of its struct accesio_pci_register_io_context
  kernel,      \* the kernel's copy of that data
  status,      \* what the last ioctl of the thread returned
  \* history
  failed,      \* nodes that could not be opened or described
  touched,     \* the node the last call of each thread reached, or None
  seen         \* the bytes it found there

libVars  == <<phase, unread, fds, cards, num_cards, failed>>
callVars == <<pc, call, context, kernel, status, touched, seen>>
vars == <<phase, unread, fds, cards, num_cards, regs, pc, call, context, kernel,
          status, failed, touched, seen>>

Zeroes == [i \in 1..4 |-> 0]

-----------------------------------------------------------------------------
(* The driver *)

(* context->default_bar as probe sets it: any I/O BAR makes it 1. *)
default_bar(n) ==
  IF n \in Override THEN 2 ELSE IF IoBars[n] # {} THEN 1 ELSE 0

(* ioctl_ACCESIO_PCI_CARD_DESCRIPTOR_GET; the port base is that of a BAR. *)
CardDescriptor(n) == [card |-> n, port_base |-> default_bar(n)]

(* The file a number stands for: 0 (a slot never used) to 2 are not the      *)
(* driver's, and -1 is none.                                                 *)
Fd(k) == k + 2
FileOf(fd) == IF fd - 2 \in 1..Len(fds) THEN fds[fd - 2] ELSE None

-----------------------------------------------------------------------------
(* AiowdmInit *)

NoCard == [fd |-> 0, descriptor |-> None]

InitNoDir ==
  /\ phase = "scan" /\ unread = Nodes /\ num_cards = 0 /\ failed = {}
  /\ "opendir" \in MayFail
  /\ phase' = "ready"
  /\ failed' = Nodes
  /\ UNCHANGED <<unread, fds, cards, num_cards, regs, callVars>>

InitSkip(n) ==
  /\ phase = "scan" /\ n \in unread \ PciNamed
  /\ unread' = unread \ {n}
  /\ UNCHANGED <<phase, fds, cards, num_cards, failed, regs, callVars>>

(* The slot keeps the -1. *)
InitOpenFails(n) ==
  /\ phase = "scan" /\ n \in unread \cap PciNamed
  /\ "open" \in MayFail
  /\ unread' = unread \ {n}
  /\ cards' = [cards EXCEPT ![num_cards].fd = -1]
  /\ failed' = failed \cup {n}
  /\ UNCHANGED <<phase, fds, num_cards, regs, callVars>>

(* num_cards++ is reached only if the ioctl returned 0. *)
AdvanceBugAlways(s) == num_cards + 1
AdvanceBugNever(s)  == num_cards
AdvanceBugTwice(s)  == IF s # 0 THEN num_cards ELSE num_cards + 2
Advance(s) == IF s # 0 THEN num_cards ELSE num_cards + 1

(* The slot keeps the open file and an unfilled descriptor. *)
InitIoctlFails(n) ==
  /\ phase = "scan" /\ n \in unread \cap PciNamed
  /\ "copy_to_user" \in MayFail
  /\ unread' = unread \ {n}
  /\ fds' = Append(fds, n)
  /\ cards' = [cards EXCEPT ![num_cards] = [fd |-> Fd(Len(fds')), descriptor |-> None]]
  /\ num_cards' = Advance(-1)
  /\ failed' = failed \cup {n}
  /\ UNCHANGED <<phase, regs, callVars>>

InitCard(n) ==
  /\ phase = "scan" /\ n \in unread \cap PciNamed
  /\ unread' = unread \ {n}
  /\ fds' = Append(fds, n)
  /\ cards' = [cards EXCEPT ![num_cards] =
                 [fd |-> Fd(Len(fds')), descriptor |-> CardDescriptor(n)]]
  /\ num_cards' = Advance(0)
  /\ UNCHANGED <<phase, failed, regs, callVars>>

InitComplete ==
  /\ phase = "scan" /\ unread = {}
  /\ phase' = "ready"
  /\ UNCHANGED <<unread, fds, cards, num_cards, failed, regs, callVars>>

(* GetNumCards counts the numbers QueryCardInfo knows; what it tells of one. *)
QueryCardInfo(i) == IF i >= num_cards THEN None ELSE cards[i].descriptor

-----------------------------------------------------------------------------
(* RelInPortB, RelInPort, RelInPortL, RelOutPortB, RelOutPort, RelOutPortL *)

(* The first n bytes of a, the rest of b: what an access of n bytes does to  *)
(* the union data.                                                           *)
Overlay(a, b, n) == [i \in 1..4 |-> IF i <= n THEN a[i] ELSE b[i]]

(* context = {0}, then the fields. *)
RelCall(t, c) ==
  /\ phase = "ready" /\ pc[t] = "idle"
  /\ pc' = [pc EXCEPT ![t] = "ioctl"]
  /\ call' = [call EXCEPT ![t] = c]
  /\ context' = [context EXCEPT ![t] =
                   IF c.read THEN Zeroes ELSE Overlay(c.value, Zeroes, c.size)]
  /\ touched' = [touched EXCEPT ![t] = None]
  /\ seen' = [seen EXCEPT ![t] = Zeroes]
  /\ UNCHANGED <<libVars, regs, kernel, status>>

Return(t, s) ==
  /\ pc' = [pc EXCEPT ![t] = "idle"]
  /\ status' = [status EXCEPT ![t] = s]
  /\ kernel' = [kernel EXCEPT ![t] = Zeroes]

(* The number of the card is not checked: its slot gives the file. *)
Target(t) == FileOf(cards[call[t].num].fd)

(* ioctl_ACCESIO_PCI_REGISTER_IO up to copy_from_user; without a file of the *)
(* driver the call does not get that far.                                    *)
IoctlEnter(t) ==
  /\ pc[t] = "ioctl"
  /\ \/ /\ Target(t) = None \/ "copy_from_user" \in MayFail
        /\ Return(t, -1)
     \/ /\ Target(t) # None
        /\ kernel' = [kernel EXCEPT ![t] = context[t]]
        /\ pc' = [pc EXCEPT ![t] = "access"]
        /\ UNCHANGED status
  /\ UNCHANGED <<libVars, regs, call, context, touched, seen>>

(* The bytes an access of size at offset touches. *)
Span(size, offset) == offset..offset + size - 1

(* ioread8, 16 or 32: the kernel's copy gets that many bytes. *)
ReadInBugByte(t, found) == Overlay(found, kernel[t], 1)
ReadIn(t, found) == Overlay(found, kernel[t], call[t].size)

IoctlRead(t) ==
  LET n == Target(t)
      bar == regs[<<n, default_bar(n)>>]
      found == [i \in 1..4 |->
                  IF i <= call[t].size THEN bar[call[t].offset + i - 1] ELSE 0]
  IN
  /\ pc[t] = "access" /\ call[t].read
  /\ kernel' = [kernel EXCEPT ![t] = ReadIn(t, found)]
  /\ seen' = [seen EXCEPT ![t] = found]
  /\ touched' = [touched EXCEPT ![t] = n]
  /\ pc' = [pc EXCEPT ![t] = "copy"]
  /\ UNCHANGED <<libVars, regs, call, context, status>>

(* copy_to_user: the value reaches the caller, or is lost. *)
IoctlCopy(t) ==
  /\ pc[t] = "copy"
  /\ \/ context' = [context EXCEPT ![t] = kernel[t]] /\ Return(t, 0)
     \/ "copy_to_user" \in MayFail /\ Return(t, -1) /\ UNCHANGED context
  /\ UNCHANGED <<libVars, regs, call, touched, seen>>

(* A write copies nothing back. *)
WriteDoneBugCopies(t) ==
  \/ Return(t, 0)
  \/ "copy_to_user" \in MayFail /\ Return(t, -1)
WriteDone(t) == Return(t, 0)

(* iowrite8, 16 or 32. *)
IoctlWrite(t) ==
  LET n == Target(t)
      at == <<n, default_bar(n)>>
      span == Span(call[t].size, call[t].offset)
  IN
  /\ pc[t] = "access" /\ ~call[t].read
  /\ regs' = [regs EXCEPT ![at] =
                [b \in Bytes |-> IF b \in span THEN kernel[t][b - call[t].offset + 1]
                                 ELSE @[b]]]
  /\ touched' = [touched EXCEPT ![t] = n]
  /\ WriteDone(t)
  /\ UNCHANGED <<libVars, call, context, seen>>

-----------------------------------------------------------------------------
NoCall == [read |-> TRUE, num |-> 0, size |-> 1, offset |-> 0, value |-> Zeroes]

(* Static storage is zero. *)
Init ==
  /\ phase = "scan" /\ unread = Nodes /\ fds = << >>
  /\ cards = [i \in 0..Slots - 1 |-> NoCard]
  /\ num_cards = 0
  /\ regs = [x \in Nodes \X Bars |-> [b \in Bytes |-> 0]]
  /\ pc = [t \in Threads |-> "idle"]
  /\ call = [t \in Threads |-> NoCall]
  /\ context = [t \in Threads |-> Zeroes]
  /\ kernel = [t \in Threads |-> Zeroes]
  /\ status = [t \in Threads |-> 0]
  /\ failed = {}
  /\ touched = [t \in Threads |-> None]
  /\ seen = [t \in Threads |-> Zeroes]

AiowdmInit ==
  \/ InitNoDir \/ InitComplete
  \/ \E n \in Nodes : InitSkip(n) \/ InitOpenFails(n) \/ InitIoctlFails(n) \/ InitCard(n)

Thread(t) ==
  \/ \E c \in Calls : RelCall(t, c)
  \/ IoctlEnter(t) \/ IoctlRead(t) \/ IoctlCopy(t) \/ IoctlWrite(t)

Next == AiowdmInit \/ \E t \in Threads : Thread(t)

Spec == Init /\ [][Next]_vars

-----------------------------------------------------------------------------
(* Properties *)

(* Every variable has its type. *)
TypeOK ==
  /\ phase \in {"scan", "ready"} /\ unread \subseteq Nodes
  /\ fds \in Seq(Nodes) /\ num_cards \in 0..Slots
  /\ cards \in [0..Slots - 1 -> [fd : -1..Fd(Len(fds)),
                                 descriptor : Descriptors \cup {None}]]
  /\ regs \in [Nodes \X Bars -> [Bytes -> Byte]]
  /\ pc \in [Threads -> {"idle", "ioctl", "access", "copy"}]
  /\ call \in [Threads -> CallType]
  /\ context \in [Threads -> Data] /\ kernel \in [Threads -> Data]
  /\ status \in [Threads -> {0, -1}]
  /\ failed \subseteq Nodes
  /\ touched \in [Threads -> Nodes \cup {None}] /\ seen \in [Threads -> Data]

Listed == {QueryCardInfo(i).card : i \in 0..num_cards - 1}

(* A card number below GetNumCards stands for one card: the one QueryCardInfo *)
(* describes is the one RelIn and RelOut reach, at the port base it reports,  *)
(* whatever nodes failed while the array was filled.  Once it is filled, the  *)
(* nodes named like a PCI card that did not fail, and no others, have one.    *)
NumbersAreCards ==
  /\ \A i \in 0..num_cards - 1 :
       LET d == QueryCardInfo(i) IN
       /\ d # None
       /\ FileOf(cards[i].fd) = d.card
       /\ d.port_base = default_bar(d.card)
       /\ \A j \in 0..num_cards - 1 : i # j => QueryCardInfo(j) # d
  /\ phase = "ready" => Listed = PciNamed \ failed

(* A call that ended well reached the card of its number; one that ended with *)
(* an error has written nothing, though it may have read a register whose     *)
(* value is lost.                                                             *)
ErrorMeansUnwritten ==
  \A t \in Threads : pc[t] = "idle" /\ phase = "ready" =>
    /\ status[t] = -1 => touched[t] = None \/ call[t].read
    /\ touched[t] # None /\ call[t].num < num_cards =>
         touched[t] = QueryCardInfo(call[t].num).card

(* A RelIn returns all the bytes the register held when it was read, or 0 if  *)
(* its ioctl failed, whatever other threads do to the card meanwhile.         *)
ReadsAreWhole ==
  \A t \in Threads : pc[t] = "idle" /\ call[t].read =>
    context[t] = IF status[t] = 0 THEN seen[t] ELSE Zeroes

(* A number that stands for no card reaches none, except that the first such  *)
(* number may reach a card whose CARD_DESCRIPTOR_GET failed: AiowdmInit       *)
(* leaves its file in the slot that the next card would have taken.           *)
StrayNumbers ==
  \A t \in Threads : call[t].num >= num_cards /\ touched[t] # None =>
    call[t].num = num_cards /\ touched[t] \in failed

(* AiowdmInit, which does not look at the size of cards, stays inside it as   *)
(* long as there are no more nodes to list than slots: nodes that fail take   *)
(* no slot, and the last slot is used.                                        *)
WithinCards ==
  phase = "scan" => num_cards + Cardinality(unread \cap PciNamed) <= Slots

-----------------------------------------------------------------------------
(* The inductive invariant behind the properties above. *)

(* The node a slot describes. *)
CardOf(i) == cards[i].descriptor.card

(* The numbers given out stand for different nodes that have been read and    *)
(* did not fail; every node named like a PCI card is still to be read, has    *)
(* failed or has a number.                                                    *)
ListInv ==
  /\ \A i \in 0..num_cards - 1 :
       /\ CardOf(i) \in PciNamed \ (unread \cup failed)
       /\ cards[i].descriptor = CardDescriptor(CardOf(i))
       /\ FileOf(cards[i].fd) = CardOf(i)
       /\ \A j \in 0..num_cards - 1 : i # j => CardOf(i) # CardOf(j)
  /\ \A n \in PciNamed \ (unread \cup failed) : \E i \in 0..num_cards - 1 : CardOf(i) = n
  /\ IF phase = "scan" THEN unread \cap failed = {} ELSE unread \subseteq failed

(* The slot after the last number has been tried in vain, or never; those     *)
(* after it never.                                                            *)
SpareInv ==
  /\ num_cards < Slots => FileOf(cards[num_cards].fd) \in failed \cup {None}
  /\ \A i \in num_cards + 1..Slots - 1 : cards[i] = NoCard

(* A call in progress has touched no card before its access, and the card of  *)
(* its number after it.                                                       *)
TargetOk(t) ==
  /\ pc[t] \in {"ioctl", "access"} => touched[t] = None
  /\ pc[t] \in {"access", "copy"} => Target(t) # None
  /\ pc[t] = "copy" => call[t].read
  /\ touched[t] # None => touched[t] = Target(t)
  /\ pc[t] = "idle" /\ status[t] = -1 => touched[t] = None \/ call[t].read

(* What the two copies of the data of a RelIn hold. *)
ReadOk(t) ==
  call[t].read =>
    /\ pc[t] # "idle" => context[t] = Zeroes
    /\ pc[t] = "access" => kernel[t] = Zeroes
    /\ pc[t] = "copy" => kernel[t] = seen[t]
    /\ pc[t] = "idle" => context[t] = IF status[t] = 0 THEN seen[t] ELSE Zeroes

(* While the constructor runs no thread calls. *)
ThreadInv ==
  \A t \in Threads : /\ phase = "scan" => pc[t] = "idle" /\ touched[t] = None
                     /\ TargetOk(t) /\ ReadOk(t)

IInv == TypeOK /\ ListInv /\ SpareInv /\ WithinCards /\ ThreadInv

=============================================================================
