--------------------------- MODULE CardCatalogue ---------------------------
(***************************************************************************)
(* What becomes of every kind of card in DeviceTables: the comparison of   *)
(* the tables in accesio_pci_init, what probe makes of the card, the entry *)
(* under /dev/accesio_pci/, the number AiowdmInit gives it and the answers *)
(* of QueryCardInfo.  Only the tables and the names decide here; failures  *)
(* and interleavings are in DriverLifecycle and AioLibrary.                *)
(*                                                                         *)
(* A name is a string, as the library looks for "pci" in it and QueryCard- *)
(* Info copies a part of it.                                               *)
(*                                                                         *)
(* An operator whose name contains Bug is a faulty variant of the          *)
(* definition after it; the specification never uses it.                   *)
(***************************************************************************)
EXTENDS DeviceTables, FiniteSets

CONSTANTS
  Kinds,       \* the ids the first, second, ... card may have
  NameBuffer   \* the size of a program's buffer for a name

EINVAL == 22

ASSUME CatalogueAssumption ==
  /\ Kinds \in Seq(SUBSET Nat) /\ NameBuffer \in Nat
  /\ \A i \in 1..NUM_ACCES_PCI_DEVICES : Len(Row(i).name) \in 1..NameBuffer - 1

VARIABLES
  module,    \* "loading" in accesio_pci_init, then "in" or "refused"
  index,     \* i of its loop
  io,        \* the cards have port I/O BARs
  cards,     \* what probe made of each card: [pid, row, bound, node, bar]
  library,   \* "off", "scan" in AiowdmInit, "ready"
  unread,    \* entries that readdir has still to return
  numbers,   \* the card with each number
  size,      \* a program's variable for the size of a name
  reply,     \* the last answer of QueryCardInfo
  \* history
  asked      \* the number whose name had the size, or -1 for a whole buffer

driverVars == <<module, index, io, cards>>
libVars    == <<library, unread, numbers>>
callerVars == <<size, reply, asked>>
vars == <<module, index, io, cards, library, unread, numbers, size, reply, asked>>

-----------------------------------------------------------------------------
(* accesio_pci_init *)

RowMatchesBugNext(i) == Row(i).pid = acces_pci_id_table[i + 1]
RowMatches(i) == Row(i).pid = acces_pci_id_table[i]

CompareRow ==
  /\ module = "loading" /\ index <= NUM_ACCES_PCI_DEVICES
  /\ IF RowMatches(index)
     THEN index' = index + 1 /\ UNCHANGED module
     ELSE module' = "refused" /\ UNCHANGED index
  /\ UNCHANGED <<io, cards, libVars, callerVars>>

CompareEnd ==
  /\ module = "loading" /\ index = NUM_ACCES_PCI_DEVICES + 1
  /\ module' = IF acces_pci_id_table[index] = 0 THEN "in" ELSE "refused"
  /\ UNCHANGED <<index, io, cards, libVars, callerVars>>

-----------------------------------------------------------------------------
(* accesio_pci_driver_probe *)

(* The PCI core offers the cards whose id it finds before the 0. *)
Offered(pid) ==
  \E i \in 1..NUM_ACCES_PCI_DEVICES : acces_pci_id_table[i] = pid

Lowest(S) == CHOOSE i \in S : \A j \in S : i <= j

Hits(pid) == {i \in 1..NUM_ACCES_PCI_DEVICES : Row(i).pid = pid}

LookupBugContinues(pid) == Row(Lowest(Hits(pid)) + 1)
Lookup(pid) == Row(Lowest(Hits(pid)))

(* The ids for which the switch overrides the default BAR. *)
OverriddenBugNone == {}
Overridden == {\hC2E8, \hC2E9, \hC2EA, \h82E8, \h82E9, \h82EA, \hC258, \hC259,
               \hC25A, \h8258, \h8259, \h825A, \h1100, \hC2EF}

default_barBugNext(pid) == IF pid \in Overridden THEN 3 ELSE IF io THEN 1 ELSE 0
default_bar(pid) == IF pid \in Overridden THEN 2 ELSE IF io THEN 1 ELSE 0

NodeNamed(name) == \E k \in 1..Len(cards) : cards[k].node /\ cards[k].row.name = name

(* request_irq refuses a handler that is NULL, and probe fails.  A name that *)
(* is taken fails device_create only, and the card is bound without a node.  *)
Probe(pid) ==
  LET row == Lookup(pid)
      bound == row.style # "NULL"
  IN
  /\ module = "in" /\ library = "off"
  /\ Len(cards) < Len(Kinds) /\ pid \in Kinds[Len(cards) + 1]
  /\ Offered(pid)
  /\ cards' = Append(cards, [pid |-> pid, row |-> row, bound |-> bound,
                             node |-> bound /\ ~NodeNamed(row.name),
                             bar |-> default_bar(row.pid)])
  /\ UNCHANGED <<module, index, io, libVars, callerVars>>

-----------------------------------------------------------------------------
(* AiowdmInit *)

Slashes(name) == {k \in 1..Len(name) : SubSeq(name, k, k) = "/"}

(* devtmpfs makes a directory of the part of a name before a slash. *)
Entry(name) ==
  IF Slashes(name) = {} THEN name ELSE SubSeq(name, 1, Lowest(Slashes(name)) - 1)

strstr(name, part) ==
  \E k \in 1..Len(name) - Len(part) + 1 : SubSeq(name, k, k + Len(part) - 1) = part

PciNamedBugPcie(name) == strstr(name, "pcie")
PciNamed(name) == strstr(name, "pci")

Nodes == {k \in 1..Len(cards) : cards[k].node}

AiowdmInit ==
  /\ module = "in" /\ library = "off"
  /\ library' = "scan"
  /\ unread' = {Entry(cards[k].row.name) : k \in Nodes}
  /\ UNCHANGED <<driverVars, numbers, callerVars>>

(* A directory cannot be opened for writing. *)
ReadEntry(e) ==
  LET files == {k \in Nodes : cards[k].row.name = e} IN
  /\ library = "scan" /\ e \in unread
  /\ unread' = unread \ {e}
  /\ numbers' = IF PciNamed(e) /\ files # {}
                THEN Append(numbers, CHOOSE k \in files : TRUE) ELSE numbers
  /\ UNCHANGED <<driverVars, library, callerVars>>

InitComplete ==
  /\ library = "scan" /\ unread = {}
  /\ library' = "ready"
  /\ UNCHANGED <<driverVars, unread, numbers, callerVars>>

-----------------------------------------------------------------------------
(* QueryCardInfo *)

NoReply == [status |-> 0, device_id |-> 0, port_base |-> 0, name |-> "",
            terminated |-> FALSE, num |-> 0]

(* A program sets its size variable to 0, to ask for the size, or to the     *)
(* size of its buffer.                                                       *)
SetSize(n) ==
  /\ library = "ready"
  /\ size' = n
  /\ asked' = -1
  /\ reply' = NoReply
  /\ UNCHANGED <<driverVars, libVars>>

(* ioctl_ACCESIO_PCI_CARD_DESCRIPTOR_GET: what the library keeps of a card. *)
CardDescriptor(k) ==
  [device_id |-> cards[k].row.pid, port_base |-> cards[k].bar,
   name |-> cards[k].row.name, name_size |-> Len(cards[k].row.name)]

(* At most n characters, and a terminating 0 only if there is room for it. *)
strncpyBugLast(name, n) == SubSeq(name, 1, IF n > Len(name) THEN Len(name) ELSE n - 1)
strncpy(name, n) == SubSeq(name, 1, IF n > Len(name) THEN Len(name) ELSE n)

(* With a pointer to a size, a pointer to a buffer, both or neither. *)
QueryCardInfo(num, sized, named) ==
  LET d == CardDescriptor(numbers[num + 1])
      n == IF size = 0 THEN d.name_size ELSE size
      answer == [NoReply EXCEPT !.device_id = d.device_id,
                                !.port_base = d.port_base, !.num = num]
  IN
  /\ library = "ready"
  /\ \/ /\ num >= Len(numbers)
        /\ reply' = [NoReply EXCEPT !.status = -EINVAL]
        /\ UNCHANGED <<size, asked>>
     \/ /\ num < Len(numbers)
        /\ ~sized
        /\ reply' = [answer EXCEPT !.status = IF named THEN -EINVAL ELSE 0]
        /\ UNCHANGED <<size, asked>>
     \/ /\ num < Len(numbers)
        /\ sized
        /\ size' = n
        /\ asked' = IF size = 0 THEN num ELSE asked
        /\ reply' = IF named
                    THEN [answer EXCEPT !.name = strncpy(d.name, n),
                                        !.terminated = n > d.name_size]
                    ELSE answer
  /\ UNCHANGED <<driverVars, libVars>>

-----------------------------------------------------------------------------
Init ==
  /\ module = "loading" /\ index = 1 /\ io \in BOOLEAN /\ cards = << >>
  /\ library = "off" /\ unread = {} /\ numbers = << >>
  /\ size = 0 /\ reply = NoReply /\ asked = -1

Next ==
  \/ CompareRow \/ CompareEnd
  \/ \E pid \in UNION {Kinds[k] : k \in 1..Len(Kinds)} : Probe(pid)
  \/ AiowdmInit \/ (\E e \in unread : ReadEntry(e)) \/ InitComplete
  \/ \E n \in {0, NameBuffer} : SetSize(n)
  \/ \E num \in 0..Len(Kinds) - 1, sized \in BOOLEAN, named \in BOOLEAN :
       QueryCardInfo(num, sized, named)

Spec == Init /\ [][Next]_vars

-----------------------------------------------------------------------------
(* Properties *)

CardType ==
  [pid : Nat, row : {Row(i) : i \in 1..NUM_ACCES_PCI_DEVICES}, bound : BOOLEAN,
   node : BOOLEAN, bar : 0..2]

(* Every variable has its type. *)
TypeOK ==
  /\ module \in {"loading", "in", "refused"}
  /\ index \in 1..NUM_ACCES_PCI_DEVICES + 1 /\ io \in BOOLEAN
  /\ cards \in Seq(CardType) /\ Len(cards) <= Len(Kinds)
  /\ library \in {"off", "scan", "ready"}
  /\ numbers \in Seq(1..Len(cards))
  /\ size \in 0..NameBuffer /\ asked \in -1..Len(Kinds) - 1
  /\ reply.status \in {0, -EINVAL} /\ reply.num \in 0..Len(Kinds)
  /\ reply.terminated \in BOOLEAN

(* "The integrity of the two tables will be verified on module load": the     *)
(* two tables of the header pass, row by row and with the ending 0 where it   *)
(* has to be, so that the module loads.                                       *)
TablesAccepted == module # "refused"

(* Every kind of card gets the handler for the registers it is wired with;    *)
(* the ones refused for want of a handler are exactly those whose interrupt   *)
(* registers nobody has described.  The kinds the old module did not know     *)
(* all have the adio16f handler.                                              *)
HandlerFitsCard ==
  \A k \in 1..Len(cards) :
    LET s == cards[k].row.style
        w == Wiring(cards[k].pid)
    IN  /\ s = IF w = "unlisted" THEN "adio16f" ELSE w
        /\ cards[k].bound <=> w # "NULL"

(* BAR 2, where the registers of all handlers are, is the BAR that RelIn and  *)
(* RelOut reach and QueryCardInfo reports, for cards with the id C2EF and for *)
(* no other: the switch of probe names thirteen ids that are not in the       *)
(* tables, and no other rule gives BAR 2.                                     *)
RegistersInReach ==
  \A k \in 1..Len(cards) : cards[k].bound => (cards[k].bar = 2 <=> cards[k].pid = \hC2EF)

(* The kinds that are bound and get a node the library does not take: P104    *)
(* cards, without "pci" in the name, and the name with a slash.               *)
Unlisted == {\h25C0, \h2FC0, \h2FC1, \h0C53}

(* Two cards of one kind, or of the two kinds that share a name. *)
SameNode(p, q) == p = q \/ {p, q} = {\h825D, \h825E}

(* Every bound card has exactly one number in the library, but for the kinds  *)
(* in Unlisted and for the second of two cards that want the same node.  No   *)
(* card that was refused has a number.                                        *)
EveryCardNumbered ==
  library = "ready" => \A k \in 1..Len(cards) :
    Cardinality({n \in 1..Len(numbers) : numbers[n] = k}) =
      IF /\ cards[k].bound /\ cards[k].pid \notin Unlisted
         /\ \A j \in 1..k - 1 : ~SameNode(cards[j].pid, cards[k].pid)
      THEN 1 ELSE 0

(* A name read with a buffer that has room, or with the size QueryCardInfo    *)
(* gave for that card, is the whole name of the kind whose id it reports; it  *)
(* is terminated with the buffer, and never with the size it gave.            *)
WholeName ==
  reply.name # "" /\ asked \in {-1, reply.num} =>
    /\ reply.name = Lookup(reply.device_id).name
    /\ reply.terminated <=> asked = -1

-----------------------------------------------------------------------------
(* What the names say, row by row: a kind with a handler is listed under its *)
(* whole name unless it is in Unlisted, and no entry of the directory has a  *)
(* slash.  There is no constant in it, so TLC decides it for good.           *)
ASSUME NamesAssumption ==
  \A i \in 1..NUM_ACCES_PCI_DEVICES :
    LET name == Row(i).name
        listed == Slashes(name) = {} /\ strstr(name, "pci")
    IN  /\ Row(i).style # "NULL" => (listed <=> Row(i).pid \notin Unlisted)
        /\ Slashes(Entry(name)) = {}
        /\ SubSeq(name, 1, Len(name)) = name

(* The inductive invariant behind the properties above. *)

(* What probe made of a card follows from its row, and from the cards before *)
(* it that have a node of its name.                                          *)
CardInv ==
  \A k \in 1..Len(cards) :
    /\ cards[k].row = Lookup(cards[k].pid) /\ cards[k].row.pid = cards[k].pid
    /\ cards[k].bound <=> cards[k].row.style # "NULL"
    /\ cards[k].bar = default_bar(cards[k].pid)
    /\ cards[k].node <=>
         /\ cards[k].bound
         /\ \A j \in 1..k - 1 : ~ (cards[j].node /\ cards[j].row.name = cards[k].row.name)

(* The nodes the constructor takes, once it comes to their entries. *)
Taken(k) ==
  /\ k \in Nodes /\ PciNamed(cards[k].row.name)
  /\ \E j \in Nodes : cards[k].row.name = Entry(cards[j].row.name)

(* Of these the ones already read have one number each, and no other card    *)
(* has one.                                                                  *)
NumberInv ==
  /\ library = "off" => unread = {} /\ numbers = << >>
  /\ library = "ready" => unread = {}
  /\ unread \subseteq {Entry(cards[k].row.name) : k \in Nodes}
  /\ \A m, n \in 1..Len(numbers) : numbers[m] = numbers[n] => m = n
  /\ library # "off" => \A k \in 1..Len(cards) :
       (\E n \in 1..Len(numbers) : numbers[n] = k)
         <=> Taken(k) /\ cards[k].row.name \notin unread

(* A program's size is the one it set, or that of the name it asked for; a   *)
(* name it got with either is whole.                                         *)
NameOf(num) == cards[numbers[num + 1]].row.name

CallerInv ==
  /\ asked = -1 => size \in {0, NameBuffer}
  /\ asked # -1 => asked < Len(numbers) /\ size = Len(NameOf(asked))
  /\ asked # -1 => library = "ready"

IInv == TypeOK /\ TablesAccepted /\ CardInv /\ NumberInv /\ CallerInv /\ WholeName
=============================================================================
