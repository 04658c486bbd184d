----------------------------- MODULE IrqStyles -----------------------------
(***************************************************************************)
(* The interrupt styles of src/module/accesio_pci.c on a shared, level-    *)
(* triggered line: what the handler of each style does to its card, card   *)
(* by card, while user programs reach the same registers and wait for      *)
(* interrupts.                                                             *)
(*                                                                         *)
(* A style is the three functions a descriptor of accesio_pci_ids.h points *)
(* at.  enable and disable are called from handlers only: IRQ_ENABLE and   *)
(* IRQ_DISABLE are stubs.  The handlers access BAR 2 and REGISTER_IO the   *)
(* default BAR, which is BAR 2 for 0xc2ef only (CardCatalogue), so on a    *)
(* card of another style a program gets at these registers past the        *)
(* driver, by port I/O or through the resource files of the PCI device.    *)
(* How a card reacts to an access is not in the driver; it is taken from   *)
(* the register table of src/module_old/devices.h which the driver was     *)
(* ported from.  The table and the driver disagree about the BAR in which  *)
(* PCI cards show that they have latched an interrupt: LatchBars says      *)
(* where it is, in one of them or in both.                                 *)
(*                                                                         *)
(* An operator whose name contains Bug is a faulty variant of the          *)
(* definition after it; the specification never uses it.                   *)
(***************************************************************************)
EXTENDS Integers, Sequences

CONSTANTS
  Cards,    \* the cards on the line
  Styles,   \* the styles each card may have: a function on Cards
  LatchBars,  \* the sets of BARs in which a card may show its latch register
  None

-----------------------------------------------------------------------------
(* Register accesses, by offset in BAR 2. *)
Read(off)         == <<"read", off>>
Write(off, value) == <<"write", off, value>>
Write32(off)      == <<"write32", off>>      \* with all the bits to clear set

(* accesio_notify_user, in the place of an access. *)
Notify == <<"notify">>

Offsets  == -128..127
Accesses == {Read(off) : off \in Offsets} \cup {Write32(off) : off \in Offsets}
              \cup {Write(off, value) : off \in Offsets, value \in 0..255}

ASSUME StylesAssumption == None \notin Cards \cup Accesses \cup {Notify}

Ops(enable, disable, interrupt) ==
  [enable |-> enable, disable |-> disable, interrupt |-> interrupt]

(* The handlers of styles without a clear operation. *)
Toggle(enable, disable) == Ops(enable, disable, <<disable, enable>>)

pci_style_1  == Ops(Write(19, 2), Write(19, 0), << >>)
pci_style_2  == Toggle(Write(-31, 0), Write(30, 0))
pci_style_3  == Toggle(Read(1), Write(2, 0))
pci_style_4  == Ops(Read(3), Read(4), <<Read(12)>>)
pci_style_5  == Ops(Write(7, 128), Write(7, 0), <<Read(7)>>)
pci_style_6BugNoEnable == Ops(Write(4, 129), Read(9), <<Read(9)>>)
pci_style_6  == Toggle(Write(4, 129), Read(9))
pci_style_7BugUndefined == Toggle(Read(4), None)
pci_style_7  == Toggle(Read(4), Read(9))     \* disable is that of style 6
pci_style_8  == Ops(Write(11, 0), None, <<Write(15, 0)>>)
pci_style_9  == Ops(Write(12, 16), Write(13, 0), <<Write(15, 0)>>)
pci_style_10 == Ops(Write(14, 0), Write(13, 0), <<Write(15, 0)>>)
pci_style_12 == Ops(None, None, <<Read(4)>>)
pci_style_13 == Ops(None, None, <<Write(127, 0)>>)

pcie_style_1 == Toggle(Write(31, 0), Write(30, 0))
pcie_style_2BugOffset == Ops(Write(40, 255), Write(40, 0), <<Write(40, 255)>>)
pcie_style_2 == Ops(Write(40, 255), Write(40, 0), <<Write(41, 255)>>)
pcie_style_3 == Ops(Read(2), None, <<Write(1, 0)>>)    \* disable misses the card
pcie_style_4BugNoClear == Ops(Write(11, 0), Write(11, 255), << >>)
pcie_style_4 == Ops(Write(11, 0), Write(11, 255), <<Write(15, 0)>>)
pcie_style_5 == Ops(pcie_style_4.enable, Read(11), pcie_style_4.interrupt)
pcie_style_6 == Ops(Write(14, 255), Write(14, 0), <<Write32(8)>>)
pcie_style_7 == Ops(Write(14, 3), pcie_style_6.disable, <<Write(15, 0)>>)
pcie_style_8 == Ops(Read(3), Read(4), <<Read(12)>>)

adio16f_styleBugNoNotify == Ops(None, None, <<Write32(64)>>)
adio16f_style == Ops(None, None, <<Write32(64), Notify>>)

Style == [pci_1   |-> pci_style_1,   pci_2   |-> pci_style_2,
          pci_3   |-> pci_style_3,   pci_4   |-> pci_style_4,
          pci_5   |-> pci_style_5,   pci_6   |-> pci_style_6,
          pci_7   |-> pci_style_7,   pci_8   |-> pci_style_8,
          pci_9   |-> pci_style_9,   pci_10  |-> pci_style_10,
          pci_12  |-> pci_style_12,  pci_13  |-> pci_style_13,
          pcie_1  |-> pcie_style_1,  pcie_2  |-> pcie_style_2,
          pcie_3  |-> pcie_style_3,  pcie_4  |-> pcie_style_4,
          pcie_5  |-> pcie_style_5,  pcie_6  |-> pcie_style_6,
          pcie_7  |-> pcie_style_7,  pcie_8  |-> pcie_style_8,
          adio16f |-> adio16f_style]

-----------------------------------------------------------------------------
(* The cards: struct aio_irq_descriptor of the register table.  A card with  *)
(* no Clear drops its interrupt when it is disabled; one with no Enable is   *)
(* always enabled.                                                           *)
Registers(disable, clear, enable) ==
  [disable |-> disable, clear |-> IF clear = None THEN disable ELSE clear,
   enable |-> enable]

Pci1To7 ==
  [pci_1 |-> Registers(Write(19, 0), Read(19), Write(19, 2)),
   pci_2 |-> Registers(Write(30, 0), None, Write(31, 0)),
   pci_3 |-> Registers(Write(2, 0), Write(2, 0), Read(1)),
   pci_4 |-> Registers(Read(4), Read(12), Read(3)),
   pci_5 |-> Registers(Write(7, 0), Read(7), Write(7, 128)),
   pci_6 |-> Registers(Read(9), None, Write(4, 129)),
   pci_7 |-> Registers(Read(9), None, Read(4))]

Pci8To13 ==
  [pci_8  |-> Registers(Write(11, 255), Write(15, 0), Write(11, 0)),
   pci_9  |-> Registers(Write(12, 0), None, Write(12, 16)),
   pci_10 |-> Registers(Write(13, 0), Write(15, 0), Write(14, 0)),
   pci_12 |-> Registers(None, Read(4), None),
   pci_13 |-> Registers(None, Write(127, 0), None)]

Pcie ==
  [pcie_1 |-> Registers(Write(30, 0), None, Write(31, 0)),
   pcie_2 |-> Registers(Write(40, 0), Write(41, 255), Write(40, 255)),
   pcie_3 |-> Registers(Write(2, 0), Write(1, 0), Read(2)),
   pcie_4 |-> Registers(Write(11, 255), Write(15, 0), Write(11, 0)),
   pcie_5 |-> Registers(Read(11), Write(15, 0), Write(11, 0)),
   pcie_6 |-> Registers(Write(14, 0), Write32(8), Write(14, 255)),
   pcie_7 |-> Registers(Write(14, 0), Write(15, 0), Write(14, 3)),
   pcie_8 |-> Registers(Read(4), Read(12), Read(3))]

(* Not in the old table: status register 0x40, bits cleared by writing them. *)
Adio16f == Registers(None, Write32(64), None)

Hardware(s) ==
  CASE s \in DOMAIN Pci1To7  -> Pci1To7[s]
    [] s \in DOMAIN Pci8To13 -> Pci8To13[s]
    [] s \in DOMAIN Pcie     -> Pcie[s]
    [] s = "adio16f"         -> Adio16f

-----------------------------------------------------------------------------
VARIABLES
  style,       \* the style of each card
  latch_bars,  \* the BARs in which each card shows its latch register
  latched,   \* cards that hold an interrupt
  enabled,   \* cards that may raise one
  waiting,   \* cards with waiting_for_irq = 1
  todo,      \* cards whose handlers the current pass has still to call
  cur,       \* the card whose handler is running, or None
  ops,       \* what that handler has still to do
  \* history
  wanted,    \* cards the users last asked to be enabled
  raced,     \* cards that users disabled while their handler had still to
             \* enable them
  served     \* cards handled and left alone since

boardVars == <<style, latch_bars>>
vars == <<boardVars, latched, enabled, waiting, todo, cur, ops, wanted, raced, served>>

Card(c)     == Hardware(style[c])
Asserted(c) == c \in latched /\ c \in enabled
AlwaysOn(c) == Card(c).enable = None

(* What access a to card c does to it. *)
Access(c, a) ==
  /\ latched' = IF a = Card(c).clear THEN latched \ {c} ELSE latched
  /\ enabled' = IF a = Card(c).enable THEN enabled \cup {c}
                ELSE IF a = Card(c).disable THEN enabled \ {c} ELSE enabled

(* Something the card is to report happens. *)
Event(c) ==
  /\ c \in enabled
  /\ latched' = latched \cup {c}
  /\ served' = served \ {c}
  /\ UNCHANGED <<boardVars, enabled, waiting, todo, cur, ops, wanted, raced>>

-----------------------------------------------------------------------------
(* The kernel calls every handler of the line as long as it is asserted. *)
Dispatch ==
  /\ todo = {} /\ cur = None
  /\ \E c \in Cards : Asserted(c)
  /\ todo' = Cards
  /\ served' = {}
  /\ UNCHANGED <<boardVars, latched, enabled, waiting, cur, ops, wanted, raced>>

(* The first access of a handler: accesio_leave_if_not_latched_pci reads the *)
(* latch register in BAR 0, _pcie in BAR 1.  interrupt_adio16f_style reads   *)
(* the status of its card, in BAR 2.                                         *)
TestBar(s) == IF s \in DOMAIN Pcie THEN 1 ELSE 0

ReadsLatch(c) == style[c] = "adio16f" \/ TestBar(style[c]) \in latch_bars[c]

(* What the test may find; in a wrong BAR it may find anything. *)
LatchTest(c) == IF ReadsLatch(c) THEN {Asserted(c)} ELSE BOOLEAN

(* IRQ_NONE *)
HandlerNone(c) ==
  /\ cur = None /\ c \in todo
  /\ FALSE \in LatchTest(c)
  /\ todo' = todo \ {c}
  /\ UNCHANGED <<boardVars, latched, enabled, waiting, cur, ops, wanted, raced, served>>

HandlerEnter(c) ==
  /\ cur = None /\ c \in todo
  /\ TRUE \in LatchTest(c)
  /\ todo' = todo \ {c}
  /\ cur' = c
  /\ ops' = Style[style[c]].interrupt
  /\ served' = served \cup {c}
  /\ UNCHANGED <<boardVars, latched, enabled, waiting, wanted, raced>>

HandlerAccess ==
  /\ cur # None /\ ops # << >> /\ Head(ops) # Notify
  /\ Access(cur, Head(ops))
  /\ ops' = Tail(ops)
  /\ UNCHANGED <<boardVars, waiting, todo, cur, wanted, raced, served>>

HandlerNotify ==
  /\ cur # None /\ ops # << >> /\ Head(ops) = Notify
  /\ waiting' = waiting \ {cur}
  /\ ops' = Tail(ops)
  /\ UNCHANGED <<boardVars, latched, enabled, todo, cur, wanted, raced, served>>

(* IRQ_HANDLED *)
HandlerReturn ==
  /\ cur # None /\ ops = << >>
  /\ cur' = None
  /\ UNCHANGED <<boardVars, latched, enabled, waiting, todo, ops, wanted, raced, served>>

-----------------------------------------------------------------------------
(* User programs: accesses to the enable and disable registers that do not   *)
(* go through the driver, and what IRQ_WAIT and IRQ_WAIT_CANCEL (in full in  *)
(* IrqWait) do to a card.                                                    *)
EnablePending(c) == c = cur /\ \E i \in 1..Len(ops) : ops[i] = Card(c).enable

UserEnable(c, on) ==
  /\ ~AlwaysOn(c)
  /\ Access(c, IF on THEN Card(c).enable ELSE Card(c).disable)
  /\ wanted' = IF on THEN wanted \cup {c} ELSE wanted \ {c}
  /\ raced' = IF ~on /\ EnablePending(c) THEN raced \cup {c} ELSE raced \ {c}
  /\ served' = served \ {c}
  /\ UNCHANGED <<boardVars, waiting, todo, cur, ops>>

UserWait(c) ==
  /\ c \notin waiting
  /\ waiting' = waiting \cup {c}
  /\ UNCHANGED <<boardVars, latched, enabled, todo, cur, ops, wanted, raced, served>>

UserCancel(c) ==
  /\ c \in waiting
  /\ waiting' = waiting \ {c}
  /\ UNCHANGED <<boardVars, latched, enabled, todo, cur, ops, wanted, raced, served>>

-----------------------------------------------------------------------------
Init ==
  /\ style \in {s \in [Cards -> UNION {Styles[c] : c \in Cards}] :
                  \A c \in Cards : s[c] \in Styles[c]}
  /\ latch_bars \in [Cards -> LatchBars]
  /\ enabled = {c \in Cards : AlwaysOn(c)}
  /\ wanted = enabled
  /\ latched = {} /\ waiting = {} /\ raced = {} /\ served = {}
  /\ todo = {} /\ cur = None /\ ops = << >>

Handler ==
  \/ \E c \in Cards : HandlerNone(c) \/ HandlerEnter(c)
  \/ HandlerAccess \/ HandlerNotify \/ HandlerReturn

Next ==
  \/ Dispatch \/ Handler
  \/ \E c \in Cards : Event(c) \/ UserWait(c) \/ UserCancel(c)
  \/ \E c \in Cards, on \in BOOLEAN : UserEnable(c, on)

Spec == Init /\ [][Next]_vars

(* An asserted line interrupts again and again, and handlers run to the end. *)
FairSpec == Spec /\ WF_vars(Dispatch) /\ WF_vars(Handler)

-----------------------------------------------------------------------------
(* Properties *)

(* Every variable has its type; a handler calls no operation that its style   *)
(* does not have.                                                             *)
TypeOK ==
  /\ \A i \in 1..Len(ops) : ops[i] # None
  /\ \A c \in Cards : style[c] \in Styles[c]
  /\ latch_bars \in [Cards -> LatchBars]
  /\ latched \subseteq Cards /\ enabled \subseteq Cards /\ waiting \subseteq Cards
  /\ todo \subseteq Cards /\ cur \in Cards \cup {None}
  /\ wanted \subseteq Cards /\ raced \subseteq Cards /\ served \subseteq Cards

(* A handler that returned IRQ_HANDLED has taken its card off the line: the   *)
(* card asserts it again only after a new event or a user's access.           *)
Acknowledged == \A c \in served : c # cur => ~Asserted(c)

(* Handlers leave the choice of the users alone: outside its handler a card   *)
(* is enabled exactly if a user last enabled it, unless that user disabled it *)
(* when its handler had still to enable it.  (A handler that tests a BAR      *)
(* without a latch register may enable a card that nobody wants enabled.)     *)
ChoiceKept ==
  \A c \in Cards : c # cur /\ c \notin raced /\ ReadsLatch(c) =>
                    (c \in enabled <=> c \in wanted)

(* A card that interrupts leaves the line in the end, whatever the styles of  *)
(* the cards that share it: no interrupt storm, if its handler finds the      *)
(* latch register - even next to a card whose handler does not.               *)
LineDrops == \A c \in Cards : ReadsLatch(c) /\ Asserted(c) ~> ~Asserted(c)

(* A wait on an adio16f card ends once the card interrupts, whatever the      *)
(* style of a neighbour on the line and however often that one interrupts.    *)
WaitEnds ==
  \A c \in Cards :
    style[c] = "adio16f" /\ c \in waiting /\ Asserted(c) ~> c \notin waiting

(* ".action=REGISTER_ACTION_TESTBITS_8, .bar=1, .offset=0x4C" (the comment in *)
(* interrupt_pci_style_1, and isLatched_PCI of the register table): a card    *)
(* with its latch register in BAR 1 that interrupts leaves the line.          *)
LatchInBar1 ==
  \A c \in Cards : 1 \in latch_bars[c] /\ Asserted(c) ~> ~Asserted(c)

(* "WaitForIRQ will return a mask that varies by card" (Readme.md, Design):   *)
(* it returns on any card that interrupts while a user waits, or the user has *)
(* disabled the card.                                                         *)
WaitForIRQReturns ==
  \A c \in Cards :
    c \in waiting /\ Asserted(c) ~> c \notin waiting \/ c \notin wanted

-----------------------------------------------------------------------------
(* The inductive invariant behind the safety properties above, on a line of  *)
(* cards whose handlers agree with the register table.                       *)

(* The styles whose handlers do not. *)
Odd   == {"pci_1", "pci_2", "pci_9"}
Sound == DOMAIN Style \ Odd

SoundCards == \A c \in Cards : Styles[c] \subseteq Sound

(* The handler of the card whose turn it is, and whether it has a disable    *)
(* and an enable in the place of a clear.                                    *)
Interrupt(c) == Style[style[c]].interrupt
Toggles(c)   == Card(c).clear = Card(c).disable

(* A handler has done nothing, all but its last operation, or all of them.   *)
OpsInv ==
  IF cur = None THEN ops = << >>
  ELSE ops \in {Interrupt(cur), Tail(Interrupt(cur)), << >>}

(* From the first operation of its handler on, a card holds no interrupt     *)
(* unless a new event or a user comes.                                       *)
LatchInv ==
  \A c \in served : c \notin latched \/ (c = cur /\ ops = Interrupt(c))

(* Inside its handler a card that is to be enabled again is wanted, and but   *)
(* for the time between the disable and the enable it is enabled as wanted.   *)
EnableInv ==
  cur # None /\ cur \notin raced /\ ReadsLatch(cur) =>
    /\ Toggles(cur) /\ ops # << >> => cur \in wanted
    /\ ~(Toggles(cur) /\ Len(ops) = 1) => (cur \in enabled <=> cur \in wanted)

IInv == TypeOK /\ OpsInv /\ LatchInv /\ EnableInv /\ ChoiceKept

=============================================================================
