-------------------------- MODULE IrqStylesProofs --------------------------
(***************************************************************************)
(* Proofs about IrqStyles, for any number of cards on the line and every   *)
(* choice of the eighteen styles whose handlers agree with the register    *)
(* table, wherever a card shows its latch register.                        *)
(***************************************************************************)
EXTENDS IrqStyles, TLAPS

-----------------------------------------------------------------------------
(* The eighteen handlers and their cards. *)

(* What they have in common: the first operation of the handler clears the    *)
(* card; it is followed by an enable where it was a disable, by               *)
(* accesio_notify_user or by nothing.                                         *)
Agrees(handler, card) ==
  /\ card.clear # None /\ card.clear # Notify /\ card.clear # card.enable
  /\ \/ handler = <<card.clear>> /\ card.clear # card.disable
     \/ handler = <<card.clear, Notify>> /\ card.clear # card.disable
     \/ /\ handler = <<card.disable, card.enable>> /\ card.clear = card.disable
        /\ card.enable # None /\ card.enable # Notify
  /\ card.enable # None => card.enable # card.disable

(* An access is neither None nor accesio_notify_user. *)
LEMMA RealAccess ==
  /\ \A off \in Offsets : Read(off) # None /\ Read(off) # Notify
  /\ \A off \in Offsets : Write32(off) # None /\ Write32(off) # Notify
  /\ \A off \in Offsets : \A value \in 0..255 :
       Write(off, value) # None /\ Write(off, value) # Notify
<1>1. \A off \in Offsets : Read(off) \in Accesses
  BY SMT DEF Accesses
<1>2. \A off \in Offsets : Write32(off) \in Accesses
  BY SMT DEF Accesses
<1>3. \A off \in Offsets : \A value \in 0..255 : Write(off, value) \in Accesses
  BY SMT DEF Accesses
<1> QED
  BY <1>1, <1>2, <1>3, StylesAssumption DEF Read, Write, Write32, Notify

(* The offsets the handlers use. *)
LEMMA UsedOffsets ==
  {1, 2, 3, 4, 7, 8, 9, 11, 12, 13, 14, 15, 30, 31, 40, 41, 64, 127} \subseteq Offsets
  BY DEF Offsets

LEMMA ClearAgrees ==
  ASSUME NEW d, NEW c, NEW e, c # None, c # Notify, c # e, c # d, e # None => e # d
  PROVE  Agrees(<<c>>, Registers(d, c, e))
  BY DEF Agrees, Registers

LEMMA ToggleAgrees ==
  ASSUME NEW d, NEW c \in {None, d}, NEW e, d # None, d # Notify, d # e,
         e # None, e # Notify
  PROVE  Agrees(<<d, e>>, Registers(d, c, e))
  BY DEF Agrees, Registers

(* The table of the cards, split in three, as one. *)
LEMMA Tables ==
  /\ \A s \in DOMAIN Pci1To7  : Hardware(s) = Pci1To7[s]
  /\ \A s \in DOMAIN Pci8To13 : Hardware(s) = Pci8To13[s]
  /\ \A s \in DOMAIN Pcie     : Hardware(s) = Pcie[s]
  /\ Hardware("adio16f") = Adio16f
<1>1. DOMAIN Pci1To7 = {"pci_1", "pci_2", "pci_3", "pci_4", "pci_5", "pci_6", "pci_7"}
  BY DEF Pci1To7
<1>2. DOMAIN Pci8To13 = {"pci_8", "pci_9", "pci_10", "pci_12", "pci_13"}
  BY DEF Pci8To13
<1>3. DOMAIN Pcie = {"pcie_1", "pcie_2", "pcie_3", "pcie_4", "pcie_5", "pcie_6",
                     "pcie_7", "pcie_8"}
  BY DEF Pcie
<1>4. \A s \in DOMAIN Pci1To7 : Hardware(s) = Pci1To7[s]
  BY <1>1, <1>2, <1>3 DEF Hardware
<1>5. \A s \in DOMAIN Pci8To13 : Hardware(s) = Pci8To13[s]
  BY <1>1, <1>2, <1>3 DEF Hardware
<1>6. \A s \in DOMAIN Pcie : Hardware(s) = Pcie[s]
  BY <1>1, <1>2, <1>3 DEF Hardware
<1>7. Hardware("adio16f") = Adio16f
  BY <1>1, <1>2, <1>3 DEF Hardware
<1> QED
  BY <1>4, <1>5, <1>6, <1>7

(* The styles whose handler is a clear. *)
LEMMA pci_4_agrees == Agrees(Style["pci_4"].interrupt, Hardware("pci_4"))
<1>1. Hardware("pci_4") = Registers(Read(4), Read(12), Read(3))
  BY Tables DEF Pci1To7
<1>2. Style["pci_4"].interrupt = <<Read(12)>>
  BY DEF Style, pci_style_4, Ops
<1>3. Read(12) # None /\ Read(12) # Notify
  BY RealAccess, UsedOffsets
<1>4. Read(12) # Read(3) /\ Read(12) # Read(4) /\ Read(3) # Read(4)
  BY DEF Read
<1> QED
  BY <1>1, <1>2, <1>3, <1>4, ClearAgrees

LEMMA pci_5_agrees == Agrees(Style["pci_5"].interrupt, Hardware("pci_5"))
<1>1. Hardware("pci_5") = Registers(Write(7, 0), Read(7), Write(7, 128))
  BY Tables DEF Pci1To7
<1>2. Style["pci_5"].interrupt = <<Read(7)>>
  BY DEF Style, pci_style_5, Ops
<1>3. Read(7) # None /\ Read(7) # Notify
  BY RealAccess, UsedOffsets
<1>4. Read(7) # Write(7, 128) /\ Read(7) # Write(7, 0) /\ Write(7, 128) # Write(7, 0)
  BY DEF Read, Write
<1> QED
  BY <1>1, <1>2, <1>3, <1>4, ClearAgrees

LEMMA pci_8_agrees == Agrees(Style["pci_8"].interrupt, Hardware("pci_8"))
<1>1. Hardware("pci_8") = Registers(Write(11, 255), Write(15, 0), Write(11, 0))
  BY Tables DEF Pci8To13
<1>2. Style["pci_8"].interrupt = <<Write(15, 0)>>
  BY DEF Style, pci_style_8, Ops
<1>3. Write(15, 0) # None /\ Write(15, 0) # Notify
  BY RealAccess, UsedOffsets
<1>4. Write(15, 0) # Write(11, 0) /\ Write(15, 0) # Write(11, 255) /\ Write(11, 0) # Write(11, 255)
  BY DEF Write
<1> QED
  BY <1>1, <1>2, <1>3, <1>4, ClearAgrees

LEMMA pci_10_agrees == Agrees(Style["pci_10"].interrupt, Hardware("pci_10"))
<1>1. Hardware("pci_10") = Registers(Write(13, 0), Write(15, 0), Write(14, 0))
  BY Tables DEF Pci8To13
<1>2. Style["pci_10"].interrupt = <<Write(15, 0)>>
  BY DEF Style, pci_style_10, Ops
<1>3. Write(15, 0) # None /\ Write(15, 0) # Notify
  BY RealAccess, UsedOffsets
<1>4. Write(15, 0) # Write(14, 0) /\ Write(15, 0) # Write(13, 0) /\ Write(14, 0) # Write(13, 0)
  BY DEF Write
<1> QED
  BY <1>1, <1>2, <1>3, <1>4, ClearAgrees

LEMMA pci_12_agrees == Agrees(Style["pci_12"].interrupt, Hardware("pci_12"))
<1>1. Hardware("pci_12") = Registers(None, Read(4), None)
  BY Tables DEF Pci8To13
<1>2. Style["pci_12"].interrupt = <<Read(4)>>
  BY DEF Style, pci_style_12, Ops
<1>3. Read(4) # None /\ Read(4) # Notify
  BY RealAccess, UsedOffsets
<1> QED
  BY <1>1, <1>2, <1>3, ClearAgrees

LEMMA pci_13_agrees == Agrees(Style["pci_13"].interrupt, Hardware("pci_13"))
<1>1. Hardware("pci_13") = Registers(None, Write(127, 0), None)
  BY Tables DEF Pci8To13
<1>2. Style["pci_13"].interrupt = <<Write(127, 0)>>
  BY DEF Style, pci_style_13, Ops
<1>3. Write(127, 0) # None /\ Write(127, 0) # Notify
  BY RealAccess, UsedOffsets
<1> QED
  BY <1>1, <1>2, <1>3, ClearAgrees

LEMMA pcie_2_agrees == Agrees(Style["pcie_2"].interrupt, Hardware("pcie_2"))
<1>1. Hardware("pcie_2") = Registers(Write(40, 0), Write(41, 255), Write(40, 255))
  BY Tables DEF Pcie
<1>2. Style["pcie_2"].interrupt = <<Write(41, 255)>>
  BY DEF Style, pcie_style_2, Ops
<1>3. Write(41, 255) # None /\ Write(41, 255) # Notify
  BY RealAccess, UsedOffsets
<1>4. Write(41, 255) # Write(40, 255) /\ Write(41, 255) # Write(40, 0) /\ Write(40, 255) # Write(40, 0)
  BY DEF Write
<1> QED
  BY <1>1, <1>2, <1>3, <1>4, ClearAgrees

LEMMA pcie_3_agrees == Agrees(Style["pcie_3"].interrupt, Hardware("pcie_3"))
<1>1. Hardware("pcie_3") = Registers(Write(2, 0), Write(1, 0), Read(2))
  BY Tables DEF Pcie
<1>2. Style["pcie_3"].interrupt = <<Write(1, 0)>>
  BY DEF Style, pcie_style_3, Ops
<1>3. Write(1, 0) # None /\ Write(1, 0) # Notify
  BY RealAccess, UsedOffsets
<1>4. Write(1, 0) # Read(2) /\ Write(1, 0) # Write(2, 0) /\ Read(2) # Write(2, 0)
  BY DEF Read, Write
<1> QED
  BY <1>1, <1>2, <1>3, <1>4, ClearAgrees

LEMMA pcie_4_agrees == Agrees(Style["pcie_4"].interrupt, Hardware("pcie_4"))
<1>1. Hardware("pcie_4") = Registers(Write(11, 255), Write(15, 0), Write(11, 0))
  BY Tables DEF Pcie
<1>2. Style["pcie_4"].interrupt = <<Write(15, 0)>>
  BY DEF Style, pcie_style_4, Ops
<1>3. Write(15, 0) # None /\ Write(15, 0) # Notify
  BY RealAccess, UsedOffsets
<1>4. Write(15, 0) # Write(11, 0) /\ Write(15, 0) # Write(11, 255) /\ Write(11, 0) # Write(11, 255)
  BY DEF Write
<1> QED
  BY <1>1, <1>2, <1>3, <1>4, ClearAgrees

LEMMA pcie_5_agrees == Agrees(Style["pcie_5"].interrupt, Hardware("pcie_5"))
<1>1. Hardware("pcie_5") = Registers(Read(11), Write(15, 0), Write(11, 0))
  BY Tables DEF Pcie
<1>2. Style["pcie_5"].interrupt = <<Write(15, 0)>>
  BY DEF Style, pcie_style_5, pcie_style_4, Ops
<1>3. Write(15, 0) # None /\ Write(15, 0) # Notify
  BY RealAccess, UsedOffsets
<1>4. Write(15, 0) # Write(11, 0) /\ Write(15, 0) # Read(11) /\ Write(11, 0) # Read(11)
  BY DEF Read, Write
<1> QED
  BY <1>1, <1>2, <1>3, <1>4, ClearAgrees

LEMMA pcie_6_agrees == Agrees(Style["pcie_6"].interrupt, Hardware("pcie_6"))
<1>1. Hardware("pcie_6") = Registers(Write(14, 0), Write32(8), Write(14, 255))
  BY Tables DEF Pcie
<1>2. Style["pcie_6"].interrupt = <<Write32(8)>>
  BY DEF Style, pcie_style_6, Ops
<1>3. Write32(8) # None /\ Write32(8) # Notify
  BY RealAccess, UsedOffsets
<1>4. Write32(8) # Write(14, 255) /\ Write32(8) # Write(14, 0) /\ Write(14, 255) # Write(14, 0)
  BY DEF Write, Write32
<1> QED
  BY <1>1, <1>2, <1>3, <1>4, ClearAgrees

LEMMA pcie_7_agrees == Agrees(Style["pcie_7"].interrupt, Hardware("pcie_7"))
<1>1. Hardware("pcie_7") = Registers(Write(14, 0), Write(15, 0), Write(14, 3))
  BY Tables DEF Pcie
<1>2. Style["pcie_7"].interrupt = <<Write(15, 0)>>
  BY DEF Style, pcie_style_7, Ops
<1>3. Write(15, 0) # None /\ Write(15, 0) # Notify
  BY RealAccess, UsedOffsets
<1>4. Write(15, 0) # Write(14, 3) /\ Write(15, 0) # Write(14, 0) /\ Write(14, 3) # Write(14, 0)
  BY DEF Write
<1> QED
  BY <1>1, <1>2, <1>3, <1>4, ClearAgrees

LEMMA pcie_8_agrees == Agrees(Style["pcie_8"].interrupt, Hardware("pcie_8"))
<1>1. Hardware("pcie_8") = Registers(Read(4), Read(12), Read(3))
  BY Tables DEF Pcie
<1>2. Style["pcie_8"].interrupt = <<Read(12)>>
  BY DEF Style, pcie_style_8, Ops
<1>3. Read(12) # None /\ Read(12) # Notify
  BY RealAccess, UsedOffsets
<1>4. Read(12) # Read(3) /\ Read(12) # Read(4) /\ Read(3) # Read(4)
  BY DEF Read
<1> QED
  BY <1>1, <1>2, <1>3, <1>4, ClearAgrees

(* The styles whose handler is a disable and an enable. *)
LEMMA pci_3_agrees == Agrees(Style["pci_3"].interrupt, Hardware("pci_3"))
<1>1. Hardware("pci_3") = Registers(Write(2, 0), Write(2, 0), Read(1))
  BY Tables DEF Pci1To7
<1>2. Style["pci_3"].interrupt = <<Write(2, 0), Read(1)>>
  BY DEF Style, pci_style_3, Toggle, Ops
<1>3. /\ Write(2, 0) # None /\ Write(2, 0) # Notify
      /\ Read(1) # None /\ Read(1) # Notify
  BY RealAccess, UsedOffsets
<1>4. Write(2, 0) # Read(1)
  BY DEF Read, Write
<1> QED
  BY <1>1, <1>2, <1>3, <1>4, ToggleAgrees

LEMMA pci_6_agrees == Agrees(Style["pci_6"].interrupt, Hardware("pci_6"))
<1>1. Hardware("pci_6") = Registers(Read(9), None, Write(4, 129))
  BY Tables DEF Pci1To7
<1>2. Style["pci_6"].interrupt = <<Read(9), Write(4, 129)>>
  BY DEF Style, pci_style_6, Toggle, Ops
<1>3. /\ Read(9) # None /\ Read(9) # Notify
      /\ Write(4, 129) # None /\ Write(4, 129) # Notify
  BY RealAccess, UsedOffsets
<1>4. Read(9) # Write(4, 129)
  BY DEF Read, Write
<1> QED
  BY <1>1, <1>2, <1>3, <1>4, ToggleAgrees

LEMMA pci_7_agrees == Agrees(Style["pci_7"].interrupt, Hardware("pci_7"))
<1>1. Hardware("pci_7") = Registers(Read(9), None, Read(4))
  BY Tables DEF Pci1To7
<1>2. Style["pci_7"].interrupt = <<Read(9), Read(4)>>
  BY DEF Style, pci_style_7, Toggle, Ops
<1>3. /\ Read(9) # None /\ Read(9) # Notify
      /\ Read(4) # None /\ Read(4) # Notify
  BY RealAccess, UsedOffsets
<1>4. Read(9) # Read(4)
  BY DEF Read
<1> QED
  BY <1>1, <1>2, <1>3, <1>4, ToggleAgrees

LEMMA pcie_1_agrees == Agrees(Style["pcie_1"].interrupt, Hardware("pcie_1"))
<1>1. Hardware("pcie_1") = Registers(Write(30, 0), None, Write(31, 0))
  BY Tables DEF Pcie
<1>2. Style["pcie_1"].interrupt = <<Write(30, 0), Write(31, 0)>>
  BY DEF Style, pcie_style_1, Toggle, Ops
<1>3. /\ Write(30, 0) # None /\ Write(30, 0) # Notify
      /\ Write(31, 0) # None /\ Write(31, 0) # Notify
  BY RealAccess, UsedOffsets
<1>4. Write(30, 0) # Write(31, 0)
  BY DEF Write
<1> QED
  BY <1>1, <1>2, <1>3, <1>4, ToggleAgrees

(* The style whose handler is a clear and accesio_notify_user. *)
LEMMA adio16f_agrees == Agrees(Style["adio16f"].interrupt, Hardware("adio16f"))
<1>1. Hardware("adio16f") = Registers(None, Write32(64), None)
  BY Tables DEF Adio16f
<1>2. Style["adio16f"].interrupt = <<Write32(64), Notify>>
  BY DEF Style, adio16f_style, Ops
<1>3. Write32(64) # None /\ Write32(64) # Notify
  BY RealAccess, UsedOffsets
<1> QED
  BY <1>1, <1>2, <1>3 DEF Agrees, Registers

(* The handlers of all these styles agree with their cards. *)
LEMMA SoundAgrees ==
  ASSUME NEW s \in Sound
  PROVE  Agrees(Style[s].interrupt, Hardware(s))
<1>1. DOMAIN Style = {"pci_1", "pci_2", "pci_3", "pci_4", "pci_5", "pci_6", "pci_7",
                      "pci_8", "pci_9", "pci_10", "pci_12", "pci_13", "pcie_1",
                      "pcie_2", "pcie_3", "pcie_4", "pcie_5", "pcie_6", "pcie_7",
                      "pcie_8", "adio16f"}
  BY DEF Style
<1>2. s \in {"pci_3", "pci_4", "pci_5", "pci_6", "pci_7", "pci_8", "pci_10", "pci_12",
             "pci_13", "pcie_1", "pcie_2", "pcie_3", "pcie_4", "pcie_5", "pcie_6",
             "pcie_7", "pcie_8", "adio16f"}
  BY <1>1 DEF Sound, Odd
<1> QED
  BY <1>2, pci_4_agrees, pci_5_agrees, pci_8_agrees, pci_10_agrees,
     pci_12_agrees, pci_13_agrees, pcie_2_agrees, pcie_3_agrees,
     pcie_4_agrees, pcie_5_agrees, pcie_6_agrees, pcie_7_agrees,
     pcie_8_agrees, pci_3_agrees, pci_6_agrees, pci_7_agrees,
     pcie_1_agrees, adio16f_agrees

-----------------------------------------------------------------------------
(* Where a handler can be. *)

LEMMA HandlerAgrees ==
  ASSUME SoundCards, TypeOK, NEW c \in Cards
  PROVE  Agrees(Interrupt(c), Card(c))
  BY SoundAgrees DEF SoundCards, TypeOK, Interrupt, Card

(* What its operations look like at first, in between and at the end. *)
AtFirst  == /\ ops = Interrupt(cur) /\ ops # << >> /\ Head(ops) = Card(cur).clear
            /\ Tail(ops) # Interrupt(cur)
            /\ IF Toggles(cur) THEN Tail(ops) = <<Card(cur).enable>>
               ELSE Tail(ops) \in {<< >>, <<Notify>>}
            /\ Toggles(cur) => Len(ops) = 2
AtEnable == Toggles(cur) /\ ops = <<Card(cur).enable>> /\ ops # Interrupt(cur)
AtNotify == ~Toggles(cur) /\ ops = <<Notify>> /\ ops # Interrupt(cur)
AtEnd    == ops = << >> /\ ops # Interrupt(cur)

(* Sequences of one and of two operations. *)
PairFacts(a, b) ==
  /\ <<a>> # << >> /\ <<a, b>> # << >> /\ <<a>> # <<a, b>> /\ <<b>> # <<a, b>>
  /\ Len(<<a>>) = 1 /\ Len(<<a, b>>) = 2
  /\ Head(<<a>>) = a /\ Head(<<a, b>>) = a
  /\ Tail(<<a>>) = << >> /\ Tail(<<a, b>>) = <<b>>

LEMMA Pair == ASSUME NEW a, NEW b PROVE PairFacts(a, b)
  BY DEF PairFacts

LEMMA Positions ==
  ASSUME SoundCards, TypeOK, OpsInv, cur # None
  PROVE  AtFirst \/ AtEnable \/ AtNotify \/ AtEnd
<1>1. cur \in Cards /\ Agrees(Interrupt(cur), Card(cur))
  BY HandlerAgrees DEF TypeOK
<1>2. ops \in {Interrupt(cur), Tail(Interrupt(cur)), << >>}
  BY DEF OpsInv
<1>3. CASE Interrupt(cur) = <<Card(cur).clear>> /\ Card(cur).clear # Card(cur).disable
  <2>1. PICK a, b : a = Card(cur).clear /\ b = Notify
    OBVIOUS
  <2>p. PairFacts(a, b)
    BY Pair
  <2>2. Interrupt(cur) = <<a>>
    BY <1>3, <2>1
  <2>3. ~Toggles(cur)
    BY <1>3 DEF Toggles
  <2>4. CASE ops = Interrupt(cur)
    BY <2>1, <2>2, <2>3, <2>4, <2>p DEF AtFirst, PairFacts
  <2>5. CASE ops = Tail(Interrupt(cur)) /\ ops # << >>
    BY <2>1, <2>2, <2>3, <2>5, <2>p DEF AtEnable, AtNotify, PairFacts
  <2>6. CASE ops = << >>
    BY <2>2, <2>6, <2>p DEF AtEnd, PairFacts
  <2> QED
    BY <1>2, <2>4, <2>5, <2>6
<1>4. CASE Interrupt(cur) = <<Card(cur).clear, Notify>> /\ Card(cur).clear # Card(cur).disable
  <2>1. PICK a, b : a = Card(cur).clear /\ b = Notify
    OBVIOUS
  <2>p. PairFacts(a, b)
    BY Pair
  <2>2. Interrupt(cur) = <<a, b>>
    BY <1>4, <2>1
  <2>3. ~Toggles(cur)
    BY <1>4 DEF Toggles
  <2>4. CASE ops = Interrupt(cur)
    BY <2>1, <2>2, <2>3, <2>4, <2>p DEF AtFirst, PairFacts
  <2>5. CASE ops = Tail(Interrupt(cur)) /\ ops # << >>
    BY <2>1, <2>2, <2>3, <2>5, <2>p DEF AtEnable, AtNotify, PairFacts
  <2>6. CASE ops = << >>
    BY <2>2, <2>6, <2>p DEF AtEnd, PairFacts
  <2> QED
    BY <1>2, <2>4, <2>5, <2>6
<1>5. CASE /\ Interrupt(cur) = <<Card(cur).disable, Card(cur).enable>>
           /\ Card(cur).clear = Card(cur).disable
  <2>1. PICK a, b : a = Card(cur).clear /\ b = Card(cur).enable
    OBVIOUS
  <2>p. PairFacts(a, b)
    BY Pair
  <2>2. Interrupt(cur) = <<a, b>>
    BY <1>5, <2>1
  <2>3. Toggles(cur)
    BY <1>5 DEF Toggles
  <2>4. CASE ops = Interrupt(cur)
    BY <2>1, <2>2, <2>3, <2>4, <2>p DEF AtFirst, PairFacts
  <2>5. CASE ops = Tail(Interrupt(cur)) /\ ops # << >>
    BY <2>1, <2>2, <2>3, <2>5, <2>p DEF AtEnable, AtNotify, PairFacts
  <2>6. CASE ops = << >>
    BY <2>2, <2>6, <2>p DEF AtEnd, PairFacts
  <2> QED
    BY <1>2, <2>4, <2>5, <2>6
<1> QED
  BY <1>1, <1>3, <1>4, <1>5 DEF Agrees

-----------------------------------------------------------------------------
(* What the steps of a handler do. *)

(* No operation is missing from a sequence. *)
Complete(q) == \A i \in 1..Len(q) : q[i] # None

LEMMA Completes ==
  ASSUME NEW a, NEW b, a # None, b # None
  PROVE  Complete(<< >>) /\ Complete(<<a>>) /\ Complete(<<b>>) /\ Complete(<<a, b>>)
  BY DEF Complete

(* The handler that is called has all its operations. *)
LEMMA HandlerComplete ==
  ASSUME SoundCards, TypeOK, NEW c \in Cards
  PROVE  Complete(Interrupt(c)) /\ (Toggles(c) => Len(Interrupt(c)) = 2)
<1>1. Agrees(Interrupt(c), Card(c))
  BY HandlerAgrees
<1>2. Notify # None
  BY StylesAssumption
<1>3. PICK x, y, z : x = Card(c).clear /\ y = Card(c).disable /\ z = Card(c).enable
  OBVIOUS
<1>4. /\ x # None
      /\ \/ Interrupt(c) = <<x>> /\ x # y
         \/ Interrupt(c) = <<x, Notify>> /\ x # y
         \/ Interrupt(c) = <<y, z>> /\ x = y /\ z # None
  BY <1>1, <1>3 DEF Agrees
<1>5. Toggles(c) <=> x = y
  BY <1>3 DEF Toggles
<1>6. PairFacts(y, z)
  BY Pair
<1>7. CASE Interrupt(c) = <<x>> /\ x # y
  BY <1>2, <1>4, <1>5, <1>7, Completes
<1>8. CASE Interrupt(c) = <<x, Notify>> /\ x # y
  BY <1>2, <1>4, <1>5, <1>8, Completes
<1>9. CASE Interrupt(c) = <<y, z>> /\ x = y /\ z # None
  BY <1>4, <1>6, <1>9, Completes DEF PairFacts
<1> QED
  BY <1>4, <1>7, <1>8, <1>9

(* An access clears the card, disabling it if its handler toggles, or enables *)
(* it again.                                                                  *)
ClearsCard ==
  /\ AtFirst /\ ops' = Tail(ops)
  /\ latched' = latched \ {cur}
  /\ enabled' = IF Toggles(cur) THEN enabled \ {cur} ELSE enabled

EnablesCard ==
  /\ AtEnable /\ ops' = << >>
  /\ latched' = latched
  /\ enabled' = enabled \cup {cur}

LEMMA HandlerAccessWhat ==
  ASSUME SoundCards, IInv, HandlerAccess
  PROVE  ClearsCard \/ EnablesCard
<1>1. /\ cur \in Cards /\ ops # << >> /\ Head(ops) # Notify /\ Access(cur, Head(ops))
      /\ ops' = Tail(ops)
      /\ Agrees(Interrupt(cur), Card(cur))
      /\ AtFirst \/ AtEnable \/ AtNotify \/ AtEnd
  BY HandlerAgrees, Positions DEF IInv, TypeOK, HandlerAccess
<1>2. CASE AtFirst
  <2>1. Head(ops) = Card(cur).clear /\ Card(cur).clear # Card(cur).enable
    BY <1>1, <1>2 DEF AtFirst, Agrees
  <2>2. /\ latched' = latched \ {cur}
        /\ enabled' = IF Toggles(cur) THEN enabled \ {cur} ELSE enabled
    BY <1>1, <2>1 DEF Access, Toggles
  <2> QED
    BY <1>1, <1>2, <2>2 DEF ClearsCard
<1>3. CASE AtEnable
  <2>1. PairFacts(Card(cur).enable, None)
    BY Pair
  <2>2. Head(ops) = Card(cur).enable /\ Tail(ops) = << >>
    BY <1>3, <2>1 DEF AtEnable, PairFacts
  <2>3. Card(cur).clear # Card(cur).enable
    BY <1>1 DEF Agrees
  <2> QED
    BY <1>1, <1>3, <2>2, <2>3 DEF Access, EnablesCard
<1>4. CASE AtNotify
  <2>1. PairFacts(Notify, None)
    BY Pair
  <2> QED
    BY <1>1, <1>4, <2>1 DEF AtNotify, PairFacts
<1> QED
  BY <1>1, <1>2, <1>3, <1>4 DEF AtEnd

LEMMA HandlerNotifyWhat ==
  ASSUME SoundCards, IInv, HandlerNotify
  PROVE  AtNotify /\ ops' = << >>
<1>1. /\ cur \in Cards /\ ops # << >> /\ Head(ops) = Notify /\ ops' = Tail(ops)
      /\ Agrees(Interrupt(cur), Card(cur))
      /\ AtFirst \/ AtEnable \/ AtNotify \/ AtEnd
  BY HandlerAgrees, Positions DEF IInv, TypeOK, HandlerNotify
<1>2. ~AtFirst
  BY <1>1 DEF AtFirst, Agrees
<1>3. ~AtEnable
  <2>1. PairFacts(Card(cur).enable, None)
    BY Pair
  <2>2. Toggles(cur) => Card(cur).enable # Notify
    BY <1>1 DEF Agrees, Toggles
  <2> QED
    BY <1>1, <2>1, <2>2 DEF AtEnable, PairFacts
<1>4. PairFacts(Notify, None)
  BY Pair
<1> QED
  BY <1>1, <1>2, <1>3, <1>4 DEF AtNotify, AtEnd, PairFacts

-----------------------------------------------------------------------------
(* The invariant, action by action. *)

(* The style of a card and its latch register are for good. *)
LEMMA StyleStays ==
  ASSUME UNCHANGED boardVars
  PROVE  /\ style' = style /\ latch_bars' = latch_bars
         /\ \A c \in Cards : /\ Interrupt(c)' = Interrupt(c) /\ Card(c)' = Card(c)
                             /\ Toggles(c)' = Toggles(c)
                             /\ ReadsLatch(c)' = ReadsLatch(c)
  BY DEF boardVars, Interrupt, Card, Toggles, ReadsLatch, Hardware

LEMMA HandlerEnterStep ==
  ASSUME SoundCards, IInv, NEW c \in Cards, HandlerEnter(c)
  PROVE  IInv'
<1>a. /\ cur = None /\ (ReadsLatch(c) => c \in enabled) /\ cur' = c /\ ops' = Interrupt(c)
      /\ served' = served \cup {c} /\ todo' = todo \ {c}
      /\ UNCHANGED <<boardVars, latched, enabled, waiting, wanted, raced>>
  BY DEF HandlerEnter, LatchTest, Asserted, Interrupt
<1>b. /\ style' = style /\ latch_bars' = latch_bars
      /\ \A d \in Cards : /\ Interrupt(d)' = Interrupt(d) /\ Toggles(d)' = Toggles(d)
                          /\ ReadsLatch(d)' = ReadsLatch(d)
  BY <1>a, StyleStays
<1>c. Complete(Interrupt(c)) /\ (Toggles(c) => Len(Interrupt(c)) = 2) /\ c # None
  BY HandlerComplete, StylesAssumption DEF IInv
<1>1. TypeOK'
  BY <1>a, <1>b, <1>c DEF IInv, TypeOK, Complete
<1>2. OpsInv'
  BY <1>a, <1>b, <1>c DEF OpsInv
<1>3. LatchInv'
  BY <1>a, <1>b, StylesAssumption DEF IInv, TypeOK, LatchInv
<1>4. EnableInv'
  <2>1. c \notin raced /\ ReadsLatch(c) => c \in wanted
    BY <1>a, <1>c DEF IInv, ChoiceKept
  <2>2. ~(Toggles(cur)' /\ Len(ops') = 1)
    BY <1>a, <1>b, <1>c
  <2> QED
    BY <1>a, <1>b, <2>1, <2>2 DEF EnableInv
<1>5. ChoiceKept'
  BY <1>a, <1>b, StylesAssumption DEF IInv, ChoiceKept
<1> QED
  BY <1>1, <1>2, <1>3, <1>4, <1>5 DEF IInv

LEMMA HandlerAccessStep ==
  ASSUME SoundCards, IInv, HandlerAccess
  PROVE  IInv'
<1>a. /\ cur \in Cards /\ cur # None
      /\ UNCHANGED <<boardVars, waiting, todo, cur, wanted, raced, served>>
      /\ ClearsCard \/ EnablesCard
      /\ Agrees(Interrupt(cur), Card(cur))
  BY HandlerAccessWhat, HandlerAgrees DEF IInv, TypeOK, HandlerAccess
<1>b. /\ style' = style /\ latch_bars' = latch_bars
      /\ Interrupt(cur)' = Interrupt(cur) /\ Toggles(cur)' = Toggles(cur)
      /\ \A d \in Cards : /\ Interrupt(d)' = Interrupt(d)
                          /\ ReadsLatch(d)' = ReadsLatch(d)
  BY <1>a, StyleStays
<1>c. /\ ops' \in {Tail(Interrupt(cur)), << >>} /\ ops' # Interrupt(cur)
      /\ Complete(ops') /\ Len(ops') \in {0, 1}
  <2>2. Toggles(cur) => Card(cur).enable # None
    BY <1>a DEF Agrees, Toggles
  <2>3. /\ Complete(<< >>) /\ Complete(<<Notify>>)
        /\ Toggles(cur) => Complete(<<Card(cur).enable>>)
    <3>1. Notify # None
      BY StylesAssumption
    <3>2. Complete(<< >>) /\ Complete(<<Notify>>)
      BY <3>1 DEF Complete
    <3>3. ASSUME Toggles(cur) PROVE Complete(<<Card(cur).enable>>)
      BY <2>2, <3>1, <3>3, Completes
    <3> QED
      BY <3>2, <3>3
  <2>4. CASE ClearsCard
    <3>1. /\ ops' = Tail(Interrupt(cur)) /\ ops' # Interrupt(cur)
          /\ IF Toggles(cur) THEN ops' = <<Card(cur).enable>>
             ELSE ops' = << >> \/ ops' = <<Notify>>
      BY <2>4 DEF ClearsCard, AtFirst
    <3>2. Len(<< >>) = 0 /\ Len(<<Notify>>) = 1 /\ Len(<<Card(cur).enable>>) = 1
      OBVIOUS
    <3> QED
      BY <2>3, <3>1, <3>2
  <2>5. CASE EnablesCard
    <3>1. Interrupt(cur) # << >>
      BY <1>a, Pair DEF Agrees, PairFacts
    <3> QED
      BY <2>3, <2>5, <3>1 DEF EnablesCard
  <2> QED
    BY <1>a, <2>4, <2>5
<1>1. TypeOK'
  BY <1>a, <1>b, <1>c DEF IInv, TypeOK, Complete, ClearsCard, EnablesCard
<1>2. OpsInv'
  BY <1>a, <1>b, <1>c DEF OpsInv
<1>3. LatchInv'
  BY <1>a, <1>b DEF IInv, TypeOK, LatchInv, ClearsCard, EnablesCard, AtEnable
<1>4. EnableInv'
  <2>1. cur \notin raced /\ ReadsLatch(cur) =>
          /\ Toggles(cur) /\ ops # << >> => cur \in wanted
          /\ ~(Toggles(cur) /\ Len(ops) = 1) => (cur \in enabled <=> cur \in wanted)
    BY <1>a DEF IInv, EnableInv
  <2>2. CASE ClearsCard
    <3>1. Toggles(cur) => ops # << >> /\ Len(ops') = 1
      BY <2>2, Pair DEF ClearsCard, AtFirst, PairFacts
    <3>2. ~Toggles(cur) => enabled' = enabled
      BY <2>2 DEF ClearsCard
    <3> QED
      BY <1>a, <1>b, <2>1, <3>1, <3>2 DEF EnableInv
  <2>3. CASE EnablesCard
    <3>1. Toggles(cur) /\ ops # << >> /\ ops' = << >> /\ enabled' = enabled \cup {cur}
      BY <2>3, Pair DEF EnablesCard, AtEnable, PairFacts
    <3> QED
      BY <1>a, <1>b, <2>1, <3>1 DEF EnableInv
  <2> QED
    BY <1>a, <2>2, <2>3
<1>5. ChoiceKept'
  BY <1>a, <1>b DEF IInv, ChoiceKept, ClearsCard, EnablesCard
<1> QED
  BY <1>1, <1>2, <1>3, <1>4, <1>5 DEF IInv

LEMMA HandlerNotifyStep ==
  ASSUME SoundCards, IInv, HandlerNotify
  PROVE  IInv'
<1>a. /\ cur \in Cards /\ cur # None /\ waiting' = waiting \ {cur}
      /\ UNCHANGED <<boardVars, latched, enabled, todo, cur, wanted, raced, served>>
      /\ AtNotify /\ ops' = << >>
  BY HandlerNotifyWhat DEF IInv, TypeOK, HandlerNotify
<1>b. /\ style' = style /\ latch_bars' = latch_bars
      /\ Interrupt(cur)' = Interrupt(cur) /\ Toggles(cur)' = Toggles(cur)
      /\ \A d \in Cards : /\ Interrupt(d)' = Interrupt(d)
                          /\ ReadsLatch(d)' = ReadsLatch(d)
  BY <1>a, StyleStays
<1>1. TypeOK'
  BY <1>a, <1>b DEF IInv, TypeOK
<1>2. OpsInv'
  BY <1>a DEF OpsInv
<1>3. LatchInv'
  BY <1>a, <1>b DEF IInv, TypeOK, LatchInv, AtNotify
<1>4. EnableInv'
  BY <1>a, <1>b DEF IInv, EnableInv, AtNotify
<1>5. ChoiceKept'
  BY <1>a, <1>b DEF IInv, ChoiceKept
<1> QED
  BY <1>1, <1>2, <1>3, <1>4, <1>5 DEF IInv

LEMMA HandlerReturnStep ==
  ASSUME SoundCards, IInv, HandlerReturn
  PROVE  IInv'
<1>a. /\ cur \in Cards /\ cur # None /\ ops = << >> /\ ops' = << >> /\ cur' = None
      /\ UNCHANGED <<boardVars, latched, enabled, waiting, todo, wanted, raced, served>>
      /\ Agrees(Interrupt(cur), Card(cur))
  BY HandlerAgrees DEF IInv, TypeOK, HandlerReturn
<1>b. Interrupt(cur) # << >> /\ Len(<< >>) = 0
  BY <1>a, Pair DEF Agrees, PairFacts
<1>c. /\ style' = style /\ latch_bars' = latch_bars
      /\ \A d \in Cards : ReadsLatch(d)' = ReadsLatch(d)
  BY <1>a, StyleStays
<1>1. TypeOK'
  BY <1>a, <1>c DEF IInv, TypeOK
<1>2. OpsInv'
  BY <1>a DEF OpsInv
<1>3. LatchInv'
  BY <1>a, <1>b DEF IInv, LatchInv
<1>4. EnableInv'
  BY <1>a DEF EnableInv
<1>5. ChoiceKept'
  BY <1>a, <1>b, <1>c DEF IInv, ChoiceKept, EnableInv
<1> QED
  BY <1>1, <1>2, <1>3, <1>4, <1>5 DEF IInv

(* Between its disable and its enable, and before, a handler has an enable    *)
(* to come.                                                                   *)
LEMMA EnableToCome ==
  ASSUME SoundCards, TypeOK, OpsInv, cur # None, Toggles(cur), ops # << >>
  PROVE  EnablePending(cur)
<1> DEFINE e == Card(cur).enable
<1>1. AtFirst \/ AtEnable
  BY Positions DEF AtNotify, AtEnd
<1>2. cur \in Cards /\ Agrees(Interrupt(cur), Card(cur))
  BY HandlerAgrees DEF TypeOK
<1>3. CASE AtFirst
  <2>1. Interrupt(cur) = <<Card(cur).disable, e>>
    BY <1>2 DEF Agrees, Toggles
  <2>2. Len(ops) = 2 /\ ops[2] = e
    BY <1>3, <2>1 DEF AtFirst
  <2> QED
    BY <2>2 DEF EnablePending
<1>4. CASE AtEnable
  <2>1. Len(ops) = 1 /\ ops[1] = e
    BY <1>4 DEF AtEnable
  <2> QED
    BY <2>1 DEF EnablePending
<1> QED
  BY <1>1, <1>3, <1>4

(* A user's access makes the card what the user wants, but for a disable that *)
(* comes before the enable of the handler.                                    *)
LEMMA UserEnableStep ==
  ASSUME SoundCards, IInv, NEW c \in Cards, NEW on \in BOOLEAN, UserEnable(c, on)
  PROVE  IInv'
<1>a. /\ wanted' = IF on THEN wanted \cup {c} ELSE wanted \ {c}
      /\ raced' = IF ~on /\ EnablePending(c) THEN raced \cup {c} ELSE raced \ {c}
      /\ served' = served \ {c}
      /\ UNCHANGED <<boardVars, waiting, todo, cur, ops>>
  BY DEF UserEnable
<1>b. /\ style' = style /\ latch_bars' = latch_bars
      /\ \A d \in Cards : /\ Interrupt(d)' = Interrupt(d) /\ Toggles(d)' = Toggles(d)
                          /\ ReadsLatch(d)' = ReadsLatch(d)
      /\ cur \in Cards \cup {None}
  BY <1>a, StyleStays DEF IInv, TypeOK
<1>c. /\ latched' \subseteq latched
      /\ enabled' = IF on THEN enabled \cup {c} ELSE enabled \ {c}
  <2>1. Card(c).enable # None /\ Card(c).enable # Card(c).disable
    BY HandlerAgrees DEF Agrees, UserEnable, AlwaysOn, IInv
  <2> QED
    BY <2>1 DEF UserEnable, Access
<1>1. TypeOK'
  BY <1>a, <1>b, <1>c DEF IInv, TypeOK
<1>2. OpsInv'
  BY <1>a, <1>b DEF IInv, OpsInv
<1>3. LatchInv'
  BY <1>a, <1>b, <1>c DEF IInv, TypeOK, LatchInv
<1>4. EnableInv'
  <2> SUFFICES ASSUME cur # None, cur \notin raced', ReadsLatch(cur)
               PROVE  /\ Toggles(cur) /\ ops # << >> => cur \in wanted'
                      /\ ~(Toggles(cur) /\ Len(ops) = 1) =>
                           (cur \in enabled' <=> cur \in wanted')
    BY <1>a, <1>b DEF EnableInv
  <2>1. CASE c # cur
    BY <1>a, <1>c, <2>1 DEF IInv, EnableInv
  <2>2. CASE c = cur /\ on
    BY <1>a, <1>c, <2>2
  <2>3. CASE c = cur /\ ~on
    <3>1. ~EnablePending(cur)
      BY <1>a, <2>3
    <3>2. ~(Toggles(cur) /\ ops # << >>)
      BY <3>1, EnableToCome DEF IInv
    <3> QED
      BY <1>a, <1>c, <2>3, <3>2
  <2> QED
    BY <2>1, <2>2, <2>3
<1>5. ChoiceKept'
  <2>1. c # cur => ~EnablePending(c)
    BY DEF EnablePending
  <2> QED
    BY <1>a, <1>b, <1>c, <2>1 DEF IInv, ChoiceKept
<1> QED
  BY <1>1, <1>2, <1>3, <1>4, <1>5 DEF IInv

(* The other steps leave the handler where it is. *)
LEMMA OtherStep ==
  ASSUME SoundCards, IInv, UNCHANGED <<boardVars, cur, ops, enabled, wanted, raced>>,
         latched' \subseteq Cards, waiting' \subseteq Cards, todo' \subseteq Cards,
         served' \subseteq served, \A c \in served' : c \in latched' => c \in latched
  PROVE  IInv'
<1>a. /\ style' = style /\ latch_bars' = latch_bars
      /\ \A d \in Cards : /\ Interrupt(d)' = Interrupt(d) /\ Toggles(d)' = Toggles(d)
                          /\ ReadsLatch(d)' = ReadsLatch(d)
      /\ cur \in Cards \cup {None}
  BY StyleStays DEF IInv, TypeOK
<1>1. TypeOK'
  BY <1>a DEF IInv, TypeOK
<1>2. OpsInv'
  BY <1>a DEF IInv, OpsInv
<1>3. LatchInv'
  BY <1>a DEF IInv, TypeOK, LatchInv
<1>4. EnableInv'
  BY <1>a DEF IInv, EnableInv
<1>5. ChoiceKept'
  BY <1>a DEF IInv, ChoiceKept
<1> QED
  BY <1>1, <1>2, <1>3, <1>4, <1>5 DEF IInv

LEMMA NextStep ==
  ASSUME SoundCards, IInv, [Next]_vars
  PROVE  IInv'
<1>a. latched \subseteq Cards /\ waiting \subseteq Cards /\ todo \subseteq Cards
  BY DEF IInv, TypeOK
<1>1. CASE Dispatch
  BY <1>1, <1>a, OtherStep DEF Dispatch
<1>2. ASSUME NEW c \in Cards, HandlerNone(c) PROVE IInv'
  BY <1>2, <1>a, OtherStep DEF HandlerNone
<1>3. ASSUME NEW c \in Cards, Event(c) PROVE IInv'
  BY <1>3, <1>a, OtherStep DEF Event
<1>4. ASSUME NEW c \in Cards, UserWait(c) \/ UserCancel(c) PROVE IInv'
  BY <1>4, <1>a, OtherStep DEF UserWait, UserCancel
<1>5. CASE UNCHANGED vars
  BY <1>5, <1>a, OtherStep DEF vars
<1> QED
  BY <1>1, <1>2, <1>3, <1>4, <1>5, HandlerEnterStep, HandlerAccessStep,
     HandlerNotifyStep, HandlerReturnStep, UserEnableStep
  DEF Next, Handler

LEMMA InitInv ==
  ASSUME SoundCards, Init
  PROVE  IInv
<1>1. TypeOK
  BY DEF Init, TypeOK
<1>2. OpsInv /\ LatchInv /\ EnableInv /\ ChoiceKept
  BY DEF Init, OpsInv, LatchInv, EnableInv, ChoiceKept
<1> QED
  BY <1>1, <1>2 DEF IInv

-----------------------------------------------------------------------------
(* The invariant holds on every line of such cards. *)
THEOREM StylesInvariant ==
  ASSUME SoundCards
  PROVE  Spec => []IInv
<1>1. Init => IInv
  BY InitInv
<1>2. IInv /\ [Next]_vars => IInv'
  BY NextStep
<1> QED
  BY <1>1, <1>2, PTL DEF Spec

(* Every variable has its type, and no handler calls an operation that its    *)
(* style does not have.                                                       *)
THEOREM StylesTypes ==
  ASSUME SoundCards
  PROVE  Spec => []TypeOK
<1>1. IInv => TypeOK
  BY DEF IInv
<1> QED
  BY <1>1, StylesInvariant, PTL

(* A handler that returned IRQ_HANDLED has taken its card off the line.       *)
THEOREM StylesAcknowledged ==
  ASSUME SoundCards
  PROVE  Spec => []Acknowledged
<1>1. IInv => Acknowledged
  BY DEF IInv, LatchInv, Acknowledged, Asserted
<1> QED
  BY <1>1, StylesInvariant, PTL

(* Handlers that find the latch register leave the users' choice of the       *)
(* enabled cards alone, unless a user disables a card before its handler      *)
(* enables it again.                                                          *)
THEOREM StylesChoiceKept ==
  ASSUME SoundCards
  PROVE  Spec => []ChoiceKept
<1>1. IInv => ChoiceKept
  BY DEF IInv
<1> QED
  BY <1>1, StylesInvariant, PTL
=============================================================================
