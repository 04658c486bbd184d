---------------------------- MODULE MCIrqStyles ----------------------------
(* Cards and their styles for checking IrqStyles with TLC. *)
EXTENDS IrqStyles

CONSTANTS k1, k2

TwoCards == {k1, k2}
OneCard  == {k1}

(* One style of each shape: a clear, a toggle, always on, with a notification. *)
Shapes      == {"pcie_2", "pci_6", "pci_12", "adio16f"}
MixedStyles == [c \in Cards |-> IF c = k1 THEN Sound ELSE Shapes]
Pci1  == [c \in Cards |-> {"pci_1"}]
Pci2  == [c \in Cards |-> {"pci_2"}]
Pci4  == [c \in Cards |-> {"pci_4"}]
Pcie2 == [c \in Cards |-> {"pcie_2"}]

(* The latch register in the BAR of the register table, or in both. *)
InBar1   == {{1}}
InBoth   == {{0, 1}}
InEither == InBar1 \cup InBoth
=============================================================================
