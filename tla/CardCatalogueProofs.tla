------------------------ MODULE CardCatalogueProofs ------------------------
(***************************************************************************)
(* Proofs about CardCatalogue, for any number of cards of any kinds in any *)
(* order: what TLC checks for two.  The two tables of the driver and the   *)
(* one of the old module are the ones of DeviceTables, row by row; what    *)
(* the characters of the names say is NamesAssumption.                     *)
(***************************************************************************)
EXTENDS CardCatalogue, FiniteSetTheorems, TLAPS

-----------------------------------------------------------------------------
(* The tables. *)

(* There are 121 descriptors, and the 0 of the id table is where init expects *)
(* it.                                                                        *)
LEMMA TableLength ==
  /\ NUM_ACCES_PCI_DEVICES = 121
  /\ acces_pci_id_table[NUM_ACCES_PCI_DEVICES + 1] = 0
<1>1. NUM_ACCES_PCI_DEVICES = 121
  BY DEF NUM_ACCES_PCI_DEVICES, accesio_pci_device_descriptors, Rows0100, Rows010E,
         Rows0C40, Rows0C71, Rows0E62, Rows0FD1, Rows4898, Rows6CA9, Rows82EC
<1>2. acces_pci_id_table[122] = 0
  BY DEF acces_pci_id_table
<1>3. QED
  BY <1>1, <1>2

(* The two tables have the same id in every row.                              *)
LEMMA TablesAgree ==
  \A i \in 1..NUM_ACCES_PCI_DEVICES :
    /\ RowMatches(i)
    /\ Row(i).pid = acces_pci_id_table[i] /\ Row(i).pid \in Nat
<1>1. \A i \in 1..121 : accesio_pci_device_descriptors[i][1] = acces_pci_id_table[i]
  BY DEF acces_pci_id_table, accesio_pci_device_descriptors, Rows0100, Rows010E, Rows0C40,
         Rows0C71, Rows0E62, Rows0FD1, Rows4898, Rows6CA9, Rows82EC
<1>2. \A i \in 1..121 : acces_pci_id_table[i] \in Nat
  BY DEF acces_pci_id_table
<1>3. QED
  BY <1>1, <1>2, TableLength DEF RowMatches, Row

(* No id is in the table twice.                                               *)
LEMMA IdsDistinct ==
  \A i, j \in 1..NUM_ACCES_PCI_DEVICES : Row(i).pid = Row(j).pid => i = j
<1>1. \A i, j \in 1..121 : acces_pci_id_table[i] = acces_pci_id_table[j] => i = j
  BY SMTT(60) DEF acces_pci_id_table
<1>2. SUFFICES ASSUME NEW i \in 1..NUM_ACCES_PCI_DEVICES, NEW j \in 1..NUM_ACCES_PCI_DEVICES,
                      Row(i).pid = Row(j).pid
               PROVE  i = j
  OBVIOUS
<1>3. Row(i).pid = acces_pci_id_table[i] /\ Row(j).pid = acces_pci_id_table[j]
  BY TablesAgree
<1>4. QED
  BY <1>1, <1>2, <1>3, TableLength

(* The two kinds that share a name are the last two rows.                     *)
LEMMA SharedRows ==
  /\ Row(120) = [pid |-> \h825D, name |-> "pcie-adi12-16f", style |-> "adio16f"]
  /\ Row(121) = [pid |-> \h825E, name |-> "pcie-adi12-16f", style |-> "adio16f"]
<1>1. /\ accesio_pci_device_descriptors[120] = <<\h825D, "pcie-adi12-16f", "adio16f">>
      /\ accesio_pci_device_descriptors[121] = <<\h825E, "pcie-adi12-16f", "adio16f">>
  BY DEF accesio_pci_device_descriptors, Rows0100, Rows010E, Rows0C40, Rows0C71, Rows0E62,
         Rows0FD1, Rows4898, Rows6CA9, Rows82EC
<1>2. QED
  BY <1>1 DEF Row

(* Kinds with a handler have a name of their own, but for those two; and kinds *)
(* that want the same node have the same name and handler.                     *)
LEMMA NamesDistinct ==
  ASSUME NEW i \in 1..NUM_ACCES_PCI_DEVICES, NEW j \in 1..NUM_ACCES_PCI_DEVICES
  PROVE  /\ Row(i).name = Row(j).name /\ Row(i).style # "NULL" /\ Row(j).style # "NULL"
              => SameNode(Row(i).pid, Row(j).pid)
         /\ SameNode(Row(i).pid, Row(j).pid)
              => Row(i).name = Row(j).name /\ Row(i).style = Row(j).style
<1> DEFINE d == accesio_pci_device_descriptors
<1>1. d[i][2] = d[j][2] /\ d[i][3] # "NULL" /\ d[j][3] # "NULL" =>
        i = j \/ (i \in {120, 121} /\ j \in {120, 121})
  <2>1. i \in 1..121 /\ j \in 1..121
    BY TableLength
  <2>2. QED
    BY <2>1, SMTT(120) DEF accesio_pci_device_descriptors, Rows0100, Rows010E, Rows0C40, Rows0C71,
       Rows0E62, Rows0FD1, Rows4898, Rows6CA9, Rows82EC
<1>2. Row(i).name = d[i][2] /\ Row(i).style = d[i][3] /\ Row(j).name = d[j][2] /\ Row(j).style = d[j][3]
  BY DEF Row
<1>3. SameNode(\h825D, \h825E) /\ SameNode(\h825E, \h825D) /\ \A p : SameNode(p, p)
  BY DEF SameNode
<1>4. ASSUME Row(i).name = Row(j).name, Row(i).style # "NULL", Row(j).style # "NULL"
      PROVE  SameNode(Row(i).pid, Row(j).pid)
  BY <1>1, <1>2, <1>3, <1>4, SharedRows
<1>5. ASSUME SameNode(Row(i).pid, Row(j).pid)
      PROVE  Row(i).name = Row(j).name /\ Row(i).style = Row(j).style
  <2>1. CASE Row(i).pid = Row(j).pid
    BY <2>1, IdsDistinct
  <2>2. CASE {Row(i).pid, Row(j).pid} = {\h825D, \h825E}
    <3>1. Row(120).pid = \h825D /\ Row(121).pid = \h825E
      BY SharedRows
    <3>2. Row(i).pid \in {\h825D, \h825E} /\ Row(j).pid \in {\h825D, \h825E}
      BY <2>2
    <3>3. 120 \in 1..NUM_ACCES_PCI_DEVICES /\ 121 \in 1..NUM_ACCES_PCI_DEVICES
      BY TableLength
    <3>4. i \in {120, 121}
      BY <3>1, <3>2, <3>3, IdsDistinct
    <3>5. j \in {120, 121}
      BY <3>1, <3>2, <3>3, IdsDistinct
    <3>6. QED
      BY <3>4, <3>5, SharedRows
  <2>3. QED
    BY <1>5, <2>1, <2>2 DEF SameNode
<1>6. QED
  BY <1>4, <1>5

(* Of the ids in the switch of probe the tables have one.                     *)
LEMMA OverriddenIds ==
  \A i \in 1..NUM_ACCES_PCI_DEVICES : Row(i).pid \in Overridden <=> Row(i).pid = \hC2EF
<1>1. \A i \in 1..121 : acces_pci_id_table[i] \in Overridden <=> acces_pci_id_table[i] = \hC2EF
  BY SMTT(60) DEF acces_pci_id_table, Overridden
<1>2. QED
  BY <1>1, TableLength, TablesAgree

(* How a descriptor agrees with the old table: the old table has the id in    *)
(* entries of its style only, in entries without interrupt registers, or not  *)
(* at all.                                                                    *)
OldTable == Old0100 \cup Old0E53 \cup Old6CA9

Agrees(pid, s) ==
  \/ /\ s \notin Undescribed \cup {"NULL", "unlisted"}
     /\ \E w \in OldTable : pid \in w[2]
     /\ \A w \in OldTable : pid \in w[2] => w[1] = s
  \/ /\ s = "NULL"
     /\ \E w \in OldTable : pid \in w[2]
     /\ \A w \in OldTable : pid \in w[2] => w[1] \in Undescribed
  \/ /\ s = "adio16f"
     /\ \A w \in OldTable : pid \notin w[2]

(* Then Wiring, which looks the id up there, gives that style.                *)
LEMMA WiringOf ==
  ASSUME NEW pid, NEW s, Agrees(pid, s)
  PROVE  s = IF Wiring(pid) = "unlisted" THEN "adio16f" ELSE Wiring(pid)
<1> DEFINE styles == {w[1] : w \in {w \in OldTable : pid \in w[2]}}
<1>1. Wiring(pid) = CASE styles = {} -> "unlisted"
                      [] styles # {} /\ styles \subseteq Undescribed -> "NULL"
                      [] OTHER -> CHOOSE x \in styles : TRUE
  BY DEF Wiring, OldTable
<1>2. CASE /\ s \notin Undescribed \cup {"NULL", "unlisted"}
           /\ \E w \in OldTable : pid \in w[2]
           /\ \A w \in OldTable : pid \in w[2] => w[1] = s
  <2>1. styles = {s}
    BY <1>2
  <2> HIDE DEF styles
  <2>2. Wiring(pid) = CHOOSE x \in styles : TRUE
    BY <1>1, <1>2, <2>1
  <2>3. QED
    BY <1>2, <2>1, <2>2
<1>3. CASE /\ s = "NULL"
           /\ \E w \in OldTable : pid \in w[2]
           /\ \A w \in OldTable : pid \in w[2] => w[1] \in Undescribed
  <2>1. styles # {} /\ styles \subseteq Undescribed
    BY <1>3
  <2> HIDE DEF styles
  <2>2. Wiring(pid) = "NULL"
    BY <1>1, <2>1
  <2>3. QED
    BY <1>3, <2>2
<1>4. CASE s = "adio16f" /\ \A w \in OldTable : pid \notin w[2]
  <2>1. styles = {}
    BY <1>4
  <2> HIDE DEF styles
  <2>2. Wiring(pid) = "unlisted"
    BY <1>1, <2>1
  <2>3. QED
    BY <1>4, <2>2
<1>5. QED
  BY <1>2, <1>3, <1>4 DEF Agrees

(* The table is made of nine pieces.                                          *)
LEMMA Pieces ==
  ASSUME NEW i \in 1..121
  PROVE  LET d == accesio_pci_device_descriptors[i] IN
         /\ i \in 1..14 => d = Rows0100[i]
         /\ i \in 15..28 => d = Rows010E[i - 14]
         /\ i \in 29..42 => d = Rows0C40[i - 28]
         /\ i \in 43..56 => d = Rows0C71[i - 42]
         /\ i \in 57..70 => d = Rows0E62[i - 56]
         /\ i \in 71..84 => d = Rows0FD1[i - 70]
         /\ i \in 85..98 => d = Rows4898[i - 84]
         /\ i \in 99..112 => d = Rows6CA9[i - 98]
         /\ i \in 113..121 => d = Rows82EC[i - 112]
  BY SMTT(120) DEF accesio_pci_device_descriptors, Rows0100, Rows010E, Rows0C40, Rows0C71,
     Rows0E62, Rows0FD1, Rows4898, Rows6CA9, Rows82EC

(* Every descriptor has the functions for the registers of its kind.          *)
LEMMA StylesFit ==
  ASSUME NEW i \in 1..NUM_ACCES_PCI_DEVICES
  PROVE  Row(i).style =
           IF Wiring(Row(i).pid) = "unlisted" THEN "adio16f" ELSE Wiring(Row(i).pid)
<1> DEFINE d == accesio_pci_device_descriptors[i]
<1>1. ASSUME NEW k \in 1..14 PROVE Agrees(Rows0100[k][1], Rows0100[k][3])
  BY SMTT(60) DEF Rows0100, Agrees, OldTable, Old0100, Old0E53, Old6CA9, Undescribed
<1>2. ASSUME NEW k \in 1..14 PROVE Agrees(Rows010E[k][1], Rows010E[k][3])
  BY SMTT(60) DEF Rows010E, Agrees, OldTable, Old0100, Old0E53, Old6CA9, Undescribed
<1>3. ASSUME NEW k \in 1..14 PROVE Agrees(Rows0C40[k][1], Rows0C40[k][3])
  BY SMTT(60) DEF Rows0C40, Agrees, OldTable, Old0100, Old0E53, Old6CA9, Undescribed
<1>4. ASSUME NEW k \in 1..14 PROVE Agrees(Rows0C71[k][1], Rows0C71[k][3])
  BY SMTT(60) DEF Rows0C71, Agrees, OldTable, Old0100, Old0E53, Old6CA9, Undescribed
<1>5. ASSUME NEW k \in 1..14 PROVE Agrees(Rows0E62[k][1], Rows0E62[k][3])
  BY SMTT(60) DEF Rows0E62, Agrees, OldTable, Old0100, Old0E53, Old6CA9, Undescribed
<1>6. ASSUME NEW k \in 1..14 PROVE Agrees(Rows0FD1[k][1], Rows0FD1[k][3])
  BY SMTT(60) DEF Rows0FD1, Agrees, OldTable, Old0100, Old0E53, Old6CA9, Undescribed
<1>7. ASSUME NEW k \in 1..14 PROVE Agrees(Rows4898[k][1], Rows4898[k][3])
  BY SMTT(60) DEF Rows4898, Agrees, OldTable, Old0100, Old0E53, Old6CA9, Undescribed
<1>8. ASSUME NEW k \in 1..14 PROVE Agrees(Rows6CA9[k][1], Rows6CA9[k][3])
  BY SMTT(60) DEF Rows6CA9, Agrees, OldTable, Old0100, Old0E53, Old6CA9, Undescribed
<1>9. ASSUME NEW k \in 1..9 PROVE Agrees(Rows82EC[k][1], Rows82EC[k][3])
  BY SMTT(60) DEF Rows82EC, Agrees, OldTable, Old0100, Old0E53, Old6CA9, Undescribed
<1>10. Row(i).pid = d[1] /\ Row(i).style = d[3]
  BY DEF Row
<1>11. i \in 1..121
  BY TableLength
<1>12. Agrees(d[1], d[3])
  <2>1. CASE i \in 1..14
    <3>1. i \in 1..14 /\ d = Rows0100[i]
      BY <1>11, <2>1, Pieces
    <3>2. QED
      BY <1>1, <3>1
  <2>2. CASE i \in 15..28
    <3>1. i - 14 \in 1..14 /\ d = Rows010E[i - 14]
      BY <1>11, <2>2, Pieces
    <3>2. QED
      BY <1>2, <3>1
  <2>3. CASE i \in 29..42
    <3>1. i - 28 \in 1..14 /\ d = Rows0C40[i - 28]
      BY <1>11, <2>3, Pieces
    <3>2. QED
      BY <1>3, <3>1
  <2>4. CASE i \in 43..56
    <3>1. i - 42 \in 1..14 /\ d = Rows0C71[i - 42]
      BY <1>11, <2>4, Pieces
    <3>2. QED
      BY <1>4, <3>1
  <2>5. CASE i \in 57..70
    <3>1. i - 56 \in 1..14 /\ d = Rows0E62[i - 56]
      BY <1>11, <2>5, Pieces
    <3>2. QED
      BY <1>5, <3>1
  <2>6. CASE i \in 71..84
    <3>1. i - 70 \in 1..14 /\ d = Rows0FD1[i - 70]
      BY <1>11, <2>6, Pieces
    <3>2. QED
      BY <1>6, <3>1
  <2>7. CASE i \in 85..98
    <3>1. i - 84 \in 1..14 /\ d = Rows4898[i - 84]
      BY <1>11, <2>7, Pieces
    <3>2. QED
      BY <1>7, <3>1
  <2>8. CASE i \in 99..112
    <3>1. i - 98 \in 1..14 /\ d = Rows6CA9[i - 98]
      BY <1>11, <2>8, Pieces
    <3>2. QED
      BY <1>8, <3>1
  <2>9. CASE i \in 113..121
    <3>1. i - 112 \in 1..9 /\ d = Rows82EC[i - 112]
      BY <1>11, <2>9, Pieces
    <3>2. QED
      BY <1>9, <3>1
  <2>10. QED
    BY <1>11, <2>1, <2>2, <2>3, <2>4, <2>5, <2>6, <2>7, <2>8, <2>9
<1>13. QED
  BY <1>10, <1>12, WiringOf

-----------------------------------------------------------------------------
(* The lookup. *)

(* The only row with an id is the one that the loop of probe stops at.        *)
LEMMA LookupRow ==
  ASSUME NEW i \in 1..NUM_ACCES_PCI_DEVICES
  PROVE  Lookup(Row(i).pid) = Row(i)
<1>1. Hits(Row(i).pid) = {i}
  BY IdsDistinct DEF Hits
<1>2. Lowest({i}) = i
  BY TableLength DEF Lowest
<1>3. QED
  BY <1>1, <1>2 DEF Lookup

(* A card that the PCI core offers has a row with its id.                     *)
LEMMA OfferedRow ==
  ASSUME NEW pid, Offered(pid)
  PROVE  \E i \in 1..NUM_ACCES_PCI_DEVICES : Lookup(pid) = Row(i) /\ Row(i).pid = pid
<1>1. PICK i \in 1..NUM_ACCES_PCI_DEVICES : acces_pci_id_table[i] = pid
  BY DEF Offered
<1>2. Row(i).pid = pid
  BY <1>1, TablesAgree
<1>3. QED
  BY <1>2, LookupRow

(* A copy with room for the characters of a name has all of them.             *)
LEMMA WholeCopy ==
  ASSUME NEW i \in 1..NUM_ACCES_PCI_DEVICES, NEW n \in Nat, n >= Len(Row(i).name)
  PROVE  strncpy(Row(i).name, n) = Row(i).name
<1>1. Len(Row(i).name) \in Nat
  BY CatalogueAssumption
<1>2. SubSeq(Row(i).name, 1, Len(Row(i).name)) = Row(i).name
  BY NamesAssumption
<1>3. (IF n > Len(Row(i).name) THEN Len(Row(i).name) ELSE n) = Len(Row(i).name)
  BY <1>1
<1>4. QED
  BY <1>2, <1>3 DEF strncpy

(* A card in the list has the row of its id.                                  *)
LEMMA RowOfCard ==
  ASSUME TypeOK, CardInv, NEW k \in 1..Len(cards)
  PROVE  \E i \in 1..NUM_ACCES_PCI_DEVICES :
           cards[k].row = Row(i) /\ Row(i).pid = cards[k].pid
<1>1. cards[k] \in CardType
  BY DEF TypeOK
<1>2. QED
  BY <1>1 DEF CardType, CardInv

(* Two cards never have nodes of one name.                                    *)
LEMMA NodesDistinct ==
  ASSUME TypeOK, CardInv, NEW j \in Nodes, NEW k \in Nodes,
         cards[j].row.name = cards[k].row.name
  PROVE  j = k
<1>1. j \in 1..Len(cards) /\ k \in 1..Len(cards) /\ cards[j].node /\ cards[k].node
  BY DEF Nodes
<1>2. Len(cards) \in Nat
  BY DEF TypeOK
<1>3. ~ (j < k)
  <2>1. SUFFICES ASSUME j < k PROVE FALSE
    OBVIOUS
  <2>2. j \in 1..k - 1
    BY <1>1, <1>2, <2>1
  <2>3. QED
    BY <1>1, <2>2 DEF CardInv
<1>4. ~ (k < j)
  <2>1. SUFFICES ASSUME k < j PROVE FALSE
    OBVIOUS
  <2>2. k \in 1..j - 1
    BY <1>1, <1>2, <2>1
  <2>3. QED
    BY <1>1, <2>2 DEF CardInv
<1>5. QED
  BY <1>1, <1>2, <1>3, <1>4

-----------------------------------------------------------------------------
(* Initial states. *)

(* Before the module is loaded there are no cards and no numbers.             *)
LEMMA InitInv == Init => IInv
<1> SUFFICES ASSUME Init PROVE IInv
  OBVIOUS
<1> USE DEF Init
<1>1. TypeOK
  <2>1. Len(Kinds) \in Nat /\ NameBuffer \in Nat
    BY CatalogueAssumption
  <2>2. cards \in Seq(CardType) /\ Len(cards) = 0 /\ numbers \in Seq(1..Len(cards))
    OBVIOUS
  <2>3. reply.status = 0 /\ reply.num = 0 /\ reply.terminated = FALSE
    BY DEF NoReply
  <2>4. index \in 1..NUM_ACCES_PCI_DEVICES + 1 /\ io \in BOOLEAN
    BY TableLength
  <2>5. size \in 0..NameBuffer /\ asked \in -1..Len(Kinds) - 1 /\ 0 \in 0..Len(Kinds)
    BY <2>1
  <2>6. Len(cards) <= Len(Kinds)
    BY <2>1, <2>2
  <2>7. module \in {"loading", "in", "refused"} /\ library \in {"off", "scan", "ready"}
    OBVIOUS
  <2>8. /\ reply.status \in {0, -EINVAL} /\ reply.num \in 0..Len(Kinds)
        /\ reply.terminated \in BOOLEAN
    BY <2>3, <2>5, Zenon
  <2> HIDE DEF Init
  <2>9. QED
    BY <2>2, <2>4, <2>5, <2>6, <2>7, <2>8, Zenon DEF TypeOK
<1>2. TablesAccepted
  BY DEF TablesAccepted
<1>3. CardInv
  BY DEF CardInv
<1>4. NumberInv
  BY DEF NumberInv
<1>5. CallerInv
  BY DEF CallerInv
<1>6. WholeName
  BY DEF WholeName, NoReply
<1>7. QED
  BY <1>1, <1>2, <1>3, <1>4, <1>5, <1>6 DEF IInv

-----------------------------------------------------------------------------
(* The comparison of the tables. *)

(* Steps that leave cards, library and caller alone.                          *)
LEMMA LoadKeeps ==
  ASSUME IInv, UNCHANGED <<io, cards, libVars, callerVars>>,
         module' \in {"loading", "in"}, index' \in 1..NUM_ACCES_PCI_DEVICES + 1
  PROVE  IInv'
<1> USE DEF IInv, libVars, callerVars
<1>1. TypeOK'
  BY DEF TypeOK
<1>2. TablesAccepted'
  BY DEF TablesAccepted
<1>3. CardInv'
  BY DEF CardInv, default_bar
<1>4. NumberInv'
  BY DEF NumberInv, Taken, Nodes
<1>5. CallerInv'
  BY DEF CallerInv, NameOf
<1>6. WholeName'
  BY DEF WholeName
<1>7. QED
  BY <1>1, <1>2, <1>3, <1>4, <1>5, <1>6

(* The loop of accesio_pci_init never finds a row that differs.               *)
LEMMA CompareRowInv == IInv /\ CompareRow => IInv'
<1> SUFFICES ASSUME IInv, CompareRow PROVE IInv'
  OBVIOUS
<1>1. index \in 1..NUM_ACCES_PCI_DEVICES
  BY TableLength DEF IInv, TypeOK, CompareRow
<1>2. index' = index + 1 /\ module' = "loading"
  BY <1>1, TablesAgree DEF CompareRow
<1>3. QED
  BY <1>1, <1>2, TableLength, LoadKeeps DEF CompareRow

(* After the last row it finds the 0.                                         *)
LEMMA CompareEndInv == IInv /\ CompareEnd => IInv'
<1> SUFFICES ASSUME IInv, CompareEnd PROVE IInv'
  OBVIOUS
<1>1. module' = "in" /\ index' = index
  BY TableLength DEF CompareEnd
<1>2. index' \in 1..NUM_ACCES_PCI_DEVICES + 1
  BY <1>1 DEF IInv, TypeOK
<1>3. QED
  BY <1>1, <1>2, LoadKeeps DEF CompareEnd

-----------------------------------------------------------------------------
(* Probe. *)

(* What the new card is, and that the others stay as they are.                *)
LEMMA ProbedCard ==
  ASSUME TypeOK, NEW pid, Probe(pid)
  PROVE  LET row == Lookup(pid)
             bound == row.style # "NULL"
             card == [pid |-> pid, row |-> row, bound |-> bound,
                      node |-> bound /\ ~NodeNamed(row.name), bar |-> default_bar(row.pid)]
         IN  /\ card \in CardType
             /\ cards' \in Seq(CardType) /\ Len(cards') = Len(cards) + 1
             /\ cards'[Len(cards) + 1] = card
             /\ \A k \in 1..Len(cards) : cards'[k] = cards[k]
<1> DEFINE row == Lookup(pid)
           bound == row.style # "NULL"
           node == bound /\ ~NodeNamed(row.name)
           card == [pid |-> pid, row |-> row, bound |-> bound, node |-> node,
                    bar |-> default_bar(row.pid)]
<1>1. row \in {Row(i) : i \in 1..NUM_ACCES_PCI_DEVICES}
  BY OfferedRow DEF Probe
<1>2. pid \in Nat
  BY OfferedRow, TablesAgree DEF Probe
<1>3. default_bar(row.pid) \in 0..2
  BY DEF default_bar
<1>4. bound \in BOOLEAN /\ node \in BOOLEAN
  OBVIOUS
<1>5. cards' = Append(cards, card)
  BY DEF Probe
<1>6. card \in CardType
  <2> HIDE DEF bound, node, row
  <2>1. QED
    BY <1>1, <1>2, <1>3, <1>4 DEF CardType
<1>7. cards \in Seq(CardType)
  BY DEF TypeOK
<1> HIDE DEF card
<1>8. /\ cards' \in Seq(CardType) /\ Len(cards') = Len(cards) + 1
      /\ cards'[Len(cards) + 1] = card
      /\ \A k \in 1..Len(cards) : cards'[k] = cards[k]
  BY <1>5, <1>6, <1>7
<1>9. QED
  BY <1>6, <1>8 DEF card

(* The new card takes no node from the cards before it, and nobody has a      *)
(* number yet.                                                                *)
LEMMA ProbeInv == \A pid : IInv /\ Probe(pid) => IInv'
<1> SUFFICES ASSUME NEW pid, IInv, Probe(pid) PROVE IInv'
  OBVIOUS
<1> DEFINE row == Lookup(pid)
           bound == row.style # "NULL"
           node == bound /\ ~NodeNamed(row.name)
           card == [pid |-> pid, row |-> row, bound |-> bound, node |-> node,
                    bar |-> default_bar(row.pid)]
           n == Len(cards)
<1>1. /\ card \in CardType
      /\ cards' \in Seq(CardType) /\ Len(cards') = n + 1
      /\ cards'[n + 1] = card
      /\ \A k \in 1..n : cards'[k] = cards[k]
  BY ProbedCard DEF IInv
<1>2. /\ UNCHANGED <<module, index, io, libVars, callerVars>>
      /\ library = "off" /\ n < Len(Kinds)
  BY DEF Probe
<1>3. row.pid = pid
  BY OfferedRow DEF Probe
<1>4. n \in Nat /\ Len(Kinds) \in Nat
  BY CatalogueAssumption DEF IInv, TypeOK
<1>5. library' = "off" /\ unread' = {} /\ numbers' = << >> /\ numbers = << >>
  BY <1>2 DEF IInv, NumberInv, libVars
<1>6. TypeOK'
  <2>1. cards' \in Seq(CardType) /\ Len(cards') <= Len(Kinds)
    BY <1>1, <1>2, <1>4
  <2>2. numbers' \in Seq(1..Len(cards'))
    BY <1>5
  <2>3. QED
    BY <1>2, <2>1, <2>2 DEF IInv, TypeOK, libVars, callerVars
<1>7. TablesAccepted'
  BY <1>2 DEF IInv, TablesAccepted
<1>8. CardInv'
  <2>1. SUFFICES ASSUME NEW k \in 1..n + 1
                 PROVE
                   /\ cards'[k].row = Lookup(cards'[k].pid) /\ cards'[k].row.pid = cards'[k].pid
                   /\ cards'[k].bound <=> cards'[k].row.style # "NULL"
                   /\ cards'[k].bar = default_bar(cards'[k].pid)
                   /\ cards'[k].node <=>
                        /\ cards'[k].bound
                        /\ \A j \in 1..k - 1 :
                             ~ (cards'[j].node /\ cards'[j].row.name = cards'[k].row.name)
    BY <1>1, <1>2 DEF CardInv, default_bar
  <2>2. CASE k \in 1..n
    <3>1. 1..k - 1 \subseteq 1..n
      BY <1>4, <2>2
    <3>2. QED
      BY <1>1, <2>2, <3>1 DEF IInv, CardInv
  <2>3. CASE k = n + 1
    <3>1. 1..k - 1 = 1..n
      BY <1>4, <2>3
    <3>2. /\ cards'[k].pid = pid /\ cards'[k].row = row /\ cards'[k].bar = default_bar(row.pid)
          /\ cards'[k].bound = bound /\ cards'[k].node = node
      BY <1>1, <2>3
    <3>3. NodeNamed(row.name) <=> \E j \in 1..k - 1 : cards'[j].node /\ cards'[j].row.name = row.name
      BY <1>1, <3>1 DEF NodeNamed
    <3>4. QED
      BY <1>3, <3>2, <3>3
  <2>4. QED
    BY <1>4, <2>2, <2>3
<1>9. NumberInv'
  BY <1>5 DEF NumberInv
<1>10. CallerInv'
  BY <1>2, <1>5 DEF IInv, CallerInv, callerVars
<1>11. WholeName'
  BY <1>2 DEF IInv, WholeName, callerVars
<1>12. QED
  BY <1>6, <1>7, <1>8, <1>9, <1>10, <1>11 DEF IInv

-----------------------------------------------------------------------------
(* AiowdmInit and the scan. *)

(* The steps of the library's constructor leave cards and caller alone.       *)
LEMMA ScanKeeps ==
  ASSUME IInv, UNCHANGED <<driverVars, callerVars>>, library # "ready",
         library' \in {"off", "scan", "ready"}, numbers' \in Seq(1..Len(cards)), NumberInv'
  PROVE  IInv'
<1> USE DEF IInv, driverVars, callerVars
<1>1. TypeOK'
  BY DEF TypeOK
<1>2. TablesAccepted'
  BY DEF TablesAccepted
<1>3. CardInv'
  BY DEF CardInv, default_bar
<1>4. CallerInv'
  BY DEF CallerInv
<1>5. WholeName'
  BY DEF WholeName
<1>6. QED
  BY <1>1, <1>2, <1>3, <1>4, <1>5

(* At the start of the scan every node that will get a number is unread.      *)
LEMMA AiowdmInitInv == IInv /\ AiowdmInit => IInv'
<1> SUFFICES ASSUME IInv, AiowdmInit PROVE IInv'
  OBVIOUS
<1>1. /\ library = "off" /\ library' = "scan" /\ numbers' = << >>
      /\ unread' = {Entry(cards[k].row.name) : k \in Nodes}
      /\ UNCHANGED <<driverVars, callerVars>> /\ cards' = cards
  BY DEF AiowdmInit, IInv, NumberInv, driverVars
<1>2. Nodes' = Nodes
  BY <1>1 DEF Nodes
<1>3. \A k : Taken(k)' => cards'[k].row.name \in unread'
  BY <1>1, <1>2 DEF Taken
<1>4. NumberInv'
  BY <1>1, <1>2, <1>3 DEF NumberInv
<1>5. QED
  BY <1>1, <1>4, ScanKeeps

(* The constructor ends when there is nothing left to read.                   *)
LEMMA InitCompleteInv == IInv /\ InitComplete => IInv'
<1> SUFFICES ASSUME IInv, InitComplete PROVE IInv'
  OBVIOUS
<1>1. /\ library = "scan" /\ library' = "ready" /\ unread = {}
      /\ UNCHANGED <<unread, numbers, driverVars, callerVars>> /\ cards' = cards
  BY DEF InitComplete, driverVars
<1>2. Nodes' = Nodes /\ \A k : Taken(k)' <=> Taken(k)
  BY <1>1 DEF Nodes, Taken
<1>3. NumberInv'
  BY <1>1, <1>2 DEF IInv, NumberInv
<1>4. numbers' \in Seq(1..Len(cards))
  BY <1>1 DEF IInv, TypeOK
<1>5. QED
  BY <1>1, <1>3, <1>4, ScanKeeps

(* The node of an entry, if it has one that can be opened, gets the next      *)
(* number; there is one such node at most, and it had none.                   *)
LEMMA ReadEntryInv == \A e : IInv /\ ReadEntry(e) => IInv'
<1> SUFFICES ASSUME NEW e, IInv, ReadEntry(e) PROVE IInv'
  OBVIOUS
<1> DEFINE files == {k \in Nodes : cards[k].row.name = e}
           f == CHOOSE k \in files : TRUE
<1>1. /\ library = "scan" /\ library' = library /\ e \in unread /\ unread' = unread \ {e}
      /\ UNCHANGED <<driverVars, callerVars>> /\ cards' = cards
      /\ numbers' = IF PciNamed(e) /\ files # {} THEN Append(numbers, f) ELSE numbers
  BY DEF ReadEntry, driverVars
<1>2. Nodes' = Nodes /\ \A k : Taken(k)' <=> Taken(k)
  BY <1>1 DEF Nodes, Taken
<1>3. Nodes \subseteq 1..Len(cards) /\ numbers \in Seq(1..Len(cards)) /\ Len(numbers) \in Nat
  BY DEF Nodes, IInv, TypeOK
<1>4. /\ unread \subseteq {Entry(cards[k].row.name) : k \in Nodes}
      /\ \A m, n \in 1..Len(numbers) : numbers[m] = numbers[n] => m = n
      /\ \A k \in 1..Len(cards) :
           (\E n \in 1..Len(numbers) : numbers[n] = k)
             <=> Taken(k) /\ cards[k].row.name \notin unread
  BY <1>1 DEF IInv, NumberInv
<1>5. \A k \in Nodes : cards[k].row.name = e => k \in files
  OBVIOUS
<1>6. CASE PciNamed(e) /\ files # {}
  <2>1. f \in Nodes /\ cards[f].row.name = e
    BY <1>6
  <2>2. Taken(f)
    BY <1>1, <1>4, <1>6, <2>1 DEF Taken
  <2>3. \A k \in Nodes : cards[k].row.name = e => k = f
    BY <2>1, NodesDistinct DEF IInv
  <2>4. numbers' = Append(numbers, f)
    BY <1>1, <1>6
  <2> HIDE DEF f, files
  <2>5. /\ Len(numbers') = Len(numbers) + 1 /\ numbers'[Len(numbers) + 1] = f
        /\ \A n \in 1..Len(numbers) : numbers'[n] = numbers[n]
        /\ numbers' \in Seq(1..Len(cards))
    BY <1>3, <2>1, <2>4
  <2>6. \A n \in 1..Len(numbers) : numbers[n] # f
    BY <1>1, <1>3, <1>4, <2>1
  <2>7. \A m, n \in 1..Len(numbers') : numbers'[m] = numbers'[n] => m = n
    <3>1. \A n \in 1..Len(numbers') : n \in 1..Len(numbers) \/ n = Len(numbers) + 1
      BY <1>3, <2>5
    <3>2. QED
      BY <1>4, <2>5, <2>6, <3>1
  <2>8. ASSUME NEW k \in 1..Len(cards)
        PROVE  (\E n \in 1..Len(numbers') : numbers'[n] = k)
                 <=> Taken(k) /\ cards[k].row.name \notin unread'
    <3>1. (\E n \in 1..Len(numbers') : numbers'[n] = k)
            <=> k = f \/ \E n \in 1..Len(numbers) : numbers[n] = k
      <4>1. \A n \in 1..Len(numbers') : n \in 1..Len(numbers) \/ n = Len(numbers) + 1
        BY <1>3, <2>5
      <4>2. 1..Len(numbers) \subseteq 1..Len(numbers') /\ Len(numbers) + 1 \in 1..Len(numbers')
        BY <1>3, <2>5
      <4>3. QED
        BY <2>5, <4>1, <4>2
    <3>2. k # f /\ Taken(k) => cards[k].row.name # e
      BY <2>3 DEF Taken
    <3>3. QED
      BY <1>1, <1>4, <2>1, <2>2, <3>1, <3>2
  <2>9. NumberInv'
    <3>1. unread' \subseteq {Entry(cards[k].row.name) : k \in Nodes}
      BY <1>1, <1>4
    <3>2. QED
      BY <1>1, <1>2, <2>7, <2>8, <3>1 DEF NumberInv
  <2>10. QED
    BY <1>1, <2>5, <2>9, ScanKeeps
<1>7. CASE ~ (PciNamed(e) /\ files # {})
  <2>1. numbers' = numbers
    BY <1>1, <1>7
  <2>2. \A k : Taken(k) => cards[k].row.name # e
    BY <1>5, <1>7 DEF Taken
  <2> HIDE DEF files
  <2>3. unread' \subseteq {Entry(cards[k].row.name) : k \in Nodes}
    BY <1>1, <1>4
  <2>4. NumberInv'
    BY <1>1, <1>2, <1>4, <2>1, <2>2, <2>3 DEF NumberInv
  <2>5. QED
    BY <1>1, <1>3, <2>1, <2>4, ScanKeeps
<1>8. QED
  BY <1>6, <1>7

-----------------------------------------------------------------------------
(* The program that asks. *)

(* Its steps leave cards and library alone.                                   *)
LEMMA CallKeeps ==
  ASSUME IInv, UNCHANGED <<driverVars, libVars>>, CallerInv', WholeName',
         size' \in 0..NameBuffer, asked' \in -1..Len(Kinds) - 1,
         reply'.status \in {0, -EINVAL}, reply'.num \in 0..Len(Kinds),
         reply'.terminated \in BOOLEAN
  PROVE  IInv'
<1> USE DEF IInv, driverVars, libVars
<1>1. TypeOK'
  BY Zenon DEF TypeOK
<1>2. TablesAccepted'
  BY DEF TablesAccepted
<1>3. CardInv'
  BY DEF CardInv, default_bar
<1>4. NumberInv'
  BY DEF NumberInv, Taken, Nodes
<1>5. QED
  BY <1>1, <1>2, <1>3, <1>4

(* A program that sets its size has neither a name nor the size of one.       *)
LEMMA SetSizeInv == \A n \in {0, NameBuffer} : IInv /\ SetSize(n) => IInv'
<1> SUFFICES ASSUME NEW n \in {0, NameBuffer}, IInv, SetSize(n) PROVE IInv'
  OBVIOUS
<1>1. /\ size' = n /\ asked' = -1 /\ reply' = NoReply
      /\ UNCHANGED <<driverVars, libVars>>
  BY DEF SetSize
<1>2. Len(Kinds) \in Nat /\ NameBuffer \in Nat
  BY CatalogueAssumption
<1>3. size' \in 0..NameBuffer /\ asked' \in -1..Len(Kinds) - 1 /\ 0 \in 0..Len(Kinds)
  BY <1>1, <1>2
<1>4. reply'.status = 0 /\ reply'.num = 0 /\ reply'.terminated = FALSE /\ reply'.name = ""
  BY <1>1 DEF NoReply
<1>5. CallerInv'
  BY <1>1 DEF CallerInv
<1>6. WholeName'
  BY <1>4 DEF WholeName
<1>7. /\ reply'.status \in {0, -EINVAL} /\ reply'.num \in 0..Len(Kinds)
      /\ reply'.terminated \in BOOLEAN
  BY <1>3, <1>4, Zenon
<1>8. QED
  BY <1>1, <1>3, <1>5, <1>6, <1>7, CallKeeps

(* The card with a number, and the name that the library keeps of it.         *)
LEMMA NumberedCard ==
  ASSUME IInv, NEW num \in Nat, num < Len(numbers)
  PROVE  LET d == CardDescriptor(numbers[num + 1]) IN
         \E i \in 1..NUM_ACCES_PCI_DEVICES :
           /\ d.device_id = Row(i).pid /\ d.name = Row(i).name
           /\ d.name_size = Len(Row(i).name) /\ d.name_size \in 1..NameBuffer - 1
           /\ Row(i).name = NameOf(num)
<1>1. numbers \in Seq(1..Len(cards)) /\ TypeOK /\ CardInv
  BY DEF IInv, TypeOK
<1>2. numbers[num + 1] \in 1..Len(cards)
  BY <1>1
<1>3. PICK i \in 1..NUM_ACCES_PCI_DEVICES : cards[numbers[num + 1]].row = Row(i)
  BY <1>1, <1>2, RowOfCard
<1>4. Len(Row(i).name) \in 1..NameBuffer - 1
  BY CatalogueAssumption
<1>5. QED
  BY <1>3, <1>4 DEF CardDescriptor, NameOf

(* An answer with a name copies it with the size the program set, or with the *)
(* one that this call or an earlier one gave: the cases differ in the 0 only. *)
LEMMA QueryCardInfoInv ==
  ASSUME NEW num \in 0..Len(Kinds) - 1, NEW sized \in BOOLEAN, NEW named \in BOOLEAN,
         IInv, QueryCardInfo(num, sized, named)
  PROVE  IInv'
<1> DEFINE d == CardDescriptor(numbers[num + 1])
           n == IF size = 0 THEN d.name_size ELSE size
           answer == [NoReply EXCEPT !.device_id = d.device_id,
                                     !.port_base = d.port_base, !.num = num]
<1>1. UNCHANGED <<driverVars, libVars>> /\ library = "ready"
  BY DEF QueryCardInfo
<1>2. /\ Len(Kinds) \in Nat /\ NameBuffer \in Nat /\ Len(numbers) \in Nat
      /\ num \in Nat /\ num \in 0..Len(Kinds) /\ 0 \in 0..Len(Kinds) /\ num # -1
      /\ size \in 0..NameBuffer /\ asked \in -1..Len(Kinds) - 1
  BY CatalogueAssumption DEF IInv, TypeOK
<1>3. cards' = cards /\ numbers' = numbers /\ library' = "ready"
  BY <1>1 DEF driverVars, libVars
<1>4. ASSUME reply'.name = "", UNCHANGED <<size, asked>>, reply'.status \in {0, -EINVAL},
             reply'.num \in 0..Len(Kinds), reply'.terminated = FALSE
      PROVE  IInv'
  <2>1. CallerInv'
    BY <1>3, <1>4 DEF IInv, CallerInv, NameOf
  <2>2. WholeName'
    BY <1>4 DEF WholeName
  <2>3. reply'.terminated \in BOOLEAN
    BY <1>4
  <2>4. size' \in 0..NameBuffer /\ asked' \in -1..Len(Kinds) - 1
    BY <1>2, <1>4
  <2>5. QED
    BY <1>1, <1>4, <2>1, <2>2, <2>3, <2>4, CallKeeps
<1>5. CASE num >= Len(numbers) /\ reply' = [NoReply EXCEPT !.status = -EINVAL]
           /\ UNCHANGED <<size, asked>>
  <2>1. /\ reply'.name = "" /\ reply'.status = -EINVAL /\ reply'.num = 0
        /\ reply'.terminated = FALSE
    BY <1>5 DEF NoReply
  <2>2. QED
    BY <1>2, <1>4, <1>5, <2>1
<1>6. CASE /\ num < Len(numbers)
           /\ reply' = [answer EXCEPT !.status = IF named THEN -EINVAL ELSE 0]
           /\ UNCHANGED <<size, asked>>
  <2>1. /\ reply'.name = "" /\ reply'.status \in {0, -EINVAL} /\ reply'.num = num
        /\ reply'.terminated = FALSE
    BY <1>6 DEF NoReply
  <2>2. QED
    BY <1>2, <1>4, <1>6, <2>1
<1>7. CASE /\ num < Len(numbers)
           /\ size' = n /\ asked' = IF size = 0 THEN num ELSE asked
           /\ reply' = IF named
                       THEN [answer EXCEPT !.name = strncpy(d.name, n),
                                           !.terminated = n > d.name_size]
                       ELSE answer
  <2>1. PICK i \in 1..NUM_ACCES_PCI_DEVICES :
               /\ d.device_id = Row(i).pid /\ d.name = Row(i).name
               /\ d.name_size = Len(Row(i).name) /\ d.name_size \in 1..NameBuffer - 1
               /\ Row(i).name = NameOf(num)
    BY <1>2, <1>7, NumberedCard
  <2> DEFINE size0 == d.name_size
  <2>2. /\ reply'.device_id = d.device_id /\ reply'.num = num /\ reply'.status = 0
        /\ named => reply'.name = strncpy(d.name, n) /\ (reply'.terminated <=> n > size0)
        /\ ~named => reply'.name = "" /\ reply'.terminated = FALSE
        /\ reply'.terminated \in BOOLEAN
    <3> HIDE DEF d, n
    <3>1. CASE named
      <4> DEFINE x == strncpy(d.name, n)
                 t == n > size0
      <4>1. reply' = [answer EXCEPT !.name = x, !.terminated = t] /\ t \in BOOLEAN
        BY <1>7, <3>1
      <4> HIDE DEF x, t
      <4>2. /\ reply'.device_id = d.device_id /\ reply'.num = num /\ reply'.status = 0
            /\ reply'.name = x /\ reply'.terminated = t
        BY <4>1 DEF NoReply
      <4>3. QED
        BY <3>1, <4>1, <4>2, Zenon DEF x, t
    <3>2. CASE ~named
      BY <1>7, <3>2 DEF NoReply
    <3>3. QED
      BY <3>1, <3>2
  <2>3. /\ asked = -1 => size \in {0, NameBuffer}
        /\ asked # -1 => asked < Len(numbers) /\ size = Len(NameOf(asked))
    BY DEF IInv, CallerInv
  <2>4. n \in 0..NameBuffer /\ asked' \in -1..Len(Kinds) - 1
    BY <1>2, <1>7, <2>1
  <2>5. CallerInv'
    <3>1. NameOf(asked)' = NameOf(asked') /\ NameOf(num) = d.name
      BY <1>3, <2>1 DEF NameOf
    <3>2. CASE size = 0
      BY <1>2, <1>3, <1>7, <2>1, <3>1, <3>2 DEF CallerInv
    <3>3. CASE size # 0
      BY <1>3, <1>7, <2>3, <3>1, <3>3 DEF CallerInv
    <3>4. QED
      BY <3>2, <3>3
  <2>6. WholeName'
    <3>1. SUFFICES ASSUME named, asked' \in {-1, num}
                   PROVE  /\ strncpy(Row(i).name, n) = Lookup(Row(i).pid).name
                          /\ n > size0 <=> asked' = -1
      BY <2>1, <2>2 DEF WholeName
    <3>2. n >= size0 /\ (n > size0 <=> asked' = -1)
      <4>1. CASE size = 0
        BY <1>2, <1>7, <2>1, <4>1
      <4>2. CASE size # 0 /\ asked = -1
        BY <1>2, <1>7, <2>1, <2>3, <4>2
      <4>3. CASE size # 0 /\ asked = num
        BY <1>2, <1>7, <2>1, <2>3, <4>3
      <4>4. QED
        BY <1>7, <3>1, <4>1, <4>2, <4>3
    <3>3. strncpy(Row(i).name, n) = Row(i).name
      BY <1>2, <2>1, <2>4, <3>2, WholeCopy
    <3>4. QED
      BY <3>2, <3>3, LookupRow
  <2>7. reply'.status \in {0, -EINVAL} /\ reply'.num \in 0..Len(Kinds)
    BY <1>2, <2>2
  <2>8. size' \in 0..NameBuffer
    BY <1>7, <2>4
  <2>9. QED
    BY <1>1, <2>2, <2>4, <2>5, <2>6, <2>7, <2>8, CallKeeps
<1>8. QED
  BY <1>5, <1>6, <1>7 DEF QueryCardInfo

-----------------------------------------------------------------------------
(* The invariant. *)

(* Every step keeps the invariant.                                            *)
LEMMA NextInv == IInv /\ [Next]_vars => IInv'
<1> SUFFICES ASSUME IInv, [Next]_vars PROVE IInv'
  OBVIOUS
<1>1. CASE \E pid \in UNION {Kinds[k] : k \in 1..Len(Kinds)} : Probe(pid)
  BY <1>1, ProbeInv
<1>2. CASE \E e \in unread : ReadEntry(e)
  BY <1>2, ReadEntryInv
<1>3. CASE \E n \in {0, NameBuffer} : SetSize(n)
  BY <1>3, SetSizeInv
<1>4. CASE \E num \in 0..Len(Kinds) - 1, sized \in BOOLEAN, named \in BOOLEAN :
             QueryCardInfo(num, sized, named)
  BY <1>4, QueryCardInfoInv
<1>5. CASE UNCHANGED vars
  <2>1. /\ UNCHANGED <<io, cards, libVars, callerVars>>
        /\ module' = module /\ index' = index
    BY <1>5 DEF vars, libVars, callerVars
  <2>2. module \in {"loading", "in"} /\ index \in 1..NUM_ACCES_PCI_DEVICES + 1
    BY DEF IInv, TypeOK, TablesAccepted
  <2>3. QED
    BY <2>1, <2>2, LoadKeeps
<1>6. QED
  BY <1>1, <1>2, <1>3, <1>4, <1>5, CompareRowInv, CompareEndInv, AiowdmInitInv,
     InitCompleteInv DEF Next

(* The parts of the inductive invariant hold together in every state: of the  *)
(* comparison, probe, the library's constructor and QueryCardInfo no step     *)
(* breaks one of them, for any number of cards of any kinds.                  *)
THEOREM CatalogueInvariant == Spec => []IInv
<1>1. QED
  BY InitInv, NextInv, PTL DEF Spec

(* Every variable keeps its type: the list of cards is no longer than the     *)
(* machine's, and a number always leads to a card in it.                      *)
THEOREM CatalogueTypes == Spec => []TypeOK
<1>1. IInv => TypeOK
  BY DEF IInv
<1>2. QED
  BY <1>1, CatalogueInvariant, PTL

(* accesio_pci_init accepts the two tables of the header: all 121 ids agree   *)
(* and the 0 comes next.                                                      *)
THEOREM CatalogueTablesAccepted == Spec => []TablesAccepted
<1>1. IInv => TablesAccepted
  BY DEF IInv
<1>2. QED
  BY <1>1, CatalogueInvariant, PTL

(* Every card gets from probe the handler for the registers it is wired with, *)
(* and is refused exactly if nobody has described them.                       *)
THEOREM CatalogueHandlerFitsCard == Spec => []HandlerFitsCard
<1>1. IInv => HandlerFitsCard
  <2>1. SUFFICES ASSUME IInv, NEW k \in 1..Len(cards)
                 PROVE  LET s == cards[k].row.style
                            w == Wiring(cards[k].pid)
                        IN  /\ s = IF w = "unlisted" THEN "adio16f" ELSE w
                            /\ cards[k].bound <=> w # "NULL"
    BY DEF HandlerFitsCard
  <2>2. PICK i \in 1..NUM_ACCES_PCI_DEVICES : cards[k].row = Row(i) /\ Row(i).pid = cards[k].pid
    BY <2>1, RowOfCard DEF IInv
  <2>3. Row(i).style = IF Wiring(Row(i).pid) = "unlisted" THEN "adio16f" ELSE Wiring(Row(i).pid)
    BY StylesFit
  <2>4. cards[k].bound <=> Row(i).style # "NULL"
    BY <2>1, <2>2 DEF IInv, CardInv
  <2>5. QED
    BY <2>2, <2>3, <2>4
<1>2. QED
  BY <1>1, CatalogueInvariant, PTL

(* Of the cards that are bound only those with the id C2EF have BAR 2, where  *)
(* the registers of the handlers are, as the default that the library uses.   *)
THEOREM CatalogueRegistersInReach == Spec => []RegistersInReach
<1>1. IInv => RegistersInReach
  <2>1. SUFFICES ASSUME IInv, NEW k \in 1..Len(cards)
                 PROVE  cards[k].bar = 2 <=> cards[k].pid = \hC2EF
    BY DEF RegistersInReach
  <2>2. cards[k].pid \in Overridden <=> cards[k].pid = \hC2EF
    BY <2>1, RowOfCard, OverriddenIds DEF IInv
  <2>3. cards[k].bar = default_bar(cards[k].pid)
    BY <2>1 DEF IInv, CardInv
  <2>4. QED
    BY <2>2, <2>3 DEF default_bar
<1>2. QED
  BY <1>1, CatalogueInvariant, PTL

(* The nodes that the constructor takes are those of the bound cards that are *)
(* not in Unlisted and that no card before them kept from their name.         *)
LEMMA TakenCards ==
  ASSUME IInv, NEW k \in 1..Len(cards)
  PROVE  Taken(k) <=>
           /\ cards[k].bound /\ cards[k].pid \notin Unlisted
           /\ \A j \in 1..k - 1 : ~SameNode(cards[j].pid, cards[k].pid)
<1>1. TypeOK /\ CardInv /\ Len(cards) \in Nat
  BY DEF IInv, TypeOK
<1>2. PICK i \in 1..NUM_ACCES_PCI_DEVICES : cards[k].row = Row(i) /\ Row(i).pid = cards[k].pid
  BY <1>1, RowOfCard
<1>3. 1..k - 1 \subseteq 1..Len(cards)
  BY <1>1
<1>4. cards[k].bound <=> Row(i).style # "NULL"
  BY <1>1, <1>2 DEF CardInv
<1>5. cards[k].bound =>
        ((Slashes(Row(i).name) = {} /\ PciNamed(Row(i).name)) <=> cards[k].pid \notin Unlisted)
  BY <1>2, <1>4, NamesAssumption DEF PciNamed
<1>6. cards[k].node <=>
        /\ cards[k].bound
        /\ \A j \in 1..k - 1 : ~ (cards[j].node /\ cards[j].row.name = cards[k].row.name)
  BY <1>1 DEF CardInv
<1>7. ASSUME Taken(k)
      PROVE  /\ cards[k].bound /\ cards[k].pid \notin Unlisted
             /\ \A j \in 1..k - 1 : ~SameNode(cards[j].pid, cards[k].pid)
  <2>1. cards[k].node /\ PciNamed(Row(i).name)
    BY <1>2, <1>7 DEF Taken, Nodes
  <2>2. PICK j \in Nodes : Row(i).name = Entry(cards[j].row.name)
    BY <1>2, <1>7 DEF Taken
  <2>3. j \in 1..Len(cards)
    BY <2>2 DEF Nodes
  <2>4. PICK h \in 1..NUM_ACCES_PCI_DEVICES : cards[j].row = Row(h)
    BY <1>1, <2>3, RowOfCard
  <2>5. Slashes(Row(i).name) = {}
    BY <2>2, <2>4, NamesAssumption
  <2>6. cards[k].bound /\ cards[k].pid \notin Unlisted
    BY <1>5, <1>6, <2>1, <2>5
  <2>7. ASSUME NEW l \in 1..k - 1, SameNode(cards[l].pid, cards[k].pid)
        PROVE  FALSE
    <3>1. PICK g \in 1..NUM_ACCES_PCI_DEVICES :
                 cards[l].row = Row(g) /\ Row(g).pid = cards[l].pid
      BY <1>1, <1>3, RowOfCard
    <3>2. Row(g).name = Row(i).name /\ Row(g).style = Row(i).style
      BY <1>2, <2>7, <3>1, NamesDistinct
    <3>3. cards[l].bound
      BY <1>1, <1>3, <1>4, <2>6, <3>1, <3>2 DEF CardInv
    <3>4. cards[l].node <=>
            \A m \in 1..l - 1 : ~ (cards[m].node /\ cards[m].row.name = cards[l].row.name)
      BY <1>1, <1>3, <3>3 DEF CardInv
    <3>5. \E m \in 1..k - 1 : cards[m].node /\ cards[m].row.name = cards[l].row.name
      <4>1. 1..l - 1 \subseteq 1..k - 1
        BY <1>1
      <4>2. QED
        BY <3>4, <4>1
    <3>6. QED
      BY <1>2, <1>6, <2>1, <3>1, <3>2, <3>5
  <2>8. QED
    BY <2>6, <2>7
<1>8. ASSUME cards[k].bound, cards[k].pid \notin Unlisted,
             \A j \in 1..k - 1 : ~SameNode(cards[j].pid, cards[k].pid)
      PROVE  Taken(k)
  <2>1. Slashes(Row(i).name) = {} /\ PciNamed(Row(i).name)
    BY <1>5, <1>8
  <2>2. ASSUME NEW j \in 1..k - 1, cards[j].node, cards[j].row.name = cards[k].row.name
        PROVE  FALSE
    <3>1. PICK g \in 1..NUM_ACCES_PCI_DEVICES :
                 cards[j].row = Row(g) /\ Row(g).pid = cards[j].pid
      BY <1>1, <1>3, RowOfCard
    <3>2. Row(g).style # "NULL"
      BY <1>1, <1>3, <2>2, <3>1 DEF CardInv
    <3>3. SameNode(Row(g).pid, Row(i).pid)
      BY <1>2, <1>4, <1>8, <2>2, <3>1, <3>2, NamesDistinct
    <3>4. QED
      BY <1>2, <1>8, <3>1, <3>3
  <2>3. k \in Nodes
    BY <1>6, <1>8, <2>2 DEF Nodes
  <2>4. Entry(Row(i).name) = Row(i).name
    BY <2>1 DEF Entry
  <2>5. QED
    BY <1>2, <2>1, <2>3, <2>4 DEF Taken
<1>9. QED
  BY <1>7, <1>8

(* When AiowdmInit has returned, every bound card has exactly one number, but *)
(* for the kinds in Unlisted and the later of two cards that want one node;   *)
(* a card that was refused has none.                                          *)
THEOREM CatalogueEveryCardNumbered == Spec => []EveryCardNumbered
<1>1. IInv => EveryCardNumbered
  <2>1. SUFFICES ASSUME IInv, library = "ready", NEW k \in 1..Len(cards)
                 PROVE  Cardinality({n \in 1..Len(numbers) : numbers[n] = k}) =
                          IF Taken(k) THEN 1 ELSE 0
    BY TakenCards DEF EveryCardNumbered
  <2> DEFINE S == {n \in 1..Len(numbers) : numbers[n] = k}
  <2>2. /\ (\E n \in 1..Len(numbers) : numbers[n] = k) <=> Taken(k)
        /\ \A m, n \in 1..Len(numbers) : numbers[m] = numbers[n] => m = n
    BY <2>1 DEF IInv, NumberInv
  <2>3. CASE Taken(k)
    <3>1. PICK n \in 1..Len(numbers) : numbers[n] = k
      BY <2>2, <2>3
    <3>2. S = {n}
      BY <2>2, <3>1
    <3>3. QED
      BY <2>3, <3>2, FS_Singleton
  <2>4. CASE ~Taken(k)
    <3>1. S = {}
      BY <2>2, <2>4
    <3>2. QED
      BY <2>4, <3>1, FS_EmptySet
  <2>5. QED
    BY <2>3, <2>4
<1>2. QED
  BY <1>1, CatalogueInvariant, PTL

(* QueryCardInfo gives the whole name of the kind it reports to a program     *)
(* with a large enough buffer, or with the size it got for that card, and in  *)
(* the second case never the terminating 0.                                   *)
THEOREM CatalogueWholeName == Spec => []WholeName
<1>1. IInv => WholeName
  BY DEF IInv
<1>2. QED
  BY <1>1, CatalogueInvariant, PTL
=============================================================================
