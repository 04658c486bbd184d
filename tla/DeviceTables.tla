--------------------------- MODULE DeviceTables ---------------------------
(***************************************************************************)
(* The tables of src/include/accesio_pci_ids.h as data: the descriptors    *)
(* with which the driver knows its 121 kinds of cards and the id table it  *)
(* gives to the PCI core.  Beside them the table of the old module, which  *)
(* has the wiring of 108 of the kinds.                                     *)
(*                                                                         *)
(* A descriptor is device id, name and style.  The style stands for isr,   *)
(* enable and disable, which always belong together; NULL for a row where  *)
(* all three are NULL.  init and clear are NULL in every row, and has_dma  *)
(* is set in those of the adio16f style.                                   *)
(***************************************************************************)
EXTENDS Integers, Sequences

Rows0100 == <<
  <<\h0100, "mpcie-dio-24s", "pcie_2">>,
  <<\h0101, "mpcie-idio-8", "pcie_2">>,
  <<\h0102, "mpcie-iiro-8", "pcie_2">>,
  <<\h0103, "mpcie-idio-4", "pcie_2">>,
  <<\h0104, "mpcie-iiro-4", "pcie_2">>, <<\h0105, "mpcie-ido-8", "pcie_2">>,
  <<\h0106, "mpcie-ro-8", "pcie_2">>, <<\h0107, "mpcie-ii-16", "pcie_2">>,
  <<\h0108, "mpcie-ii-8", "pcie_2">>, <<\h0109, "mpcie-ii-4", "pcie_2">>,
  <<\h010A, "mpcie-quad-4", "pcie_2">>,
  <<\h010B, "mpcie-quad-8", "pcie_2">>, <<\h010C, "mod-tbd", "NULL">>,
  <<\h010D, "mod-tbd", "NULL">>>>

Rows010E == <<
  <<\h010E, "mod-tbd", "NULL">>, <<\h010F, "mod-tbd", "NULL">>,
  <<\h0508, "pci-ido-16a", "NULL">>, <<\h0518, "pci-ido-32a", "NULL">>,
  <<\h0520, "pci-ido-48", "NULL">>, <<\h0521, "pci-ido-48a", "NULL">>,
  <<\h0703, "pcie-ro-4", "pcie_3">>, <<\h07C0, "pcie-ido-12", "NULL">>,
  <<\h07D0, "pcie-ido-24", "pcie_6">>, <<\h0920, "pci-idi-48", "pci_5">>,
  <<\h0BC0, "pcie-idi-12a", "NULL">>, <<\h0BC1, "pcie-idi-12b", "NULL">>,
  <<\h0BD0, "pcie-idi-24", "pcie_6">>, <<\h0BD1, "pcie-idi-24b", "NULL">>>>

Rows0C40 == <<
  <<\h0C40, "pcie-dio-144", "pcie_1">>, <<\h0C50, "pci-dio-24h", "pci_10">>,
  <<\h0C51, "pci-dio-24d", "pci_10">>, <<\h0C52, "pcie-dio-24", "pcie_7">>,
  <<\h0C53, "pcie-dio-24d/h", "pcie_7">>,
  <<\h0C54, "pcie-dio-24hc", "pcie_4">>,
  <<\h0C57, "mpcie-dio-24", "pcie_4">>,
  <<\h0C60, "pci-dio-48(h)", "pci_8">>, <<\h0C61, "pcie-dio-48", "pcie_4">>,
  <<\h0C62, "p104-dio-48", "NULL">>, <<\h0C68, "pci-dio-72", "pci_2">>,
  <<\h0C69, "p104-dio-96", "NULL">>, <<\h0C6A, "pcie-dio-72", "pcie_1">>,
  <<\h0C70, "pci-dio-96", "pci_2">>>>

Rows0C71 == <<
  <<\h0C71, "pcie-dio-96", "pcie_1">>, <<\h0C78, "pci-dio-120", "pci_2">>,
  <<\h0C79, "pcie-dio-120", "pcie_1">>, <<\h0DC8, "pci-idio-16", "pci_3">>,
  <<\h0E50, "pci-dio-24s", "pci_8">>,
  <<\h0E51, "pci-dio-24h(c)", "pci_10">>,
  <<\h0E52, "pci-dio-24d(c)", "pci_10">>,
  <<\h0E53, "pcie-dio-24s", "pcie_4">>,
  <<\h0E54, "pcie-dio-24ds-hs", "pcie_4">>,
  <<\h0E55, "pcie-dio-24dc", "pcie_7">>,
  <<\h0E56, "pcie-dio-24dcs", "pcie_4">>,
  <<\h0E57, "pci-dio-48hs", "pcie_4">>, <<\h0E60, "pci-dio-48s", "pci_8">>,
  <<\h0E61, "pcie-dio-48s", "pcie_4">>>>

Rows0E62 == <<
  <<\h0E62, "p104-dio-48s", "NULL">>, <<\h0E63, "pcie-ez-blend", "NULL">>,
  <<\h0E6A, "pcie-dio-72s", "pcie_1">>,
  <<\h0E71, "pcie-dio-96s", "pcie_1">>,
  <<\h0E79, "pcie-dio-120s", "pcie_1">>, <<\h0F00, "pci-iiro-8", "pci_3">>,
  <<\h0F01, "lpci-iiro-8", "pci_3">>, <<\h0F02, "pcie-iiro-8", "pcie_3">>,
  <<\h0F08, "pci-iiro-16", "pci_3">>, <<\h0F09, "pcie-iiro-16", "pcie_3">>,
  <<\h0FC0, "pcie-idio-12", "pcie_6">>, <<\h0FC1, "pcie-idi-12", "pcie_6">>,
  <<\h0FC2, "pcie-ido-12", "pcie_6">>, <<\h0FD0, "pcie-idio-24", "pcie_6">>>>

Rows0FD1 == <<
  <<\h0FD1, "pcie-idio-24b", "NULL">>, <<\h2230, "pci-quad-8", "pci_13">>,
  <<\h2231, "pci-quad-4", "pci_13">>, <<\h22C0, "pci-wdg-csm", "pci_7">>,
  <<\h25C0, "p104-wdg-e", "pci_6">>, <<\h2C50, "pci-dio-96ct", "pci_2">>,
  <<\h2C58, "pci-dio-96c3", "pci_2">>,
  <<\h2C59, "pcie-dio-96c3", "pcie_1">>, <<\h2C70, "pci-dio-96ct", "NULL">>,
  <<\h2E50, "mpcie-dio-24a", "pcie_4">>,
  <<\h2EE0, "pcie-dio24s-ctr12", "pcie_5">>,
  <<\h2FC0, "p104-wdg-csm", "pci_6">>, <<\h2FC1, "p104-wdg-csma", "pci_6">>,
  <<\h4890, "pcie-da12-2", "pcie_8">>>>

Rows4898 == <<
  <<\h4898, "pcie-da12-4", "pcie_8">>, <<\h48A0, "pcie-da12-6", "pcie_8">>,
  <<\h48A8, "pcie-da12-8", "pcie_8">>, <<\h48B0, "pcie-da12-16", "pcie_8">>,
  <<\h48D0, "pcie-da16-2", "pcie_8">>, <<\h48D8, "pcie-da16-4", "pcie_8">>,
  <<\h48E0, "pcie-da16-6", "pcie_8">>, <<\h48E8, "pcie-da16-8", "pcie_8">>,
  <<\h48F0, "pcie-da16-16", "pcie_8">>, <<\h5ED0, "pci-dac", "NULL">>,
  <<\h6C90, "pci-da12-2", "pci_4">>, <<\h6C98, "pci-da12-4", "pci_4">>,
  <<\h6CA0, "pci-da12-6", "pci_4">>, <<\h6CA8, "pci-da12-8", "pci_4">>>>

Rows6CA9 == <<
  <<\h6CA9, "pci-da12-8v", "pci_4">>, <<\h6CB0, "pci-da12-16", "pci_4">>,
  <<\h6CB1, "pci-da12-16v", "pci_4">>, <<\hACA8, "pci-ai12-16", "pci_12">>,
  <<\hACA9, "pci-ai12-16a", "pci_12">>,
  <<\hECA8, "pci-aio12-16", "pci_12">>, <<\hECA9, "pci-a12-16", "pci_12">>,
  <<\hECAA, "pci-a12-16a", "pci_12">>, <<\hECE8, "lpci-a16-16a", "pci_9">>,
  <<\hECE9, "lpci-aio16a", "pci_1">>,
  <<\hC2EF, "pcie-adio16-16fds", "adio16f">>,
  <<\hC2EC, "pcie-adio16-16f", "adio16f">>,
  <<\hC2ED, "pcie-adio16-16a", "adio16f">>,
  <<\hC2EE, "pcie-adio16-16e", "adio16f">>>>

Rows82EC == <<
  <<\h82EC, "pcie-adi16-16f", "adio16f">>,
  <<\h82ED, "pcie-adi16-16a", "adio16f">>,
  <<\h82EE, "pcie-adi16-16e", "adio16f">>,
  <<\hC25C, "pcie-adio12-16a", "adio16f">>,
  <<\hC25D, "pcie-adio12-16", "adio16f">>,
  <<\hC25E, "pcie-adio12-16e", "adio16f">>,
  <<\h825C, "pcie-adi12-16a", "adio16f">>,
  <<\h825D, "pcie-adi12-16f", "adio16f">>,
  <<\h825E, "pcie-adi12-16f", "adio16f">>>>

accesio_pci_device_descriptors ==
  Rows0100 \o Rows010E \o Rows0C40 \o Rows0C71 \o Rows0E62 \o Rows0FD1
  \o Rows4898 \o Rows6CA9 \o Rows82EC

NUM_ACCES_PCI_DEVICES == Len(accesio_pci_device_descriptors)

Row(i) == LET d == accesio_pci_device_descriptors[i]
          IN  [pid |-> d[1], name |-> d[2], style |-> d[3]]

(* The 0 ends the table. *)
acces_pci_id_table == <<
  \h0100, \h0101, \h0102, \h0103, \h0104, \h0105, \h0106, \h0107, \h0108,
  \h0109, \h010A, \h010B, \h010C, \h010D, \h010E, \h010F, \h0508, \h0518,
  \h0520, \h0521, \h0703, \h07C0, \h07D0, \h0920, \h0BC0, \h0BC1, \h0BD0,
  \h0BD1, \h0C40, \h0C50, \h0C51, \h0C52, \h0C53, \h0C54, \h0C57, \h0C60,
  \h0C61, \h0C62, \h0C68, \h0C69, \h0C6A, \h0C70, \h0C71, \h0C78, \h0C79,
  \h0DC8, \h0E50, \h0E51, \h0E52, \h0E53, \h0E54, \h0E55, \h0E56, \h0E57,
  \h0E60, \h0E61, \h0E62, \h0E63, \h0E6A, \h0E71, \h0E79, \h0F00, \h0F01,
  \h0F02, \h0F08, \h0F09, \h0FC0, \h0FC1, \h0FC2, \h0FD0, \h0FD1, \h2230,
  \h2231, \h22C0, \h25C0, \h2C50, \h2C58, \h2C59, \h2C70, \h2E50, \h2EE0,
  \h2FC0, \h2FC1, \h4890, \h4898, \h48A0, \h48A8, \h48B0, \h48D0, \h48D8,
  \h48E0, \h48E8, \h48F0, \h5ED0, \h6C90, \h6C98, \h6CA0, \h6CA8, \h6CA9,
  \h6CB0, \h6CB1, \hACA8, \hACA9, \hECA8, \hECA9, \hECAA, \hECE8, \hECE9,
  \hC2EF, \hC2EC, \hC2ED, \hC2EE, \h82EC, \h82ED, \h82EE, \hC25C, \hC25D,
  \hC25E, \h825C, \h825D, \h825E, 0>>

-----------------------------------------------------------------------------
(* The styles of the old table with the kinds of cards that have them.  NYI, *)
(* PCI_NO_IRQ and pci_11 describe no interrupt registers.                    *)

Old0100 == {
  <<"pcie_2", {\h0100, \h0101, \h0102, \h0103, \h0104, \h0105, \h0106,
               \h0107, \h0108, \h0109, \h010A, \h010B}>>,
  <<"NYI", {\h010C, \h010D, \h010E, \h010F, \h07C0, \h0BC0, \h0BC1,
            \h0BD1}>>,
  <<"PCI_NO_IRQ", {\h0508, \h0518, \h0520, \h0521, \h0C62, \h0C69}>>,
  <<"pcie_3", {\h0703}>>,
  <<"pcie_6", {\h07D0, \h0BD0}>>,
  <<"pci_5", {\h0920}>>,
  <<"pcie_1", {\h0C40, \h0C6A, \h0C71, \h0C79}>>,
  <<"pci_10", {\h0C50, \h0C51, \h0E51, \h0E52}>>,
  <<"pcie_7", {\h0C52, \h0C53}>>,
  <<"pcie_4", {\h0C54, \h0C57, \h0C61}>>,
  <<"pci_8", {\h0C60, \h0E50}>>,
  <<"pci_2", {\h0C68, \h0C70, \h0C78}>>,
  <<"pci_3", {\h0DC8}>>}

Old0E53 == {
  <<"pcie_4", {\h0E53, \h0E54, \h0E56, \h0E57, \h0E61, \h2E50}>>,
  <<"pcie_7", {\h0E55}>>,
  <<"pci_8", {\h0E60}>>,
  <<"pci_11", {\h0E62}>>,
  <<"NYI", {\h0E63, \h0FD1, \h2C70, \h5ED0}>>,
  <<"pcie_1", {\h0E6A, \h0E71, \h0E79, \h2C59}>>,
  <<"pci_3", {\h0F00, \h0F01, \h0F08}>>,
  <<"pcie_3", {\h0F02, \h0F09}>>,
  <<"pcie_6", {\h0FC0, \h0FC1, \h0FC2, \h0FD0}>>,
  <<"pci_13", {\h2230, \h2231}>>,
  <<"pci_7", {\h22C0}>>,
  <<"pci_6", {\h25C0, \h2FC0, \h2FC1}>>,
  <<"pci_2", {\h2C50, \h2C58}>>,
  <<"pcie_5", {\h2EE0}>>,
  <<"pcie_8", {\h4890, \h4898, \h48A0, \h48A8, \h48B0, \h48D0, \h48D8,
               \h48E0, \h48E8, \h48F0}>>,
  <<"pci_4", {\h6C90, \h6C98, \h6CA0, \h6CA8}>>}

Old6CA9 == {
  <<"pci_4", {\h6CA9, \h6CB0, \h6CB1}>>,
  <<"pci_12", {\hACA8, \hACA9, \hECA8, \hECA9, \hECAA}>>,
  <<"pci_9", {\hECE8}>>,
  <<"pci_1", {\hECE9}>>}

Undescribed == {"NYI", "PCI_NO_IRQ", "pci_11"}

(* The style whose handler fits the card: NULL if its interrupt registers    *)
(* are not described, "unlisted" if the old table does not have the card.    *)
Wiring(pid) ==
  LET styles == {w[1] : w \in {w \in Old0100 \cup Old0E53 \cup Old6CA9 : pid \in w[2]}}
  IN  CASE styles = {} -> "unlisted"
        [] styles # {} /\ styles \subseteq Undescribed -> "NULL"
        [] OTHER -> CHOOSE s \in styles : TRUE
=============================================================================
