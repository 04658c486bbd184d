-------------------------- MODULE MCCardCatalogue --------------------------
(* The cards in the machine for checking CardCatalogue with TLC. *)
EXTENDS CardCatalogue

AllKinds == {acces_pci_id_table[i] : i \in 1..NUM_ACCES_PCI_DEVICES}

(* A card of every kind, and a second one: each way of being left without a  *)
(* number or a handler, both kinds of a shared name, and two ordinary ones.  *)
Companions == {\h0100, \h07C0, \h0C53, \h0FC2, \h25C0, \h2C70, \h825D, \h825E, \hC2EF}

TwoCards == <<AllKinds, Companions>>
=============================================================================
