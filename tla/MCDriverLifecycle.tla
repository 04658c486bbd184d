------------------------- MODULE MCDriverLifecycle -------------------------
(* Cards, tables and failures for checking DriverLifecycle with TLC. *)
EXTENDS DriverRefinement

CONSTANTS k1, k2, f1

TwoCards == {k1, k2}
OneCard  == {k1}
OneFile  == {f1}
NoFiles  == {}

Device(pid, name, handler, dma) ==
  [pid |-> pid, name |-> name, isr |-> handler, has_dma |-> dma]

Adio16f == Device(1, "pcie-adio16-16f", "adio16f", TRUE)
Dio24   == Device(2, "mpcie-dio-24s", "other", FALSE)
ModTbd  == Device(2, "mod-tbd", "NULL", FALSE)

Table(d, ids) == [descriptors |-> d, ids |-> ids]

(* The tables of the header agree; in the second a descriptor is missing that *)
(* the id table has, in the third a card has no handler.                      *)
Agreeing    == Table(<<Adio16f, Dio24>>, <<1, 2, 0>>)
Forgotten   == Table(<<Adio16f>>, <<1, 2, 0>>)
Misnumbered == Table(<<Adio16f, [Dio24 EXCEPT !.pid = 3]>>, <<1, 2, 0>>)
NoHandler   == Table(<<Adio16f, ModTbd>>, <<1, 2, 0>>)

GoodTables  == {Agreeing}
ProbeTables == {Agreeing, NoHandler}
AllTables   == {Agreeing, Forgotten, Misnumbered, NoHandler}

DifferentCards == [c \in Cards |-> IF c = k1 THEN 1 ELSE 2]

InitCalls  == {"alloc_chrdev_region", "class_create", "pci_register_driver"}
ProbeCalls == {"pci_enable_device", "pci_request_regions", "kzalloc",
               "request_irq", "kmalloc", "cdev_add", "device_create"}
AllCalls   == InitCalls \cup ProbeCalls \cup {"pci_iomap"}
NoCalls    == {}
=============================================================================
