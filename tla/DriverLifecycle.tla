-------------------------- MODULE DriverLifecycle --------------------------
(***************************************************************************)
(* Loading the module, binding it to cards, their device nodes and files,  *)
(* src/module/accesio_pci.c: accesio_pci_init and accesio_pci_exit, the    *)
(* probe and remove callbacks of the PCI driver, open and release of the   *)
(* character device, and the interrupt handler as far as it touches what   *)
(* probe and remove set up.  IrqWait has the wait protocol in full.        *)
(*                                                                         *)
(* The kernel's part (matching, device locks, request_irq and free_irq,    *)
(* the character device map, the class) is modelled from its use here.     *)
(* An ioctl on a file whose card has been removed reads freed memory; it   *)
(* is not modelled.                                                        *)
(*                                                                         *)
(* An operator whose name contains Bug is a faulty variant of the          *)
(* definition after it; the specification never uses it.                   *)
(***************************************************************************)
EXTENDS Integers, FiniteSets, Sequences

CONSTANTS
  Cards,          \* PCI devices of the vendor in the machine
  Pid,            \* their device ids: a function on Cards
  Tables,         \* the tables of accesio_pci_ids.h a build may have
  Files,          \* open file descriptions of user programs
  MayFail,        \* kernel calls that may fail for want of resources
  SerialProbes,   \* probe and remove of two cards never overlap
  MaxProbes,      \* bound: contexts allocated in a behaviour
  MaxLoads,       \* bound: module loads in a behaviour
  None

Contexts == 1..MaxProbes
Minors   == 0..MaxProbes

(* What a row of accesio_pci_device_descriptors holds, as far as it matters. *)
DescriptorRows == [pid : Nat, name : STRING, isr : STRING, has_dma : BOOLEAN]

ASSUME LifecycleAssumption ==
  /\ IsFiniteSet(Cards)
  /\ SerialProbes \in BOOLEAN
  /\ MaxProbes \in Nat /\ MaxLoads \in Nat
  /\ None \notin Contexts /\ None \notin Cards
  /\ \A tb \in Tables : /\ tb.descriptors \in Seq(DescriptorRows)
                        /\ tb.ids \in Seq(Nat)

VARIABLES
  table,        \* [descriptors, ids]: accesio_pci_device_descriptors and
                \* acces_pci_id_table of this build
  \* the module
  module,       \* "out", "in", or "leaving" inside accesio_pci_exit
  loads,        \* number of calls of accesio_pci_init
  chrdev,       \* number of chrdev regions held
  class,        \* accesio_class exists
  next_minor,   \* accesio_char_next_minor
  \* cards
  pc,           \* where probe or remove of each card is
  drvdata,      \* the context of each card, or None
  enabled,      \* cards that pci_enable_device enabled
  regions,      \* cards whose regions are requested
  ctx,          \* the contexts ever allocated
  handlers,     \* contexts registered with request_irq
  isr,          \* where the handler of each context is
  \* character devices
  cdev_map,     \* the context each minor leads to: nothing calls cdev_del
  nodes,        \* device nodes: minor, name and the context that made it
  files,        \* private_data of each open file, or None
  \* history
  init_failed,   \* accesio_pci_init has failed after taking a resource
  probe_failed,  \* cards whose probe has failed
  create_failed, \* a device_create has failed since the module was loaded
  cdev_failed    \* contexts, not freed since, whose cdev_add has failed

moduleVars == <<module, loads, chrdev, class>>
cardVars   == <<pc, drvdata, enabled, regions>>
irqVars    == <<handlers, isr>>
charVars   == <<cdev_map, nodes, files>>
histVars   == <<init_failed, probe_failed, create_failed, cdev_failed>>
vars == <<table, module, loads, chrdev, class, next_minor, pc, drvdata,
          enabled, regions, ctx, handlers, isr, cdev_map, nodes, files,
          init_failed, probe_failed, create_failed, cdev_failed>>

-----------------------------------------------------------------------------
(* The two tables. *)

TablesAgreeBugShort ==
  \A i \in 1..Len(table.descriptors) - 1 :
    table.descriptors[i].pid = table.ids[i]

(* The test of accesio_pci_init; 0 ends the id table. *)
TablesAgree ==
  /\ \A i \in 1..Len(table.descriptors) :
       table.descriptors[i].pid = table.ids[i]
  /\ table.ids[Len(table.descriptors) + 1] = 0

(* The PCI core offers a card to the driver when its id table names it. *)
Matches(c) ==
  \E i \in 1..Len(table.ids) : /\ table.ids[i] = Pid[c]
                               /\ \A j \in 1..i : table.ids[j] # 0

(* The loop of probe over the descriptors: the first with the id, or 0. *)
Lookup(pid) ==
  LET hits == {i \in 1..Len(table.descriptors) : table.descriptors[i].pid = pid}
  IN  IF hits = {} THEN 0 ELSE CHOOSE i \in hits : \A j \in hits : i <= j

Descriptor(x) == table.descriptors[ctx[x].descriptor]

-----------------------------------------------------------------------------
(* accesio_pci_init and accesio_pci_exit *)

ModuleInit ==
  /\ module = "out" /\ loads < MaxLoads
  /\ loads' = loads + 1
  /\ next_minor' = 0
  /\ create_failed' = FALSE
  /\ \/ /\ ~TablesAgree
        /\ UNCHANGED <<module, chrdev, class, init_failed>>
     \/ /\ TablesAgree
        /\ "alloc_chrdev_region" \in MayFail
        /\ UNCHANGED <<module, chrdev, class, init_failed>>
     \/ /\ TablesAgree                              \* -EEXIST, or no memory
        /\ class \/ "class_create" \in MayFail
        /\ init_failed' = TRUE
        /\ chrdev' = chrdev + 1
        /\ UNCHANGED <<module, class>>
     \/ /\ TablesAgree /\ ~class
        /\ "pci_register_driver" \in MayFail
        /\ init_failed' = TRUE
        /\ chrdev' = chrdev + 1
        /\ class' = TRUE
        /\ UNCHANGED module
     \/ /\ TablesAgree /\ ~class
        /\ chrdev' = chrdev + 1
        /\ class' = TRUE
        /\ module' = "in"
        /\ UNCHANGED init_failed
  /\ UNCHANGED <<table, cardVars, ctx, irqVars, charVars, probe_failed, cdev_failed>>

(* pci_unregister_driver: from here on no probe starts, and remove is called *)
(* for every bound card.  Open files do not prevent it: the fops have no     *)
(* owner.                                                                    *)
ModuleExit ==
  /\ module = "in"
  /\ module' = "leaving"
  /\ UNCHANGED <<table, loads, chrdev, class, next_minor, cardVars, ctx, irqVars,
                 charVars, histVars>>

ModuleExitEnd ==
  /\ module = "leaving"
  /\ \A c \in Cards : pc[c] = "none"
  /\ module' = "out"
  /\ chrdev' = chrdev - 1
  /\ class' = FALSE
  /\ UNCHANGED <<table, loads, next_minor, cardVars, ctx, irqVars, charVars,
                 histVars>>

-----------------------------------------------------------------------------
(* accesio_pci_driver_probe *)

Goto(c, p) == pc' = [pc EXCEPT ![c] = p]

Resting == {"none", "bound", "oops"}

(* The driver core holds the lock of this card, and of no other. *)
MayStart(c) == SerialProbes => \A d \in Cards \ {c} : pc[d] \in Resting

Used == {x \in Contexts : ctx[x].state # "unused"}

(* Every failing probe returns without undoing what it did; the driver core  *)
(* clears drvdata.                                                           *)
ProbeGivesUp(c) ==
  /\ Goto(c, "none")
  /\ drvdata' = [drvdata EXCEPT ![c] = None]
  /\ probe_failed' = probe_failed \cup {c}

ProbeEnable(c) ==
  /\ module = "in" /\ pc[c] = "none" /\ Matches(c) /\ MayStart(c)
  /\ Cardinality(Used) + Cardinality({d \in Cards : pc[d] = "enabled"}) < MaxProbes
  /\ \/ /\ "pci_enable_device" \in MayFail
        /\ ProbeGivesUp(c)
        /\ UNCHANGED enabled
     \/ /\ enabled' = enabled \cup {c}
        /\ Goto(c, "enabled")
        /\ UNCHANGED <<drvdata, probe_failed>>
  /\ UNCHANGED <<table, moduleVars, next_minor, regions, ctx, irqVars, charVars,
                 init_failed, create_failed, cdev_failed>>

(* pci_request_regions, which is refused (-EBUSY) while they are taken, then *)
(* kzalloc, pci_set_drvdata and the search for the descriptor.               *)
ProbeAllocate(c) ==
  LET x == Cardinality(Used) + 1
      d == Lookup(Pid[c])
  IN
  /\ pc[c] = "enabled"
  /\ \/ /\ c \in regions \/ "pci_request_regions" \in MayFail
        /\ ProbeGivesUp(c)
        /\ UNCHANGED <<regions, ctx>>
     \/ /\ c \notin regions
        /\ "kzalloc" \in MayFail
        /\ regions' = regions \cup {c}
        /\ ProbeGivesUp(c)
        /\ UNCHANGED ctx
     \/ /\ c \notin regions
        /\ regions' = regions \cup {c}
        /\ ctx' = [ctx EXCEPT ![x] = [@ EXCEPT !.state = "live", !.card = c,
                                               !.descriptor = d]]
        /\ IF d = 0
           THEN ProbeGivesUp(c)
           ELSE /\ drvdata' = [drvdata EXCEPT ![c] = x]
                /\ Goto(c, "allocated")
                /\ UNCHANGED probe_failed
  /\ UNCHANGED <<table, moduleVars, next_minor, enabled, irqVars, charVars,
                 init_failed, create_failed, cdev_failed>>

(* pci_iomap of the BARs.  A BAR that cannot be mapped stays NULL and probe  *)
(* goes on.                                                                  *)
ProbeMap(c) ==
  /\ pc[c] = "allocated"
  /\ \/ ctx' = [ctx EXCEPT ![drvdata[c]].bars = "mapped"]
     \/ "pci_iomap" \in MayFail /\ UNCHANGED ctx
  /\ Goto(c, "mapped")
  /\ UNCHANGED <<table, moduleVars, next_minor, drvdata, enabled, regions,
                 irqVars, charVars, histVars>>

(* request_irq refuses a handler that is NULL. *)
ProbeRequestIrq(c) ==
  LET x == drvdata[c] IN
  /\ pc[c] = "mapped"
  /\ \/ /\ Descriptor(x).isr # "NULL"
        /\ handlers' = handlers \cup {x}
        /\ Goto(c, "irq")
     \/ /\ Descriptor(x).isr = "NULL" \/ "request_irq" \in MayFail
        /\ Goto(c, "noirq")
        /\ UNCHANGED handlers
  /\ UNCHANGED <<table, moduleVars, next_minor, drvdata, enabled, regions, ctx,
                 isr, charVars, histVars>>

(* spin_lock_init and init_waitqueue_head. *)
InitLockBugMissing(x) == UNCHANGED ctx
InitLock(x) == ctx' = [ctx EXCEPT ![x].ready = TRUE]

(* They run in both cases; only then is the result of request_irq looked at. *)
ProbeInitLock(c) ==
  /\ pc[c] \in {"irq", "noirq"}
  /\ InitLock(drvdata[c])
  /\ \/ pc[c] = "irq" /\ Goto(c, "ready") /\ UNCHANGED <<drvdata, probe_failed>>
     \/ pc[c] = "noirq" /\ ProbeGivesUp(c)
  /\ UNCHANGED <<table, moduleVars, next_minor, enabled, regions, irqVars,
                 charVars, init_failed, create_failed, cdev_failed>>

(* A card with DMA allocates isr_context and uses it unchecked: without      *)
(* memory the probe dies there.  Then cdev_add: the newest entry of a minor  *)
(* is the one an open finds.  Its result is not looked at: if it fails, the  *)
(* minor keeps the entry it had, or none, and probe goes on.                 *)
ProbeAddCdev(c) ==
  LET x == drvdata[c] IN
  /\ pc[c] = "ready"
  /\ \/ /\ Descriptor(x).has_dma /\ "kmalloc" \in MayFail
        /\ Goto(c, "oops")
        /\ UNCHANGED <<ctx, cdev_map, cdev_failed>>
     \/ /\ ctx' = [ctx EXCEPT ![x].minor = next_minor]
        /\ Goto(c, "cdev")
        /\ \/ /\ cdev_map' = [cdev_map EXCEPT ![next_minor] = x]
              /\ UNCHANGED cdev_failed
           \/ /\ "cdev_add" \in MayFail
              /\ cdev_failed' = cdev_failed \cup {x}
              /\ UNCHANGED cdev_map
  /\ UNCHANGED <<table, moduleVars, next_minor, drvdata, enabled, regions,
                 irqVars, nodes, files, init_failed, probe_failed, create_failed>>

NodeTaken(m, name) == \E n \in nodes : n.minor = m \/ n.name = name

(* Probe returns 0 although device_create failed: the card is bound, without *)
(* a node, and its minor is given out again.                                 *)
CreateFailedBugError(c) == create_failed' = TRUE /\ ProbeGivesUp(c)
CreateFailed(c) ==
  create_failed' = TRUE /\ Goto(c, "bound") /\ UNCHANGED <<drvdata, probe_failed>>

(* context->dev, which cdev_add was given. *)
NodeMinorBugReread(x) == next_minor
NodeMinor(x) == ctx[x].minor

(* Two names or two minors alike make device_create fail. *)
ProbeCreateNode(c) ==
  LET x == drvdata[c]
      m == NodeMinor(x)
      name == Descriptor(x).name
  IN
  /\ pc[c] = "cdev"
  /\ \/ /\ NodeTaken(m, name) \/ "device_create" \in MayFail
        /\ CreateFailed(c)
        /\ UNCHANGED nodes
     \/ /\ ~NodeTaken(m, name)
        /\ nodes' = nodes \cup {[minor |-> m, name |-> name, ctx |-> x]}
        /\ Goto(c, "node")
        /\ UNCHANGED <<create_failed, drvdata, probe_failed>>
  /\ UNCHANGED <<table, moduleVars, next_minor, enabled, regions, ctx, irqVars,
                 cdev_map, files, init_failed, cdev_failed>>

AdvanceMinorBugTwice == next_minor' = next_minor + 2
AdvanceMinor == next_minor' = next_minor + 1

ProbeFinish(c) ==
  /\ pc[c] = "node"
  /\ AdvanceMinor
  /\ Goto(c, "bound")
  /\ UNCHANGED <<table, moduleVars, drvdata, enabled, regions, ctx, irqVars,
                 charVars, histVars>>

-----------------------------------------------------------------------------
(* accesio_pci_driver_remove, of a card that is unplugged or unbound, or     *)
(* from pci_unregister_driver.                                               *)

(* free_irq takes the handler off the line, then waits for a running one. *)
FreeIrqBugKept(x) == UNCHANGED handlers
FreeIrq(x) == handlers' = handlers \ {x}

SynchronizeIrqBugSkipped(x) == TRUE
SynchronizeIrq(x) == isr[x] = "off"

ReleaseRegionsBugKept(c) == UNCHANGED regions
ReleaseRegions(c) == regions' = regions \ {c}

(* device_destroy finds the node by its number, whoever made it. *)
DeviceDestroyBugNone(m) == UNCHANGED nodes
DeviceDestroyBugNewest(m) == nodes' = {n \in nodes : n.minor # next_minor - 1}
DeviceDestroy(m) == nodes' = {n \in nodes : n.minor # m}

RemoveFreeIrq(c) ==
  /\ module # "out" /\ pc[c] = "bound" /\ MayStart(c)
  /\ FreeIrq(drvdata[c])
  /\ Goto(c, "freeing_irq")
  /\ UNCHANGED <<table, moduleVars, next_minor, drvdata, enabled, regions, ctx,
                 isr, charVars, histVars>>

RemoveRelease(c) ==
  LET x == drvdata[c] IN
  /\ pc[c] = "freeing_irq"
  /\ SynchronizeIrq(x)
  /\ ctx' = [ctx EXCEPT ![x].bars = IF @ = "mapped" THEN "gone" ELSE @]
  /\ ReleaseRegions(c)
  /\ Goto(c, "released")
  /\ UNCHANGED <<table, moduleVars, next_minor, drvdata, enabled, irqVars,
                 charVars, histVars>>

RemoveDestroyNode(c) ==
  /\ pc[c] = "released"
  /\ DeviceDestroy(ctx[drvdata[c]].minor)
  /\ Goto(c, "nodeless")
  /\ UNCHANGED <<table, moduleVars, next_minor, drvdata, enabled, regions, ctx,
                 irqVars, cdev_map, files, histVars>>

(* kfree and pci_set_drvdata(dev, NULL). *)
RemoveFree(c) ==
  /\ pc[c] = "nodeless"
  /\ ctx' = [ctx EXCEPT ![drvdata[c]].state = "freed"]
  /\ drvdata' = [drvdata EXCEPT ![c] = None]
  /\ Goto(c, "none")
  /\ cdev_failed' = cdev_failed \ {drvdata[c]}
  /\ UNCHANGED <<table, moduleVars, next_minor, enabled, regions, irqVars,
                 charVars, init_failed, probe_failed, create_failed>>

-----------------------------------------------------------------------------
(* The handler.  The line is shared, so it can run whenever it is registered. *)

IsrRun(x) ==
  /\ x \in handlers /\ isr[x] = "off"
  /\ isr' = [isr EXCEPT ![x] = "run"]
  /\ UNCHANGED <<table, moduleVars, next_minor, cardVars, ctx, handlers, charVars,
                 histVars>>

(* It reads and writes the BARs; only interrupt_adio16f_style then ends a    *)
(* registered wait.                                                          *)
IsrNotify(x) ==
  /\ isr[x] = "run"
  /\ IF Descriptor(x).isr = "adio16f" /\ ctx[x].waiting
     THEN /\ ctx' = [ctx EXCEPT ![x].waiting = FALSE]
          /\ isr' = [isr EXCEPT ![x] = "wake"]
     ELSE /\ isr' = [isr EXCEPT ![x] = "off"]
          /\ UNCHANGED ctx
  /\ UNCHANGED <<table, moduleVars, next_minor, cardVars, handlers, charVars,
                 histVars>>

(* wake_up_interruptible on the queue of the context. *)
IsrWake(x) ==
  /\ isr[x] = "wake"
  /\ isr' = [isr EXCEPT ![x] = "off"]
  /\ UNCHANGED <<table, moduleVars, next_minor, cardVars, ctx, handlers, charVars,
                 histVars>>

-----------------------------------------------------------------------------
(* The character device *)

(* accesio_char_driver_open: the context of the cdev behind the node; it is  *)
(* not called for a node without one.                                        *)
Open(f) ==
  /\ files[f] = None
  /\ \E n \in nodes : /\ cdev_map[n.minor] # None
                       /\ files' = [files EXCEPT ![f] = cdev_map[n.minor]]
  /\ UNCHANGED <<table, moduleVars, next_minor, cardVars, ctx, irqVars, cdev_map,
                 nodes, histVars>>

(* accesio_char_driver_release changes nothing. *)
Release(f) ==
  /\ files[f] # None
  /\ files' = [files EXCEPT ![f] = None]
  /\ UNCHANGED <<table, moduleVars, next_minor, cardVars, ctx, irqVars, cdev_map,
                 nodes, histVars>>

(* IRQ_WAIT and IRQ_WAIT_CANCEL on a card that is still there. *)
Ioctl(f) ==
  LET x == files[f] IN
  /\ x # None
  /\ ctx[x].state = "live"
  /\ ctx' = [ctx EXCEPT ![x].waiting = ~@]
  /\ UNCHANGED <<table, moduleVars, next_minor, cardVars, irqVars, charVars,
                 histVars>>

-----------------------------------------------------------------------------
(* kzalloc leaves every field 0. *)
Fresh == [state |-> "unused", card |-> None, descriptor |-> 0, bars |-> "null",
          ready |-> FALSE, minor |-> 0, waiting |-> FALSE]

Init ==
  /\ table \in Tables
  /\ module = "out" /\ loads = 0 /\ chrdev = 0 /\ class = FALSE
  /\ next_minor = 0
  /\ pc = [c \in Cards |-> "none"]
  /\ drvdata = [c \in Cards |-> None]
  /\ enabled = {} /\ regions = {}
  /\ ctx = [x \in Contexts |-> Fresh]
  /\ handlers = {}
  /\ isr = [x \in Contexts |-> "off"]
  /\ cdev_map = [m \in Minors |-> None]
  /\ nodes = {}
  /\ files = [f \in Files |-> None]
  /\ init_failed = FALSE /\ probe_failed = {} /\ create_failed = FALSE
  /\ cdev_failed = {}

Probe(c) ==
  \/ ProbeEnable(c) \/ ProbeAllocate(c) \/ ProbeMap(c) \/ ProbeRequestIrq(c)
  \/ ProbeInitLock(c) \/ ProbeAddCdev(c) \/ ProbeCreateNode(c) \/ ProbeFinish(c)

Remove(c) ==
  RemoveFreeIrq(c) \/ RemoveRelease(c) \/ RemoveDestroyNode(c) \/ RemoveFree(c)

Next ==
  \/ ModuleInit \/ ModuleExit \/ ModuleExitEnd
  \/ \E c \in Cards : Probe(c) \/ Remove(c)
  \/ \E x \in Contexts : IsrRun(x) \/ IsrNotify(x) \/ IsrWake(x)
  \/ \E f \in Files : Open(f) \/ Release(f) \/ Ioctl(f)

Spec == Init /\ [][Next]_vars

(* A call into the driver goes on, a removal that accesio_pci_exit has begun  *)
(* reaches every bound card, and a running handler finishes.                 *)
Fairness ==
  /\ \A c \in Cards : WF_vars(pc[c] # "none" /\ Probe(c))
  /\ \A c \in Cards : WF_vars((module = "leaving" \/ pc[c] # "bound") /\ Remove(c))
  /\ \A x \in Contexts : WF_vars(IsrNotify(x) \/ IsrWake(x))
  /\ WF_vars(ModuleExitEnd)

FairSpec == Spec /\ Fairness

-----------------------------------------------------------------------------
(* Properties *)

Pcs == {"none", "enabled", "allocated", "mapped", "irq", "noirq", "ready", "cdev",
        "node", "bound", "oops", "freeing_irq", "released", "nodeless"}

(* struct accesio_pci_device_context, as far as it is modelled. *)
ContextType ==
  [state : {"unused", "live", "freed"}, card : Cards \cup {None},
   descriptor : 0..Len(table.descriptors), bars : {"null", "mapped", "gone"},
   ready : BOOLEAN, minor : Minors, waiting : BOOLEAN]

(* Every variable has its type. *)
TypeOK ==
  /\ table \in Tables
  /\ module \in {"out", "in", "leaving"}
  /\ loads \in 0..MaxLoads /\ chrdev \in 0..MaxLoads /\ class \in BOOLEAN
  /\ next_minor \in Minors
  /\ pc \in [Cards -> Pcs]
  /\ drvdata \in [Cards -> Contexts \cup {None}]
  /\ enabled \subseteq Cards /\ regions \subseteq Cards
  /\ ctx \in [Contexts -> ContextType]
  /\ handlers \subseteq Contexts
  /\ isr \in [Contexts -> {"off", "run", "wake"}]
  /\ cdev_map \in [Minors -> Contexts \cup {None}]
  /\ \A n \in nodes : n.minor \in Minors /\ n.ctx \in Contexts
  /\ files \in [Files -> Contexts \cup {None}]
  /\ init_failed \in BOOLEAN /\ create_failed \in BOOLEAN
  /\ probe_failed \subseteq Cards /\ cdev_failed \subseteq Contexts

(* A handler that runs finds its context allocated, its BARs not unmapped and *)
(* the module loaded, however its card or the module is going away: remove    *)
(* frees the interrupt first, and no path leaves a handler behind.            *)
IsrSafe ==
  \A x \in Contexts : isr[x] # "off" => /\ ctx[x].state = "live"
                                        /\ ctx[x].bars # "gone"
                                        /\ module # "out"

(* The handler wakes only a wait queue that init_waitqueue_head has prepared, *)
(* although request_irq comes before it: no file can register a wait yet.     *)
WakeInitialised == \A x \in Contexts : isr[x] = "wake" => ctx[x].ready

(* Opening a device node gives the context of the card the node was made for, *)
(* not freed, and its BARs not unmapped but for the moment before remove      *)
(* destroys the node - if probes of two cards do not overlap, as minors of    *)
(* failed device_create calls are given out again, and unless the cdev_add of *)
(* the card itself has failed.  Its minor is below the number of probes, so   *)
(* that the first MAX_CHAR_DEVICES cannot leave the region of                 *)
(* alloc_chrdev_region.                                                       *)
NodeOpensItsCard ==
  SerialProbes => \A n \in nodes :
    /\ n.ctx \in cdev_failed \/ cdev_map[n.minor] = n.ctx
    /\ ctx[n.ctx].state = "live"
    /\ ctx[n.ctx].bars = "gone" => pc[ctx[n.ctx].card] = "released"
    /\ n.minor < Cardinality(Used)

(* Whatever overlaps or fails, and whatever stale entries an earlier load or  *)
(* a removal left in the map, a node never opens the card of another node.    *)
(* It opens its own card or one without a node, alive or gone, or nothing.    *)
NodesApart ==
  \A n1, n2 \in nodes : cdev_map[n1.minor] = n2.ctx => n1.ctx = n2.ctx

(* As long as no device_create has failed, every bound card has its node: no  *)
(* other card's remove has taken it away.                                     *)
BoundHasNode ==
  ~create_failed => \A c \in Cards : pc[c] = "bound" =>
                      \E n \in nodes : n.ctx = drvdata[c]

(* A card that is not bound and whose probe never failed has nothing left:    *)
(* its regions are free for the next probe, no handler, node or live context  *)
(* of it remains.                                                             *)
CleanRemove ==
  \A c \in Cards : pc[c] = "none" /\ c \notin probe_failed =>
    /\ c \notin regions
    /\ \A x \in Contexts : ctx[x].card = c =>
         /\ ctx[x].state = "freed" /\ x \notin handlers
         /\ \A n \in nodes : n.ctx # x

(* An unloaded module leaves no handler and no node, whatever failed, and no  *)
(* chrdev region and class unless accesio_pci_init itself failed.             *)
CleanUnload ==
  module = "out" =>
    /\ handlers = {} /\ nodes = {}
    /\ init_failed \/ (chrdev = 0 /\ ~class)

(* "The integrity of the two tables will be verified on module load": a card  *)
(* the PCI core offers always has a descriptor, with its own device id.       *)
DescriptorFound ==
  \A x \in Contexts : ctx[x].state # "unused" =>
    ctx[x].descriptor # 0 /\ Descriptor(x).pid = Pid[ctx[x].card]

(* accesio_pci_exit terminates although shared interrupts keep arriving,      *)
(* unless a probe has died holding the lock of its card.                      *)
UnloadCompletes ==
  module = "leaving" ~> module = "out" \/ \E c \in Cards : pc[c] = "oops"

(* What Readme.md says under "From pci.rst in Linux kernel Docs". *)

(* "Allocate and initialize shared control data" comes before "Register IRQ   *)
(* handler": the handler runs only once the lock it takes is initialised.     *)
InitBeforeHandler == \A x \in Contexts : isr[x] # "off" => ctx[x].ready

-----------------------------------------------------------------------------
(* The inductive invariant behind the safety properties above. *)

(* Where a probe has not come to cdev_add, where it still has to number its  *)
(* card, where a card has its regions, where its lock and wait queue are     *)
(* initialised, where it may have a node.                                    *)
BeforeCdevPcs == {"allocated", "mapped", "irq", "noirq", "ready"}
NumberingPcs == BeforeCdevPcs \cup {"cdev", "node"}
RegionPcs    == NumberingPcs \cup {"bound", "oops", "freeing_irq"}
ReadyPcs     == {"ready", "cdev", "node", "bound", "oops", "freeing_irq",
                 "released", "nodeless"}
NodePcs      == {"node", "bound", "freeing_irq", "released"}
HandlerPcs   == {"irq", "ready", "cdev", "node", "bound", "oops"}

(* Contexts are taken in order; the probes in progress have theirs reserved, *)
(* and each of them raises accesio_char_next_minor at most once.             *)
CountAt(at, S) == Cardinality({c \in Cards : at[c] \in S})

CountInv ==
  /\ \E k \in 0..MaxProbes : Used = 1..k
  /\ Cardinality(Used) + CountAt(pc, {"enabled"}) <= MaxProbes
  /\ next_minor + CountAt(pc, NumberingPcs) <= Cardinality(Used)

(* A loaded module has agreeing tables and one region more than its failed   *)
(* loads left behind; an unloaded one works on no card.                      *)
ModuleInv ==
  /\ module = "out" => \A c \in Cards : pc[c] = "none"
  /\ module # "out" => TablesAgree /\ chrdev >= 1
  /\ chrdev <= loads
  /\ ~init_failed => IF module = "out" THEN chrdev = 0 /\ ~class ELSE chrdev = 1
  /\ \A c \in Cards : pc[c] = "enabled" => Matches(c)

(* From kzalloc to kfree the card has a live context of its own. *)
OwnerInv ==
  /\ \A c \in Cards :
       IF pc[c] \in {"none", "enabled"} THEN drvdata[c] = None
       ELSE /\ drvdata[c] \in Contexts
            /\ ctx[drvdata[c]].state = "live" /\ ctx[drvdata[c]].card = c
  /\ \A x \in Contexts :
       IF ctx[x].state = "unused" THEN ctx[x] = Fresh ELSE ctx[x].card \in Cards

(* A registered or running handler belongs to a card that is not yet past    *)
(* free_irq, and only remove takes BARs away.                                *)
HandlerInv ==
  \A x \in Contexts :
    LET c == ctx[x].card IN
    /\ x \in handlers => c \in Cards /\ drvdata[c] = x /\ pc[c] \in HandlerPcs
    /\ isr[x] # "off" /\ x \notin handlers =>
         c \in Cards /\ drvdata[c] = x /\ pc[c] = "freeing_irq"
    /\ ctx[x].bars = "gone" =>
         \/ ctx[x].state = "freed"
         \/ c \in Cards /\ drvdata[c] = x /\ pc[c] \in {"released", "nodeless"}

(* Whatever a file can reach has its wait queue initialised. *)
ReadyInv ==
  /\ \A c \in Cards : pc[c] \in ReadyPcs => ctx[drvdata[c]].ready
  /\ \A m \in Minors : cdev_map[m] # None => ctx[cdev_map[m]].ready
  /\ \A f \in Files : files[f] # None => ctx[files[f]].ready
  /\ \A x \in Contexts : ctx[x].waiting \/ isr[x] = "wake" => ctx[x].ready

(* A node belongs to a card between its device_create and device_destroy and *)
(* has the minor of its context; no two nodes share one.                     *)
NodeInv ==
  /\ \A n \in nodes :
       LET c == ctx[n.ctx].card IN
       /\ c \in Cards /\ drvdata[c] = n.ctx /\ pc[c] \in NodePcs
       /\ ctx[n.ctx].minor = n.minor
  /\ \A n1, n2 \in nodes : n1.minor = n2.minor => n1.ctx = n2.ctx
  /\ ~create_failed => \A c \in Cards : pc[c] \in NodePcs =>
                         \E n \in nodes : n.ctx = drvdata[c]

(* The regions of a card are taken exactly while it needs them, and every    *)
(* live context is the current one of its card - until a probe fails.        *)
RegionInv ==
  \A c \in Cards :
    /\ pc[c] \in RegionPcs => c \in regions
    /\ pc[c] \in {"released", "nodeless"} => c \notin regions
    /\ c \notin probe_failed =>
         /\ c \in regions => pc[c] \in RegionPcs
         /\ \A x \in Contexts : ctx[x].state = "live" /\ ctx[x].card = c =>
              drvdata[c] = x

(* An entry of the map is a context that had its turn at cdev_add, under its  *)
(* own minor.                                                                *)
CdevInv ==
  \A m \in Minors :
    LET x == cdev_map[m] IN
    x # None => /\ ctx[x].minor = m /\ ctx[x].state # "unused"
                /\ \A c \in Cards : drvdata[c] = x => pc[c] \notin BeforeCdevPcs

(* Probes that do not overlap give out minors in order. *)
SerialInv ==
  SerialProbes =>
    /\ \A c, d \in Cards : c # d => pc[c] \in Resting \/ pc[d] \in Resting
    /\ \A c \in Cards : pc[c] \in {"cdev", "node"} =>
         /\ ctx[drvdata[c]].minor = next_minor
         /\ drvdata[c] \in cdev_failed \/ cdev_map[next_minor] = drvdata[c]
    /\ \A n \in nodes :
         /\ n.ctx \in cdev_failed \/ cdev_map[n.minor] = n.ctx
         /\ \/ n.minor < next_minor
            \/ n.minor = next_minor /\ pc[ctx[n.ctx].card] = "node"

IInv ==
  /\ TypeOK /\ CountInv /\ ModuleInv /\ OwnerInv /\ DescriptorFound
  /\ HandlerInv /\ ReadyInv /\ NodeInv /\ RegionInv /\ CdevInv /\ SerialInv

=============================================================================
