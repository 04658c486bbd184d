# aiowdm in TLA+

A model of the Linux driver and library for ACCES I/O PCI cards in this
repository: `module/accesio_pci.c` (the driver), `aiowdm/aiowdm.cpp` (the library),
and the two headers they share. The modules are checked with TLC on small
instances; every safety property that a passing run checks, and both refinements, are
proved with TLAPS for instances of every size.

Contents: [the system](#1-the-system), [the plan](#2-modules-and-plan),
[the modules and the code](#3-the-modules-and-the-code),
[the runs](#4-the-runs), [the proofs](#5-the-proofs),
[disagreements](#6-where-code-and-documentation-disagree),
[what is left out](#7-what-is-not-modelled).

## 1. The system

| component | state | operations | talks to |
|---|---|---|---|
| interrupt wait (`accesio_pci.c` 79-89, 551-571, 647-691) | `waiting_for_irq`, `irq_cancelled`, `irq_lock`, `wait_queue` of a card | ioctls IRQ_WAIT and IRQ_WAIT_CANCEL; the handler's `accesio_notify_user` | threads and handler share the fields; the kernel's wait queue and spinlock |
| driver lifecycle (573-603, 798-1119; the id tables) | chrdev region, class, `accesio_char_next_minor`; per card: enabled, regions, context, handler, cdev, node | `accesio_pci_init`, `_exit`, `probe`, `remove`, `open`, `release` | PCI core, device model, interrupt core |
| interrupt styles (91-571) | the interrupt latch and enable bit of the card | one handler per style, its `enable` and `disable` | the card's registers; other handlers on the same line |
| register access (605-629, 693-759, 888-922) | registers of the card, `default_bar` | ioctls CARD_DESCRIPTOR_GET and REGISTER_IO | library, card |
| library (`aiowdm.cpp`) | `cards[]`, `num_cards` | `AiowdmInit`, `GetNumCards`, `QueryCardInfo`, `RelIn*`, `RelOut*`, `WaitForIRQ`, `AbortRequest` | device nodes, ioctls |
| device tables (`accesio_pci_ids.h`) | constant: 121 descriptors and the PCI id table | compared on load, searched in probe | lifecycle, library (names) |
| test programs (`test/`) | - | the interrupt test: a waiting thread and one that provokes interrupts and aborts | library |
| stubs: mmap, suspend, resume, shutdown, IRQ_ENABLE, IRQ_DISABLE, COSWaitForIRQ | none | return | - |
| old module (`module_old/`) | - | commented out; its tables describe the cards | - |

A program loads the library, whose constructor opens every node under
`/dev/accesio_pci/` and asks the driver for the card's descriptor. From then on a
card is a number. Register accesses and waits are ioctls on the card's file; an
interrupt runs the handler that `probe` registered, which acknowledges the card
and - in one style - ends the registered wait.

What is hard here, and what correctness means in each part:

- *Interrupt wait.* Threads on several CPUs, the handler on any of them, signals.
  Taking `irq_lock` with interrupts on would deadlock one CPU; a wakeup could fall
  between test and sleep; both flags are read without the lock after the wait; the
  two stores of a cancel are plain stores; a signal ends a wait but leaves the flag
  set. Correct: no deadlock, no lost wakeup or interrupt, a true outcome, one slot.
- *Lifecycle.* Every kernel call can fail and no error path undoes anything; probe
  and remove of different cards overlap; interrupts arrive from `request_irq` on;
  files outlive cards. Correct: the handler never touches what is gone, a node
  leads to its card, what comes up goes down again.
- *Styles.* The line is shared and level-triggered: a handler that does not clear
  its card is called for ever, one that leaves it disabled silences it, one that looks
  for the interrupt in the wrong register blocks the line. User programs write the same
  registers at the same time. Correct: every interrupting card leaves the line, and stays enabled if a user enabled it.
- *Register access and library.* Failures in the middle of the enumeration or of an
  ioctl; card numbers nobody checks; widths. Correct: a number is a card, a read is
  whole, an error tells the truth.
- *Device tables.* Two long tables written by hand, names that decide about nodes
  and numbers, a handler per kind. Correct: the module loads, every kind has the
  handler for its registers, and every bound card has one number.

The full list of hazards, each at its line and with the properties that would
catch it, is in `PROJECT.json`.

## 2. Modules and plan

| module | role | depends on |
|---|---|---|
| `WaitService` | abstract specification: what an interrupt wait promises | - |
| `IrqWait` | the wait protocol of one card, in full | - |
| `IrqWaitRefinement` | refinement mapping to `WaitService` | `IrqWait`, `WaitService` |
| `AioWait` | what `WaitForIRQ` and `AbortRequest` return to a program | `IrqWaitRefinement` |
| `IrqTest` | composition: the interrupt test program on library and driver | `AioWait` |
| `IrqWaitProofs`, `IrqWaitRefinementProofs` | theorems | `IrqWait`, `IrqWaitRefinement` |
| `IrqTestProofs` | theorems | `IrqTest`, `IrqWaitProofs` |
| `CardLifecycle` | abstract specification: cards, nodes and module as an administrator sees them | - |
| `DriverLifecycle` | load, probe, remove, unload, files, handler | - |
| `DriverRefinement` | refinement mapping to `CardLifecycle` | `DriverLifecycle`, `CardLifecycle` |
| `DriverLifecycleProofs`, `DriverRefinementProofs` | theorems | `DriverLifecycle`, `DriverRefinement` |
| `IrqStyles` | handlers of all styles on one line | - |
| `IrqStylesProofs` | theorems | `IrqStyles` |
| `DeviceTables` | the descriptors, the PCI id table and the old module's table, as data | - |
| `CardCatalogue` | every kind of card from the tables to the answers of the library | `DeviceTables` |
| `CardCatalogueProofs` | theorems | `CardCatalogue` |
| `AioLibrary` | enumeration and register access | - |
| `AioLibraryProofs` | theorems | `AioLibrary` |
| `MCIrqWait`, `MCIrqTest`, `MCDriverLifecycle`, `MCIrqStyles`, `MCCardCatalogue`, `MCAioLibrary` | constants for TLC | one each |

Order: the wait protocol first (the one place where threads, handler and signals
meet), its abstract specification and proofs; then the lifecycle that creates and
destroys what the protocol runs on, and its abstract specification; then the styles,
the library and the tables.

Done: all of the above, and the proof of every invariant that a passing run checks.
Left to TLC is what the prover cannot state or decide (end of section 5); left for
later are lemmas that shorten the longest proofs (`NodeInv` and `SerialInv` of the
lifecycle).

In the modules an operator whose name contains `Bug` is a faulty variant of the
definition after it. The specifications do not use it; each shows that a
plausible mistake in the code would break a property.

## 3. The modules and the code

`PROJECT.json` maps every definition to its lines. The points that need a word:

**IrqWait.** The variables are the fields of `struct accesio_pci_device_context`, a
program counter per thread and one for the handler. IRQ_WAIT is `WaitCall` (the
lock), `WaitRefuse` or `WaitRegister` (the section), then
`wait_event_interruptible` as its macro does it - `WaitCheck` (test before
queueing), `PrepareToWait` (queue, or leave for a signal), `WaitCond` (test again),
`WakeUp` - and `WaitReturn`, which reads `irq_cancelled` without the lock.
IRQ_WAIT_CANCEL is `CancelCall`, `CancelRefuse` or `CancelFirstStore`,
`CancelSecondStore`, `CancelWake`: its two stores are two steps because waiters
read them without the lock, and with `StoresReordered` the build may swap them.
The handler is `IsrEnter` (on a CPU with interrupts on; the line is shared, so
also when this card raised nothing), `IsrRead`, `IsrAck`, `IsrLock`, `IsrNotify`,
`IsrWake`. A thread runs on a CPU the handler does not occupy; a lock holder is
bound to its CPU, so that a handler on that CPU would wait for ever for a lock
taken with interrupts on. `owner`, `ended`, `overtaken` and `fired` are history:
no guard reads them.

**WaitService.** One slot. A thread that registers (`Arm`) is told how its wait was
ended, "irq" or "cancel". The service also says what is *not* promised: a thread
that has not returned when the next one registers is "late" and may learn either
outcome; a thread that a signal takes out (`Interrupted`) learns either and leaves
the slot taken; with reordered stores a cancelled wait may report success.

**IrqTest.** `test/pcie-adio16-16fds-irq.cpp`: `main` sets up the card or gives up, starts
`GenIrq`, calls WaitForIRQ and joins; `GenIrq` switches an output `Rounds` times, each
of which makes the card interrupt or not, and calls AbortRequest. Both run through
the full protocol of `IrqWait`. The variable `program` also admits any other program,
so that one run checks the liveness of the protocol for threads that call at will and
for this program.

**DriverLifecycle.** Every kernel call of init and probe may fail if it is in
`MayFail`, and the code's error paths, which return without undoing anything, are
followed. `request_irq` precedes `spin_lock_init` and `init_waitqueue_head`, as in
the code; the handler may run in between. Minors are read in `ProbeAddCdev` and
advanced in `ProbeFinish`, so that two probes can take the same one. `cdev_map`
keeps entries for ever (nothing calls `cdev_del`). The result of `cdev_add` is
ignored: when it fails, probe goes on and makes a node that leads nowhere, or to the
entry that an earlier card left under the minor; `cdev_failed` remembers the contexts
this happened to. `device_create` fails on a name
or number that exists, and probe then returns 0. `Ioctl` is the registration
reduced to the flag the handler looks at. Bounds: `MaxProbes` contexts, `MaxLoads`
loads; contexts and minors are numbered by them, and `LifecycleAssumption` asks for
well-formed tables and a finite number of cards.

**CardLifecycle.** A card is free, probing, bound, removing; or stuck, after a probe
that failed with the regions taken; or dead, after one that died. A node appears
with the binding and goes with the removal. The service also says what is not
promised: once a card was bound without a node, a removal may take the node of
another. `DriverRefinement` maps the places of probe and remove to these states; a
card is `Visible` while a node leads to it, and `Hidden` says that some device_create
has failed since the module was loaded.

**IrqStyles.** Each style is a record of the accesses its `enable`, `disable` and
`interrupt` functions make; a handler is run access by access. The reaction of a
card is not in the driver. It is taken from the initialisers of the register table
in `module_old/devices.h` (disable, clear, enable per style), from which the
comments in the driver's functions were copied; a card without a clear operation
drops its interrupt when disabled. `adio16f` is not in that table: its status
register is cleared by writing the bits.

Before anything else a handler tests whether its card has latched an interrupt. The
macro for PCI reads offset 0x4c of BAR 0, the one for PCIe offset 0x69 of BAR 1; the
comments and `module_old/devices.h` have both in BAR 1. Which is right cannot be seen
here, so `latch_bars` says in which BARs a card shows the register, one or both, out
of `LatchBars`. In such a BAR the test finds whether the card asserts the line;
in another it may find anything at each call (`LatchTest`). The status of `adio16f` is read
from BAR 2 by its own handler.

The ioctls to enable and disable a card are stubs, and REGISTER_IO
accesses the default BAR, which is the BAR of these registers for 0xc2ef only (see
`RegistersInReach`). `UserEnable` is therefore a program that reaches them past the
driver, by port I/O or the resource files of the PCI device.

**DeviceTables, CardCatalogue.** The tables are the ones of the header, row by row. A
descriptor's three functions always belong to one style, which stands for them; the
old module's table gives the style of the registers each kind is wired with.
`CardCatalogue` follows a machine whose cards have any of the kinds given for each slot
(`Kinds`): `CompareRow`/`CompareEnd` (the
test at load), `Probe` (search, default BAR, refusal of a NULL handler, node),
`AiowdmInit`/`ReadEntry`/`InitComplete` (the entries of the directory in any order, the
test for "pci", the open that fails on a directory) and `QueryCardInfo` with every
combination of its pointers and the size that is both input and output. Names are
strings here, because substrings of them decide. It shows what no comment in the
code says: 19 kinds are never bound, as request_irq refuses their NULL handler; four
are bound and never get a number (three P104 cards without "pci" in the name, one
name with a slash); the two kinds 0x825d and 0x825e want the same node.

**AioLibrary.** `AiowdmInit` is one action per outcome of an iteration; `readdir`
returns entries in any order. A failed open leaves -1 in the slot, a failed
descriptor ioctl leaves its file. `RelCall` builds the zeroed context,
`IoctlEnter` is the look-up of the file and `copy_from_user`, `IoctlRead` or
`IoctlWrite` the access, `IoctlCopy` the `copy_to_user` of a read. A BAR is four
bytes; accesses touch one, two or four, in one step: each is one cycle on the bus, and
nothing in the code makes two accesses of a program one. Assumption: no more nodes to list than slots,
as the code writes outside `cards` otherwise; nothing in the driver keeps the number
of nodes below the 32 slots. Here `QueryCardInfo` is the card and its port base; the
name is in `CardCatalogue`.

## 4. The runs

Passing runs:

| run | instance | shows |
|---|---|---|
| `irq_wait_safety` | 2 threads (one gets signals), 2 CPUs, 2 sources, stores in order | `NoSelfDeadlock`, `NoLostWakeup`, `NoLostIrq`, `SlotOwned`, `IrqReported`, `SuccessMeansIrq`; `IrqWait` implements `WaitService` |
| `irq_wait_live` | 2 threads of any program or of the interrupt test with its 3 rounds, 1 CPU, no signals, stores in either order, fairness | an ended wait returns unless overtaken; an interrupt ends the registered wait; the test program ends (`ProgramEnds`) and AbortRequest tells whether it ended the wait (`AbortTells`) |
| `driver_failures` | 2 kinds of cards, 3 probes, all probe failures but those of `pci_iomap`, a file | `IsrSafe`, `WakeInitialised`, `NodeOpensItsCard`, `BoundHasNode`, `CleanRemove` |
| `driver_unload` | 2 cards, overlapping probes, 2 probes in 2 loads, all failures, agreeing and disagreeing tables, fairness | `NodesApart`, `CleanUnload`, `DescriptorFound`; `DriverLifecycle` implements `CardLifecycle`; unloading terminates |
| `styles` | 2 cards, 18 styles next to one of each shape, the latch register in BAR 1 or in both BARs, fairness | `Acknowledged`, `ChoiceKept`, `LineDrops`, `WaitEnds` |
| `library` | 4 nodes of which 3 are to be listed, 3 slots, 2 threads, overlapping calls and a stray number, all failures | `NumbersAreCards`, `StrayNumbers`, `WithinCards`, `ErrorMeansUnwritten`, `ReadsAreWhole` |
| `catalogue` | each of the 121 kinds beside each of 9 others, buffer of 32 characters | `TablesAccepted`, `HandlerFitsCard`, `RegistersInReach`, `EveryCardNumbered`, `WholeName` |

*Bounds.* Two threads are a waiter and a canceller, or two waiters of which one is
overtaken; the proofs remove the bound. Two CPUs let the handler run beside or on
top of a thread; with one it always preempts. Two sources let one be raised after
the status register was read. Three probes of two cards bind both and rebind one,
which is what it takes to reuse a minor; two loads are what it takes to meet what
a failed load left behind; a BAR that `pci_iomap` could not map fails in `driver_unload` only,
as no property of the other run tells it from a mapped one; the wait protocol has no counters. Two cards on a line
are a card and its neighbour: handlers of one line run one after the other and
share nothing but the line. The shapes of a neighbour are a style that clears, one
that toggles, one that is always on and the one that notifies. With the latch register in BAR
1 only, PCI styles do not find it; in both BARs, all do. Three listed nodes
for three slots fill the array to the end and give listed, failed and stray numbers;
the fourth is not to be listed. The nine companions of `catalogue` are every way to be
left without handler or number, both kinds that share a node, and ordinary cards: two
cards interact through names only; the proofs remove the bound. Every name is shorter
than the buffer (`CatalogueAssumption`). Deadlock is checked in `irq_wait_safety` and the runs of
`IrqStyles`, `AioLibrary` and `CardCatalogue`; the test program ends, and a behaviour of
`DriverLifecycle` may end at its bounds, so it is not checked there.

*Symmetry.* CPUs in `irq_wait_safety`, threads in `library`; no liveness run uses it.

*Fairness.* `IrqWait`: strong fairness for a thread inside an ioctl (a runnable
thread that is preempted again and again is scheduled in the end), for the
delivery of an interrupt of a raised line (CPUs turn interrupts off for short
sections only) and for the handler's spinlock (spinlocks are granted in turn);
weak fairness for the handler's other steps, which nothing can disable. There is
none for user threads calling ioctls, for the card raising interrupts or for
signals. `IrqTest` adds that the two threads of the test program go on outside the
driver as well; its card still need not interrupt. `DriverLifecycle`: weak fairness for a probe or remove that has begun,
for removals that `accesio_pci_exit` has to make, for running handlers and for the
end of `accesio_pci_exit`. `IrqStyles`: weak fairness for dispatching an asserted
level-triggered line and for the steps of handlers.

## 5. The proofs

None of the properties is inductive by itself. Each component has an inductive
invariant `IInv`, a conjunction of named parts at the end of its module; TLC checked it
on the instances of section 4 before it was proved. A proof shows that the initial
states satisfy `IInv`, that every action preserves every part (one lemma or step per
action, and under it one per part it can disturb), and that `IInv` implies the
properties.

**The interrupt wait** (`IrqWaitProofs`, `IrqWaitRefinementProofs`). Assumed is
`ConstantsAssumption`: `Isr` and `None` are not threads, `None` is not a CPU,
interruptible threads are threads. Threads, CPUs and sources are arbitrary sets, finite
or not. Proved: `TypeCorrect`, `SelfDeadlockFree`, `WakeupNotLost`, `SlotHasOwner`,
`OutcomeTrue`, `SuccessTrue`, `InterruptNotLost`. `IInv` adds:

- `LockInv`: who holds `irq_lock` is known from the program counters; a holding
  thread has interrupts off on its CPU, and that CPU does not run the handler.
  Without it nothing orders the accesses to the two flags.
- `FlagInv`: both flags are 1 only between the stores of a cancel, and the slot is
  taken exactly if there is an owner.
- `SlotInv`: a thread inside IRQ_WAIT whose registration has not been ended is the
  owner, and leaves early only with a signal; if it was ended and no later
  registration has overtaken it, `waiting_for_irq` is 0 and `irq_cancelled` says how -
  or a cancel with swapped stores is about to write it. A thread outside that still
  owns the slot can only be one that signals reach.

`Refinement` is `Spec => ImplementsService`. Every step maps to a step of the service or
to a stutter; the cases that need `IInv` are the registration (the slot is empty because
the flag is 0), the return (the flags tell how the wait ended, by `SlotInv`) and the end
of a wait (the owner is armed, or left for a signal).

**The test program** (`IrqTestProofs`). Added is `TestAssumption`: `Main` and `Gen` are two
threads and `Rounds` is a number. Every step of the program is a step of `IrqWait`, so
its `IInv` holds; `TestInv` ties the places of the two threads to the one wait that the
program makes. `AloneInv` says that only `main` ever owns the slot and no signal
arrives, which is why `main` is never refused and leaves the wait only when it was ended;
`GenInv` says that the wait was cancelled exactly if GenIrq is past its store, which
holds because the handler cannot end the wait while GenIrq has the lock. From the two
follows `TestAbortTells`. It does not need the fairness of `TestSpec`.

**The lifecycle** (`DriverLifecycleProofs`). `LifecycleAssumption`: finitely many cards,
well-formed tables, `MaxProbes` and `MaxLoads` any numbers, so that the bounds of the model
are no bounds of the theorems. `MayFail`, `Files` and `SerialProbes` are arbitrary. Proved:
`DriverTypes`, `DriverIsrSafe`, `DriverWakeInitialised`, `DriverNodeOpensItsCard`,
`DriverNodesApart`,
`DriverBoundHasNode`, `DriverCleanRemove`, `DriverCleanUnload`, `DriverDescriptorFound`.
`IInv` adds:

- `CountInv`: a context is reserved for every probe in progress, and each raises the
  minor at most once. It keeps minors below the number of probes and is the one part
  that needs cardinalities (`CountMove`: a card that moves changes a count by one).
- `ModuleInv`: a loaded module has agreeing tables, and an unloaded one works on no card.
  `DescriptorFound` follows from the tables, `CleanUnload` from both.
- `OwnerInv`: from kzalloc to kfree a card has a live context of its own. All the other
  parts speak of a card through its context and need this.
- `HandlerInv`: a registered handler belongs to a card that has not reached free_irq, a
  running one at most to a card inside it; BARs are gone only after it. This is `IsrSafe`.
- `ReadyInv`: whatever a file can reach was initialised, since the character device comes
  after the wait queue; hence a handler that finds a waiter has a queue to wake.
- `NodeInv`: a node has the minor of its context, and its card has not destroyed it yet;
  two nodes never share a minor. So device_destroy, which looks for a minor, takes the
  node of its own card, unless a device_create has failed.
- `CdevInv`: an entry of `cdev_map` is a context that had its turn at cdev_add, under its
  own minor. A node that opens the context of another node would therefore have the minor
  of that node, which `NodeInv` excludes; this is `NodesApart`, whatever cdev_add does.
- `RegionInv`: a card holds its regions exactly while it needs them, until a probe of it
  fails.
- `SerialInv`: probes that do not overlap give out minors in order.

`DriverRefinementProofs` proves `DriverImplementsCards`: `Spec => ImplementsCards`, one lemma
per action saying which step of `CardLifecycle` it is seen as. `RegionInv` tells the
probes of stuck cards from the others, `NodeInv` whose node a removal takes, `ModuleInv`
that unloading leaves all cards free or stuck.

**The library** (`AioLibraryProofs`). `LibraryAssumption`: a finite directory with no more
nodes to list than slots (section 3), calls whose card number lies in the array and whose
access in a BAR (the code checks neither, and is undefined outside); the number of slots, threads and calls and `MayFail` are arbitrary. Proved:
`LibraryTypes`, `LibraryNumbersAreCards`, `LibraryStrayNumbers`, `LibraryWithinCards`,
`LibraryErrorMeansUnwritten`, `LibraryReadsAreWhole`. `IInv` adds:

- `ListInv`: the numbers given out stand for different nodes that were read and did not
  fail, and every node to list is unread, failed or numbered.
- `SpareInv`: the slot after the last number holds at most a failed node, those after it
  nothing. Together with `ListInv` it says what every number reaches.
- `ThreadInv`: how far each call has come (`TargetOk`) and what the two copies of its data
  hold (`ReadOk`). A call keeps its target because the array is fixed when threads run.

**The styles** (`IrqStylesProofs`). `StylesAssumption` keeps `None` apart from cards and
accesses. The theorems have the hypothesis `SoundCards`: the cards have one of the
eighteen styles whose handlers agree with the register table. It excludes the styles
pci_1, pci_2 and pci_9 only, for which the properties are false (section 6). Any number
of cards may share the line, with the latch register of each in any BARs;
`ChoiceKept` speaks of the cards whose handlers find it. Proved: `StylesTypes`, `StylesAcknowledged`,
`StylesChoiceKept`. That handlers agree with the table is shown style by style
(`Agrees`: the first operation clears the card; an enable follows a disable, otherwise
accesio_notify_user or nothing), and nothing else about a style is used. `IInv` adds
`OpsInv` (how far a handler is), `LatchInv` (from its first operation on the card holds no
interrupt) and `EnableInv` (a card is off inside its handler only between a disable and
the enable).

**The catalogue** (`CardCatalogueProofs`). `CatalogueAssumption`: `Kinds` is a sequence of
sets of ids, of any length, and the buffer has room for every name and its 0. Proved:
`CatalogueTypes`, `CatalogueTablesAccepted`, `CatalogueHandlerFitsCard`,
`CatalogueRegistersInReach`, `CatalogueEveryCardNumbered`, `CatalogueWholeName`. Two kinds
of facts meet here.

Facts about the 121 rows: the two tables agree and the 0 follows (`TableLength`,
`TablesAgree`), no id occurs twice (`IdsDistinct`), so the search in probe has one answer
(`LookupRow`), kinds with a handler have a name of their own but for two
(`NamesDistinct`), the switch of probe concerns one id (`OverriddenIds`), every style is
that of the old module's table (`StylesFit`, from the nine pieces of the table). The prover
decides these from the data. What it cannot decide is which characters a string has; that
is `NamesAssumption`: which names have "pci" and no slash, that an entry of the
directory has no slash, and that a name is the copy of all its characters. It contains no
constant, and TLC evaluates it in the run `catalogue` for all rows, which settles it.

Facts about behaviours, the parts of `IInv` besides the properties themselves:

- `CardInv`: what probe made of a card follows from its row and from the cards before it
  that have a node of its name. Two nodes therefore never share a name (`NodesDistinct`),
  which the scan relies on: an entry leads to one card.
- `NumberInv`: during the scan the cards with a number are exactly the nodes it takes
  (`Taken`) whose entry has been read, with one number each, and every unread entry comes
  from a node. `EveryCardNumbered` only speaks of the end of the scan and is not
  inductive; `TakenCards` turns `Taken` into its terms.
- `CallerInv`: the size in a program's variable is the one it set, or that of the name it
  asked for. `WholeName` needs it for a call that follows the one that gave the size.

**Only model-checked.** Liveness (`EndedWaitReturns`, `IrqEndsWait`, `ProgramEnds`,
`UnloadCompletes`, `LineDrops`, `WaitEnds`), since fairness and ENABLED are beyond the
prover; the characters of the 121 names (`NamesAssumption`); the disagreements of
section 6. No module uses a RECURSIVE
operator, which the prover's SMT backend does not take, and no theorem needs
induction over data.

## 6. Where code and documentation disagree

Each has a run that TLC ends with a violation; `PROJECT.json` quotes the lines.

- `driver_irq_order`: the handler is registered before its lock is initialised.
  (`WakeInitialised` shows that it still wakes no uninitialised queue.)
- `styles_pci_1`: the handler of PCI style 1 never clears its card.
- `styles_pci_2`: the handler of PCI style 2 enables at offset -0x1f and leaves its
  card disabled.
- `styles_latch`: the handlers of the PCI styles look for the latch register in BAR 0.
  If it is in BAR 1, where the comments have it, a card that interrupts keeps
  the line for ever.
- `styles_wait`: no handler but adio16f's ends a wait.

Smaller ones, which no run states: IRQ_WAIT and with it WaitForIRQ return 0 when an
interrupt ended the wait, while the Readme (line 5) asks for non-zero on success (`AbortTells` says so
of the test program); `remove` unmaps the BARs before it destroys the
node and never disables the card, while the Readme's steps of removal (lines
34-36) have the other order and end with disabling; PCI style 9 uses the clear and
disable registers of style 10, and the run `styles` leaves it out with the two
styles above.

Weaknesses that no documentation contradicts appear as the conditions of
properties: a signal leaves the slot taken (`SlotOwned`), a late waiter learns either
outcome (`Undisturbed`), overlapping probes can share a minor (`NodeOpensItsCard`), a
failed `device_create` leaves a card without a node (`BoundHasNode`), a failed
`cdev_add` leaves a node that leads nowhere or to a removed card (`NodeOpensItsCard`), a failed probe
or init keeps what it took (`CleanRemove`, `CleanUnload`), a handler that toggles its
card can undo a user's disable that comes before its enable (`ChoiceKept`), a failed descriptor ioctl leaves a file
behind the last number (`StrayNumbers`), an AbortRequest before the wait is forgotten
and the test program then waits for ever (`ProgramEnds`), the BARs are gone a moment
before the node (`NodeOpensItsCard`), the registers of the handlers are out of the reach
of RelIn and RelOut on all cards but one (`RegistersInReach`), a name read with the size
that QueryCardInfo gave is not terminated (`WholeName`).

## 7. What is not modelled

- An ioctl, or a thread asleep in IRQ_WAIT, on a card that has been removed: the
  context is freed and the code's behaviour is undefined. The composition of
  lifecycle and wait ends there: before the removal the two share only the flag that
  `DriverLifecycle` has, after it there is nothing to state. Since the library's
  constructor opens every node and never closes one, unbinding a card under any
  program that uses the library leads there.
- BARs that could not be mapped and are used all the same; offsets outside a BAR.
- `disable_pcie_style_3`, which would write into the context; nothing calls it.
- Logging, the format of ioctl numbers, `dev_mode` (the permissions of the nodes).
- mmap, suspend, resume, shutdown, IRQ_ENABLE, IRQ_DISABLE and COSWaitForIRQ, which
  change nothing.
- DMA: the driver allocates `isr_context` (the allocation and its missing check are
  in `ProbeAddCdev`) and does not use it.
- The old module's code, which is commented out or superseded and built with nothing;
  its register table is the model of the cards in `IrqStyles`, its device table that of
  their wiring in `DeviceTables`.
- The test programs RegisterIo and query: single threads of calls that `AioLibrary` and
  `CardCatalogue` already make in any order.
