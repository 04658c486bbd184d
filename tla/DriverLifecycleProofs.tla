----------------------- MODULE DriverLifecycleProofs -----------------------
(***************************************************************************)
(* Proofs about DriverLifecycle, for every finite set of cards, every pair *)
(* of tables, any number of probes and loads, and whatever kernel calls    *)
(* may fail.                                                               *)
(***************************************************************************)
EXTENDS DriverLifecycle, FiniteSetTheorems, TLAPS

-----------------------------------------------------------------------------
(* Facts about the operators of the model. *)

(* A card that moves changes the number of cards at a set of places by itself *)
(* only.                                                                      *)
LEMMA CountMove ==
  ASSUME TypeOK, NEW c \in Cards, NEW p, Goto(c, p), NEW S
  PROVE  /\ CountAt(pc, S) \in Nat /\ CountAt(pc', S) \in Nat
         /\ (p \in S <=> pc[c] \in S) => CountAt(pc', S) = CountAt(pc, S)
         /\ p \in S /\ pc[c] \notin S => CountAt(pc', S) = CountAt(pc, S) + 1
         /\ p \notin S /\ pc[c] \in S => CountAt(pc', S) = CountAt(pc, S) - 1
<1> DEFINE F == {d \in Cards : pc[d] \in S}
           G == {d \in Cards : pc'[d] \in S}
           H == F \ {c}
<1>1. IsFiniteSet(F) /\ F \in SUBSET Cards
  BY FS_Subset, LifecycleAssumption
<1>2. IsFiniteSet(H) /\ Cardinality(H) = IF pc[c] \in S THEN Cardinality(F) - 1
                                         ELSE Cardinality(F)
  BY <1>1, FS_RemoveElement
<1>3. G = IF p \in S THEN H \cup {c} ELSE H
  BY DEF TypeOK, Goto
<1>4. IsFiniteSet(G) /\ Cardinality(G) = IF p \in S THEN Cardinality(H) + 1
                                         ELSE Cardinality(H)
  <2>1. c \notin H
    OBVIOUS
  <2> HIDE DEF G, H
  <2>2. IsFiniteSet(H \cup {c}) /\ Cardinality(H \cup {c}) = Cardinality(H) + 1
    BY <1>2, <2>1, FS_AddElement
  <2> QED
    BY <1>2, <1>3, <2>2
<1>5. Cardinality(F) \in Nat /\ Cardinality(H) \in Nat /\ Cardinality(G) \in Nat
  BY <1>1, <1>2, <1>4, FS_CardinalityType
<1>6. CountAt(pc, S) = Cardinality(F) /\ CountAt(pc', S) = Cardinality(G)
  BY DEF CountAt
<1> HIDE DEF F, G, H
<1> QED
  BY <1>2, <1>4, <1>5, <1>6

(* A non-empty set of natural numbers has a least element. *)
LEMMA LeastElement ==
  ASSUME NEW S \in SUBSET Nat, S # {}
  PROVE  \E i \in S : \A j \in S : i <= j
<1> DEFINE R == {ss \in Nat \X Nat : ss[1] < ss[2]}
<1>1. R = OpToRel(<, Nat)
  BY Zenon DEF OpToRel
<1>2. IsWellFoundedOn(R, Nat)
  BY <1>1, NatLessThanWellFounded, Zenon
<1>3. PICK i \in S : \A j \in S : ~ (<<j, i>> \in R)
  BY <1>2, WFMin
<1>4. ASSUME NEW j \in S PROVE i <= j
  <2>1. j < i => <<j, i>> \in R
    OBVIOUS
  <2>2. ~ (j < i)
    BY <1>3, <2>1
  <2> QED
    BY <2>2
<1> QED
  BY <1>4

(* If the tables agree, the search of probe for a card that the PCI core      *)
(* offers ends at a descriptor with the id of the card.                       *)
LEMMA LookupFinds ==
  ASSUME table \in Tables, TablesAgree, NEW c \in Cards, Matches(c)
  PROVE  /\ Lookup(Pid[c]) \in 1..Len(table.descriptors)
         /\ table.descriptors[Lookup(Pid[c])].pid = Pid[c]
<1> DEFINE N == Len(table.descriptors)
           hits == {i \in 1..N : table.descriptors[i].pid = Pid[c]}
<1>1. N \in Nat /\ Len(table.ids) \in Nat
  BY LifecycleAssumption
<1>2. PICK i \in 1..Len(table.ids) : /\ table.ids[i] = Pid[c]
                                     /\ \A j \in 1..i : table.ids[j] # 0
  BY DEF Matches
<1>3. i \in hits
  BY <1>1, <1>2 DEF TablesAgree
<1>4. \E k \in hits : \A j \in hits : k <= j
  <2>1. hits \in SUBSET Nat /\ hits # {}
    BY <1>1, <1>3
  <2> HIDE DEF hits
  <2> QED
    BY <2>1, LeastElement
<1>5. Lookup(Pid[c]) = CHOOSE k \in hits : \A j \in hits : k <= j
  BY <1>3 DEF Lookup
<1>6. Lookup(Pid[c]) \in hits
  BY <1>4, <1>5
<1> QED
  BY <1>6

(* The cards at a set of places can be counted. *)
LEMMA CountNat ==
  ASSUME NEW S
  PROVE  /\ CountAt(pc, S) \in Nat
         /\ \A c \in Cards : pc[c] \in S => CountAt(pc, S) >= 1
<1> DEFINE C == {c \in Cards : pc[c] \in S}
<1>1. IsFiniteSet(C) /\ Cardinality(C) \in Nat
  BY FS_Subset, FS_CardinalityType, LifecycleAssumption
<1>2. (\E c \in Cards : pc[c] \in S) => Cardinality(C) # 0
  BY <1>1, FS_EmptySet
<1>3. CountAt(pc, S) = Cardinality(C)
  BY DEF CountAt
<1> HIDE DEF C
<1> QED
  BY <1>1, <1>2, <1>3

(* The count in the guard of ProbeEnable. *)
LEMMA CountEnabled ==
  Cardinality({d \in Cards : pc[d] = "enabled"}) = CountAt(pc, {"enabled"})
<1>1. {d \in Cards : pc[d] = "enabled"} = {d \in Cards : pc[d] \in {"enabled"}}
  OBVIOUS
<1> QED
  BY <1>1 DEF CountAt

(* What the counting part says of the next context and minor. *)
LEMMA CountFacts ==
  ASSUME TypeOK, CountInv
  PROVE  /\ Cardinality(Used) \in 0..MaxProbes
         /\ Used = 1..Cardinality(Used)
         /\ \A c \in Cards : pc[c] = "enabled" => Cardinality(Used) < MaxProbes
         /\ \A c \in Cards : pc[c] \in NumberingPcs => next_minor < Cardinality(Used)
         /\ next_minor <= Cardinality(Used)
<1>1. PICK k \in 0..MaxProbes : Used = 1..k
  BY DEF CountInv
<1>2. Cardinality(Used) = k
  BY <1>1, FS_Interval, LifecycleAssumption
<1>3. ASSUME NEW S
      PROVE  /\ CountAt(pc, S) \in Nat
             /\ \A c \in Cards : pc[c] \in S => CountAt(pc, S) >= 1
  BY CountNat
<1>4. k \in Int /\ MaxProbes \in Int /\ next_minor \in Int
  BY LifecycleAssumption DEF TypeOK, Minors
<1>5. /\ k + CountAt(pc, {"enabled"}) <= MaxProbes
      /\ next_minor + CountAt(pc, NumberingPcs) <= k
  BY <1>2 DEF CountInv
<1>6. CountAt(pc, {"enabled"}) \in Nat /\ CountAt(pc, NumberingPcs) \in Nat
  BY <1>3
<1>7. ASSUME NEW c \in Cards, pc[c] = "enabled" PROVE k < MaxProbes
  BY <1>3, <1>4, <1>5, <1>7
<1>8. ASSUME NEW c \in Cards, pc[c] \in NumberingPcs PROVE next_minor < k
  BY <1>3, <1>4, <1>5, <1>8
<1> QED
  BY <1>1, <1>2, <1>4, <1>5, <1>6, <1>7, <1>8

-----------------------------------------------------------------------------
(* Every step keeps each part of the invariant. *)

(* The tables are those of the build. *)
LEMMA TableFixed == [Next]_vars => table' = table /\ ContextType' = ContextType
<1> SUFFICES ASSUME [Next]_vars PROVE table' = table
  BY DEF ContextType
<1> QED
  BY DEF Next, Probe, Remove, vars, ModuleInit, ModuleExit, ModuleExitEnd,
     ProbeEnable, ProbeAllocate, ProbeMap, ProbeRequestIrq, ProbeInitLock,
     ProbeAddCdev, ProbeCreateNode, ProbeFinish, RemoveFreeIrq, RemoveRelease,
     RemoveDestroyNode, RemoveFree, IsrRun, IsrNotify, IsrWake, Open, Release,
     Ioctl

(* A context keeps its type when fields of it are stored. *)
LEMMA ContextStores ==
  ASSUME NEW r \in ContextType
  PROVE  /\ \A c \in Cards, d \in 0..Len(table.descriptors) :
              [r EXCEPT !.state = "live", !.card = c, !.descriptor = d] \in ContextType
         /\ [r EXCEPT !.state = "freed"] \in ContextType
         /\ \A b \in {"null", "mapped", "gone"} : [r EXCEPT !.bars = b] \in ContextType
         /\ r.bars \in {"null", "mapped", "gone"}
         /\ [r EXCEPT !.ready = TRUE] \in ContextType
         /\ \A m \in Minors : [r EXCEPT !.minor = m] \in ContextType
         /\ \A b \in BOOLEAN : [r EXCEPT !.waiting = b] \in ContextType
         /\ r.waiting \in BOOLEAN /\ r.minor \in Minors
  BY DEF ContextType

(* The variables keep their types: contexts and minors do not run out. *)
LEMMA TypeStep ==
  TypeOK /\ CountInv /\ ModuleInv /\ OwnerInv /\ [Next]_vars => TypeOK'
<1> SUFFICES ASSUME TypeOK /\ CountInv /\ ModuleInv /\ OwnerInv, [Next]_vars
             PROVE  TypeOK'
  OBVIOUS
<1>a. table' = table /\ ContextType' = ContextType
  BY TableFixed
<1>b. None \notin Contexts /\ MaxProbes \in Nat /\ MaxLoads \in Nat
  BY LifecycleAssumption
<1> USE <1>a, <1>b DEF TypeOK, Pcs, moduleVars, cardVars, irqVars, charVars,
        histVars, Goto, ProbeGivesUp
<1>1. CASE ModuleInit
  <2>1. loads + 1 \in 0..MaxLoads /\ chrdev + 1 \in 0..MaxLoads /\ 0 \in Minors
    BY <1>1 DEF ModuleInit, ModuleInv, Minors
  <2> QED
    BY <1>1, <2>1 DEF ModuleInit
<1>2. CASE ModuleExit
  BY <1>2 DEF ModuleExit
<1>3. CASE ModuleExitEnd
  <2>1. chrdev - 1 \in 0..MaxLoads
    BY <1>3 DEF ModuleExitEnd, ModuleInv
  <2> QED
    BY <1>3, <2>1 DEF ModuleExitEnd
<1>4. ASSUME NEW c \in Cards, ProbeEnable(c) PROVE TypeOK'
  BY <1>4 DEF ProbeEnable
<1>5. ASSUME NEW c \in Cards, ProbeAllocate(c) PROVE TypeOK'
  <2> DEFINE y == Cardinality(Used) + 1
             d == Lookup(Pid[c])
  <2>1. y \in Contexts
    BY <1>5, CountFacts DEF ProbeAllocate, Contexts
  <2>2. d \in 0..Len(table.descriptors)
    BY <1>5, LookupFinds, LifecycleAssumption DEF ProbeAllocate, ModuleInv
  <2> HIDE DEF y, d
  <2>3. ctx[y] \in ContextType
    BY <2>1
  <2>4. [ctx[y] EXCEPT !.state = "live", !.card = c, !.descriptor = d] \in ContextType
    BY <2>2, <2>3, ContextStores
  <2>5. ctx' \in [Contexts -> ContextType]
    BY <1>5, <2>1, <2>4 DEF ProbeAllocate, y, d
  <2> QED
    BY <1>5, <2>1, <2>2, <2>5 DEF ProbeAllocate, y, d
<1>6. ASSUME NEW c \in Cards, ProbeMap(c) PROVE TypeOK'
  <2> DEFINE x == drvdata[c]
  <2>1. x \in Contexts /\ ctx[x] \in ContextType
    BY <1>6 DEF ProbeMap, OwnerInv
  <2>2. [ctx[x] EXCEPT !.bars = "mapped"] \in ContextType
    BY <2>1, ContextStores
  <2>3. ctx' \in [Contexts -> ContextType]
    BY <1>6, <2>1, <2>2 DEF ProbeMap
  <2> QED
    BY <1>6, <2>1, <2>3 DEF ProbeMap
<1>7. ASSUME NEW c \in Cards, ProbeRequestIrq(c) PROVE TypeOK'
  BY <1>7 DEF ProbeRequestIrq, OwnerInv
<1>8. ASSUME NEW c \in Cards, ProbeInitLock(c) PROVE TypeOK'
  <2>1. ctx' \in [Contexts -> ContextType]
    BY <1>8, ContextStores DEF ProbeInitLock, InitLock, OwnerInv
  <2> QED
    BY <1>8, <2>1 DEF ProbeInitLock, InitLock, OwnerInv
<1>9. ASSUME NEW c \in Cards, ProbeAddCdev(c) PROVE TypeOK'
  <2> DEFINE x == drvdata[c]
  <2>1. x \in Contexts /\ ctx[x] \in ContextType
    BY <1>9 DEF ProbeAddCdev, OwnerInv
  <2>2. [ctx[x] EXCEPT !.minor = next_minor] \in ContextType
    BY <2>1, ContextStores
  <2>3. ctx' \in [Contexts -> ContextType]
    BY <1>9, <2>1, <2>2 DEF ProbeAddCdev
  <2> QED
    BY <1>9, <2>1, <2>3 DEF ProbeAddCdev
<1>10. ASSUME NEW c \in Cards, ProbeCreateNode(c) PROVE TypeOK'
  <2>1. drvdata[c] \in Contexts /\ ctx[drvdata[c]].minor \in Minors
    BY <1>10, ContextStores DEF ProbeCreateNode, OwnerInv
  <2>2. \A n \in nodes' : n.minor \in Minors /\ n.ctx \in Contexts
    BY <1>10, <2>1 DEF ProbeCreateNode, NodeMinor
  <2> QED
    BY <1>10, <2>1, <2>2 DEF ProbeCreateNode, CreateFailed
<1>11. ASSUME NEW c \in Cards, ProbeFinish(c) PROVE TypeOK'
  <2>1. next_minor < Cardinality(Used) /\ Cardinality(Used) \in 0..MaxProbes
    BY <1>11, CountFacts DEF ProbeFinish, NumberingPcs, BeforeCdevPcs
  <2>2. next_minor + 1 \in Minors
    BY <2>1 DEF Minors
  <2> QED
    BY <1>11, <2>2 DEF ProbeFinish, AdvanceMinor
<1>12. ASSUME NEW c \in Cards, RemoveFreeIrq(c) PROVE TypeOK'
  BY <1>12 DEF RemoveFreeIrq, FreeIrq
<1>13. ASSUME NEW c \in Cards, RemoveRelease(c) PROVE TypeOK'
  <2> DEFINE x == drvdata[c]
             b == IF ctx[x].bars = "mapped" THEN "gone" ELSE ctx[x].bars
  <2>1. x \in Contexts /\ ctx[x] \in ContextType
    BY <1>13 DEF RemoveRelease, OwnerInv
  <2>2. b \in {"null", "mapped", "gone"}
    BY <2>1, ContextStores
  <2>3. ctx' = [ctx EXCEPT ![x].bars = b]
    BY <1>13 DEF RemoveRelease
  <2> HIDE DEF b
  <2>4. [ctx[x] EXCEPT !.bars = b] \in ContextType
    BY <2>1, <2>2, ContextStores
  <2>5. ctx' \in [Contexts -> ContextType]
    BY <2>1, <2>3, <2>4
  <2> QED
    BY <1>13, <2>1, <2>5 DEF RemoveRelease, ReleaseRegions
<1>14. ASSUME NEW c \in Cards, RemoveDestroyNode(c) PROVE TypeOK'
  BY <1>14 DEF RemoveDestroyNode, DeviceDestroy
<1>15. ASSUME NEW c \in Cards, RemoveFree(c) PROVE TypeOK'
  <2>1. ctx' \in [Contexts -> ContextType]
    BY <1>15, ContextStores DEF RemoveFree, OwnerInv
  <2> QED
    BY <1>15, <2>1 DEF RemoveFree, OwnerInv
<1>16. ASSUME NEW x \in Contexts, IsrRun(x) PROVE TypeOK'
  BY <1>16 DEF IsrRun
<1>17. ASSUME NEW x \in Contexts, IsrNotify(x) PROVE TypeOK'
  <2>1. ctx' \in [Contexts -> ContextType]
    BY <1>17, ContextStores DEF IsrNotify
  <2> QED
    BY <1>17, <2>1 DEF IsrNotify
<1>18. ASSUME NEW x \in Contexts, IsrWake(x) PROVE TypeOK'
  BY <1>18 DEF IsrWake
<1>19. ASSUME NEW f \in Files, Open(f) PROVE TypeOK'
  BY <1>19 DEF Open
<1>20. ASSUME NEW f \in Files, Release(f) PROVE TypeOK'
  BY <1>20 DEF Release
<1>21. ASSUME NEW f \in Files, Ioctl(f) PROVE TypeOK'
  <2>1. ctx' \in [Contexts -> ContextType]
    BY <1>21, ContextStores DEF Ioctl
  <2> QED
    BY <1>21, <2>1 DEF Ioctl
<1>22. CASE UNCHANGED vars
  BY <1>22 DEF vars
<1> QED
  BY <1>1, <1>2, <1>3, <1>4, <1>5, <1>6, <1>7, <1>8, <1>9, <1>10, <1>11,
     <1>12, <1>13, <1>14, <1>15, <1>16, <1>17, <1>18, <1>19, <1>20, <1>21,
     <1>22
  DEF Next, Probe, Remove

(* What a step does to a context: the state and fields it has afterwards, the *)
(* card and the descriptor it keeps; every other context stays as it is.      *)
Stored(x, state, bars, ready, minor, waiting) ==
  /\ x \in Contexts
  /\ \A y \in Contexts : y # x => ctx'[y] = ctx[y]
  /\ ctx'[x].card = ctx[x].card /\ ctx'[x].descriptor = ctx[x].descriptor
  /\ ctx'[x].state = state /\ ctx'[x].bars = bars /\ ctx'[x].ready = ready
  /\ ctx'[x].minor = minor /\ ctx'[x].waiting = waiting

MapsBars(c) ==
  LET x == drvdata[c]
      r == ctx[x]
  IN  ctx' = ctx \/ Stored(x, r.state, "mapped", r.ready, r.minor, r.waiting)

(* pci_iomap maps the BARs of the context of the card, or leaves them NULL.  *)
LEMMA ProbeMapWhat ==
  ASSUME IInv, NEW c \in Cards, ProbeMap(c) PROVE MapsBars(c)
<1>1. TypeOK /\ OwnerInv
  BY DEF IInv
<1>2. drvdata[c] \in Contexts
  BY <1>1 DEF TypeOK, OwnerInv, ProbeMap
<1> QED
  BY <1>1, <1>2 DEF TypeOK, ContextType, Stored, MapsBars, ProbeMap

InitsLock(c) ==
  LET x == drvdata[c]
      r == ctx[x]
  IN  Stored(x, r.state, r.bars, TRUE, r.minor, r.waiting)

(* spin_lock_init and init_waitqueue_head prepare that context.              *)
LEMMA ProbeInitLockWhat ==
  ASSUME IInv, NEW c \in Cards, ProbeInitLock(c) PROVE InitsLock(c)
<1>1. TypeOK /\ OwnerInv
  BY DEF IInv
<1>2. drvdata[c] \in Contexts
  BY <1>1 DEF TypeOK, OwnerInv, ProbeInitLock
<1> QED
  BY <1>1, <1>2 DEF TypeOK, ContextType, Stored, InitsLock, ProbeInitLock,
     InitLock

AddsCdev(c) ==
  LET x == drvdata[c]
      r == ctx[x]
  IN  \/ /\ Goto(c, "oops") /\ UNCHANGED <<ctx, cdev_map, cdev_failed>>
      \/ /\ Goto(c, "cdev")
         /\ Stored(x, r.state, r.bars, r.ready, next_minor, r.waiting)
         /\ \/ /\ cdev_map' = [cdev_map EXCEPT ![next_minor] = x]
               /\ cdev_failed' = cdev_failed
            \/ cdev_map' = cdev_map /\ cdev_failed' = cdev_failed \cup {x}

(* Probe dies, or numbers that context and maps the minor to it, or fails to. *)
LEMMA ProbeAddCdevWhat ==
  ASSUME IInv, NEW c \in Cards, ProbeAddCdev(c) PROVE AddsCdev(c)
<1>1. TypeOK /\ OwnerInv
  BY DEF IInv
<1>2. drvdata[c] \in Contexts
  BY <1>1 DEF TypeOK, OwnerInv, ProbeAddCdev
<1> QED
  BY <1>1, <1>2 DEF TypeOK, ContextType, Stored, AddsCdev, ProbeAddCdev

ReleasesBars(c) ==
  LET x == drvdata[c]
      r == ctx[x]
  IN  \E b \in {"gone", r.bars} : Stored(x, r.state, b, r.ready, r.minor, r.waiting)

(* pci_iounmap takes the BARs of that context away, if it has any.           *)
LEMMA RemoveReleaseWhat ==
  ASSUME IInv, NEW c \in Cards, RemoveRelease(c) PROVE ReleasesBars(c)
<1> DEFINE b == IF ctx[drvdata[c]].bars = "mapped" THEN "gone"
                ELSE ctx[drvdata[c]].bars
<1>1. TypeOK /\ OwnerInv
  BY DEF IInv
<1>2. drvdata[c] \in Contexts
  BY <1>1 DEF TypeOK, OwnerInv, RemoveRelease
<1>3. ctx' = [ctx EXCEPT ![drvdata[c]].bars = b]
  BY DEF RemoveRelease
<1>4. b \in {"gone", ctx[drvdata[c]].bars}
  OBVIOUS
<1> HIDE DEF b
<1> QED
  BY <1>1, <1>2, <1>3, <1>4 DEF TypeOK, ContextType, Stored, ReleasesBars

FreesContext(c) ==
  LET x == drvdata[c]
      r == ctx[x]
  IN  Stored(x, "freed", r.bars, r.ready, r.minor, r.waiting)

(* kfree frees that context.                                                 *)
LEMMA RemoveFreeWhat ==
  ASSUME IInv, NEW c \in Cards, RemoveFree(c) PROVE FreesContext(c)
<1>1. TypeOK /\ OwnerInv
  BY DEF IInv
<1>2. drvdata[c] \in Contexts
  BY <1>1 DEF TypeOK, OwnerInv, RemoveFree
<1> QED
  BY <1>1, <1>2 DEF TypeOK, ContextType, Stored, FreesContext, RemoveFree

EndsWait(x) ==
  \/ ctx' = ctx /\ isr' = [isr EXCEPT ![x] = "off"]
  \/ /\ ctx[x].waiting /\ isr' = [isr EXCEPT ![x] = "wake"]
     /\ Stored(x, ctx[x].state, ctx[x].bars, ctx[x].ready, ctx[x].minor, FALSE)

(* A handler ends a registered wait of its own context, or returns.          *)
LEMMA IsrNotifyWhat ==
  ASSUME IInv, NEW x \in Contexts, IsrNotify(x) PROVE EndsWait(x)
<1>1. TypeOK
  BY DEF IInv
<1>2. CASE Descriptor(x).isr = "adio16f" /\ ctx[x].waiting
  BY <1>1, <1>2 DEF TypeOK, ContextType, Stored, IsrNotify, EndsWait
<1>3. CASE ~ (Descriptor(x).isr = "adio16f" /\ ctx[x].waiting)
  BY <1>3 DEF IsrNotify, EndsWait
<1> QED
  BY <1>2, <1>3

TurnsWait(f) ==
  LET x == files[f]
      r == ctx[x]
  IN  Stored(x, r.state, r.bars, r.ready, r.minor, ~ r.waiting)

(* IRQ_WAIT and IRQ_WAIT_CANCEL turn the wait of the context of the file.    *)
LEMMA IoctlWhat ==
  ASSUME IInv, NEW f \in Files, Ioctl(f) PROVE TurnsWait(f)
<1>1. TypeOK
  BY DEF IInv
<1>2. files[f] \in Contexts
  BY <1>1 DEF TypeOK, Ioctl
<1> QED
  BY <1>1, <1>2 DEF TypeOK, ContextType, Stored, Ioctl, TurnsWait

(* The context that kzalloc returns has never been used, and the descriptor   *)
(* is that of the card.                                                       *)
Allocates(c) ==
  LET x == Cardinality(Used) + 1
      d == Lookup(Pid[c])
  IN  \/ ProbeGivesUp(c) /\ ctx' = ctx
      \/ /\ x \in Contexts /\ ctx[x].state = "unused" /\ ctx[x] = Fresh
         /\ \A y \in Contexts : y # x => ctx'[y] = ctx[y]
         /\ ctx'[x].state = "live" /\ ctx'[x].card = c /\ ctx'[x].descriptor = d
         /\ d # 0 /\ table.descriptors[d].pid = Pid[c]
         /\ ctx'[x].bars = "null" /\ ctx'[x].ready = FALSE
         /\ ctx'[x].minor = 0 /\ ctx'[x].waiting = FALSE
         /\ drvdata' = [drvdata EXCEPT ![c] = x] /\ Goto(c, "allocated")
         /\ probe_failed' = probe_failed
         /\ c \notin regions /\ regions' = regions \cup {c}

(* Probe gives up, or gets a fresh context and finds the descriptor.         *)
LEMMA ProbeAllocateWhat ==
  ASSUME IInv, NEW c \in Cards, ProbeAllocate(c) PROVE Allocates(c)
<1> DEFINE x == Cardinality(Used) + 1
           d == Lookup(Pid[c])
<1>a. TypeOK /\ CountInv /\ ModuleInv /\ OwnerInv
  BY DEF IInv
<1>1. x \in Contexts
  BY <1>a, CountFacts, LifecycleAssumption DEF ProbeAllocate, Contexts
<1>2. ctx[x].state = "unused" /\ ctx[x] = Fresh
  <2>1. x \notin Used
    BY <1>a, CountFacts
  <2> QED
    BY <1>1, <1>a, <2>1 DEF Used, OwnerInv
<1>3. d # 0 /\ table.descriptors[d].pid = Pid[c]
  BY <1>a, LookupFinds DEF ProbeAllocate, ModuleInv, TypeOK
<1> HIDE DEF x, d
<1>4. CASE ctx' = ctx
  <2> DEFINE new == [ctx EXCEPT ![x] = [@ EXCEPT !.state = "live", !.card = c,
                                                 !.descriptor = d]]
  <2>1. new[x].state = "live"
    BY <1>a, <1>1 DEF TypeOK, ContextType
  <2> HIDE DEF new
  <2>2. ctx # new
    BY <1>2, <2>1
  <2>3. ProbeGivesUp(c)
    BY <1>4, <2>2 DEF ProbeAllocate, x, d, new
  <2> QED
    BY <2>3, <1>4 DEF Allocates
<1>5. CASE ctx' # ctx
  <2>1. /\ ctx' = [ctx EXCEPT ![x] = [@ EXCEPT !.state = "live", !.card = c,
                                               !.descriptor = d]]
        /\ drvdata' = [drvdata EXCEPT ![c] = x] /\ Goto(c, "allocated")
        /\ probe_failed' = probe_failed
        /\ c \notin regions /\ regions' = regions \cup {c}
    BY <1>5, <1>3 DEF ProbeAllocate, x, d
  <2>2. /\ \A y \in Contexts : y # x => ctx'[y] = ctx[y]
        /\ ctx'[x].state = "live" /\ ctx'[x].card = c /\ ctx'[x].descriptor = d
        /\ ctx'[x].bars = ctx[x].bars /\ ctx'[x].ready = ctx[x].ready
        /\ ctx'[x].minor = ctx[x].minor /\ ctx'[x].waiting = ctx[x].waiting
    BY <1>a, <2>1, <1>1 DEF TypeOK, ContextType
  <2>3. /\ ctx[x].bars = "null" /\ ctx[x].ready = FALSE
        /\ ctx[x].minor = 0 /\ ctx[x].waiting = FALSE
    BY <1>2 DEF Fresh
  <2> QED
    BY <1>1, <1>2, <1>3, <2>1, <2>2, <2>3 DEF x, d, Allocates
<1> QED
  BY <1>4, <1>5

(* A card that moves, all contexts as they were, keeps the counts unless it   *)
(* enters the places that are counted.                                        *)
LEMMA CountKept ==
  ASSUME TypeOK, CountInv, NEW c \in Cards, NEW p, Goto(c, p),
         Used' = Used, next_minor' = next_minor,
         p = "enabled" => pc[c] = "enabled",
         p \in NumberingPcs => pc[c] \in NumberingPcs
  PROVE  CountInv'
<1>1. /\ CountAt(pc, {"enabled"}) \in Int /\ CountAt(pc', {"enabled"}) \in Int
      /\ CountAt(pc', {"enabled"}) <= CountAt(pc, {"enabled"})
  <2> DEFINE S == {"enabled"}
  <2>1. p \in S => pc[c] \in S
    OBVIOUS
  <2> HIDE DEF S
  <2>2. /\ CountAt(pc, S) \in Int /\ CountAt(pc', S) \in Int
        /\ CountAt(pc', S) <= CountAt(pc, S)
    BY <2>1, CountMove
  <2> QED
    BY <2>2 DEF S
<1>2. /\ CountAt(pc, NumberingPcs) \in Int /\ CountAt(pc', NumberingPcs) \in Int
      /\ CountAt(pc', NumberingPcs) <= CountAt(pc, NumberingPcs)
  BY CountMove
<1>3. /\ Cardinality(Used) \in Int /\ Cardinality(Used') = Cardinality(Used)
      /\ MaxProbes \in Int /\ next_minor \in Int
  BY CountFacts, LifecycleAssumption DEF TypeOK, Minors
<1>4. /\ Cardinality(Used') + CountAt(pc', {"enabled"}) <= MaxProbes
      /\ next_minor' + CountAt(pc', NumberingPcs) <= Cardinality(Used')
  BY <1>1, <1>2, <1>3 DEF CountInv
<1>5. \E k \in 0..MaxProbes : Used' = 1..k
  BY DEF CountInv
<1> QED
  BY <1>4, <1>5 DEF CountInv, NumberingPcs, BeforeCdevPcs

(* A card between kzalloc and kfree keeps its own live context. *)
LEMMA OwnerStep == IInv /\ [Next]_vars => OwnerInv'
<1> SUFFICES ASSUME IInv, [Next]_vars
             PROVE  OwnerInv'
  OBVIOUS
<1>a. /\ pc \in [Cards -> Pcs] /\ drvdata \in [Cards -> Contexts \cup {None}]
      /\ None \notin Contexts /\ OwnerInv
  BY LifecycleAssumption DEF IInv, TypeOK
<1> USE <1>a DEF OwnerInv, Goto, ProbeGivesUp, cardVars
<1>1. ASSUME NEW c \in Cards, ProbeEnable(c) PROVE OwnerInv'
  BY <1>1 DEF ProbeEnable
<1>2. ASSUME NEW c \in Cards, ProbeAllocate(c) PROVE OwnerInv'
  <2>1. Allocates(c)
    BY <1>2, ProbeAllocateWhat
  <2> QED
    BY <1>2, <2>1 DEF ProbeAllocate, Allocates
<1>3. ASSUME NEW c \in Cards, ProbeMap(c) PROVE OwnerInv'
  <2>1. MapsBars(c)
    BY <1>3, ProbeMapWhat
  <2> QED
    BY <1>3, <2>1 DEF ProbeMap, MapsBars, Stored
<1>4. ASSUME NEW c \in Cards, ProbeRequestIrq(c) PROVE OwnerInv'
  BY <1>4 DEF ProbeRequestIrq
<1>5. ASSUME NEW c \in Cards, ProbeInitLock(c) PROVE OwnerInv'
  <2>1. InitsLock(c)
    BY <1>5, ProbeInitLockWhat
  <2> QED
    BY <1>5, <2>1 DEF ProbeInitLock, InitsLock, Stored
<1>6. ASSUME NEW c \in Cards, ProbeAddCdev(c) PROVE OwnerInv'
  <2>1. AddsCdev(c)
    BY <1>6, ProbeAddCdevWhat
  <2> QED
    BY <1>6, <2>1 DEF ProbeAddCdev, AddsCdev, Stored
<1>7. ASSUME NEW c \in Cards, ProbeCreateNode(c) PROVE OwnerInv'
  BY <1>7 DEF ProbeCreateNode, CreateFailed
<1>8. ASSUME NEW c \in Cards, ProbeFinish(c) PROVE OwnerInv'
  BY <1>8 DEF ProbeFinish
<1>9. ASSUME NEW c \in Cards, RemoveFreeIrq(c) PROVE OwnerInv'
  BY <1>9 DEF RemoveFreeIrq
<1>10. ASSUME NEW c \in Cards, RemoveRelease(c) PROVE OwnerInv'
  <2>1. ReleasesBars(c)
    BY <1>10, RemoveReleaseWhat
  <2> QED
    BY <1>10, <2>1 DEF RemoveRelease, ReleasesBars, Stored
<1>11. ASSUME NEW c \in Cards, RemoveDestroyNode(c) PROVE OwnerInv'
  BY <1>11 DEF RemoveDestroyNode
<1>12. ASSUME NEW c \in Cards, RemoveFree(c) PROVE OwnerInv'
  <2>1. FreesContext(c)
    BY <1>12, RemoveFreeWhat
  <2> QED
    BY <1>12, <2>1 DEF RemoveFree, FreesContext, Stored
<1>13. ASSUME NEW x \in Contexts, IsrNotify(x) PROVE OwnerInv'
  <2>1. EndsWait(x)
    BY <1>13, IsrNotifyWhat
  <2>2. UNCHANGED <<pc, drvdata>>
    BY <1>13 DEF IsrNotify
  <2>3. CASE ctx' = ctx
    BY <2>2, <2>3
  <2>4. CASE ctx[x].waiting /\ Stored(x, ctx[x].state, ctx[x].bars, ctx[x].ready,
                                      ctx[x].minor, FALSE)
    <3>1. ctx[x].state # "unused"
      BY <2>4 DEF Fresh
    <3> QED
      BY <2>2, <2>4, <3>1 DEF Stored
  <2> QED
    BY <2>1, <2>3, <2>4 DEF EndsWait
<1>14. ASSUME NEW f \in Files, Ioctl(f) PROVE OwnerInv'
  <2>1. TurnsWait(f)
    BY <1>14, IoctlWhat
  <2> QED
    BY <1>14, <2>1 DEF Ioctl, TurnsWait, Stored
<1>15. CASE UNCHANGED <<ctx, pc, drvdata>>
  BY <1>15 DEF Fresh
<1> QED
  BY <1>1, <1>2, <1>3, <1>4, <1>5, <1>6, <1>7, <1>8, <1>9, <1>10, <1>11,
     <1>12, <1>13, <1>14, <1>15
  DEF Next, Probe, Remove, ModuleInit, ModuleExit, ModuleExitEnd, IsrRun,
      IsrWake, Open, Release, vars

(* Only kzalloc makes a context used, and none is unused again. *)
LEMMA UsedKept ==
  ASSUME IInv
  PROVE  /\ \A c \in Cards : ProbeMap(c) \/ ProbeRequestIrq(c) \/ ProbeInitLock(c)
              \/ ProbeAddCdev(c) \/ ProbeCreateNode(c) \/ Remove(c) => Used' = Used
         /\ \A x \in Contexts : IsrNotify(x) => Used' = Used
         /\ \A f \in Files : Ioctl(f) => Used' = Used
<1>a. OwnerInv
  BY DEF IInv
<1>1. ASSUME NEW c \in Cards, ProbeMap(c) PROVE Used' = Used
  <2>1. MapsBars(c)
    BY <1>1, ProbeMapWhat
  <2> QED
    BY <1>1, <2>1 DEF Used, ProbeMap, MapsBars, Stored
<1>2. ASSUME NEW c \in Cards, ProbeInitLock(c) PROVE Used' = Used
  <2>1. InitsLock(c)
    BY <1>2, ProbeInitLockWhat
  <2> QED
    BY <1>2, <2>1 DEF Used, ProbeInitLock, InitsLock, Stored
<1>3. ASSUME NEW c \in Cards, ProbeAddCdev(c) PROVE Used' = Used
  <2>1. AddsCdev(c)
    BY <1>3, ProbeAddCdevWhat
  <2> QED
    BY <1>3, <2>1 DEF Used, ProbeAddCdev, AddsCdev, Stored
<1>4. ASSUME NEW c \in Cards, RemoveRelease(c) PROVE Used' = Used
  <2>1. ReleasesBars(c)
    BY <1>4, RemoveReleaseWhat
  <2> QED
    BY <1>4, <2>1 DEF Used, RemoveRelease, ReleasesBars, Stored
<1>5. ASSUME NEW c \in Cards, RemoveFree(c) PROVE Used' = Used
  <2>1. FreesContext(c)
    BY <1>5, RemoveFreeWhat
  <2> QED
    BY <1>5, <1>a, <2>1 DEF Used, OwnerInv, RemoveFree, FreesContext, Stored
<1>6. ASSUME NEW x \in Contexts, IsrNotify(x) PROVE Used' = Used
  <2>1. EndsWait(x)
    BY <1>6, IsrNotifyWhat
  <2> QED
    BY <1>6, <2>1 DEF Used, IsrNotify, EndsWait, Stored
<1>7. ASSUME NEW f \in Files, Ioctl(f) PROVE Used' = Used
  <2>1. TurnsWait(f)
    BY <1>7, IoctlWhat
  <2> QED
    BY <1>7, <2>1 DEF Used, Ioctl, TurnsWait, Stored
<1>8. CASE UNCHANGED <<ctx>>
  BY <1>8 DEF Used
<1> QED
  BY <1>1, <1>2, <1>3, <1>4, <1>5, <1>6, <1>7, <1>8
  DEF ProbeRequestIrq, ProbeCreateNode, Remove, RemoveFreeIrq, RemoveDestroyNode

(* Every context belongs to one probe, and every minor to one at most. *)
LEMMA CountStep == IInv /\ [Next]_vars => CountInv'
<1> SUFFICES ASSUME IInv, [Next]_vars
             PROVE  CountInv'
  OBVIOUS
<1>a. TypeOK /\ CountInv /\ ModuleInv
  BY DEF IInv
<1>b. /\ Cardinality(Used) \in Int /\ next_minor \in Int /\ MaxProbes \in Int
      /\ CountAt(pc, {"enabled"}) \in Nat /\ CountAt(pc, NumberingPcs) \in Nat
      /\ next_minor >= 0
  BY <1>a, CountFacts, CountNat, LifecycleAssumption DEF TypeOK, Minors
<1>1. CASE ModuleInit
  <2>1. Used' = Used /\ pc' = pc /\ next_minor' = 0
    BY <1>1 DEF ModuleInit, cardVars, Used
  <2>2. \E k \in 0..MaxProbes : Used' = 1..k
    BY <1>a, <2>1 DEF CountInv
  <2>3. /\ Cardinality(Used') + CountAt(pc', {"enabled"}) <= MaxProbes
        /\ next_minor' + CountAt(pc', NumberingPcs) <= Cardinality(Used')
    BY <1>a, <1>b, <2>1 DEF CountInv
  <2> QED
    BY <2>2, <2>3 DEF CountInv, NumberingPcs, BeforeCdevPcs
<1>2. ASSUME NEW c \in Cards, ProbeEnable(c) PROVE CountInv'
  <2>1. Used' = Used /\ next_minor' = next_minor
    BY <1>2 DEF ProbeEnable, Used
  <2>2. CASE Goto(c, "none")
    BY <1>a, <2>1, <2>2, CountKept DEF NumberingPcs, BeforeCdevPcs
  <2>3. CASE Goto(c, "enabled")
    <3>1. pc[c] = "none" /\ Cardinality(Used) + CountAt(pc, {"enabled"}) < MaxProbes
      BY <1>2, CountEnabled DEF ProbeEnable
    <3>2. /\ CountAt(pc', {"enabled"}) = CountAt(pc, {"enabled"}) + 1
          /\ CountAt(pc', NumberingPcs) = CountAt(pc, NumberingPcs)
      <4>1. "enabled" \in {"enabled"} /\ pc[c] \notin {"enabled"}
            /\ "enabled" \notin NumberingPcs /\ pc[c] \notin NumberingPcs
        BY <3>1 DEF NumberingPcs, BeforeCdevPcs
      <4> QED
        BY <1>a, <2>3, <4>1, CountMove
    <3>3. \E k \in 0..MaxProbes : Used' = 1..k
      BY <1>a, <2>1 DEF CountInv
    <3>4. /\ Cardinality(Used') + CountAt(pc', {"enabled"}) <= MaxProbes
          /\ next_minor' + CountAt(pc', NumberingPcs) <= Cardinality(Used')
      BY <1>a, <1>b, <2>1, <3>1, <3>2 DEF CountInv
    <3> QED
      BY <3>3, <3>4 DEF CountInv, NumberingPcs, BeforeCdevPcs
  <2> QED
    BY <1>2, <2>2, <2>3 DEF ProbeEnable, ProbeGivesUp
<1>3. ASSUME NEW c \in Cards, ProbeAllocate(c) PROVE CountInv'
  <2> DEFINE y == Cardinality(Used) + 1
  <2>1. Allocates(c) /\ pc[c] = "enabled" /\ next_minor' = next_minor
    BY <1>3, ProbeAllocateWhat DEF ProbeAllocate
  <2>2. CASE ProbeGivesUp(c) /\ ctx' = ctx
    <3>1. Used' = Used /\ Goto(c, "none")
      BY <2>2 DEF ProbeGivesUp, Used
    <3> QED
      BY <1>a, <2>1, <3>1, CountKept DEF NumberingPcs, BeforeCdevPcs
  <2>3. CASE ~ (ProbeGivesUp(c) /\ ctx' = ctx)
    <3>1. /\ y \in Contexts /\ ctx'[y].state = "live" /\ Goto(c, "allocated")
          /\ \A z \in Contexts : z # y => ctx'[z] = ctx[z]
      BY <2>1, <2>3 DEF Allocates
    <3>2. Used' = Used \cup {y}
      BY <3>1 DEF Used
    <3>3. Used' = 1..y /\ y \in 0..MaxProbes /\ Cardinality(1..y) = y
      <4>1. Cardinality(Used) \in Nat /\ Used = 1..Cardinality(Used)
        BY <1>a, CountFacts
      <4>2. 1..y = 1..Cardinality(Used) \cup {y} /\ y \in Nat /\ y >= 1
        BY <4>1
      <4>3. Cardinality(1..y) = y
        BY <4>2, FS_Interval
      <4> QED
        BY <3>1, <3>2, <4>1, <4>2, <4>3, <1>b DEF Contexts
    <3>4. /\ CountAt(pc', {"enabled"}) = CountAt(pc, {"enabled"}) - 1
          /\ CountAt(pc', NumberingPcs) = CountAt(pc, NumberingPcs) + 1
      <4>1. "allocated" \notin {"enabled"} /\ pc[c] \in {"enabled"}
            /\ "allocated" \in NumberingPcs /\ pc[c] \notin NumberingPcs
        BY <2>1 DEF NumberingPcs, BeforeCdevPcs
      <4> QED
        BY <1>a, <3>1, <4>1, CountMove
    <3>5. /\ Cardinality(Used') + CountAt(pc', {"enabled"}) <= MaxProbes
          /\ next_minor' + CountAt(pc', NumberingPcs) <= Cardinality(Used')
      BY <1>a, <1>b, <2>1, <3>3, <3>4 DEF CountInv
    <3> QED
      BY <3>3, <3>5 DEF CountInv, NumberingPcs, BeforeCdevPcs
  <2> QED
    BY <2>2, <2>3
<1>4. ASSUME NEW c \in Cards, ProbeMap(c) PROVE CountInv'
  <2>1. Used' = Used
    BY <1>4, UsedKept DEF Remove
  <2>2. next_minor' = next_minor /\ (Goto(c, "mapped"))
        /\ pc[c] = "allocated"
    BY <1>4 DEF ProbeMap
  <2> QED
    BY <1>a, <2>1, <2>2, CountKept DEF NumberingPcs, BeforeCdevPcs
<1>5. ASSUME NEW c \in Cards, ProbeRequestIrq(c) PROVE CountInv'
  <2>1. Used' = Used
    BY <1>5, UsedKept DEF Remove
  <2>2. next_minor' = next_minor /\ (Goto(c, "irq") \/ Goto(c, "noirq"))
        /\ pc[c] = "mapped"
    BY <1>5 DEF ProbeRequestIrq
  <2> QED
    BY <1>a, <2>1, <2>2, CountKept DEF NumberingPcs, BeforeCdevPcs
<1>6. ASSUME NEW c \in Cards, ProbeInitLock(c) PROVE CountInv'
  <2>1. Used' = Used
    BY <1>6, UsedKept DEF Remove
  <2>2. next_minor' = next_minor /\ (Goto(c, "ready") \/ Goto(c, "none"))
        /\ pc[c] \in {"irq", "noirq"}
    BY <1>6 DEF ProbeInitLock, ProbeGivesUp
  <2> QED
    BY <1>a, <2>1, <2>2, CountKept DEF NumberingPcs, BeforeCdevPcs
<1>7. ASSUME NEW c \in Cards, ProbeAddCdev(c) PROVE CountInv'
  <2>1. Used' = Used
    BY <1>7, UsedKept DEF Remove
  <2>2. next_minor' = next_minor /\ (Goto(c, "oops") \/ Goto(c, "cdev"))
        /\ pc[c] = "ready"
    BY <1>7 DEF ProbeAddCdev
  <2> QED
    BY <1>a, <2>1, <2>2, CountKept DEF NumberingPcs, BeforeCdevPcs
<1>8. ASSUME NEW c \in Cards, ProbeCreateNode(c) PROVE CountInv'
  <2>1. Used' = Used
    BY <1>8, UsedKept DEF Remove
  <2>2. next_minor' = next_minor /\ (Goto(c, "bound") \/ Goto(c, "node"))
        /\ pc[c] = "cdev"
    BY <1>8 DEF ProbeCreateNode, CreateFailed
  <2> QED
    BY <1>a, <2>1, <2>2, CountKept DEF NumberingPcs, BeforeCdevPcs
<1>9. ASSUME NEW c \in Cards, ProbeFinish(c) PROVE CountInv'
  <2>1. Used' = Used
    BY <1>9 DEF ProbeFinish, Used
  <2>2. next_minor' = next_minor + 1 /\ Goto(c, "bound") /\ pc[c] = "node"
    BY <1>9 DEF ProbeFinish, AdvanceMinor
  <2>3. /\ CountAt(pc', {"enabled"}) = CountAt(pc, {"enabled"})
        /\ CountAt(pc', NumberingPcs) = CountAt(pc, NumberingPcs) - 1
    <3>1. "bound" \notin {"enabled"} /\ pc[c] \notin {"enabled"}
          /\ "bound" \notin NumberingPcs /\ pc[c] \in NumberingPcs
      BY <2>2 DEF NumberingPcs, BeforeCdevPcs
    <3> QED
      BY <1>a, <2>2, <3>1, CountMove
  <2>4. \E k \in 0..MaxProbes : Used' = 1..k
    BY <1>a, <2>1 DEF CountInv
  <2>5. /\ Cardinality(Used') + CountAt(pc', {"enabled"}) <= MaxProbes
        /\ next_minor' + CountAt(pc', NumberingPcs) <= Cardinality(Used')
    BY <1>a, <1>b, <2>1, <2>2, <2>3 DEF CountInv
  <2> QED
    BY <2>4, <2>5 DEF CountInv, NumberingPcs, BeforeCdevPcs
<1>10. ASSUME NEW c \in Cards, RemoveFreeIrq(c) PROVE CountInv'
  <2>1. Used' = Used
    BY <1>10, UsedKept DEF Remove
  <2>2. next_minor' = next_minor /\ (Goto(c, "freeing_irq"))
        /\ pc[c] = "bound"
    BY <1>10 DEF RemoveFreeIrq
  <2> QED
    BY <1>a, <2>1, <2>2, CountKept DEF NumberingPcs, BeforeCdevPcs
<1>11. ASSUME NEW c \in Cards, RemoveRelease(c) PROVE CountInv'
  <2>1. Used' = Used
    BY <1>11, UsedKept DEF Remove
  <2>2. next_minor' = next_minor /\ (Goto(c, "released"))
        /\ pc[c] = "freeing_irq"
    BY <1>11 DEF RemoveRelease
  <2> QED
    BY <1>a, <2>1, <2>2, CountKept DEF NumberingPcs, BeforeCdevPcs
<1>12. ASSUME NEW c \in Cards, RemoveDestroyNode(c) PROVE CountInv'
  <2>1. Used' = Used
    BY <1>12, UsedKept DEF Remove
  <2>2. next_minor' = next_minor /\ (Goto(c, "nodeless"))
        /\ pc[c] = "released"
    BY <1>12 DEF RemoveDestroyNode
  <2> QED
    BY <1>a, <2>1, <2>2, CountKept DEF NumberingPcs, BeforeCdevPcs
<1>13. ASSUME NEW c \in Cards, RemoveFree(c) PROVE CountInv'
  <2>1. Used' = Used
    BY <1>13, UsedKept DEF Remove
  <2>2. next_minor' = next_minor /\ (Goto(c, "none"))
        /\ pc[c] = "nodeless"
    BY <1>13 DEF RemoveFree
  <2> QED
    BY <1>a, <2>1, <2>2, CountKept DEF NumberingPcs, BeforeCdevPcs
<1>14. CASE UNCHANGED <<pc, next_minor, Used>>
  BY <1>a, <1>14 DEF CountInv, CountAt, NumberingPcs, BeforeCdevPcs
<1>k. ASSUME \/ ModuleExit \/ ModuleExitEnd \/ UNCHANGED vars
             \/ \E x \in Contexts : IsrRun(x) \/ IsrNotify(x) \/ IsrWake(x)
             \/ \E f \in Files : Open(f) \/ Release(f) \/ Ioctl(f)
      PROVE  UNCHANGED <<pc, next_minor, Used>>
  <2>1. Used' = Used
    BY <1>k, UsedKept DEF ModuleExit, ModuleExitEnd, vars, IsrRun, IsrWake, Open,
       Release, Used
  <2>2. UNCHANGED <<pc, next_minor>>
    BY <1>k DEF ModuleExit, ModuleExitEnd, vars, IsrRun, IsrNotify, IsrWake, Open,
       Release, Ioctl, cardVars
  <2> QED
    BY <2>1, <2>2
<1> QED
  BY <1>1, <1>2, <1>3, <1>4, <1>5, <1>6, <1>7, <1>8, <1>9, <1>10, <1>11,
     <1>12, <1>13, <1>14, <1>k
  DEF Next, Probe, Remove

(* Loads, unloads and the table test keep step. *)
LEMMA ModuleStep == IInv /\ [Next]_vars => ModuleInv'
<1> SUFFICES ASSUME IInv, [Next]_vars
             PROVE  ModuleInv'
  OBVIOUS
<1>a. /\ pc \in [Cards -> Pcs] /\ loads \in Nat /\ chrdev \in Nat
      /\ ModuleInv
  BY LifecycleAssumption DEF IInv, TypeOK
<1> USE <1>a DEF ModuleInv, Goto, ProbeGivesUp, moduleVars, cardVars,
        histVars, TablesAgree, Matches
<1>1. CASE ModuleInit
  BY <1>1 DEF ModuleInit
<1>2. CASE ModuleExit
  BY <1>2 DEF ModuleExit
<1>3. CASE ModuleExitEnd
  BY <1>3 DEF ModuleExitEnd
<1>4. ASSUME NEW c \in Cards, ProbeEnable(c) PROVE ModuleInv'
  BY <1>4 DEF ProbeEnable
<1>5. ASSUME NEW c \in Cards, ProbeAllocate(c) PROVE ModuleInv'
  BY <1>5 DEF ProbeAllocate
<1>6. ASSUME NEW c \in Cards, ProbeMap(c) PROVE ModuleInv'
  BY <1>6 DEF ProbeMap
<1>7. ASSUME NEW c \in Cards, ProbeRequestIrq(c) PROVE ModuleInv'
  BY <1>7 DEF ProbeRequestIrq
<1>8. ASSUME NEW c \in Cards, ProbeInitLock(c) PROVE ModuleInv'
  BY <1>8 DEF ProbeInitLock
<1>9. ASSUME NEW c \in Cards, ProbeAddCdev(c) PROVE ModuleInv'
  BY <1>9 DEF ProbeAddCdev
<1>10. ASSUME NEW c \in Cards, ProbeCreateNode(c) PROVE ModuleInv'
  BY <1>10 DEF ProbeCreateNode, CreateFailed
<1>11. ASSUME NEW c \in Cards, ProbeFinish(c) PROVE ModuleInv'
  BY <1>11 DEF ProbeFinish
<1>12. ASSUME NEW c \in Cards, RemoveFreeIrq(c) PROVE ModuleInv'
  BY <1>12 DEF RemoveFreeIrq
<1>13. ASSUME NEW c \in Cards, RemoveRelease(c) PROVE ModuleInv'
  BY <1>13 DEF RemoveRelease
<1>14. ASSUME NEW c \in Cards, RemoveDestroyNode(c) PROVE ModuleInv'
  BY <1>14 DEF RemoveDestroyNode
<1>15. ASSUME NEW c \in Cards, RemoveFree(c) PROVE ModuleInv'
  BY <1>15 DEF RemoveFree
<1>16. CASE UNCHANGED <<table, pc, module, loads, chrdev, class, init_failed>>
  BY <1>16
<1> QED
  BY <1>1, <1>2, <1>3, <1>4, <1>5, <1>6, <1>7, <1>8, <1>9, <1>10, <1>11,
     <1>12, <1>13, <1>14, <1>15, <1>16
  DEF Next, Probe, Remove, IsrRun, IsrNotify, IsrWake, Open, Release,
      Ioctl, vars

(* A context keeps the descriptor that probe found. *)
LEMMA DescriptorStep == IInv /\ [Next]_vars => DescriptorFound'
<1> SUFFICES ASSUME IInv, [Next]_vars
             PROVE  DescriptorFound'
  OBVIOUS
<1>a. DescriptorFound /\ OwnerInv
  BY LifecycleAssumption DEF IInv, TypeOK
<1> USE <1>a DEF DescriptorFound, Descriptor
<1>1. ASSUME NEW c \in Cards, ProbeAllocate(c) PROVE DescriptorFound'
  <2>1. Allocates(c)
    BY <1>1, ProbeAllocateWhat
  <2> QED
    BY <1>1, <2>1 DEF ProbeAllocate, Allocates
<1>2. ASSUME NEW c \in Cards, ProbeMap(c) PROVE DescriptorFound'
  <2>1. MapsBars(c)
    BY <1>2, ProbeMapWhat
  <2> QED
    BY <1>2, <2>1 DEF ProbeMap, MapsBars, Stored
<1>3. ASSUME NEW c \in Cards, ProbeInitLock(c) PROVE DescriptorFound'
  <2>1. InitsLock(c)
    BY <1>3, ProbeInitLockWhat
  <2> QED
    BY <1>3, <2>1 DEF ProbeInitLock, InitsLock, Stored
<1>4. ASSUME NEW c \in Cards, ProbeAddCdev(c) PROVE DescriptorFound'
  <2>1. AddsCdev(c)
    BY <1>4, ProbeAddCdevWhat
  <2> QED
    BY <1>4, <2>1 DEF ProbeAddCdev, AddsCdev, Stored
<1>5. ASSUME NEW c \in Cards, RemoveRelease(c) PROVE DescriptorFound'
  <2>1. ReleasesBars(c)
    BY <1>5, RemoveReleaseWhat
  <2> QED
    BY <1>5, <2>1 DEF RemoveRelease, ReleasesBars, Stored
<1>6. ASSUME NEW c \in Cards, RemoveFree(c) PROVE DescriptorFound'
  <2>1. FreesContext(c)
    BY <1>6, RemoveFreeWhat
  <2> QED
    BY <1>6, <2>1 DEF RemoveFree, FreesContext, Stored, OwnerInv
<1>7. ASSUME NEW x \in Contexts, IsrNotify(x) PROVE DescriptorFound'
  <2>1. EndsWait(x)
    BY <1>7, IsrNotifyWhat
  <2> QED
    BY <1>7, <2>1 DEF IsrNotify, EndsWait, Stored
<1>8. ASSUME NEW f \in Files, Ioctl(f) PROVE DescriptorFound'
  <2>1. TurnsWait(f)
    BY <1>8, IoctlWhat
  <2> QED
    BY <1>8, <2>1 DEF Ioctl, TurnsWait, Stored
<1>9. CASE UNCHANGED <<table, ctx>>
  BY <1>9
<1> QED
  BY <1>1, <1>2, <1>3, <1>4, <1>5, <1>6, <1>7, <1>8, <1>9
  DEF Next, Probe, Remove, ModuleInit, ModuleExit, ModuleExitEnd,
      ProbeEnable, ProbeRequestIrq, ProbeCreateNode, ProbeFinish,
      RemoveFreeIrq, RemoveDestroyNode, IsrRun, IsrWake, Open, Release, vars

(* Handlers go before the BARs they use. *)
LEMMA HandlerStep == IInv /\ [Next]_vars => HandlerInv'
<1> SUFFICES ASSUME IInv, [Next]_vars
             PROVE  HandlerInv'
  OBVIOUS
<1>a. /\ pc \in [Cards -> Pcs] /\ drvdata \in [Cards -> Contexts \cup {None}]
      /\ None \notin Contexts /\ None \notin Cards
      /\ handlers \subseteq Contexts /\ isr \in [Contexts -> {"off", "run", "wake"}]
      /\ OwnerInv /\ HandlerInv
  BY LifecycleAssumption DEF IInv, TypeOK
<1> USE <1>a DEF OwnerInv, HandlerInv, HandlerPcs,
        Goto, ProbeGivesUp, cardVars, irqVars, charVars, histVars
<1>1. ASSUME NEW c \in Cards, ProbeEnable(c) PROVE HandlerInv'
  BY <1>1 DEF ProbeEnable
<1>2. ASSUME NEW c \in Cards, ProbeAllocate(c) PROVE HandlerInv'
  <2>1. Allocates(c)
    BY <1>2, ProbeAllocateWhat
  <2> QED
    BY <1>2, <2>1 DEF ProbeAllocate, Allocates
<1>3. ASSUME NEW c \in Cards, ProbeMap(c) PROVE HandlerInv'
  <2>1. MapsBars(c)
    BY <1>3, ProbeMapWhat
  <2> QED
    BY <1>3, <2>1 DEF ProbeMap, MapsBars, Stored
<1>4. ASSUME NEW c \in Cards, ProbeRequestIrq(c) PROVE HandlerInv'
  BY <1>4 DEF ProbeRequestIrq
<1>5. ASSUME NEW c \in Cards, ProbeInitLock(c) PROVE HandlerInv'
  <2>1. InitsLock(c)
    BY <1>5, ProbeInitLockWhat
  <2> QED
    BY <1>5, <2>1 DEF ProbeInitLock, InitsLock, Stored
<1>6. ASSUME NEW c \in Cards, ProbeAddCdev(c) PROVE HandlerInv'
  <2>1. AddsCdev(c)
    BY <1>6, ProbeAddCdevWhat
  <2> QED
    BY <1>6, <2>1 DEF ProbeAddCdev, AddsCdev, Stored
<1>7. ASSUME NEW c \in Cards, ProbeCreateNode(c) PROVE HandlerInv'
  BY <1>7 DEF ProbeCreateNode, CreateFailed
<1>8. ASSUME NEW c \in Cards, ProbeFinish(c) PROVE HandlerInv'
  BY <1>8 DEF ProbeFinish
<1>9. ASSUME NEW c \in Cards, RemoveFreeIrq(c) PROVE HandlerInv'
  BY <1>9 DEF RemoveFreeIrq, FreeIrq
<1>10. ASSUME NEW c \in Cards, RemoveRelease(c) PROVE HandlerInv'
  <2>1. ReleasesBars(c)
    BY <1>10, RemoveReleaseWhat
  <2> QED
    BY <1>10, <2>1 DEF RemoveRelease, ReleasesBars, Stored, SynchronizeIrq
<1>11. ASSUME NEW c \in Cards, RemoveDestroyNode(c) PROVE HandlerInv'
  BY <1>11 DEF RemoveDestroyNode
<1>12. ASSUME NEW c \in Cards, RemoveFree(c) PROVE HandlerInv'
  <2>1. FreesContext(c)
    BY <1>12, RemoveFreeWhat
  <2> QED
    BY <1>12, <2>1 DEF RemoveFree, FreesContext, Stored
<1>13. ASSUME NEW x \in Contexts, IsrRun(x) PROVE HandlerInv'
  BY <1>13 DEF IsrRun
<1>14. ASSUME NEW x \in Contexts, IsrNotify(x) PROVE HandlerInv'
  <2>1. EndsWait(x)
    BY <1>14, IsrNotifyWhat
  <2> QED
    BY <1>14, <2>1 DEF IsrNotify, EndsWait, Stored
<1>15. ASSUME NEW x \in Contexts, IsrWake(x) PROVE HandlerInv'
  BY <1>15 DEF IsrWake
<1>16. ASSUME NEW f \in Files, Ioctl(f) PROVE HandlerInv'
  <2>1. TurnsWait(f)
    BY <1>16, IoctlWhat
  <2> QED
    BY <1>16, <2>1 DEF Ioctl, TurnsWait, Stored
<1>17. CASE UNCHANGED <<pc, drvdata, ctx, handlers, isr>>
  BY <1>17
<1> QED
  BY <1>1, <1>2, <1>3, <1>4, <1>5, <1>6, <1>7, <1>8, <1>9, <1>10, <1>11,
     <1>12, <1>13, <1>14, <1>15, <1>16, <1>17
  DEF Next, Probe, Remove, ModuleInit, ModuleExit, ModuleExitEnd, Open,
      Release, vars

(* A wait queue is initialised before anything can reach it. *)
LEMMA ReadyStep == IInv /\ [Next]_vars => ReadyInv'
<1> SUFFICES ASSUME IInv, [Next]_vars
             PROVE  ReadyInv'
  OBVIOUS
<1>a. /\ pc \in [Cards -> Pcs] /\ drvdata \in [Cards -> Contexts \cup {None}]
      /\ None \notin Contexts /\ None \notin Cards
      /\ cdev_map \in [Minors -> Contexts \cup {None}] /\ next_minor \in Minors
      /\ isr \in [Contexts -> {"off", "run", "wake"}]
      /\ files \in [Files -> Contexts \cup {None}]
      /\ \A n \in nodes : n.minor \in Minors
      /\ OwnerInv /\ ReadyInv
  BY LifecycleAssumption DEF IInv, TypeOK
<1> USE <1>a DEF OwnerInv, ReadyInv, ReadyPcs,
        Goto, ProbeGivesUp, cardVars, irqVars, charVars, histVars
<1>1. ASSUME NEW c \in Cards, ProbeEnable(c) PROVE ReadyInv'
  BY <1>1 DEF ProbeEnable
<1>2. ASSUME NEW c \in Cards, ProbeAllocate(c) PROVE ReadyInv'
  <2>1. Allocates(c)
    BY <1>2, ProbeAllocateWhat
  <2> QED
    BY <1>2, <2>1 DEF ProbeAllocate, Allocates, Fresh
<1>3. ASSUME NEW c \in Cards, ProbeMap(c) PROVE ReadyInv'
  <2>1. MapsBars(c)
    BY <1>3, ProbeMapWhat
  <2> QED
    BY <1>3, <2>1 DEF ProbeMap, MapsBars, Stored
<1>4. ASSUME NEW c \in Cards, ProbeRequestIrq(c) PROVE ReadyInv'
  BY <1>4 DEF ProbeRequestIrq
<1>5. ASSUME NEW c \in Cards, ProbeInitLock(c) PROVE ReadyInv'
  <2>1. InitsLock(c)
    BY <1>5, ProbeInitLockWhat
  <2> QED
    BY <1>5, <2>1 DEF ProbeInitLock, InitsLock, Stored
<1>6. ASSUME NEW c \in Cards, ProbeAddCdev(c) PROVE ReadyInv'
  <2>1. AddsCdev(c)
    BY <1>6, ProbeAddCdevWhat
  <2> QED
    BY <1>6, <2>1 DEF ProbeAddCdev, AddsCdev, Stored
<1>7. ASSUME NEW c \in Cards, ProbeCreateNode(c) PROVE ReadyInv'
  BY <1>7 DEF ProbeCreateNode, CreateFailed
<1>8. ASSUME NEW c \in Cards, ProbeFinish(c) PROVE ReadyInv'
  BY <1>8 DEF ProbeFinish
<1>9. ASSUME NEW c \in Cards, RemoveFreeIrq(c) PROVE ReadyInv'
  BY <1>9 DEF RemoveFreeIrq
<1>10. ASSUME NEW c \in Cards, RemoveRelease(c) PROVE ReadyInv'
  <2>1. ReleasesBars(c)
    BY <1>10, RemoveReleaseWhat
  <2> QED
    BY <1>10, <2>1 DEF RemoveRelease, ReleasesBars, Stored
<1>11. ASSUME NEW c \in Cards, RemoveDestroyNode(c) PROVE ReadyInv'
  BY <1>11 DEF RemoveDestroyNode
<1>12. ASSUME NEW c \in Cards, RemoveFree(c) PROVE ReadyInv'
  <2>1. FreesContext(c)
    BY <1>12, RemoveFreeWhat
  <2> QED
    BY <1>12, <2>1 DEF RemoveFree, FreesContext, Stored
<1>13. ASSUME NEW x \in Contexts, IsrRun(x) PROVE ReadyInv'
  BY <1>13 DEF IsrRun
<1>14. ASSUME NEW x \in Contexts, IsrNotify(x) PROVE ReadyInv'
  <2>1. EndsWait(x)
    BY <1>14, IsrNotifyWhat
  <2> QED
    BY <1>14, <2>1 DEF IsrNotify, EndsWait, Stored
<1>15. ASSUME NEW x \in Contexts, IsrWake(x) PROVE ReadyInv'
  BY <1>15 DEF IsrWake
<1>16. ASSUME NEW f \in Files, Open(f) PROVE ReadyInv'
  BY <1>16 DEF Open
<1>17. ASSUME NEW f \in Files, Release(f) PROVE ReadyInv'
  BY <1>17 DEF Release
<1>18. ASSUME NEW f \in Files, Ioctl(f) PROVE ReadyInv'
  <2>1. TurnsWait(f)
    BY <1>18, IoctlWhat
  <2> QED
    BY <1>18, <2>1 DEF Ioctl, TurnsWait, Stored
<1>19. CASE UNCHANGED <<pc, drvdata, ctx, cdev_map, files, isr>>
  BY <1>19
<1> QED
  BY <1>1, <1>2, <1>3, <1>4, <1>5, <1>6, <1>7, <1>8, <1>9, <1>10, <1>11,
     <1>12, <1>13, <1>14, <1>15, <1>16, <1>17, <1>18, <1>19
  DEF Next, Probe, Remove, ModuleInit, ModuleExit, ModuleExitEnd, vars

(* Regions are released with the card, unless its probe fails. *)
LEMMA RegionStep == IInv /\ [Next]_vars => RegionInv'
<1> SUFFICES ASSUME IInv, [Next]_vars
             PROVE  RegionInv'
  OBVIOUS
<1>a. /\ pc \in [Cards -> Pcs] /\ drvdata \in [Cards -> Contexts \cup {None}]
      /\ None \notin Contexts /\ None \notin Cards
      /\ regions \subseteq Cards /\ OwnerInv /\ RegionInv
  BY LifecycleAssumption DEF IInv, TypeOK
<1> USE <1>a DEF OwnerInv, RegionInv, RegionPcs, NumberingPcs, BeforeCdevPcs,
        Goto, ProbeGivesUp, cardVars, irqVars, charVars, histVars
<1>1. ASSUME NEW c \in Cards, ProbeEnable(c) PROVE RegionInv'
  BY <1>1 DEF ProbeEnable
<1>2. ASSUME NEW c \in Cards, ProbeAllocate(c) PROVE RegionInv'
  <2>1. Allocates(c)
    BY <1>2, ProbeAllocateWhat
  <2> QED
    BY <1>2, <2>1 DEF ProbeAllocate, Allocates
<1>3. ASSUME NEW c \in Cards, ProbeMap(c) PROVE RegionInv'
  <2>1. MapsBars(c)
    BY <1>3, ProbeMapWhat
  <2> QED
    BY <1>3, <2>1 DEF ProbeMap, MapsBars, Stored
<1>4. ASSUME NEW c \in Cards, ProbeRequestIrq(c) PROVE RegionInv'
  BY <1>4 DEF ProbeRequestIrq
<1>5. ASSUME NEW c \in Cards, ProbeInitLock(c) PROVE RegionInv'
  <2>1. InitsLock(c)
    BY <1>5, ProbeInitLockWhat
  <2> QED
    BY <1>5, <2>1 DEF ProbeInitLock, InitsLock, Stored
<1>6. ASSUME NEW c \in Cards, ProbeAddCdev(c) PROVE RegionInv'
  <2>1. AddsCdev(c)
    BY <1>6, ProbeAddCdevWhat
  <2> QED
    BY <1>6, <2>1 DEF ProbeAddCdev, AddsCdev, Stored
<1>7. ASSUME NEW c \in Cards, ProbeCreateNode(c) PROVE RegionInv'
  BY <1>7 DEF ProbeCreateNode, CreateFailed
<1>8. ASSUME NEW c \in Cards, ProbeFinish(c) PROVE RegionInv'
  BY <1>8 DEF ProbeFinish
<1>9. ASSUME NEW c \in Cards, RemoveFreeIrq(c) PROVE RegionInv'
  BY <1>9 DEF RemoveFreeIrq
<1>10. ASSUME NEW c \in Cards, RemoveRelease(c) PROVE RegionInv'
  <2>1. ReleasesBars(c)
    BY <1>10, RemoveReleaseWhat
  <2> QED
    BY <1>10, <2>1 DEF RemoveRelease, ReleasesBars, Stored, ReleaseRegions
<1>11. ASSUME NEW c \in Cards, RemoveDestroyNode(c) PROVE RegionInv'
  BY <1>11 DEF RemoveDestroyNode
<1>12. ASSUME NEW c \in Cards, RemoveFree(c) PROVE RegionInv'
  <2>1. FreesContext(c)
    BY <1>12, RemoveFreeWhat
  <2> QED
    BY <1>12, <2>1 DEF RemoveFree, FreesContext, Stored
<1>13. ASSUME NEW x \in Contexts, IsrNotify(x) PROVE RegionInv'
  <2>1. EndsWait(x)
    BY <1>13, IsrNotifyWhat
  <2> QED
    BY <1>13, <2>1 DEF IsrNotify, EndsWait, Stored
<1>14. ASSUME NEW f \in Files, Ioctl(f) PROVE RegionInv'
  <2>1. TurnsWait(f)
    BY <1>14, IoctlWhat
  <2> QED
    BY <1>14, <2>1 DEF Ioctl, TurnsWait, Stored
<1>15. CASE UNCHANGED <<pc, drvdata, ctx, regions, probe_failed>>
  BY <1>15
<1> QED
  BY <1>1, <1>2, <1>3, <1>4, <1>5, <1>6, <1>7, <1>8, <1>9, <1>10, <1>11,
     <1>12, <1>13, <1>14, <1>15
  DEF Next, Probe, Remove, ModuleInit, ModuleExit, ModuleExitEnd, IsrRun,
      IsrWake, Open, Release, vars

(* Nodes belong to bound cards, one per minor. *)
LEMMA NodeStep == IInv /\ [Next]_vars => NodeInv'
<1> SUFFICES ASSUME IInv, [Next]_vars
             PROVE  NodeInv'
  OBVIOUS
<1>a. /\ pc \in [Cards -> Pcs] /\ drvdata \in [Cards -> Contexts \cup {None}]
      /\ None \notin Contexts /\ None \notin Cards
      /\ \A n \in nodes : n.minor \in Minors /\ n.ctx \in Contexts
      /\ create_failed \in BOOLEAN /\ OwnerInv /\ ModuleInv /\ NodeInv
  BY LifecycleAssumption DEF IInv, TypeOK
<1> USE <1>a DEF OwnerInv, NodeInv, NodePcs,
        Goto, ProbeGivesUp, cardVars, irqVars, charVars, histVars
<1>1. CASE ModuleInit
  BY <1>1 DEF ModuleInit, ModuleInv
<1>2. ASSUME NEW c \in Cards, ProbeEnable(c) PROVE NodeInv'
  BY <1>2 DEF ProbeEnable
<1>3. ASSUME NEW c \in Cards, ProbeAllocate(c) PROVE NodeInv'
  <2>1. Allocates(c)
    BY <1>3, ProbeAllocateWhat
  <2> QED
    BY <1>3, <2>1 DEF ProbeAllocate, Allocates
<1>4. ASSUME NEW c \in Cards, ProbeMap(c) PROVE NodeInv'
  <2>1. MapsBars(c)
    BY <1>4, ProbeMapWhat
  <2> QED
    BY <1>4, <2>1 DEF ProbeMap, MapsBars, Stored
<1>5. ASSUME NEW c \in Cards, ProbeRequestIrq(c) PROVE NodeInv'
  BY <1>5 DEF ProbeRequestIrq
<1>6. ASSUME NEW c \in Cards, ProbeInitLock(c) PROVE NodeInv'
  <2>1. InitsLock(c)
    BY <1>6, ProbeInitLockWhat
  <2> QED
    BY <1>6, <2>1 DEF ProbeInitLock, InitsLock, Stored
<1>7. ASSUME NEW c \in Cards, ProbeAddCdev(c) PROVE NodeInv'
  <2>1. AddsCdev(c)
    BY <1>7, ProbeAddCdevWhat
  <2> QED
    BY <1>7, <2>1 DEF ProbeAddCdev, AddsCdev, Stored
<1>8. ASSUME NEW c \in Cards, ProbeCreateNode(c) PROVE NodeInv'
  <2> DEFINE x == drvdata[c]
             new == [minor |-> ctx[x].minor, name |-> Descriptor(x).name, ctx |-> x]
  <2>1. x \in Contexts /\ ctx[x].card = c /\ pc[c] = "cdev" /\ ctx' = ctx
    BY <1>8 DEF ProbeCreateNode
  <2>2. CASE CreateFailed(c) /\ nodes' = nodes
    BY <2>1, <2>2 DEF CreateFailed
  <2>3. CASE /\ \A n \in nodes : n.minor # ctx[x].minor
             /\ nodes' = nodes \cup {new}
             /\ Goto(c, "node") /\ UNCHANGED <<create_failed, drvdata>>
    <3>1. new.minor = ctx[x].minor /\ new.ctx = x
      OBVIOUS
    <3> HIDE DEF new
    <3>2. \A n \in nodes' : LET d == ctx'[n.ctx].card IN
            /\ d \in Cards /\ drvdata'[d] = n.ctx /\ pc'[d] \in NodePcs
            /\ ctx'[n.ctx].minor = n.minor
      BY <2>1, <2>3, <3>1
    <3>3. \A n1, n2 \in nodes' : n1.minor = n2.minor => n1.ctx = n2.ctx
      BY <2>1, <2>3, <3>1
    <3>4. ~create_failed' => \A d \in Cards : pc'[d] \in NodePcs =>
                               \E n \in nodes' : n.ctx = drvdata'[d]
      BY <2>1, <2>3, <3>1
    <3> QED
      BY <3>2, <3>3, <3>4
  <2> QED
    BY <1>8, <2>2, <2>3 DEF ProbeCreateNode, NodeTaken, NodeMinor
<1>9. ASSUME NEW c \in Cards, ProbeFinish(c) PROVE NodeInv'
  BY <1>9 DEF ProbeFinish
<1>10. ASSUME NEW c \in Cards, RemoveFreeIrq(c) PROVE NodeInv'
  BY <1>10 DEF RemoveFreeIrq
<1>11. ASSUME NEW c \in Cards, RemoveRelease(c) PROVE NodeInv'
  <2>1. ReleasesBars(c)
    BY <1>11, RemoveReleaseWhat
  <2> QED
    BY <1>11, <2>1 DEF RemoveRelease, ReleasesBars, Stored
<1>12. ASSUME NEW c \in Cards, RemoveDestroyNode(c) PROVE NodeInv'
  BY <1>12 DEF RemoveDestroyNode, DeviceDestroy
<1>13. ASSUME NEW c \in Cards, RemoveFree(c) PROVE NodeInv'
  <2>1. FreesContext(c)
    BY <1>13, RemoveFreeWhat
  <2> QED
    BY <1>13, <2>1 DEF RemoveFree, FreesContext, Stored
<1>14. ASSUME NEW x \in Contexts, IsrNotify(x) PROVE NodeInv'
  <2>1. EndsWait(x)
    BY <1>14, IsrNotifyWhat
  <2> QED
    BY <1>14, <2>1 DEF IsrNotify, EndsWait, Stored
<1>15. ASSUME NEW f \in Files, Ioctl(f) PROVE NodeInv'
  <2>1. TurnsWait(f)
    BY <1>15, IoctlWhat
  <2> QED
    BY <1>15, <2>1 DEF Ioctl, TurnsWait, Stored
<1>16. CASE UNCHANGED <<pc, drvdata, ctx, nodes, create_failed>>
  BY <1>16
<1> QED
  BY <1>1, <1>2, <1>3, <1>4, <1>5, <1>6, <1>7, <1>8, <1>9, <1>10, <1>11,
     <1>12, <1>13, <1>14, <1>15, <1>16
  DEF Next, Probe, Remove, ModuleExit, ModuleExitEnd, IsrRun, IsrWake,
      Open, Release, vars

(* The map leads to contexts that had their turn at cdev_add. *)
LEMMA CdevStep == IInv /\ [Next]_vars => CdevInv'
<1> SUFFICES ASSUME IInv, [Next]_vars
             PROVE  CdevInv'
  OBVIOUS
<1>a. /\ pc \in [Cards -> Pcs] /\ drvdata \in [Cards -> Contexts \cup {None}]
      /\ None \notin Contexts /\ None \notin Cards
      /\ cdev_map \in [Minors -> Contexts \cup {None}] /\ next_minor \in Minors
      /\ OwnerInv /\ CdevInv
  BY LifecycleAssumption DEF IInv, TypeOK
<1> USE <1>a DEF OwnerInv, CdevInv, BeforeCdevPcs,
        Goto, ProbeGivesUp, cardVars, irqVars, charVars, histVars
<1>1. ASSUME NEW c \in Cards, ProbeEnable(c) PROVE CdevInv'
  BY <1>1 DEF ProbeEnable
<1>2. ASSUME NEW c \in Cards, ProbeAllocate(c) PROVE CdevInv'
  <2>1. Allocates(c)
    BY <1>2, ProbeAllocateWhat
  <2> QED
    BY <1>2, <2>1 DEF ProbeAllocate, Allocates
<1>3. ASSUME NEW c \in Cards, ProbeMap(c) PROVE CdevInv'
  <2>1. MapsBars(c)
    BY <1>3, ProbeMapWhat
  <2> QED
    BY <1>3, <2>1 DEF ProbeMap, MapsBars, Stored
<1>4. ASSUME NEW c \in Cards, ProbeRequestIrq(c) PROVE CdevInv'
  BY <1>4 DEF ProbeRequestIrq
<1>5. ASSUME NEW c \in Cards, ProbeInitLock(c) PROVE CdevInv'
  <2>1. InitsLock(c)
    BY <1>5, ProbeInitLockWhat
  <2> QED
    BY <1>5, <2>1 DEF ProbeInitLock, InitsLock, Stored
<1>6. ASSUME NEW c \in Cards, ProbeAddCdev(c) PROVE CdevInv'
  <2>1. AddsCdev(c)
    BY <1>6, ProbeAddCdevWhat
  <2> QED
    BY <1>6, <2>1 DEF ProbeAddCdev, AddsCdev, Stored
<1>7. ASSUME NEW c \in Cards, ProbeCreateNode(c) PROVE CdevInv'
  BY <1>7 DEF ProbeCreateNode, CreateFailed
<1>8. ASSUME NEW c \in Cards, ProbeFinish(c) PROVE CdevInv'
  BY <1>8 DEF ProbeFinish
<1>9. ASSUME NEW c \in Cards, RemoveFreeIrq(c) PROVE CdevInv'
  BY <1>9 DEF RemoveFreeIrq
<1>10. ASSUME NEW c \in Cards, RemoveRelease(c) PROVE CdevInv'
  <2>1. ReleasesBars(c)
    BY <1>10, RemoveReleaseWhat
  <2> QED
    BY <1>10, <2>1 DEF RemoveRelease, ReleasesBars, Stored
<1>11. ASSUME NEW c \in Cards, RemoveDestroyNode(c) PROVE CdevInv'
  BY <1>11 DEF RemoveDestroyNode
<1>12. ASSUME NEW c \in Cards, RemoveFree(c) PROVE CdevInv'
  <2>1. FreesContext(c)
    BY <1>12, RemoveFreeWhat
  <2> QED
    BY <1>12, <2>1 DEF RemoveFree, FreesContext, Stored
<1>13. ASSUME NEW x \in Contexts, IsrNotify(x) PROVE CdevInv'
  <2>1. EndsWait(x)
    BY <1>13, IsrNotifyWhat
  <2> QED
    BY <1>13, <2>1 DEF IsrNotify, EndsWait, Stored
<1>14. ASSUME NEW f \in Files, Ioctl(f) PROVE CdevInv'
  <2>1. TurnsWait(f)
    BY <1>14, IoctlWhat
  <2> QED
    BY <1>14, <2>1 DEF Ioctl, TurnsWait, Stored
<1>15. CASE UNCHANGED <<pc, drvdata, ctx, cdev_map>>
  BY <1>15
<1> QED
  BY <1>1, <1>2, <1>3, <1>4, <1>5, <1>6, <1>7, <1>8, <1>9, <1>10, <1>11,
     <1>12, <1>13, <1>14, <1>15
  DEF Next, Probe, Remove, ModuleInit, ModuleExit, ModuleExitEnd, IsrRun,
      IsrWake, Open, Release, vars

(* Probes one after the other number the nodes in order. *)
LEMMA SerialStep == IInv /\ [Next]_vars => SerialInv'
<1> SUFFICES ASSUME IInv, [Next]_vars
             PROVE  SerialInv'
  OBVIOUS
<1>a. /\ pc \in [Cards -> Pcs] /\ drvdata \in [Cards -> Contexts \cup {None}]
      /\ None \notin Contexts /\ None \notin Cards
      /\ \A n \in nodes : n.minor \in Minors /\ n.ctx \in Contexts
      /\ cdev_map \in [Minors -> Contexts \cup {None}] /\ next_minor \in Minors
      /\ Minors \subseteq Nat /\ OwnerInv /\ ModuleInv /\ NodeInv /\ SerialInv
  BY LifecycleAssumption DEF IInv, TypeOK, Minors
<1> USE <1>a DEF OwnerInv, NodeInv, NodePcs, SerialInv, Resting, MayStart,
        Goto, ProbeGivesUp, cardVars, irqVars, charVars, histVars
<1>1. CASE ModuleInit
  BY <1>1 DEF ModuleInit, ModuleInv
<1>2. ASSUME NEW c \in Cards, ProbeEnable(c) PROVE SerialInv'
  BY <1>2 DEF ProbeEnable
<1>3. ASSUME NEW c \in Cards, ProbeAllocate(c) PROVE SerialInv'
  <2>1. Allocates(c)
    BY <1>3, ProbeAllocateWhat
  <2> QED
    BY <1>3, <2>1 DEF ProbeAllocate, Allocates
<1>4. ASSUME NEW c \in Cards, ProbeMap(c) PROVE SerialInv'
  <2>1. MapsBars(c)
    BY <1>4, ProbeMapWhat
  <2> QED
    BY <1>4, <2>1 DEF ProbeMap, MapsBars, Stored
<1>5. ASSUME NEW c \in Cards, ProbeRequestIrq(c) PROVE SerialInv'
  BY <1>5 DEF ProbeRequestIrq
<1>6. ASSUME NEW c \in Cards, ProbeInitLock(c) PROVE SerialInv'
  <2>1. InitsLock(c)
    BY <1>6, ProbeInitLockWhat
  <2> QED
    BY <1>6, <2>1 DEF ProbeInitLock, InitsLock, Stored
<1>7. ASSUME NEW c \in Cards, ProbeAddCdev(c) PROVE SerialInv'
  <2>1. AddsCdev(c)
    BY <1>7, ProbeAddCdevWhat
  <2> QED
    BY <1>7, <2>1 DEF ProbeAddCdev, AddsCdev, Stored
<1>8. ASSUME NEW c \in Cards, ProbeCreateNode(c) PROVE SerialInv'
  BY <1>8 DEF ProbeCreateNode, CreateFailed, NodeTaken, NodeMinor
<1>9. ASSUME NEW c \in Cards, ProbeFinish(c) PROVE SerialInv'
  <2>1. /\ pc[c] = "node" /\ pc' = [pc EXCEPT ![c] = "bound"]
        /\ next_minor' = next_minor + 1
        /\ UNCHANGED <<drvdata, ctx, cdev_map, nodes, cdev_failed>>
    BY <1>9 DEF ProbeFinish, AdvanceMinor
  <2>2. SerialProbes => \A d \in Cards : pc'[d] \in {"none", "bound", "oops"}
    BY <2>1
  <2>3. ASSUME SerialProbes, NEW n \in nodes
        PROVE  /\ n.ctx \in cdev_failed \/ cdev_map[n.minor] = n.ctx
               /\ n.minor < next_minor + 1
    <3>1. n.minor \in Nat /\ next_minor \in Nat
      OBVIOUS
    <3>2. n.minor < next_minor \/ n.minor = next_minor
      BY <2>3
    <3> QED
      BY <2>3, <3>1, <3>2
  <2> QED
    BY <2>1, <2>2, <2>3
<1>10. ASSUME NEW c \in Cards, RemoveFreeIrq(c) PROVE SerialInv'
  BY <1>10 DEF RemoveFreeIrq
<1>11. ASSUME NEW c \in Cards, RemoveRelease(c) PROVE SerialInv'
  <2>1. ReleasesBars(c)
    BY <1>11, RemoveReleaseWhat
  <2> QED
    BY <1>11, <2>1 DEF RemoveRelease, ReleasesBars, Stored
<1>12. ASSUME NEW c \in Cards, RemoveDestroyNode(c) PROVE SerialInv'
  BY <1>12 DEF RemoveDestroyNode, DeviceDestroy
<1>13. ASSUME NEW c \in Cards, RemoveFree(c) PROVE SerialInv'
  <2>1. FreesContext(c)
    BY <1>13, RemoveFreeWhat
  <2> QED
    BY <1>13, <2>1 DEF RemoveFree, FreesContext, Stored
<1>14. ASSUME NEW x \in Contexts, IsrNotify(x) PROVE SerialInv'
  <2>1. EndsWait(x)
    BY <1>14, IsrNotifyWhat
  <2> QED
    BY <1>14, <2>1 DEF IsrNotify, EndsWait, Stored
<1>15. ASSUME NEW f \in Files, Ioctl(f) PROVE SerialInv'
  <2>1. TurnsWait(f)
    BY <1>15, IoctlWhat
  <2> QED
    BY <1>15, <2>1 DEF Ioctl, TurnsWait, Stored
<1>16. CASE UNCHANGED <<pc, drvdata, ctx, nodes, cdev_map, next_minor, cdev_failed>>
  BY <1>16
<1> QED
  BY <1>1, <1>2, <1>3, <1>4, <1>5, <1>6, <1>7, <1>8, <1>9, <1>10, <1>11,
     <1>12, <1>13, <1>14, <1>15, <1>16
  DEF Next, Probe, Remove, ModuleExit, ModuleExitEnd, IsrRun, IsrWake,
      Open, Release, vars

-----------------------------------------------------------------------------
(* Before the first load the invariant holds. *)
LEMMA InitInv == Init => IInv
<1> SUFFICES ASSUME Init PROVE IInv
  OBVIOUS
<1> USE LifecycleAssumption DEF Init
<1>1. \A x \in Contexts : ctx[x] = Fresh
  OBVIOUS
<1>2. TypeOK
  <2>1. Len(table.descriptors) \in Nat
    OBVIOUS
  <2>2. Fresh \in ContextType
    BY <2>1 DEF Fresh, ContextType, Minors
  <2>3. ctx \in [Contexts -> ContextType]
    BY <2>2
  <2>4. 0 \in 0..MaxLoads /\ 0 \in Minors
    BY DEF Minors
  <2> HIDE LifecycleAssumption
  <2> QED
    BY <2>3, <2>4 DEF TypeOK, Pcs
<1>3. CountInv
  <2>1. Used = {}
    BY <1>1 DEF Used, Fresh
  <2>2. CountAt(pc, {"enabled"}) = 0 /\ CountAt(pc, NumberingPcs) = 0
    <3>1. {c \in Cards : pc[c] \in {"enabled"}} = {}
      OBVIOUS
    <3>2. {c \in Cards : pc[c] \in NumberingPcs} = {}
      BY DEF NumberingPcs, BeforeCdevPcs
    <3> QED
      BY <3>1, <3>2, FS_EmptySet DEF CountAt
  <2>3. Cardinality(Used) = 0
    BY <2>1, FS_EmptySet
  <2>4. \E k \in 0..MaxProbes : Used = 1..k
    <3>1. Used = 1..0 /\ 0 \in 0..MaxProbes
      BY <2>1
    <3> QED
      BY <3>1
  <2>5. /\ Cardinality(Used) + CountAt(pc, {"enabled"}) <= MaxProbes
        /\ next_minor + CountAt(pc, NumberingPcs) <= Cardinality(Used)
    BY <2>2, <2>3
  <2> QED
    BY <2>4, <2>5 DEF CountInv
<1>4. ModuleInv
  BY DEF ModuleInv
<1>5. OwnerInv /\ DescriptorFound
  BY <1>1 DEF OwnerInv, DescriptorFound, Fresh
<1>6. HandlerInv
  BY <1>1 DEF HandlerInv, Fresh
<1>7. ReadyInv
  BY <1>1 DEF ReadyInv, ReadyPcs, Fresh
<1>8. NodeInv
  BY DEF NodeInv, NodePcs
<1>9. RegionInv
  BY <1>1 DEF RegionInv, RegionPcs, NumberingPcs, BeforeCdevPcs, Fresh
<1>10. CdevInv
  BY DEF CdevInv
<1>11. SerialInv
  BY DEF SerialInv, Resting
<1> QED
  BY <1>2, <1>3, <1>4, <1>5, <1>6, <1>7, <1>8, <1>9, <1>10, <1>11 DEF IInv

(* The parts together are an invariant of the driver. *)
THEOREM DriverInvariant == Spec => []IInv
<1>1. IInv /\ [Next]_vars => IInv'
  BY TypeStep, CountStep, ModuleStep, OwnerStep, DescriptorStep, HandlerStep,
     ReadyStep, NodeStep, RegionStep, CdevStep, SerialStep DEF IInv
<1> QED
  BY InitInv, <1>1, PTL DEF Spec

(* Contexts and minors stay in their ranges, and every variable in its type,  *)
(* whatever calls of accesio_pci_init and of probe fail.                      *)
THEOREM DriverTypes == Spec => []TypeOK
<1>1. IInv => TypeOK
  BY DEF IInv
<1> QED
  BY <1>1, DriverInvariant, PTL

(* No handler runs on a freed context, on unmapped BARs or in an unloaded     *)
(* module.                                                                    *)
THEOREM DriverIsrSafe == Spec => []IsrSafe
<1>1. IInv => IsrSafe
  <2> SUFFICES ASSUME IInv, NEW x \in Contexts, isr[x] # "off"
               PROVE  ctx[x].state = "live" /\ ctx[x].bars # "gone" /\ module # "out"
    BY DEF IsrSafe
  <2> DEFINE c == ctx[x].card
  <2>1. OwnerInv /\ HandlerInv /\ ModuleInv
    BY DEF IInv
  <2>2. c \in Cards /\ drvdata[c] = x /\ pc[c] \in HandlerPcs \cup {"freeing_irq"}
    BY <2>1 DEF HandlerInv
  <2>3. ctx[x].state = "live"
    BY <2>1, <2>2 DEF OwnerInv, HandlerPcs
  <2>4. ctx[x].bars # "gone"
    BY <2>1, <2>2, <2>3 DEF HandlerInv, HandlerPcs
  <2>5. module # "out"
    BY <2>1, <2>2 DEF ModuleInv, HandlerPcs
  <2> QED
    BY <2>3, <2>4, <2>5
<1> QED
  BY <1>1, DriverInvariant, PTL

(* wake_up_interruptible is called on initialised wait queues only. *)
THEOREM DriverWakeInitialised == Spec => []WakeInitialised
<1>1. IInv => WakeInitialised
  BY DEF IInv, ReadyInv, WakeInitialised
<1> QED
  BY <1>1, DriverInvariant, PTL

(* Without overlapping probes a node opens the card it was made for, unless   *)
(* the cdev_add of that card failed, and its minor is below the number of     *)
(* probes.                                                                    *)
THEOREM DriverNodeOpensItsCard == Spec => []NodeOpensItsCard
<1>1. IInv => NodeOpensItsCard
  <2> SUFFICES ASSUME IInv, SerialProbes, NEW n \in nodes
               PROVE  /\ n.ctx \in cdev_failed \/ cdev_map[n.minor] = n.ctx
                      /\ ctx[n.ctx].state = "live"
                      /\ ctx[n.ctx].bars = "gone" => pc[ctx[n.ctx].card] = "released"
                      /\ n.minor < Cardinality(Used)
    BY DEF NodeOpensItsCard
  <2> DEFINE c == ctx[n.ctx].card
  <2>1. TypeOK /\ CountInv /\ OwnerInv /\ HandlerInv /\ NodeInv /\ SerialInv
    BY DEF IInv
  <2>2. c \in Cards /\ drvdata[c] = n.ctx /\ pc[c] \in NodePcs
    BY <2>1 DEF NodeInv
  <2>3. n.ctx \in Contexts /\ n.minor \in Int /\ next_minor \in Int
    BY <2>1 DEF TypeOK, Minors
  <2>4. ctx[n.ctx].state = "live"
    BY <2>1, <2>2 DEF OwnerInv, NodePcs
  <2>5. ctx[n.ctx].bars = "gone" => pc[c] = "released"
    BY <2>1, <2>2, <2>3, <2>4 DEF HandlerInv, NodePcs
  <2>6. /\ n.ctx \in cdev_failed \/ cdev_map[n.minor] = n.ctx
        /\ n.minor < next_minor \/ (n.minor = next_minor /\ pc[c] = "node")
    BY <2>1 DEF SerialInv
  <2>7. n.minor < Cardinality(Used)
    <3>1. /\ Cardinality(Used) \in Int /\ next_minor <= Cardinality(Used)
          /\ pc[c] \in NumberingPcs => next_minor < Cardinality(Used)
      BY <2>1, <2>2, CountFacts
    <3> QED
      BY <2>3, <2>6, <3>1 DEF NumberingPcs, BeforeCdevPcs
  <2> QED
    BY <2>4, <2>5, <2>6, <2>7
<1> QED
  BY <1>1, DriverInvariant, PTL

(* No node opens the card of another one, whatever overlaps and fails.       *)
THEOREM DriverNodesApart == Spec => []NodesApart
<1>1. IInv => NodesApart
  <2> SUFFICES ASSUME IInv, NEW n1 \in nodes, NEW n2 \in nodes,
                      cdev_map[n1.minor] = n2.ctx
               PROVE  n1.ctx = n2.ctx
    BY DEF NodesApart
  <2>1. TypeOK /\ NodeInv /\ CdevInv
    BY DEF IInv
  <2>2. n1.minor \in Minors /\ n2.ctx # None
    BY <2>1, LifecycleAssumption DEF TypeOK
  <2>3. ctx[n2.ctx].minor = n1.minor
    BY <2>1, <2>2 DEF CdevInv
  <2>4. n2.minor = n1.minor
    BY <2>1, <2>3 DEF NodeInv
  <2> QED
    BY <2>1, <2>4 DEF NodeInv
<1> QED
  BY <1>1, DriverInvariant, PTL

(* Without a failed device_create every bound card has its node. *)
THEOREM DriverBoundHasNode == Spec => []BoundHasNode
<1>1. IInv => BoundHasNode
  BY DEF IInv, NodeInv, NodePcs, BoundHasNode
<1> QED
  BY <1>1, DriverInvariant, PTL

(* A card that never failed is left without regions, handler, node or live    *)
(* context.                                                                   *)
THEOREM DriverCleanRemove == Spec => []CleanRemove
<1>1. IInv => CleanRemove
  <2> SUFFICES ASSUME IInv, NEW c \in Cards, pc[c] = "none", c \notin probe_failed
               PROVE  /\ c \notin regions
                      /\ \A x \in Contexts : ctx[x].card = c =>
                           /\ ctx[x].state = "freed" /\ x \notin handlers
                           /\ \A n \in nodes : n.ctx # x
    BY DEF CleanRemove
  <2>1. TypeOK /\ OwnerInv /\ HandlerInv /\ NodeInv /\ RegionInv
    BY DEF IInv
  <2>2. c \notin regions
    BY <2>1 DEF RegionInv, RegionPcs, NumberingPcs, BeforeCdevPcs
  <2>3. ASSUME NEW x \in Contexts, ctx[x].card = c
        PROVE  ctx[x].state = "freed"
    <3>1. drvdata[c] # x
      BY <2>1, LifecycleAssumption DEF OwnerInv
    <3>2. ctx[x].state # "unused"
      BY <2>1, <2>3, LifecycleAssumption DEF OwnerInv, Fresh
    <3>3. ctx[x].state # "live"
      BY <2>1, <2>3, <3>1 DEF RegionInv
    <3>4. ctx[x].state \in {"unused", "live", "freed"}
      BY <2>1 DEF TypeOK, ContextType
    <3> QED
      BY <3>2, <3>3, <3>4
  <2>4. ASSUME NEW x \in Contexts, ctx[x].card = c
        PROVE  x \notin handlers /\ \A n \in nodes : n.ctx # x
    BY <2>1, <2>4 DEF HandlerInv, HandlerPcs, NodeInv, NodePcs
  <2> QED
    BY <2>2, <2>3, <2>4
<1> QED
  BY <1>1, DriverInvariant, PTL

(* accesio_pci_exit leaves no handler and no node, and the region and class   *)
(* of a load that did not fail.                                               *)
THEOREM DriverCleanUnload == Spec => []CleanUnload
<1>1. IInv => CleanUnload
  <2> SUFFICES ASSUME IInv, module = "out"
               PROVE  handlers = {} /\ nodes = {} /\ (init_failed \/ (chrdev = 0 /\ ~class))
    BY DEF CleanUnload
  <2>1. TypeOK /\ ModuleInv /\ HandlerInv /\ NodeInv
    BY DEF IInv
  <2>2. handlers = {}
    BY <2>1 DEF TypeOK, ModuleInv, HandlerInv, HandlerPcs
  <2>3. nodes = {}
    BY <2>1 DEF ModuleInv, NodeInv, NodePcs
  <2>4. init_failed \/ (chrdev = 0 /\ ~class)
    BY <2>1 DEF ModuleInv
  <2> QED
    BY <2>2, <2>3, <2>4
<1> QED
  BY <1>1, DriverInvariant, PTL

(* The search of probe never fails for a card that the PCI core offers. *)
THEOREM DriverDescriptorFound == Spec => []DescriptorFound
<1>1. IInv => DescriptorFound
  BY DEF IInv
<1> QED
  BY <1>1, DriverInvariant, PTL

=============================================================================
