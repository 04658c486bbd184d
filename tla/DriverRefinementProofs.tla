---------------------- MODULE DriverRefinementProofs ----------------------
(***************************************************************************)
(* Proof that probe, remove and the module's init and exit implement       *)
(* CardLifecycle, for every finite set of cards and whatever kernel calls  *)
(* fail.  The invariant of DriverLifecycleProofs says what the mapping     *)
(* needs: which regions a card still holds when its probe gives up or its  *)
(* removal ends, and whose node device_destroy finds.                      *)
(***************************************************************************)
EXTENDS DriverRefinement, DriverLifecycleProofs

(* A step of one card leaves the others as they are seen. *)
LEMMA OthersStay ==
  ASSUME TypeOK, NEW c \in Cards, NEW p, Goto(c, p),
         \A d \in Cards : d # c => (d \in regions' <=> d \in regions)
  PROVE  /\ \A d \in Cards : d # c => StateOf(d)' = StateOf(d)
         /\ pc'[c] = p
  BY DEF TypeOK, StateOf, Goto

(* If its own state becomes s, this is what CardLifecycle calls Become. *)
LEMMA BecomesState ==
  ASSUME NEW c \in Cards, NEW s, StateOf(c)' = s,
         \A d \in Cards : d # c => StateOf(d)' = StateOf(d)
  PROVE  Lifecycle!Become(c, s)
<1>1. \A d \in Cards : StateOf(d)' = IF d = c THEN s ELSE StateOf(d)
  OBVIOUS
<1> QED
  BY <1>1 DEF Lifecycle!Become

(* If no state changes, the function of the states does not. *)
LEMMA StatesStay ==
  ASSUME \A d \in Cards : StateOf(d)' = StateOf(d)
  PROVE  [d \in Cards |-> StateOf(d)]' = [d \in Cards |-> StateOf(d)]
  OBVIOUS

(* A node keeps leading to the same card. *)
LEMMA NodesKeepCards ==
  ASSUME IInv, [Next]_vars, NEW n \in nodes
  PROVE  ctx'[n.ctx].card = ctx[n.ctx].card
<1>a. /\ n.ctx \in Contexts /\ ctx[n.ctx].state = "live"
  BY DEF IInv, TypeOK, NodeInv, OwnerInv, NodePcs
<1>1. ASSUME NEW c \in Cards, ProbeAllocate(c) PROVE ctx'[n.ctx].card = ctx[n.ctx].card
  BY <1>1, <1>a, ProbeAllocateWhat DEF Allocates
<1>2. ASSUME NEW c \in Cards, ProbeMap(c) PROVE ctx'[n.ctx].card = ctx[n.ctx].card
  BY <1>2, <1>a, ProbeMapWhat DEF MapsBars, Stored
<1>3. ASSUME NEW c \in Cards, ProbeInitLock(c) PROVE ctx'[n.ctx].card = ctx[n.ctx].card
  BY <1>3, <1>a, ProbeInitLockWhat DEF InitsLock, Stored
<1>4. ASSUME NEW c \in Cards, ProbeAddCdev(c) PROVE ctx'[n.ctx].card = ctx[n.ctx].card
  BY <1>4, <1>a, ProbeAddCdevWhat DEF AddsCdev, Stored
<1>5. ASSUME NEW c \in Cards, RemoveRelease(c) PROVE ctx'[n.ctx].card = ctx[n.ctx].card
  BY <1>5, <1>a, RemoveReleaseWhat DEF ReleasesBars, Stored
<1>6. ASSUME NEW c \in Cards, RemoveFree(c) PROVE ctx'[n.ctx].card = ctx[n.ctx].card
  BY <1>6, <1>a, RemoveFreeWhat DEF FreesContext, Stored
<1>7. ASSUME NEW x \in Contexts, IsrNotify(x) PROVE ctx'[n.ctx].card = ctx[n.ctx].card
  BY <1>7, <1>a, IsrNotifyWhat DEF EndsWait, Stored
<1>8. ASSUME NEW f \in Files, Ioctl(f) PROVE ctx'[n.ctx].card = ctx[n.ctx].card
  BY <1>8, <1>a, IoctlWhat DEF TurnsWait, Stored
<1>9. CASE ctx' = ctx
  BY <1>9
<1> QED
  BY <1>1, <1>2, <1>3, <1>4, <1>5, <1>6, <1>7, <1>8, <1>9
  DEF Next, Probe, Remove, ModuleInit, ModuleExit, ModuleExitEnd, ProbeEnable,
      ProbeRequestIrq, ProbeCreateNode, ProbeFinish, RemoveFreeIrq,
      RemoveDestroyNode, IsrRun, IsrWake, Open, Release, vars

(* So the cards with a node change only when nodes do. *)
LEMMA VisibleStays ==
  ASSUME IInv, [Next]_vars, nodes' = nodes
  PROVE  Visible' = Visible
  BY NodesKeepCards DEF Visible

(* A step that changes neither states nor nodes nor the module is a stutter. *)
LEMMA Unseen ==
  ASSUME IInv, [Next]_vars, nodes' = nodes, UNCHANGED <<module, create_failed>>,
         \A d \in Cards : StateOf(d)' = StateOf(d)
  PROVE  UNCHANGED Lifecycle!vars
<1>1. Visible' = Visible
  BY VisibleStays
<1>2. Hidden' = Hidden
  BY DEF Hidden
<1>3. [d \in Cards |-> StateOf(d)]' = [d \in Cards |-> StateOf(d)]
  BY StatesStay
<1> QED
  BY <1>1, <1>2, <1>3 DEF Lifecycle!vars

-----------------------------------------------------------------------------
(* A step of the driver, seen from outside. *)
Seen == [Lifecycle!Next]_(Lifecycle!vars)

(* A card becomes s and nothing else is seen to change. *)
LEMMA OnlyState ==
  ASSUME IInv, [Next]_vars, NEW c \in Cards, NEW p, NEW s, Goto(c, p),
         nodes' = nodes, UNCHANGED <<module, create_failed>>,
         \A d \in Cards : d # c => (d \in regions' <=> d \in regions),
         pc'[c] = p => StateOf(c)' = s
  PROVE  Lifecycle!Become(c, s) /\ Visible' = Visible /\ Hidden' = Hidden
<1>1. TypeOK
  BY DEF IInv
<1>2. /\ \A d \in Cards : d # c => StateOf(d)' = StateOf(d)
      /\ pc'[c] = p
  BY <1>1, OthersStay
<1>3. Lifecycle!Become(c, s)
  BY <1>2, BecomesState
<1>4. Visible' = Visible
  BY VisibleStays
<1> QED
  BY <1>3, <1>4 DEF Hidden

(* A card goes on within its state. *)
LEMMA SameState ==
  ASSUME IInv, [Next]_vars, NEW c \in Cards, NEW p, Goto(c, p),
         nodes' = nodes, UNCHANGED <<module, create_failed>>,
         \A d \in Cards : d # c => (d \in regions' <=> d \in regions),
         pc'[c] = p => StateOf(c)' = StateOf(c)
  PROVE  Seen
<1>1. TypeOK
  BY DEF IInv
<1>2. /\ \A d \in Cards : d # c => StateOf(d)' = StateOf(d)
      /\ pc'[c] = p
  BY <1>1, OthersStay
<1>3. \A d \in Cards : StateOf(d)' = StateOf(d)
  BY <1>2
<1>4. UNCHANGED Lifecycle!vars
  BY <1>3, Unseen
<1> QED
  BY <1>4 DEF Seen

(* A step that goes on with no card. *)
LEMMA NoCard ==
  ASSUME IInv, [Next]_vars, UNCHANGED <<pc, regions, nodes, module, create_failed>>
  PROVE  Seen
<1>1. \A d \in Cards : StateOf(d)' = StateOf(d)
  BY DEF StateOf
<1>2. UNCHANGED Lifecycle!vars
  BY <1>1, Unseen
<1> QED
  BY <1>2 DEF Seen

-----------------------------------------------------------------------------
(* The module *)

LEMMA ModuleInitSeen ==
  ASSUME IInv, ModuleInit
  PROVE  Seen
<1>a. /\ [Next]_vars /\ nodes' = nodes /\ module = "out"
      /\ module' = "out" \/ module' = "in"
      /\ ~create_failed'
  BY DEF Next, ModuleInit, charVars
<1>1. \A d \in Cards : StateOf(d)' = StateOf(d)
  BY DEF StateOf, ModuleInit, cardVars
<1>2. [d \in Cards |-> StateOf(d)]' = [d \in Cards |-> StateOf(d)]
  BY <1>1, StatesStay
<1>3. Visible' = Visible
  BY <1>a, VisibleStays
<1>4. Hidden' = Hidden
  BY <1>a DEF Hidden
<1>5. CASE module' = "out"
  BY <1>a, <1>2, <1>3, <1>4, <1>5 DEF Seen, Lifecycle!vars
<1>6. CASE module' = "in"
  BY <1>a, <1>2, <1>3, <1>4, <1>6 DEF Seen, Lifecycle!Next, Lifecycle!Load
<1> QED
  BY <1>a, <1>5, <1>6

LEMMA ModuleExitSeen ==
  ASSUME IInv, ModuleExit
  PROVE  Seen
<1>a. /\ [Next]_vars /\ nodes' = nodes /\ module = "in" /\ module' = "leaving"
      /\ create_failed' = create_failed
  BY DEF Next, ModuleExit, charVars, histVars
<1>1. \A d \in Cards : StateOf(d)' = StateOf(d)
  BY DEF StateOf, ModuleExit, cardVars
<1>2. [d \in Cards |-> StateOf(d)]' = [d \in Cards |-> StateOf(d)]
  BY <1>1, StatesStay
<1>3. Visible' = Visible
  BY <1>a, VisibleStays
<1>4. Hidden' = Hidden
  BY <1>a DEF Hidden
<1> QED
  BY <1>a, <1>2, <1>3, <1>4 DEF Seen, Lifecycle!Next, Lifecycle!Unload

(* Every removal has ended, so no node is left: NodeInv. *)
LEMMA ModuleExitEndSeen ==
  ASSUME IInv, ModuleExitEnd
  PROVE  Seen
<1>a. /\ [Next]_vars /\ nodes' = nodes /\ module = "leaving" /\ module' = "out"
      /\ \A c \in Cards : pc[c] = "none"
  BY DEF Next, ModuleExitEnd, charVars
<1>1. \A d \in Cards : StateOf(d)' = StateOf(d)
  BY DEF StateOf, ModuleExitEnd, cardVars
<1>2. [d \in Cards |-> StateOf(d)]' = [d \in Cards |-> StateOf(d)]
  BY <1>1, StatesStay
<1>3. Visible' = Visible
  BY <1>a, VisibleStays
<1>4. Hidden' = FALSE
  BY <1>a DEF Hidden
<1>5. nodes = {}
  BY <1>a DEF IInv, NodeInv, NodePcs
<1>6. Visible = {}
  BY <1>5 DEF Visible
<1>7. \A c \in Cards : StateOf(c) \in {"free", "stuck"}
  BY <1>a DEF StateOf
<1> QED
  BY <1>a, <1>2, <1>3, <1>4, <1>6, <1>7 DEF Seen, Lifecycle!Next, Lifecycle!Unloaded

-----------------------------------------------------------------------------
(* Probe *)

LEMMA ProbeEnableSeen ==
  ASSUME IInv, NEW c \in Cards, ProbeEnable(c)
  PROVE  Seen
<1>a. /\ [Next]_vars /\ nodes' = nodes /\ UNCHANGED <<module, create_failed, regions>>
      /\ module = "in" /\ pc[c] = "none"
      /\ Goto(c, "none") \/ Goto(c, "enabled")
  BY DEF Next, Probe, ProbeEnable, ProbeGivesUp, moduleVars, charVars
<1>1. CASE Goto(c, "none")
  <2>1. pc'[c] = "none" => StateOf(c)' = StateOf(c)
    BY <1>a DEF StateOf
  <2> QED
    BY <1>a, <1>1, <2>1, SameState
<1>2. CASE Goto(c, "enabled")
  <2> DEFINE s == IF c \in regions THEN "retrying" ELSE "probing"
  <2>1. pc'[c] = "enabled" => StateOf(c)' = s
    BY <1>a DEF StateOf
  <2>2. StateOf(c) = IF c \in regions THEN "stuck" ELSE "free"
    BY <1>a DEF StateOf
  <2> HIDE DEF s
  <2>3. Lifecycle!Become(c, s) /\ Visible' = Visible /\ Hidden' = Hidden
    BY <1>a, <1>2, <2>1, OnlyState
  <2>4. Lifecycle!Start(c)
    BY <1>a, <2>2, <2>3 DEF Lifecycle!Start, s
  <2> QED
    BY <2>4 DEF Seen, Lifecycle!Next
<1> QED
  BY <1>a, <1>1, <1>2

(* A probe that gives up here leaves the regions as they were, or taken. *)
LEMMA ProbeAllocateSeen ==
  ASSUME IInv, NEW c \in Cards, ProbeAllocate(c)
  PROVE  Seen
<1>a. /\ [Next]_vars /\ nodes' = nodes /\ UNCHANGED <<module, create_failed>>
      /\ pc[c] = "enabled"
      /\ regions' = regions \/ (c \notin regions /\ regions' = regions \cup {c})
      /\ \/ Goto(c, "none")
         \/ Goto(c, "allocated") /\ c \notin regions
  BY DEF Next, Probe, ProbeAllocate, ProbeGivesUp, moduleVars, charVars
<1>b. \A d \in Cards : d # c => (d \in regions' <=> d \in regions)
  BY <1>a
<1>c. StateOf(c) = IF c \in regions THEN "retrying" ELSE "probing"
  BY <1>a DEF StateOf
<1>1. CASE Goto(c, "none")
  <2> DEFINE s == IF c \in regions' THEN "stuck" ELSE "free"
  <2>1. pc'[c] = "none" => StateOf(c)' = s
    BY DEF StateOf
  <2>2. s = "stuck" \/ (s = "free" /\ c \notin regions)
    BY <1>a
  <2> HIDE DEF s
  <2>3. Lifecycle!Become(c, s) /\ Visible' = Visible /\ Hidden' = Hidden
    BY <1>a, <1>b, <1>1, <2>1, OnlyState
  <2>4. Lifecycle!GiveUp(c)
    BY <1>a, <1>c, <2>2, <2>3 DEF Lifecycle!GiveUp
  <2> QED
    BY <2>4 DEF Seen, Lifecycle!Next
<1>2. CASE Goto(c, "allocated") /\ c \notin regions
  <2>1. pc'[c] = "allocated" => StateOf(c)' = StateOf(c)
    BY <1>c, <1>2 DEF StateOf
  <2> QED
    BY <1>a, <1>b, <1>2, <2>1, SameState
<1> QED
  BY <1>a, <1>1, <1>2

LEMMA ProbeMapSeen ==
  ASSUME IInv, NEW c \in Cards, ProbeMap(c)
  PROVE  Seen
<1>a. /\ [Next]_vars /\ UNCHANGED <<nodes, module, create_failed, regions>>
      /\ pc[c] = "allocated" /\ Goto(c, "mapped")
  BY DEF Next, Probe, ProbeMap, moduleVars, charVars, histVars
<1>1. pc'[c] = "mapped" => StateOf(c)' = StateOf(c)
  BY <1>a DEF StateOf
<1> QED
  BY <1>a, <1>1, SameState

LEMMA ProbeRequestIrqSeen ==
  ASSUME IInv, NEW c \in Cards, ProbeRequestIrq(c)
  PROVE  Seen
<1>a. /\ [Next]_vars /\ UNCHANGED <<nodes, module, create_failed, regions>>
      /\ pc[c] = "mapped" /\ (Goto(c, "irq") \/ Goto(c, "noirq"))
  BY DEF Next, Probe, ProbeRequestIrq, moduleVars, charVars, histVars
<1>1. pc'[c] = "irq" \/ pc'[c] = "noirq" => StateOf(c)' = StateOf(c)
  BY <1>a DEF StateOf
<1>2. CASE Goto(c, "irq")
  BY <1>a, <1>1, <1>2, SameState
<1>3. CASE Goto(c, "noirq")
  BY <1>a, <1>1, <1>3, SameState
<1> QED
  BY <1>a, <1>2, <1>3

(* Without an interrupt the probe gives up, its regions taken: RegionInv. *)
LEMMA ProbeInitLockSeen ==
  ASSUME IInv, NEW c \in Cards, ProbeInitLock(c)
  PROVE  Seen
<1>a. /\ [Next]_vars /\ UNCHANGED <<nodes, module, create_failed, regions>>
      /\ \/ pc[c] = "irq" /\ Goto(c, "ready")
         \/ pc[c] = "noirq" /\ Goto(c, "none")
  BY DEF Next, Probe, ProbeInitLock, ProbeGivesUp, moduleVars, charVars
<1>1. CASE pc[c] = "irq" /\ Goto(c, "ready")
  <2>1. pc'[c] = "ready" => StateOf(c)' = StateOf(c)
    BY <1>1 DEF StateOf
  <2> QED
    BY <1>a, <1>1, <2>1, SameState
<1>2. CASE pc[c] = "noirq" /\ Goto(c, "none")
  <2>1. c \in regions /\ StateOf(c) = "probing"
    BY <1>2 DEF IInv, RegionInv, RegionPcs, NumberingPcs, BeforeCdevPcs, StateOf
  <2>2. pc'[c] = "none" => StateOf(c)' = "stuck"
    BY <1>a, <2>1 DEF StateOf
  <2>3. Lifecycle!Become(c, "stuck") /\ Visible' = Visible /\ Hidden' = Hidden
    BY <1>a, <1>2, <2>2, OnlyState
  <2>4. Lifecycle!GiveUp(c)
    BY <1>a, <2>1, <2>3 DEF Lifecycle!GiveUp
  <2> QED
    BY <2>4 DEF Seen, Lifecycle!Next
<1> QED
  BY <1>a, <1>1, <1>2

LEMMA ProbeAddCdevSeen ==
  ASSUME IInv, NEW c \in Cards, ProbeAddCdev(c)
  PROVE  Seen
<1>a. /\ [Next]_vars /\ UNCHANGED <<nodes, module, create_failed, regions>>
      /\ pc[c] = "ready" /\ (Goto(c, "oops") \/ Goto(c, "cdev"))
  BY DEF Next, Probe, ProbeAddCdev, moduleVars, charVars, histVars
<1>1. CASE Goto(c, "oops")
  <2>1. StateOf(c) = "probing" /\ (pc'[c] = "oops" => StateOf(c)' = "dead")
    BY <1>a DEF StateOf
  <2>2. Lifecycle!Become(c, "dead") /\ Visible' = Visible /\ Hidden' = Hidden
    BY <1>a, <1>1, <2>1, OnlyState
  <2>3. Lifecycle!Die(c)
    BY <1>a, <2>1, <2>2 DEF Lifecycle!Die
  <2> QED
    BY <2>3 DEF Seen, Lifecycle!Next
<1>2. CASE Goto(c, "cdev")
  <2>1. pc'[c] = "cdev" => StateOf(c)' = StateOf(c)
    BY <1>a DEF StateOf
  <2> QED
    BY <1>a, <1>2, <2>1, SameState
<1> QED
  BY <1>a, <1>1, <1>2

(* The node comes when the card is bound; without it the card is hidden. *)
LEMMA ProbeCreateNodeSeen ==
  ASSUME IInv, NEW c \in Cards, ProbeCreateNode(c)
  PROVE  Seen
<1> DEFINE n0 == [minor |-> ctx[drvdata[c]].minor,
                  name |-> Descriptor(drvdata[c]).name, ctx |-> drvdata[c]]
<1>a. /\ [Next]_vars /\ UNCHANGED <<ctx, module, regions>>
      /\ pc[c] = "cdev"
      /\ \/ Goto(c, "bound") /\ create_failed' = TRUE /\ nodes' = nodes
         \/ /\ Goto(c, "node") /\ create_failed' = create_failed
            /\ nodes' = nodes \cup {n0}
  BY DEF Next, Probe, ProbeCreateNode, NodeMinor, CreateFailed, moduleVars
<1>b. TypeOK /\ module # "out" /\ ctx[drvdata[c]].card = c
  BY <1>a DEF IInv, ModuleInv, OwnerInv
<1>c. StateOf(c) = "probing" /\ (pc'[c] = "bound" \/ pc'[c] = "node" => StateOf(c)' = "bound")
  BY <1>a DEF StateOf
<1>1. CASE Goto(c, "bound") /\ create_failed' = TRUE /\ nodes' = nodes
  <2>1. Lifecycle!Become(c, "bound")
    BY <1>a, <1>b, <1>c, <1>1, OthersStay, BecomesState
  <2>2. Visible' = Visible
    BY <1>a, <1>1, VisibleStays
  <2>3. Hidden' = TRUE
    BY <1>a, <1>b, <1>1 DEF Hidden
  <2>4. Lifecycle!BindHidden(c)
    BY <1>a, <1>c, <2>1, <2>2, <2>3 DEF Lifecycle!BindHidden
  <2> QED
    BY <2>4 DEF Seen, Lifecycle!Next
<1>2. CASE Goto(c, "node") /\ create_failed' = create_failed /\ nodes' = nodes \cup {n0}
  <2>1. Lifecycle!Become(c, "bound")
    BY <1>a, <1>b, <1>c, <1>2, OthersStay, BecomesState
  <2>2. n0.ctx = drvdata[c]
    OBVIOUS
  <2>3. Visible' = Visible \cup {c}
    <3> HIDE DEF n0
    <3> QED
      BY <1>a, <1>b, <1>2, <2>2 DEF Visible
  <2>4. Hidden' = Hidden
    BY <1>a, <1>2 DEF Hidden
  <2>5. Lifecycle!Bind(c)
    BY <1>a, <1>c, <2>1, <2>3, <2>4 DEF Lifecycle!Bind
  <2> QED
    BY <2>5 DEF Seen, Lifecycle!Next
<1> QED
  BY <1>a, <1>1, <1>2

LEMMA ProbeFinishSeen ==
  ASSUME IInv, NEW c \in Cards, ProbeFinish(c)
  PROVE  Seen
<1>a. /\ [Next]_vars /\ UNCHANGED <<nodes, module, create_failed, regions>>
      /\ pc[c] = "node" /\ Goto(c, "bound")
  BY DEF Next, Probe, ProbeFinish, moduleVars, charVars, histVars
<1>1. pc'[c] = "bound" => StateOf(c)' = StateOf(c)
  BY <1>a DEF StateOf
<1> QED
  BY <1>a, <1>1, SameState

-----------------------------------------------------------------------------
(* Remove *)

LEMMA RemoveFreeIrqSeen ==
  ASSUME IInv, NEW c \in Cards, RemoveFreeIrq(c)
  PROVE  Seen
<1>a. /\ [Next]_vars /\ UNCHANGED <<nodes, module, create_failed, regions>>
      /\ module # "out" /\ pc[c] = "bound" /\ Goto(c, "freeing_irq")
  BY DEF Next, Remove, RemoveFreeIrq, moduleVars, charVars, histVars
<1>1. StateOf(c) = "bound" /\ (pc'[c] = "freeing_irq" => StateOf(c)' = "removing")
  BY <1>a DEF StateOf
<1>2. Lifecycle!Become(c, "removing") /\ Visible' = Visible /\ Hidden' = Hidden
  BY <1>a, <1>1, OnlyState
<1>3. Lifecycle!Remove(c)
  BY <1>a, <1>1, <1>2 DEF Lifecycle!Remove
<1> QED
  BY <1>3 DEF Seen, Lifecycle!Next

LEMMA RemoveReleaseSeen ==
  ASSUME IInv, NEW c \in Cards, RemoveRelease(c)
  PROVE  Seen
<1>a. /\ [Next]_vars /\ UNCHANGED <<nodes, module, create_failed>>
      /\ regions' = regions \ {c}
      /\ pc[c] = "freeing_irq" /\ Goto(c, "released")
  BY DEF Next, Remove, RemoveRelease, ReleaseRegions, moduleVars, charVars, histVars
<1>1. pc'[c] = "released" => StateOf(c)' = StateOf(c)
  BY <1>a DEF StateOf
<1>2. \A d \in Cards : d # c => (d \in regions' <=> d \in regions)
  BY <1>a
<1> QED
  BY <1>a, <1>1, <1>2, SameState

(* device_destroy takes the node of this card if it has one: by NodeInv no    *)
(* other node has its minor.  If it finds the node of another card, this one  *)
(* had none, and a device_create has failed.                                  *)
LEMMA RemoveDestroyNodeSeen ==
  ASSUME IInv, NEW c \in Cards, RemoveDestroyNode(c)
  PROVE  Seen
<1> DEFINE m == ctx[drvdata[c]].minor
<1>a. /\ [Next]_vars /\ UNCHANGED <<ctx, module, create_failed, regions>>
      /\ nodes' = {n \in nodes : n.minor # m}
      /\ pc[c] = "released" /\ Goto(c, "nodeless")
  BY DEF Next, Remove, RemoveDestroyNode, DeviceDestroy, moduleVars, histVars
<1>b. TypeOK /\ module # "out" /\ ctx[drvdata[c]].card = c
  BY <1>a DEF IInv, ModuleInv, OwnerInv
<1>c. /\ \A n \in nodes : /\ ctx[n.ctx].card \in Cards
                          /\ drvdata[ctx[n.ctx].card] = n.ctx
                          /\ ctx[n.ctx].minor = n.minor
      /\ \A n1, n2 \in nodes : n1.minor = n2.minor => n1.ctx = n2.ctx
      /\ ~create_failed => \E n \in nodes : n.ctx = drvdata[c]
  BY <1>a DEF IInv, NodeInv, NodePcs
<1>d. StateOf(c) = "removing" /\ (pc'[c] = "nodeless" => StateOf(c)' = StateOf(c))
  BY <1>a DEF StateOf
<1>e. \A d \in Cards : StateOf(d)' = StateOf(d)
  BY <1>a, <1>b, <1>d, OthersStay
<1>f. [d \in Cards |-> StateOf(d)]' = [d \in Cards |-> StateOf(d)]
  BY <1>e, StatesStay
<1>g. Hidden' = Hidden
  BY <1>a DEF Hidden
<1> HIDE DEF m
<1>1. CASE \A n \in nodes : n.minor # m
  <2>1. nodes' = nodes
    BY <1>a, <1>1
  <2> QED
    BY <1>a, <1>d, <2>1, SameState
<1>2. ASSUME NEW n0 \in nodes, n0.minor = m
      PROVE  Seen
  <2> DEFINE d == ctx[n0.ctx].card
  <2>1. d \in Cards /\ d \in Visible
    BY <1>c DEF Visible
  <2>2. \A n \in nodes : ctx[n.ctx].card = d <=> n.minor = m
    BY <1>c, <1>2
  <2> HIDE DEF d
  <2>3. Visible' = Visible \ {d}
    BY <1>a, <2>2 DEF Visible
  <2>4. CASE d = c
    <3>1. Lifecycle!Hide(c)
      BY <1>a, <1>d, <1>f, <1>g, <2>1, <2>3, <2>4 DEF Lifecycle!Hide
    <3> QED
      BY <3>1 DEF Seen, Lifecycle!Next
  <2>5. CASE d # c
    <3>1. \A n \in nodes : ctx[n.ctx].card # c
      BY <1>c, <2>2, <2>5 DEF m
    <3>2. c \notin Visible
      BY <3>1 DEF Visible
    <3>3. create_failed
      BY <1>b, <1>c, <3>1
    <3>4. Hidden
      BY <1>b, <3>3 DEF Hidden
    <3>5. Lifecycle!Hide(c)
      BY <1>a, <1>d, <1>f, <1>g, <2>1, <2>3, <3>2, <3>4 DEF Lifecycle!Hide
    <3> QED
      BY <3>5 DEF Seen, Lifecycle!Next
  <2> QED
    BY <2>4, <2>5
<1> QED
  BY <1>1, <1>2

(* The regions are released, so the card is free; its node is gone. *)
LEMMA RemoveFreeSeen ==
  ASSUME IInv, NEW c \in Cards, RemoveFree(c)
  PROVE  Seen
<1>a. /\ [Next]_vars /\ UNCHANGED <<nodes, module, create_failed, regions>>
      /\ pc[c] = "nodeless" /\ Goto(c, "none")
  BY DEF Next, Remove, RemoveFree, moduleVars, charVars, histVars
<1>1. c \notin regions /\ StateOf(c) = "removing"
  BY <1>a DEF IInv, RegionInv, StateOf
<1>2. c \notin Visible
  BY <1>a DEF IInv, NodeInv, NodePcs, Visible
<1>3. pc'[c] = "none" => StateOf(c)' = "free"
  BY <1>a, <1>1 DEF StateOf
<1>4. Lifecycle!Become(c, "free") /\ Visible' = Visible /\ Hidden' = Hidden
  BY <1>a, <1>3, OnlyState
<1>5. Lifecycle!Released(c)
  BY <1>a, <1>1, <1>2, <1>4 DEF Lifecycle!Released
<1> QED
  BY <1>5 DEF Seen, Lifecycle!Next

-----------------------------------------------------------------------------
(* Every step of the driver is a step of CardLifecycle, or none. *)
LEMMA EveryStepSeen ==
  ASSUME IInv, [Next]_vars
  PROVE  Seen
<1>1. ASSUME NEW c \in Cards, Probe(c) PROVE Seen
  BY <1>1, ProbeEnableSeen, ProbeAllocateSeen, ProbeMapSeen, ProbeRequestIrqSeen,
     ProbeInitLockSeen, ProbeAddCdevSeen, ProbeCreateNodeSeen, ProbeFinishSeen
  DEF Probe
<1>2. ASSUME NEW c \in Cards, Remove(c) PROVE Seen
  BY <1>2, RemoveFreeIrqSeen, RemoveReleaseSeen, RemoveDestroyNodeSeen,
     RemoveFreeSeen DEF Remove
<1>3. ASSUME NEW x \in Contexts, IsrRun(x) \/ IsrNotify(x) \/ IsrWake(x) PROVE Seen
  BY <1>3, NoCard
  DEF IsrRun, IsrNotify, IsrWake, moduleVars, cardVars, charVars, histVars
<1>4. ASSUME NEW f \in Files, Open(f) \/ Release(f) \/ Ioctl(f) PROVE Seen
  BY <1>4, NoCard
  DEF Open, Release, Ioctl, moduleVars, cardVars, charVars, histVars
<1>5. CASE UNCHANGED vars
  BY <1>5, NoCard DEF vars
<1> QED
  BY <1>1, <1>2, <1>3, <1>4, <1>5, ModuleInitSeen, ModuleExitSeen, ModuleExitEndSeen
  DEF Next

(* What the administrator sees of the driver is a behaviour of CardLifecycle. *)
THEOREM DriverImplementsCards == Spec => ImplementsCards
<1>1. Init => Lifecycle!Init
  <2> SUFFICES ASSUME Init PROVE Lifecycle!Init
    OBVIOUS
  <2>1. \A c \in Cards : StateOf(c) = "free"
    BY DEF Init, StateOf
  <2>2. Visible = {} /\ Hidden = FALSE
    BY DEF Init, Visible, Hidden
  <2> QED
    BY <2>1, <2>2 DEF Init, Lifecycle!Init
<1>2. IInv /\ [Next]_vars => [Lifecycle!Next]_(Lifecycle!vars)
  BY EveryStepSeen DEF Seen
<1> QED
  BY <1>1, <1>2, DriverInvariant, PTL DEF Spec, ImplementsCards, Lifecycle!Spec
=============================================================================
