-------------------------- MODULE DriverRefinement --------------------------
(***************************************************************************)
(* DriverLifecycle implements CardLifecycle: the steps of probe and remove *)
(* seen from outside.                                                      *)
(***************************************************************************)
EXTENDS DriverLifecycle

(* A card whose regions are taken, at rest or as probe begins, has them from  *)
(* a probe that failed.                                                       *)
StateOf(c) ==
  CASE pc[c] = "none" -> IF c \in regions THEN "stuck" ELSE "free"
    [] pc[c] = "enabled" -> IF c \in regions THEN "retrying" ELSE "probing"
    [] pc[c] \in {"allocated", "mapped", "irq", "noirq", "ready", "cdev"} -> "probing"
    [] pc[c] \in {"node", "bound"} -> "bound"
    [] pc[c] \in {"freeing_irq", "released", "nodeless"} -> "removing"
    [] pc[c] = "oops" -> "dead"

(* A card is visible while the node made for it is there. *)
Visible == {c \in Cards : \E n \in nodes : ctx[n.ctx].card = c}

Hidden == create_failed /\ module # "out"

Lifecycle == INSTANCE CardLifecycle WITH
  state   <- [c \in Cards |-> StateOf(c)],
  visible <- Visible,
  hidden  <- Hidden

(* The driver keeps the promise of CardLifecycle, whatever kernel calls fail: *)
(* a card is bound only by a probe of a loaded module, a stuck one never; its *)
(* node comes when it is bound and stays until it is removed, or until a card *)
(* bound without a node is; an unloaded module leaves no card bound and no    *)
(* node behind.                                                               *)
ImplementsCards == Lifecycle!Spec
=============================================================================
