--------------------------- MODULE CardLifecycle ---------------------------
(***************************************************************************)
(* What an administrator sees of the driver: a module that comes and goes, *)
(* cards that it binds and releases, and their device nodes.  This is the  *)
(* promise that src/module/accesio_pci.c keeps, with the weaknesses a user *)
(* has to know of: a probe that failed late leaves its card stuck for      *)
(* good, a probe that dies never ends, and after a bound card was left     *)
(* without a node (hidden) its removal may take away the node of another.  *)
(***************************************************************************)
EXTENDS Integers

CONSTANT Cards

VARIABLES
  module,    \* "out", "in" or "leaving"
  state,     \* of each card
  visible,   \* the cards with a device node
  hidden     \* a card has been bound without a node since the module came

vars == <<module, state, visible, hidden>>

States == {"free",      \* not bound
           "probing",   \* may become bound
           "stuck",     \* not bound, and never again: its regions are taken
           "retrying",  \* a probe of a stuck card
           "bound", "removing",
           "dead"}      \* its probe died

Become(c, s) == state' = [state EXCEPT ![c] = s]

Init ==
  /\ module = "out"
  /\ state = [c \in Cards |-> "free"]
  /\ visible = {} /\ hidden = FALSE

-----------------------------------------------------------------------------
Load ==
  /\ module = "out"
  /\ module' = "in"
  /\ UNCHANGED <<state, visible, hidden>>

Unload ==
  /\ module = "in"
  /\ module' = "leaving"
  /\ UNCHANGED <<state, visible, hidden>>

(* Nothing is bound and no node is left. *)
Unloaded ==
  /\ module = "leaving"
  /\ \A c \in Cards : state[c] \in {"free", "stuck"}
  /\ visible = {}
  /\ module' = "out"
  /\ hidden' = FALSE
  /\ UNCHANGED <<state, visible>>

Start(c) ==
  /\ module = "in"
  /\ \/ state[c] = "free" /\ Become(c, "probing")
     \/ state[c] = "stuck" /\ Become(c, "retrying")
  /\ UNCHANGED <<module, visible, hidden>>

GiveUp(c) ==
  /\ \/ state[c] = "probing" /\ (Become(c, "free") \/ Become(c, "stuck"))
     \/ state[c] = "retrying" /\ Become(c, "stuck")
  /\ UNCHANGED <<module, visible, hidden>>

Die(c) ==
  /\ state[c] = "probing"
  /\ Become(c, "dead")
  /\ UNCHANGED <<module, visible, hidden>>

Bind(c) ==
  /\ state[c] = "probing"
  /\ Become(c, "bound")
  /\ visible' = visible \cup {c}
  /\ UNCHANGED <<module, hidden>>

BindHidden(c) ==
  /\ state[c] = "probing"
  /\ Become(c, "bound")
  /\ hidden' = TRUE
  /\ UNCHANGED <<module, visible>>

Remove(c) ==
  /\ module # "out"
  /\ state[c] = "bound"
  /\ Become(c, "removing")
  /\ UNCHANGED <<module, visible, hidden>>

(* The node of the card goes, or that of another if the card has none. *)
Hide(c) ==
  /\ state[c] = "removing"
  /\ IF c \in visible THEN visible' = visible \ {c}
     ELSE hidden /\ \E d \in visible : visible' = visible \ {d}
  /\ UNCHANGED <<module, state, hidden>>

Released(c) ==
  /\ state[c] = "removing" /\ c \notin visible
  /\ Become(c, "free")
  /\ UNCHANGED <<module, visible, hidden>>

Next ==
  \/ Load \/ Unload \/ Unloaded
  \/ \E c \in Cards : \/ Start(c) \/ GiveUp(c) \/ Die(c) \/ Bind(c) \/ BindHidden(c)
                      \/ Remove(c) \/ Hide(c) \/ Released(c)

Spec == Init /\ [][Next]_vars
=============================================================================
