---------------------------- MODULE MCAioLibrary ---------------------------
(* Nodes, threads and calls for checking AioLibrary with TLC. *)
EXTENDS AioLibrary, TLC

CONSTANTS n1, n2, n3, n4, t1, t2

FourNodes  == {n1, n2, n3, n4}
PciNodes   == {n1, n2, n3}         \* n4 is a P104 card
TwoThreads == {t1, t2}

(* n1 has I/O ports, n2 and n3 are memory mapped, n2 is in the switch of      *)
(* probe.                                                                     *)
MixedBars == [n \in Nodes |-> IF n = n1 THEN {1, 2} ELSE {}]
Switched  == {n2}

Call(read, num, size, offset) ==
  [read |-> read, num |-> num, size |-> size, offset |-> offset,
   value |-> <<1, 2, 3, 4>>]

(* Overlapping reads and writes of the card with number 0, one of card 1 and *)
(* one of the last slot, which is a card, a failed one or none.              *)
FewCalls == {Call(TRUE, 0, 2, 0), Call(TRUE, 0, 4, 0), Call(FALSE, 0, 1, 1),
             Call(FALSE, 0, 4, 0), Call(FALSE, 1, 2, 2), Call(FALSE, 2, 1, 1)}

ThreadSymmetry == Permutations(TwoThreads)

AllFailures == {"opendir", "open", "copy_to_user", "copy_from_user"}
=============================================================================
