----------------------------- MODULE MCIrqTest -----------------------------
(* The two threads of the test program for checking IrqTest with TLC. *)
EXTENDS MCIrqWait, IrqTest
=============================================================================
