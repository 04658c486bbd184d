----------------------------- MODULE MCIrqWait -----------------------------
(* Model values for checking IrqWait with TLC. *)
EXTENDS AioWait, TLC

CONSTANTS t1, t2, c1, c2, s1, s2

TwoThreads   == {t1, t2}
OneThread    == {t2}
TwoCpus      == {c1, c2}
OneCpu       == {c1}
OneSource    == {s1}
TwoSources   == {s1, s2}
NoThreads    == {}

CpuSymmetry == Permutations(TwoCpus)
=============================================================================
