------------------------------ MODULE IrqTest ------------------------------
(***************************************************************************)
(* The program src/test/pcie-adio16-16fds-irq.cpp on top of IrqWait: main  *)
(* waits for an interrupt while a second thread, GenIrq, provokes some and *)
(* calls AbortRequest in the end, so that main can join it and exit even   *)
(* if none came.                                                           *)
(*                                                                         *)
(* In a behaviour with program = "any" the threads call the two functions  *)
(* of the library as they please, as in IrqWait.                           *)
(***************************************************************************)
EXTENDS AioWait

CONSTANTS
  Main, Gen,   \* the two threads
  Rounds       \* how often GenIrq switches the output

ASSUME TestAssumption == {Main, Gen} \subseteq Threads /\ Main # Gen /\ Rounds \in Nat

VARIABLES
  program,   \* "test" or "any"
  main,      \* where main is
  gen,       \* where GenIrq is
  round      \* i: the rounds it has made

testVars == <<program, main, gen, round>>
allVars  == <<vars, testVars>>

(* The card is set up; if that fails the program ends at once. *)
MainSetUp ==
  /\ main = "setup"
  /\ \/ main' = "wait" /\ gen' = "loop"
     \/ main' = "done" /\ UNCHANGED gen
  /\ UNCHANGED <<vars, round>>

MainWait ==
  /\ main = "wait"
  /\ WaitCall(Main)
  /\ main' = "waiting"
  /\ UNCHANGED <<gen, round>>

MainReturn ==
  /\ main = "waiting" /\ pc[Main] = "user"
  /\ main' = "join"
  /\ UNCHANGED <<vars, gen, round>>

MainJoin ==
  /\ main = "join" /\ gen = "done"
  /\ main' = "done"
  /\ UNCHANGED <<vars, gen, round>>

(* Switching the output makes the card interrupt if the input is wired to it. *)
GenRound ==
  /\ gen = "loop" /\ round < Rounds
  /\ round' = round + 1
  /\ (\E s \in Sources : RaiseIrq(s)) \/ UNCHANGED vars
  /\ UNCHANGED <<main, gen>>

GenAbort ==
  /\ gen = "loop" /\ round = Rounds
  /\ CancelCall(Gen)
  /\ gen' = "aborting"
  /\ UNCHANGED <<main, round>>

GenReturn ==
  /\ gen = "aborting" /\ pc[Gen] = "user"
  /\ gen' = "done"
  /\ UNCHANGED <<vars, main, round>>

Running == program = "test" /\ UNCHANGED program
InDriver(t) == KernelStep(t) /\ UNCHANGED testVars

MainThread ==
  \/ InDriver(Main)
  \/ Running /\ (MainSetUp \/ MainWait \/ MainReturn \/ MainJoin)
GenThread ==
  \/ InDriver(Gen)
  \/ Running /\ (GenRound \/ GenAbort \/ GenReturn)

AnyProgram == program = "any" /\ Next /\ UNCHANGED testVars

-----------------------------------------------------------------------------
TestInit ==
  /\ Init
  /\ program \in {"test", "any"} /\ main = "setup" /\ gen = "none" /\ round = 0

TestNext == MainThread \/ GenThread \/ (IsrNext /\ UNCHANGED testVars) \/ AnyProgram

(* The threads of the program run until they block or end, those of another  *)
(* program as long as they are inside the driver.                            *)
TestFairness ==
  /\ SF_allVars(MainThread) /\ SF_allVars(GenThread)
  /\ \A t \in Threads \ {Main, Gen} : SF_allVars(InDriver(t))
  /\ IsrFairness

TestSpec == TestInit /\ [][TestNext]_allVars /\ TestFairness

-----------------------------------------------------------------------------
(* Properties *)

(* AbortRequest found no wait to end, and none had been ended: GenIrq was     *)
(* done before main had called WaitForIRQ.                                    *)
AbortedTooSoon ==
  gen = "done" /\ status[Gen] = -EALREADY /\ ended[Main] = "none"

(* The program ends, whether the card interrupts during the wait, before it   *)
(* or not at all - unless AbortRequest comes before the wait is registered,   *)
(* which the driver does not remember.                                        *)
ProgramEnds == program = "test" ~> (main = "done" \/ AbortedTooSoon)

(* AbortRequest is refused only if the wait was not registered yet or has     *)
(* been ended by an interrupt; a wait that AbortRequest ended says so.        *)
AbortTells ==
  main \in {"join", "done"} /\ gen = "done" =>
    \/ ended[Main] = "irq" /\ LibStatus(Main) = 0 /\ LibStatus(Gen) = -1
    \/ ended[Main] = "cancel" /\ LibStatus(Gen) = 0

-----------------------------------------------------------------------------
(* What AbortTells rests on, besides the invariant of IrqWait: how the two   *)
(* threads of the test program stand to the one wait it makes.               *)

(* WaitForIRQ has returned, not refused and not before its wait was ended. *)
Waited ==
  pc[Main] = "user" /\ call[Main] = "wait" /\ ended[Main] # "none" /\ status[Main] # -EALREADY

(* AbortRequest has returned, and says whether it ended the wait. *)
Aborted ==
  /\ pc[Gen] = "user" /\ status[Gen] \in {0, -EALREADY}
  /\ status[Gen] = 0 <=> ended[Main] = "cancel"

MainInv ==
  \/ main = "setup" /\ gen = "none" /\ pc[Main] = "user" /\ ended[Main] = "none"
  \/ main = "wait" /\ pc[Main] = "user" /\ ended[Main] = "none"
  \/ main = "waiting" /\ (pc[Main] \in {"w_crit"} \cup WaitPcs \/ Waited)
  \/ main = "join" /\ Waited
  \/ main = "done" /\ pc[Main] = "user" /\ (Waited \/ gen = "none")

GenInv ==
  \/ gen \in {"none", "loop"} /\ pc[Gen] = "user" /\ ended[Main] # "cancel"
  \/ gen = "aborting" /\ pc[Gen] \in {"c_crit", "c_store"} /\ ended[Main] # "cancel"
  \/ gen = "aborting" /\ pc[Gen] \in {"c_store_swapped", "c_wake"} /\ ended[Main] = "cancel"
  \/ gen \in {"aborting", "done"} /\ Aborted

(* No one else is in the driver, no signal is sent, and only the wait of main *)
(* is ever registered.                                                        *)
AloneInv ==
  /\ sig = {} /\ overtaken = {}
  /\ \A t \in Threads \ {Main, Gen} : pc[t] = "user"
  /\ owner \in {None, Main} /\ (owner = Main => InWait(Main))

TestInv ==
  IF program = "test" THEN MainInv /\ GenInv /\ AloneInv
  ELSE main = "setup" /\ gen = "none"
=============================================================================
