--------------------------- MODULE MCCreditMetering ---------------------------
(***************************************************************************)
(* Small instances of CreditMetering: one or two messages, one or two      *)
(* workers; things happen at noon, half an hour before the run and at it.  *)
(***************************************************************************)
EXTENDS CreditMetering, TLC

CONSTANTS m1, m2, w1, w2

NoonLateRun == {720, 1410, 1440}
NoonRun     == {720, 1440}

Symmetry == Permutations(Msg) \cup Permutations(Worker)
===============================================================================
