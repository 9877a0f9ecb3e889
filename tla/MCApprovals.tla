----------------------------- MODULE MCApprovals ------------------------------
(* Small instances of Approvals. *)
EXTENDS Approvals, TLC

\* Jobs, requests and answers are interchangeable.
Symmetry == Permutations(Job) \cup Permutations(Request) \cup Permutations(Answer)

Origins == Request \cup {Scheduled, Feedback}

\* Channels
Both    == {"reply", "respond"}
Buttons == {"respond"}

Events(faults, toggles, answers) ==
  [faults |-> faults, toggles |-> toggles, answers |-> answers]

\* Budgets
FaultOrToggle == {Events(1, 0, 1), Events(0, 1, 1)}
TwoAnswers    == {Events(1, 1, 2), Events(0, 2, 2)}
===============================================================================
