----------------------------- MODULE MCBotCluster -----------------------------
(***************************************************************************)
(* Small instances of BotCluster: two workers (three model values would    *)
(* only repeat the pairs), one or two bots.                                *)
(***************************************************************************)
EXTENDS BotCluster

CONSTANTS w1, w2, b1, b2

\* The bots' hashes come before a point of w1, b2's after wrapping: w2 owns bots
\* only while w1 is away.
W1First       == [w \in Worker |-> IF w = w1 THEN {1, 4} ELSE {2, 5}]
BetweenPoints == [b \in Bot |-> IF b = b1 THEN 3 ELSE 6]

AllSlack    == [b \in Bot |-> "slack"]
Mixed       == [b \in Bot |-> IF b = b1 THEN "telegram" ELSE "whatsapp"]

Events(ops, crashes, stops, stalls, faults) ==
  [ops |-> ops, crashes |-> crashes, stops |-> stops, stalls |-> stalls,
   faults |-> faults]

\* What may happen in each run: any one of these budgets.
WorkersLeave    == {Events(0, 0, 1, 1, 0), Events(0, 1, 0, 0, 0)}
OneCrash        == {Events(0, 1, 0, 0, 0)}
OneRequest      == {Events(1, 0, 0, 0, 0)}
RequestsOverlap == {Events(2, 0, 0, 0, 0), Events(1, 0, 0, 0, 2),
                    Events(1, 0, 1, 0, 1), Events(0, 1, 1, 0, 2)}
===============================================================================
