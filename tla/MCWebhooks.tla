------------------------------ MODULE MCWebhooks ------------------------------
(***************************************************************************)
(* Small instances of Webhooks: d1 and d2 are about one pull request, d3   *)
(* is about none; d4 carries its number, but is of another type and has no *)
(* delivery id.                                                            *)
(***************************************************************************)
EXTENDS Webhooks, TLC

CONSTANTS r1, r2, r3, d1, d2, d3, d4, p, w1, w2

PullRequests == d1 :> p @@ d2 :> p @@ d3 :> NoPr @@ d4 :> p

Nothing == [requests |-> 0, outages |-> 0, agents |-> 0, workers |-> 0, deletions |-> 0]
Faults(n) ==
  {b \in [DOMAIN Nothing -> 0..n] :
     b.requests + b.outages + b.agents + b.workers + b.deletions = n}

Requests(x, y, z) == r1 :> x @@ r2 :> y @@ r3 :> z

One(kind) == [Nothing EXCEPT ![kind] = 1]

\* One delivery and any two faults; two deliveries about one pull request, or the
\* same one twice, and a fault; the same one three times; d4 before d1, and twice.
FewFaults ==
       {Requests(d3, NoDelivery, NoDelivery)} \X Faults(2)
  \cup {Requests(d1, d2, NoDelivery)} \X {One("agents"), One("workers")}
  \cup {Requests(d3, d3, NoDelivery)} \X {One("requests"), One("deletions")}
  \cup {Requests(d3, d3, d3), Requests(d4, d1, NoDelivery),
        Requests(d4, d4, NoDelivery)} \X {Nothing}
OneAgentError == {Requests(d3, NoDelivery, NoDelivery)} \X {One("agents")}

Scenario(pairs) == {[delivery |-> x[1], budget |-> x[2]] : x \in pairs}
RepeatedDeliveries == Scenario(FewFaults)
FailingAgent       == Scenario(OneAgentError)
=============================================================================
