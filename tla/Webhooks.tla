-------------------------------- MODULE Webhooks --------------------------------
(***************************************************************************)
(* An agent's webhook (services/webhooks, tasks/agent_tasks.py).  A        *)
(* provider's delivery reaches receive_webhook, perhaps several times:     *)
(* WebhookProcessor drops duplicates, records an AgentWebhookEvent and     *)
(* queues a Celery job, process_webhook_event, which runs the agent and    *)
(* writes the outcome into the event.  A sweep fails the events whose      *)
(* worker was lost.                                                        *)
(*                                                                         *)
(* Events are named after the request that recorded them.  The webhook     *)
(* exists, its deliveries are well-formed, signed and of a kind it wants.  *)
(***************************************************************************)
EXTENDS Naturals

CONSTANTS
  Request,     \* calls of receive_webhook
  Delivery,    \* what the provider delivers
  Identified,  \* the deliveries with an id: GitHub's, Slack's and Sentry's
  Pr,          \* the numbers of pull requests
  PrOf,        \* [Delivery -> Pr \cup {NoPr}]
  NoPr,        \* the delivery has no such number
  PrEvents,    \* the deliveries whose event type starts with "pull_request."
  Worker,      \* Celery processes of the agents queue
  NoJob,       \* the worker is idle
  NoDelivery,  \* the request is not made
  MaxRetries,  \* max_retries of process_webhook_event
  Scenarios    \* bound: what the requests carry, and how much may go wrong

\* Requests cut off; database errors and lost jobs; agent errors; lost workers;
\* events deleted by an administrator.
Budget == [requests : Nat, outages : Nat, agents : Nat, workers : Nat, deletions : Nat]

ASSUME WebhooksAssumption ==
  /\ PrOf \in [Delivery -> Pr \cup {NoPr}] /\ NoPr \notin Pr /\ NoDelivery \notin Delivery
  /\ Identified \subseteq Delivery /\ PrEvents \subseteq Delivery
  /\ MaxRetries \in Nat /\ NoJob \notin Request \X Nat
  /\ Scenarios \subseteq [delivery : [Request -> Delivery \cup {NoDelivery}], budget : Budget]

VARIABLES
  \* the API
  delivery,   \* [Request -> the delivery it carries, or NoDelivery]
  at,         \* where a request is, or its answer
  \* agent_webhook_events
  status,     \* [Request -> the status of its event, "none" or "deleted"]
  old,        \* events recorded more than PR_DEDUP_WINDOW_SECONDS ago
  \* Celery: the jobs, <<event, retries>>, and the workers' tasks
  queue,
  pc,
  job,        \* [Worker -> the job it works on, or NoJob]
  sweep,      \* the events that the sweep has read
  \* history and bounds
  before,     \* [Request -> the requests that were answered when it arrived]
  runs,       \* [Request -> how often the agent was run for its event]
  raced,      \* events that two tasks had in hand at the same time
  dropped,    \* events whose last failure was not written, or whose retry was not sent
  budget

apiVars     == <<delivery, at, before>>
eventVars   == <<status, old>>
taskVars    == <<pc, job>>
historyVars == <<runs, raced, dropped>>
vars == <<apiVars, eventVars, queue, taskVars, sweep, historyVars, budget>>

Answer == {"accepted", "skipped", "error"}
Job    == Request \X (0..MaxRetries)

TypeOK ==
  /\ delivery \in [Request -> Delivery \cup {NoDelivery}]
  /\ at \in [Request -> {"new", "dedup", "replay", "create", "trigger", "count"} \cup Answer]
  /\ status \in [Request -> {"none", "pending", "processing", "completed", "failed",
                             "retrying", "skipped", "deleted"}]
  /\ old \in SUBSET Request
  /\ queue \in SUBSET Job
  /\ pc \in [Worker -> {"idle", "loaded", "running", "failing", "rejected", "retry", "done"}]
  /\ job \in [Worker -> Job \cup {NoJob}]
  /\ \A w \in Worker : pc[w] # "idle" => job[w] \in Job
  /\ sweep \in SUBSET Request
  /\ before \in [Request -> SUBSET Request]
  /\ runs \in [Request -> Nat]
  /\ raced \in SUBSET Request
  /\ dropped \in SUBSET Request
  /\ budget \in Budget

Init ==
  /\ \E s \in Scenarios : delivery = s.delivery /\ budget = s.budget
  /\ at = [r \in Request |-> "new"]
  /\ before = [r \in Request |-> {}]
  /\ status = [r \in Request |-> "none"]
  /\ old = {}
  /\ queue = {}
  /\ pc = [w \in Worker |-> "idle"]
  /\ job = [w \in Worker |-> NoJob]
  /\ sweep = {}
  /\ runs = [r \in Request |-> 0]
  /\ raced = {} /\ dropped = {}

-------------------------------------------------------------------------------
Spend(kind) == /\ budget[kind] > 0
               /\ budget' = [budget EXCEPT ![kind] = @ - 1]

Step(r, l)   == at' = [at EXCEPT ![r] = l]
Goto(w, l)   == pc' = [pc EXCEPT ![w] = l]
Free(w)      == pc' = [pc EXCEPT ![w] = "idle"] /\ job' = [job EXCEPT ![w] = NoJob]
EventOf(w)   == job[w][1]
RetriesOf(w) == job[w][2]

Exists(e) == status[e] \notin {"none", "deleted"}

\* An UPDATE of the event's row, which fails when the row is gone.
SetStatus(e, s) == Exists(e) /\ status' = [status EXCEPT ![e] = s]

-------------------------------------------------------------------------------
\* receive_webhook, WebhookProcessor.process_webhook

ReceiveWebhook(r) ==
  /\ at[r] = "new" /\ delivery[r] # NoDelivery
  /\ Step(r, "dedup")
  /\ before' = [before EXCEPT ![r] = {s \in Request : at[s] \in Answer}]
  /\ UNCHANGED <<delivery, eventVars, queue, taskVars, sweep, historyVars, budget>>

\* s carries the number of r's, and r asks: events of other types do not.
SamePr(r, s) == /\ delivery[r] \in PrEvents /\ PrOf[delivery[r]] # NoPr
                /\ PrOf[delivery[s]] = PrOf[delivery[r]]

\* Mutant: only events that are done count.
SuppressedWhenDone(r, s) == status[s] = "completed" /\ s \notin old /\ SamePr(r, s)

\* A recent event about the same pull request, of whatever type, that is not over
\* without success.
Suppressed(r, s) == /\ status[s] \in {"pending", "processing", "completed"}
                    /\ s \notin old /\ SamePr(r, s)

IsDuplicatePrEvent(r) ==
  /\ at[r] = "dedup"
  /\ Step(r, IF \E s \in Request : Suppressed(r, s) THEN "skipped" ELSE "replay")
  /\ UNCHANGED <<delivery, before, eventVars, queue, taskVars, sweep, historyVars, budget>>

\* Mutant: a delivery is a replay once its event is completed.
ReplayOfCompleted(r, s) == /\ delivery[r] \in Identified
                           /\ delivery[s] = delivery[r] /\ status[s] = "completed"

\* s is an event with the delivery id of r, if r has one.
ReplayOf(r, s) == /\ delivery[r] \in Identified
                  /\ delivery[s] = delivery[r] /\ Exists(s)

\* An event of this delivery exists: skipped; two of them: scalar_one_or_none raises.
CheckDelivery(r) ==
  LET same == {s \in Request : ReplayOf(r, s)} IN
  /\ at[r] = "replay"
  /\ \/ same = {} /\ Step(r, "create")
     \/ (\E s \in same : same = {s}) /\ Step(r, "skipped")
     \/ (\E s, t \in same : s # t) /\ Step(r, "error")
  /\ UNCHANGED <<delivery, before, eventVars, queue, taskVars, sweep, historyVars, budget>>

\* The event is committed, as skipped when the Jev gate says so.
CreateWebhookEvent(r) ==
  /\ at[r] = "create"
  /\ \/ status' = [status EXCEPT ![r] = "pending"] /\ Step(r, "trigger")
     \/ status' = [status EXCEPT ![r] = "skipped"] /\ Step(r, "skipped")
  /\ UNCHANGED <<delivery, before, old, queue, taskVars, sweep, historyVars, budget>>

TriggerAgentExecution(r) ==
  /\ at[r] = "trigger"
  /\ queue' = queue \cup {<<r, 0>>}
  /\ Step(r, "count")
  /\ UNCHANGED <<delivery, before, eventVars, taskVars, sweep, historyVars, budget>>

\* success_count is committed.
CountSuccess(r) ==
  /\ at[r] = "count"
  /\ Step(r, "accepted")
  /\ UNCHANGED <<delivery, before, eventVars, queue, taskVars, sweep, historyVars, budget>>

\* An exception, answered with 500, or a lost process: what is committed stays, an
\* event without a job included.
RequestFails(r) ==
  /\ at[r] \notin {"new"} \cup Answer
  /\ Spend("requests")
  /\ Step(r, "error")
  /\ UNCHANGED <<delivery, before, eventVars, queue, taskVars, sweep, historyVars>>

-------------------------------------------------------------------------------
\* process_webhook_event

\* Mutant: events that are being processed are run again.
UnfinishedIsRunnable(e) == status[e] \in {"pending", "processing"}

Runnable(e) == status[e] = "pending"

\* The tasks that may still write the event's row.
Busy(w, e) == /\ pc[w] \in {"loaded", "running", "failing", "rejected"}
              /\ EventOf(w) = e
Raced(e)   == IF \E v \in Worker : Busy(v, e) THEN raced \cup {e} ELSE raced

\* The task reads its event; one that is not pending ends it.
LoadEvent(w, j) ==
  /\ pc[w] = "idle" /\ j \in queue
  /\ queue' = queue \ {j}
  /\ job' = [job EXCEPT ![w] = j]
  /\ Goto(w, IF Runnable(j[1]) THEN "loaded" ELSE "done")
  /\ raced' = IF Runnable(j[1]) THEN Raced(j[1]) ELSE raced
  /\ UNCHANGED <<apiVars, eventVars, sweep, runs, dropped, budget>>

\* The database cannot be read.
LoadFails(w, j) ==
  /\ pc[w] = "idle" /\ j \in queue
  /\ Spend("outages")
  /\ queue' = queue \ {j}
  /\ job' = [job EXCEPT ![w] = j]
  /\ Goto(w, "failing")
  /\ raced' = Raced(j[1])
  /\ UNCHANGED <<apiVars, eventVars, sweep, runs, dropped>>

\* "processing" is committed, and the agent is run.
MarkProcessing(w) ==
  /\ pc[w] = "loaded"
  /\ SetStatus(EventOf(w), "processing")
  /\ runs' = [runs EXCEPT ![EventOf(w)] = @ + 1]
  /\ Goto(w, "running")
  /\ UNCHANGED <<apiVars, old, queue, job, sweep, raced, dropped, budget>>

\* The run has ended, well or with an error event in its stream.
CompleteEvent(w) ==
  /\ pc[w] = "running"
  /\ SetStatus(EventOf(w), "completed")
  /\ Goto(w, "done")
  /\ UNCHANGED <<apiVars, old, queue, job, sweep, historyVars, budget>>

\* The row that was read is gone when it is written.
EventIsGone(w) ==
  /\ pc[w] \in {"loaded", "running"} /\ ~Exists(EventOf(w))
  /\ Goto(w, "failing")
  /\ UNCHANGED <<apiVars, eventVars, queue, job, sweep, historyVars, budget>>

\* A commit fails.
CommitFails(w) ==
  /\ pc[w] \in {"loaded", "running"}
  /\ Spend("outages")
  /\ Goto(w, "failing")
  /\ UNCHANGED <<apiVars, eventVars, queue, job, sweep, historyVars>>

\* An exception out of the run; is_permanent_error tells by its text.
AgentFails(w) ==
  /\ pc[w] = "running"
  /\ Spend("agents")
  /\ Goto(w, "failing") \/ Goto(w, "rejected")
  /\ UNCHANGED <<apiVars, eventVars, queue, job, sweep, historyVars>>

\* Mutant: one retry too many.
ExhaustedLater(w) == RetriesOf(w) > MaxRetries

Exhausted(w) == RetriesOf(w) >= MaxRetries

\* _update_event_failure; its own errors, a row that is gone included, are swallowed.
UpdateEventFailure(w) ==
  LET final == pc[w] = "rejected" \/ Exhausted(w) IN
  /\ pc[w] \in {"failing", "rejected"}
  /\ \/ /\ SetStatus(EventOf(w), IF final THEN "failed" ELSE "retrying")
        /\ UNCHANGED dropped
     \/ /\ UNCHANGED status
        /\ dropped' = dropped \cup IF final THEN {EventOf(w)} ELSE {}
  /\ Goto(w, IF final THEN "done" ELSE "retry")
  /\ UNCHANGED <<apiVars, old, queue, job, sweep, runs, raced, budget>>

\* self.retry sends the job again, then the old one is acknowledged.
Retry(w) ==
  /\ pc[w] = "retry"
  /\ queue' = queue \cup {<<EventOf(w), RetriesOf(w) + 1>>}
  /\ Goto(w, "done")
  /\ UNCHANGED <<apiVars, eventVars, job, sweep, historyVars, budget>>

RetryFails(w) ==
  /\ pc[w] = "retry"
  /\ Spend("outages")
  /\ dropped' = dropped \cup {EventOf(w)}
  /\ Goto(w, "done")
  /\ UNCHANGED <<apiVars, eventVars, queue, job, sweep, runs, raced>>

Acknowledge(w) ==
  /\ pc[w] = "done"
  /\ Free(w)
  /\ UNCHANGED <<apiVars, eventVars, queue, sweep, historyVars, budget>>

\* The worker is lost before it acknowledged its job, which is delivered again.
Crash(w) ==
  /\ pc[w] # "idle"
  /\ Spend("workers")
  /\ queue' = queue \cup {job[w]}
  /\ Free(w)
  /\ UNCHANGED <<apiVars, eventVars, sweep, historyVars>>

\* task_time_limit: the process is killed, and its job acknowledged.
TimeLimit(w) ==
  /\ pc[w] = "running"
  /\ Spend("workers")
  /\ Free(w)
  /\ UNCHANGED <<apiVars, eventVars, queue, sweep, historyVars>>

\* The broker's visibility timeout gives the job of a busy worker to another one.
Redeliver(w) ==
  /\ pc[w] # "idle"
  /\ Spend("workers")
  /\ queue' = queue \cup {job[w]}
  /\ UNCHANGED <<apiVars, eventVars, taskVars, sweep, historyVars>>

-------------------------------------------------------------------------------
\* cleanup_stale_webhook_events, every 15 minutes

\* Mutant: the comparison with the cutoff is the wrong way round.
StaleTooEarly(e) == status[e] = "processing" /\ e \notin old

\* In "processing", and recorded (that is when processing_started_at is set) more
\* than 30 minutes ago; here, at any time after the five of the window.
Stale(e) == status[e] = "processing" /\ e \in old

SelectStaleEvents ==
  /\ sweep = {}
  /\ \E e \in Request : Stale(e)
  /\ sweep' = {e \in Request : Stale(e)}
  /\ UNCHANGED <<apiVars, eventVars, queue, taskVars, historyVars, budget>>

\* All of them are failed, whatever they are by now, or none if one is gone.
FailStaleEvents ==
  /\ sweep # {}
  /\ \/ /\ \A e \in sweep : Exists(e)
        /\ status' = [e \in Request |-> IF e \in sweep THEN "failed" ELSE status[e]]
     \/ (\E e \in sweep : ~Exists(e)) /\ UNCHANGED status
  /\ sweep' = {}
  /\ UNCHANGED <<apiVars, old, queue, taskVars, historyVars, budget>>

DeleteEvent(e) ==
  /\ Spend("deletions")
  /\ SetStatus(e, "deleted")
  /\ UNCHANGED <<apiVars, old, queue, taskVars, sweep, historyVars>>

Age(e) ==
  /\ Exists(e) /\ e \notin old
  /\ old' = old \cup {e}
  /\ UNCHANGED <<apiVars, status, queue, taskVars, sweep, historyVars, budget>>

-------------------------------------------------------------------------------
RequestStep(r) ==
  \/ ReceiveWebhook(r) \/ IsDuplicatePrEvent(r) \/ CheckDelivery(r)
  \/ CreateWebhookEvent(r) \/ TriggerAgentExecution(r) \/ CountSuccess(r)

TaskStep(w) ==
  \/ MarkProcessing(w) \/ CompleteEvent(w) \/ EventIsGone(w) \/ UpdateEventFailure(w)
  \/ Retry(w) \/ Acknowledge(w)

TaskFails(w) ==
  \/ CommitFails(w) \/ AgentFails(w) \/ RetryFails(w)
  \/ Crash(w) \/ TimeLimit(w) \/ Redeliver(w)

Sweep == SelectStaleEvents \/ FailStaleEvents

Next ==
  \/ \E r \in Request : RequestStep(r) \/ RequestFails(r) \/ DeleteEvent(r) \/ Age(r)
  \/ \E w \in Worker, j \in Job : LoadEvent(w, j) \/ LoadFails(w, j)
  \/ \E w \in Worker : TaskStep(w) \/ TaskFails(w)
  \/ Sweep

Spec == Init /\ [][Next]_vars

\* Requests and runs of agents end, jobs are taken, time passes, the sweep is run.
Fairness ==
  /\ \A r \in Request : WF_vars(RequestStep(r)) /\ WF_vars(Age(r))
  /\ \A w \in Worker : WF_vars(TaskStep(w))
  /\ \A j \in Job : WF_vars(\E w \in Worker : LoadEvent(w, j))
  /\ WF_vars(Sweep)

FairSpec == Spec /\ Fairness

-------------------------------------------------------------------------------
\* Properties

\* "re-running risks duplicate PR reviews": the agent is run once for an event,
\* whatever is delivered again, retried or swept, unless two tasks had the event in
\* hand at the same time.
RunsOnce == \A e \in Request : runs[e] > 1 => e \in raced

\* A delivery with an id that arrives again after it was answered is not recorded
\* again while its event is kept; only requests that overlap record it twice.
ReplayRejected ==
  \A r, s \in Request :
    /\ delivery[s] \in Identified /\ delivery[r] = delivery[s]
    /\ Exists(r) /\ Exists(s) /\ r # s
    => r \notin before[s]

Live(e) == e \notin old /\ status[e] \in {"pending", "processing", "completed"}

\* "Prevents the agent from being triggered multiple times for the same PR": a pull
\* request event is not worked on beside another event about the same pull request,
\* of whatever type, within five minutes of it, unless their requests overlapped.
OneReviewPerPr ==
  \A r, s \in Request :
    r # s /\ Live(r) /\ Live(s) /\ SamePr(s, r) /\ r \notin raced => r \notin before[s]

\* Somebody has the event in hand and goes on with it.
Underway(e) ==
  \/ \E j \in queue : j[1] = e
  \/ \E w \in Worker : pc[w] \in {"loaded", "failing", "rejected", "retry"} /\ EventOf(w) = e

\* No accepted event is forgotten before it has begun: while it is pending, which no
\* sweep looks at, its job is queued or a task is at it, whatever workers are lost and
\* jobs repeated, until its last failure is not written or its retry not sent.
NoEventForgotten ==
  \A e \in Request :
    at[e] \in {"count", "accepted"} /\ status[e] = "pending" /\ e \notin dropped => Underway(e)

\* An accepted delivery is processed, or given up: its event does not stay pending,
\* nor in processing "forever when a Celery worker is killed mid-task", unless it is
\* dropped: both the agent's job and the record of its failure met an outage.
AcceptedEventsEnd ==
  \A r \in Request :
    at[r] = "accepted" ~> \/ status[r] \in {"completed", "failed", "retrying", "deleted"}
                         \/ r \in dropped

\* "Max 3 retries with exponential backoff": an event that waits for its retry is
\* taken up again.
RetriesRun ==
  \A r \in Request : status[r] = "retrying" ~> status[r] # "retrying"
===============================================================================
