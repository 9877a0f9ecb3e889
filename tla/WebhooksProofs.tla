---------------------------- MODULE WebhooksProofs ----------------------------
(***************************************************************************)
(* Theorems about Webhooks for any requests, deliveries, workers, retries  *)
(* and scenarios: its types, that the agent is run once for an event       *)
(* unless two tasks had it in hand together, that what is recorded twice,  *)
(* or reviewed twice at the same time, comes from requests that            *)
(* overlapped, and that no accepted event is forgotten.                    *)
(***************************************************************************)
EXTENDS Webhooks, TLAPS

\* A retry is only sent while there are retries left.
RetryLeft == \A w \in Worker : pc[w] = "retry" => RetriesOf(w) < MaxRetries

TypeInv == TypeOK /\ RetryLeft

LEMMA InitType == Init => TypeInv
<1> SUFFICES ASSUME Init PROVE TypeInv
  OBVIOUS
<1>1. PICK s \in Scenarios : delivery = s.delivery /\ budget = s.budget
  BY DEF Init
<1>2. /\ delivery \in [Request -> Delivery \cup {NoDelivery}]
      /\ budget \in Budget
  BY <1>1, WebhooksAssumption
<1> QED
  BY <1>2 DEF Init, TypeInv, TypeOK, RetryLeft

\* Spending keeps the budget in its type.
LEMMA SpendType ==
  ASSUME NEW kind \in {"requests", "outages", "agents", "workers", "deletions"},
         budget \in Budget, Spend(kind)
  PROVE  budget' \in Budget
  BY DEF Spend, Budget

\* What a worker that is not idle works on.
LEMMA JobType ==
  ASSUME TypeOK, NEW w \in Worker, pc[w] # "idle"
  PROVE  /\ job[w] \in Job
         /\ EventOf(w) \in Request /\ RetriesOf(w) \in 0..MaxRetries
         /\ job[w] = <<EventOf(w), RetriesOf(w)>>
  BY DEF TypeOK, Job, EventOf, RetriesOf

-------------------------------------------------------------------------------
\* Types

LEMMA RequestType ==
  ASSUME TypeInv, NEW r \in Request,
         RequestStep(r) \/ RequestFails(r) \/ DeleteEvent(r) \/ Age(r)
  PROVE  TypeInv'
<1> USE DEF TypeInv, TypeOK, RetryLeft, apiVars, eventVars, taskVars, historyVars, Step,
            RetriesOf
<1>1. CASE RequestStep(r)
  <2>1. CASE ReceiveWebhook(r)
    BY <2>1 DEF ReceiveWebhook
  <2>2. CASE IsDuplicatePrEvent(r)
    BY <2>2 DEF IsDuplicatePrEvent, Answer
  <2>3. CASE CheckDelivery(r)
    BY <2>3 DEF CheckDelivery, Answer
  <2>4. CASE CreateWebhookEvent(r)
    BY <2>4 DEF CreateWebhookEvent, Answer
  <2>5. CASE TriggerAgentExecution(r)
    <3>1. <<r, 0>> \in Job
      BY WebhooksAssumption DEF Job
    <3> QED
      BY <2>5, <3>1 DEF TriggerAgentExecution
  <2>6. CASE CountSuccess(r)
    BY <2>6 DEF CountSuccess, Answer
  <2> QED
    BY <1>1, <2>1, <2>2, <2>3, <2>4, <2>5, <2>6 DEF RequestStep
<1>2. CASE RequestFails(r)
  <2>1. budget' \in Budget
    BY <1>2, SpendType DEF RequestFails
  <2> QED
    BY <1>2, <2>1 DEF RequestFails, Answer
<1>3. CASE DeleteEvent(r)
  <2>1. budget' \in Budget
    BY <1>3, SpendType DEF DeleteEvent
  <2> QED
    BY <1>3, <2>1 DEF DeleteEvent, SetStatus
<1>4. CASE Age(r)
  BY <1>4 DEF Age
<1> QED
  BY <1>1, <1>2, <1>3, <1>4

LEMMA LoadType ==
  ASSUME TypeInv, NEW w \in Worker, NEW j \in Job, LoadEvent(w, j) \/ LoadFails(w, j)
  PROVE  TypeInv'
<1> USE DEF TypeInv, TypeOK, RetryLeft, apiVars, eventVars, historyVars, Goto, RetriesOf
<1>1. j[1] \in Request
  BY DEF Job
<1>2. Raced(j[1]) \in SUBSET Request
  BY <1>1 DEF Raced
<1>3. CASE LoadEvent(w, j)
  BY <1>2, <1>3 DEF LoadEvent
<1>4. CASE LoadFails(w, j)
  <2>1. budget' \in Budget
    BY <1>4, SpendType DEF LoadFails
  <2> QED
    BY <1>2, <1>4, <2>1 DEF LoadFails
<1> QED
  BY <1>3, <1>4

LEMMA TaskType ==
  ASSUME TypeInv, NEW w \in Worker, TaskStep(w) \/ TaskFails(w)
  PROVE  TypeInv'
<1> USE DEF TypeInv, TypeOK, RetryLeft, apiVars, eventVars, taskVars, historyVars, Goto,
            RetriesOf
<1>1. CASE MarkProcessing(w)
  <2>1. EventOf(w) \in Request
    BY <1>1, JobType DEF MarkProcessing
  <2> QED
    BY <1>1, <2>1 DEF MarkProcessing, SetStatus
<1>2. CASE CompleteEvent(w)
  BY <1>2 DEF CompleteEvent, SetStatus
<1>3. CASE EventIsGone(w)
  BY <1>3 DEF EventIsGone
<1>4. CASE UpdateEventFailure(w)
  <2>1. /\ EventOf(w) \in Request
        /\ RetriesOf(w) \in 0..MaxRetries /\ MaxRetries \in Nat
    BY <1>4, JobType, WebhooksAssumption DEF UpdateEventFailure
  <2> QED
    BY <1>4, <2>1 DEF UpdateEventFailure, SetStatus, Exhausted
<1>5. CASE Retry(w)
  <2>1. /\ EventOf(w) \in Request
        /\ RetriesOf(w) \in 0..MaxRetries /\ MaxRetries \in Nat
    BY <1>5, JobType, WebhooksAssumption DEF Retry
  <2>2. <<EventOf(w), RetriesOf(w) + 1>> \in Job
    BY <1>5, <2>1 DEF Retry, Job
  <2> QED
    BY <1>5, <2>2 DEF Retry
<1>6. CASE Acknowledge(w)
  BY <1>6 DEF Acknowledge, Free
<1>7. CASE CommitFails(w) \/ AgentFails(w) \/ RetryFails(w)
  <2>1. budget' \in Budget /\ EventOf(w) \in Request
    BY <1>7, SpendType, JobType DEF CommitFails, AgentFails, RetryFails
  <2> QED
    BY <1>7, <2>1 DEF CommitFails, AgentFails, RetryFails
<1>8. CASE Crash(w) \/ TimeLimit(w) \/ Redeliver(w)
  <2>1. budget' \in Budget /\ job[w] \in Job
    BY <1>8, SpendType, JobType DEF Crash, TimeLimit, Redeliver
  <2> QED
    BY <1>8, <2>1 DEF Crash, TimeLimit, Redeliver, Free
<1> QED
  BY <1>1, <1>2, <1>3, <1>4, <1>5, <1>6, <1>7, <1>8 DEF TaskStep, TaskFails

LEMMA SweepType == TypeInv /\ Sweep => TypeInv'
  BY DEF TypeInv, TypeOK, RetryLeft, Sweep, SelectStaleEvents, FailStaleEvents, apiVars,
         eventVars, taskVars, historyVars, RetriesOf

LEMMA NextType == TypeInv /\ [Next]_vars => TypeInv'
<1> SUFFICES ASSUME TypeInv, [Next]_vars PROVE TypeInv'
  OBVIOUS
<1>1. CASE UNCHANGED vars
  BY <1>1 DEF TypeInv, TypeOK, RetryLeft, vars, apiVars, eventVars, taskVars, historyVars,
              RetriesOf
<1> QED
  BY <1>1, RequestType, LoadType, TaskType, SweepType DEF Next

\* The type invariant of Webhooks.
THEOREM TypeCorrect == Spec => []TypeOK
<1>1. TypeInv => TypeOK
  BY DEF TypeInv
<1> QED
  BY <1>1, InitType, NextType, PTL DEF Spec

-------------------------------------------------------------------------------
\* RunsOnce

\* A request that has not recorded its event has none.
Unrecorded ==
  \A r \in Request : at[r] \in {"new", "dedup", "replay", "create"} => status[r] = "none"

\* An event the agent was run for is never pending again.
RunLeavesMark ==
  \A e \in Request : runs[e] > 0 => status[e] \notin {"none", "pending"}

\* Two tasks have an event in hand at the same time only if it is raced.
OneTask ==
  \A v, w \in Worker : v # w /\ Busy(v, EventOf(w)) /\ Busy(w, EventOf(w)) => EventOf(w) \in raced

\* The agent was not run for an event that a task is about to mark.
NotYetRun ==
  \A w \in Worker : pc[w] = "loaded" /\ EventOf(w) \notin raced => runs[EventOf(w)] = 0

RunInv == Unrecorded /\ RunLeavesMark /\ OneTask /\ NotYetRun /\ RunsOnce

LEMMA InitRun == Init => RunInv
  BY DEF Init, RunInv, Unrecorded, RunLeavesMark, OneTask, NotYetRun, RunsOnce, Busy

LEMMA RequestRun ==
  ASSUME TypeOK, RunInv, NEW r \in Request,
         RequestStep(r) \/ RequestFails(r) \/ DeleteEvent(r) \/ Age(r)
  PROVE  RunInv'
<1>1. UNCHANGED <<pc, job, runs, raced>>
  BY DEF RequestStep, ReceiveWebhook, IsDuplicatePrEvent, CheckDelivery, CreateWebhookEvent,
         TriggerAgentExecution, CountSuccess, RequestFails, DeleteEvent, Age, taskVars,
         historyVars
<1>2. (OneTask /\ NotYetRun /\ RunsOnce)'
  BY <1>1 DEF RunInv, OneTask, NotYetRun, RunsOnce, Busy, EventOf
<1>3. CASE CreateWebhookEvent(r)
  <2>1. status[r] = "none" /\ ~(runs[r] > 0)
    BY <1>3 DEF CreateWebhookEvent, RunInv, Unrecorded, RunLeavesMark
  <2>2. Unrecorded' /\ RunLeavesMark'
    BY <1>1, <1>3, <2>1
       DEF CreateWebhookEvent, Step, TypeOK, RunInv, Unrecorded, RunLeavesMark
  <2> QED
    BY <1>2, <2>2 DEF RunInv
<1>4. CASE DeleteEvent(r)
  <2>1. status[r] # "none" /\ status' = [status EXCEPT ![r] = "deleted"] /\ UNCHANGED at
    BY <1>4 DEF DeleteEvent, SetStatus, Exists, apiVars
  <2>2. Unrecorded' /\ RunLeavesMark'
    BY <1>1, <2>1 DEF TypeOK, RunInv, Unrecorded, RunLeavesMark
  <2> QED
    BY <1>2, <2>2 DEF RunInv
<1>5. CASE ~CreateWebhookEvent(r) /\ ~DeleteEvent(r)
  <2>1. UNCHANGED status
    BY <1>5 DEF RequestStep, ReceiveWebhook, IsDuplicatePrEvent, CheckDelivery,
         TriggerAgentExecution, CountSuccess, RequestFails, Age, eventVars
  <2>2. \A q \in Request : at'[q] \in {"new", "dedup", "replay", "create"} =>
                           at[q] \in {"new", "dedup", "replay", "create"}
    BY <1>5 DEF RequestStep, ReceiveWebhook, IsDuplicatePrEvent, CheckDelivery,
         TriggerAgentExecution, CountSuccess, RequestFails, Age, Step, TypeOK, apiVars, Answer
  <2> QED
    BY <1>1, <1>2, <2>1, <2>2 DEF RunInv, Unrecorded, RunLeavesMark
<1> QED
  BY <1>3, <1>4, <1>5

LEMMA LoadRun ==
  ASSUME TypeOK, RunInv, NEW w \in Worker, NEW j \in Job, LoadEvent(w, j) \/ LoadFails(w, j)
  PROVE  RunInv'
<1>1. /\ UNCHANGED <<at, status, runs>>
      /\ pc[w] = "idle" /\ job' = [job EXCEPT ![w] = j]
      /\ j[1] \in Request
  BY DEF LoadEvent, LoadFails, apiVars, eventVars, Job
<1>2. \/ /\ pc' = [pc EXCEPT ![w] = "loaded"] /\ raced' = Raced(j[1])
         /\ status[j[1]] = "pending"
      \/ pc' = [pc EXCEPT ![w] = "failing"] /\ raced' = Raced(j[1])
      \/ pc' = [pc EXCEPT ![w] = "done"] /\ raced' = raced
  BY DEF LoadEvent, LoadFails, Goto, Runnable
<1>3. raced \subseteq raced'
  BY <1>2 DEF Raced
<1>4. EventOf(w)' = j[1]
  BY <1>1 DEF EventOf, TypeOK
<1>5. \A v \in Worker \ {w} : pc'[v] = pc[v] /\ EventOf(v)' = EventOf(v)
  BY <1>1, <1>2 DEF EventOf, TypeOK
<1>6. OneTask'
  <2> SUFFICES ASSUME NEW u \in Worker, NEW v \in Worker, u # v,
                      Busy(u, EventOf(v))', Busy(v, EventOf(v))'
               PROVE  EventOf(v)' \in raced'
    BY DEF OneTask
  <2>1. CASE u # w /\ v # w
    BY <1>3, <1>5, <2>1 DEF RunInv, OneTask, Busy
  <2>2. CASE u = w \/ v = w
    <3>1. PICK x \in Worker \ {w} : Busy(x, j[1]) /\ EventOf(v)' = j[1]
      BY <1>4, <1>5, <2>2 DEF Busy
    <3>2. pc'[w] \in {"loaded", "failing"}
      BY <1>2, <2>2 DEF Busy, TypeOK
    <3> QED
      BY <1>2, <3>1, <3>2 DEF Raced, TypeOK
  <2> QED
    BY <2>1, <2>2
<1>7. NotYetRun'
  <2> SUFFICES ASSUME NEW v \in Worker, pc'[v] = "loaded", EventOf(v)' \notin raced'
               PROVE  runs'[EventOf(v)'] = 0
    BY DEF NotYetRun
  <2>1. CASE v = w
    <3>1. status[j[1]] = "pending" /\ runs[j[1]] \in Nat
      BY <1>1, <1>2, <2>1 DEF TypeOK
    <3> QED
      BY <1>1, <1>4, <2>1, <3>1 DEF RunInv, RunLeavesMark
  <2>2. CASE v # w
    BY <1>1, <1>3, <1>5, <2>2 DEF RunInv, NotYetRun
  <2> QED
    BY <2>1, <2>2
<1> QED
  BY <1>1, <1>3, <1>6, <1>7 DEF RunInv, Unrecorded, RunLeavesMark, RunsOnce

LEMMA MarkRun ==
  ASSUME TypeOK, RunInv, NEW w \in Worker, MarkProcessing(w)
  PROVE  RunInv'
<1> DEFINE e == EventOf(w)
<1>1. /\ UNCHANGED <<at, job, raced>>
      /\ pc[w] = "loaded" /\ pc' = [pc EXCEPT ![w] = "running"]
      /\ Exists(e) /\ status' = [status EXCEPT ![e] = "processing"]
      /\ runs' = [runs EXCEPT ![e] = runs[e] + 1]
  BY DEF MarkProcessing, SetStatus, Goto, apiVars
<1>2. e \in Request /\ runs[e] \in Nat
  BY <1>1, JobType DEF TypeOK
<1>3. \A v \in Worker : EventOf(v)' = EventOf(v)
  BY <1>1 DEF EventOf
<1>4. OneTask'
  BY <1>1, <1>3 DEF RunInv, OneTask, Busy, TypeOK
<1>5. NotYetRun'
  <2> SUFFICES ASSUME NEW v \in Worker, pc'[v] = "loaded", EventOf(v) \notin raced
               PROVE  runs'[EventOf(v)] = 0
    BY <1>1, <1>3 DEF NotYetRun
  <2>1. v # w /\ pc[v] = "loaded"
    BY <1>1 DEF TypeOK
  <2>2. EventOf(v) # e
    BY <1>1, <2>1 DEF RunInv, OneTask, Busy
  <2>3. EventOf(v) \in Request
    BY <2>1, JobType
  <2> QED
    BY <1>1, <1>2, <2>1, <2>2, <2>3 DEF RunInv, NotYetRun, TypeOK
<1>6. RunsOnce'
  BY <1>1, <1>2 DEF RunInv, RunsOnce, NotYetRun, TypeOK
<1>7. Unrecorded' /\ RunLeavesMark'
  BY <1>1, <1>2 DEF RunInv, Unrecorded, RunLeavesMark, Exists, TypeOK
<1> QED
  BY <1>4, <1>5, <1>6, <1>7 DEF RunInv

\* A task that is not about to run the agent only leaves the event behind it.
LEMMA TaskRun ==
  ASSUME TypeOK, RunInv, NEW w \in Worker, TaskStep(w) \/ TaskFails(w)
  PROVE  RunInv'
<1>1. CASE MarkProcessing(w)
  BY <1>1, MarkRun
<1>2. CASE ~MarkProcessing(w)
  <2>1. UNCHANGED <<at, runs, raced>>
    BY <1>2 DEF TaskStep, TaskFails, CompleteEvent, EventIsGone, UpdateEventFailure, Retry,
         Acknowledge, CommitFails, AgentFails, RetryFails, Crash, TimeLimit, Redeliver,
         apiVars, historyVars
  <2>2. \A e \in Request : \/ status'[e] = status[e]
                           \/ /\ status[e] # "none"
                              /\ status'[e] \in {"completed", "failed", "retrying"}
    BY <1>2 DEF TaskStep, TaskFails, CompleteEvent, EventIsGone, UpdateEventFailure, Retry,
         Acknowledge, CommitFails, AgentFails, RetryFails, Crash, TimeLimit, Redeliver,
         eventVars, SetStatus, Exists, TypeOK
  <2>3. Unrecorded' /\ RunLeavesMark'
    BY <2>1, <2>2 DEF RunInv, Unrecorded, RunLeavesMark
  <2>4. \A v \in Worker : pc'[v] \in {"loaded", "running", "failing", "rejected"} =>
          /\ pc[v] \in {"loaded", "running", "failing", "rejected"}
          /\ pc'[v] = "loaded" => pc[v] = "loaded"
          /\ EventOf(v)' = EventOf(v)
    BY <1>2 DEF TaskStep, TaskFails, CompleteEvent, EventIsGone, UpdateEventFailure, Retry,
         Acknowledge, CommitFails, AgentFails, RetryFails, Crash, TimeLimit, Redeliver,
         taskVars, Goto, Free, EventOf, TypeOK
  <2>5. (OneTask /\ NotYetRun /\ RunsOnce)'
    BY <2>1, <2>4 DEF RunInv, OneTask, NotYetRun, RunsOnce, Busy
  <2> QED
    BY <2>3, <2>5 DEF RunInv
<1> QED
  BY <1>1, <1>2

LEMMA SweepRun ==
  ASSUME TypeOK, RunInv, Sweep
  PROVE  RunInv'
<1>1. UNCHANGED <<at, runs, raced, pc, job>>
  BY DEF Sweep, SelectStaleEvents, FailStaleEvents, apiVars, taskVars, historyVars
<1>2. \A e \in Request : \/ status'[e] = status[e]
                         \/ status[e] # "none" /\ status'[e] = "failed"
  BY DEF Sweep, SelectStaleEvents, FailStaleEvents, eventVars, Exists, TypeOK
<1>3. Unrecorded' /\ RunLeavesMark'
  BY <1>1, <1>2 DEF RunInv, Unrecorded, RunLeavesMark
<1>4. (OneTask /\ NotYetRun /\ RunsOnce)'
  BY <1>1 DEF RunInv, OneTask, NotYetRun, RunsOnce, Busy, EventOf
<1> QED
  BY <1>3, <1>4 DEF RunInv

LEMMA NextRun == TypeOK /\ RunInv /\ [Next]_vars => RunInv'
<1> SUFFICES ASSUME TypeOK, RunInv, [Next]_vars PROVE RunInv'
  OBVIOUS
<1>1. CASE UNCHANGED vars
  BY <1>1 DEF RunInv, Unrecorded, RunLeavesMark, OneTask, NotYetRun, RunsOnce, Busy, EventOf,
              vars, apiVars, eventVars, taskVars, historyVars
<1> QED
  BY <1>1, RequestRun, LoadRun, TaskRun, SweepRun DEF Next

\* The agent is run once for an event, however often its job is delivered, retried or
\* swept, unless two tasks had the event in hand at the same time.
THEOREM RanOnce == Spec => []RunsOnce
<1>1. RunInv => RunsOnce
  BY DEF RunInv
<1> QED
  BY <1>1, InitRun, NextRun, TypeCorrect, PTL DEF Spec

-------------------------------------------------------------------------------
\* ReplayRejected

\* The requests that were answered when one arrived are answered.
AnsweredBefore == \A s \in Request : \A r \in before[s] : at[r] \in Answer

\* None of them has an event of the delivery that is about to be recorded.
NoReplayYet ==
  \A s \in Request : \A r \in before[s] :
    /\ at[s] = "create" /\ delivery[s] \in Identified /\ delivery[r] = delivery[s]
    => ~Exists(r)

ReplayInv == AnsweredBefore /\ NoReplayYet /\ ReplayRejected

LEMMA InitReplay == Init => ReplayInv
  BY DEF Init, ReplayInv, AnsweredBefore, NoReplayYet, ReplayRejected

\* Only create_webhook_event adds an event.
LEMMA EventsAreCreated ==
  ASSUME TypeOK, Next, NEW e \in Request, Exists(e)'
  PROVE  Exists(e) \/ CreateWebhookEvent(e)
<1>1. CASE \E r \in Request : RequestStep(r) \/ RequestFails(r) \/ DeleteEvent(r) \/ Age(r)
  BY <1>1 DEF RequestStep, ReceiveWebhook, IsDuplicatePrEvent, CheckDelivery,
     CreateWebhookEvent, TriggerAgentExecution, CountSuccess, RequestFails, DeleteEvent, Age,
     eventVars, SetStatus, Exists, TypeOK
<1>2. CASE \E w \in Worker, j \in Job : LoadEvent(w, j) \/ LoadFails(w, j)
  BY <1>2 DEF LoadEvent, LoadFails, eventVars, Exists
<1>3. CASE \E w \in Worker : TaskStep(w) \/ TaskFails(w)
  BY <1>3 DEF TaskStep, TaskFails, MarkProcessing, CompleteEvent, EventIsGone,
     UpdateEventFailure, Retry, Acknowledge, CommitFails, AgentFails, RetryFails, Crash,
     TimeLimit, Redeliver, eventVars, SetStatus, Exists, TypeOK
<1>4. CASE Sweep
  BY <1>4 DEF Sweep, SelectStaleEvents, FailStaleEvents, eventVars, Exists, TypeOK
<1> QED
  BY <1>1, <1>2, <1>3, <1>4 DEF Next

\* Only requests change what is known of requests.
LEMMA OthersLeaveRequests ==
  ASSUME Next
  PROVE  (\E r \in Request : RequestStep(r) \/ RequestFails(r)) \/ UNCHANGED apiVars
  BY DEF Next, DeleteEvent, Age, LoadEvent, LoadFails, TaskStep, TaskFails, MarkProcessing,
     CompleteEvent, EventIsGone, UpdateEventFailure, Retry, Acknowledge, CommitFails,
     AgentFails, RetryFails, Crash, TimeLimit, Redeliver, Sweep, SelectStaleEvents,
     FailStaleEvents

\* What a step may do to a request.
LEMMA RequestMoves ==
  ASSUME TypeOK, Next, NEW q \in Request
  PROVE  /\ delivery' = delivery
         /\ at[q] \in Answer => at'[q] = at[q]
         /\ before'[q] = before[q] \/ ReceiveWebhook(q)
         /\ at'[q] = "create" => at[q] = "create" \/ CheckDelivery(q)
         /\ at'[q] = "replay" => at[q] = "replay" \/ IsDuplicatePrEvent(q)
<1>1. CASE UNCHANGED apiVars
  BY <1>1 DEF apiVars
<1>2. ASSUME NEW r \in Request, RequestStep(r) \/ RequestFails(r)
      PROVE  /\ delivery' = delivery
             /\ at[q] \in Answer => at'[q] = at[q]
             /\ before'[q] = before[q] \/ ReceiveWebhook(q)
             /\ at'[q] = "create" => at[q] = "create" \/ CheckDelivery(q)
             /\ at'[q] = "replay" => at[q] = "replay" \/ IsDuplicatePrEvent(q)
  <2> USE DEF TypeOK, Step, apiVars, Answer
  <2>1. CASE ReceiveWebhook(r)
    BY <2>1 DEF ReceiveWebhook
  <2>2. CASE IsDuplicatePrEvent(r)
    <3>1. CASE q = r
      BY <2>2, <3>1, Zenon DEF IsDuplicatePrEvent
    <3>2. q # r => at'[q] = at[q]
      BY <2>2 DEF IsDuplicatePrEvent
    <3>3. delivery' = delivery /\ before' = before /\ at[r] = "dedup" /\ at'[r] # "create"
      BY <2>2 DEF IsDuplicatePrEvent
    <3> QED
      BY <2>2, <3>2, <3>3
  <2>3. CASE CheckDelivery(r)
    <3>1. /\ q # r => at'[q] = at[q]
          /\ delivery' = delivery /\ before' = before
          /\ at[r] = "replay" /\ at'[r] # "replay"
      BY <2>3 DEF CheckDelivery
    <3> QED
      BY <2>3, <3>1
  <2>4. CASE CreateWebhookEvent(r)
    BY <2>4 DEF CreateWebhookEvent
  <2>5. CASE TriggerAgentExecution(r) \/ CountSuccess(r) \/ RequestFails(r)
    BY <2>5 DEF TriggerAgentExecution, CountSuccess, RequestFails
  <2> QED
    BY <1>2, <2>1, <2>2, <2>3, <2>4, <2>5 DEF RequestStep
<1> QED
  BY <1>1, <1>2, OthersLeaveRequests

LEMMA BeforeType ==
  ASSUME TypeOK, Next, NEW s \in Request
  PROVE  before'[s] \subseteq Request
  BY RequestMoves DEF ReceiveWebhook, TypeOK

LEMMA NextReplay == TypeOK /\ Unrecorded /\ ReplayInv /\ [Next]_vars => ReplayInv'
<1> SUFFICES ASSUME TypeOK, Unrecorded, ReplayInv, [Next]_vars PROVE ReplayInv'
  OBVIOUS
<1>1. CASE UNCHANGED vars
  BY <1>1 DEF ReplayInv, AnsweredBefore, NoReplayYet, ReplayRejected, Exists, vars, apiVars,
              eventVars
<1>2. CASE Next
  <2>1. AnsweredBefore'
    <3> SUFFICES ASSUME NEW s \in Request, NEW r \in Request, r \in before'[s]
                 PROVE  at'[r] \in Answer
      BY <1>2, BeforeType DEF AnsweredBefore
    <3>1. r \in before[s] \/ at[r] \in Answer
      BY <1>2, RequestMoves DEF ReceiveWebhook, TypeOK
    <3> QED
      BY <1>2, <3>1, RequestMoves DEF ReplayInv, AnsweredBefore
  <2>2. NoReplayYet'
    <3> SUFFICES ASSUME NEW s \in Request, NEW r \in Request, r \in before'[s],
                        at'[s] = "create", delivery'[s] \in Identified,
                        delivery'[r] = delivery'[s], Exists(r)'
                 PROVE  FALSE
      BY <1>2, BeforeType DEF NoReplayYet
    <3>1. ~ReceiveWebhook(s) /\ at[s] \notin Answer
      BY <1>2, RequestMoves DEF ReceiveWebhook, Step, TypeOK, Answer
    <3>2. /\ r \in before[s] /\ at[r] \in Answer
          /\ delivery[r] = delivery[s] /\ delivery[s] \in Identified
      BY <1>2, <3>1, RequestMoves DEF ReplayInv, AnsweredBefore
    <3>3. Exists(r)
      BY <1>2, <3>2, EventsAreCreated DEF CreateWebhookEvent, Answer
    <3>4. CASE at[s] = "create"
      BY <3>2, <3>3, <3>4 DEF ReplayInv, NoReplayYet
    <3>5. CASE CheckDelivery(s)
      <4>1. {t \in Request : ReplayOf(s, t)} = {}
        BY <3>5 DEF CheckDelivery, Step, TypeOK
      <4> QED
        BY <3>2, <3>3, <4>1 DEF ReplayOf
    <3> QED
      BY <1>2, <3>4, <3>5, RequestMoves
  <2>3. ReplayRejected'
    <3> SUFFICES ASSUME NEW r \in Request, NEW s \in Request,
                        delivery'[s] \in Identified, delivery'[r] = delivery'[s],
                        Exists(r)', Exists(s)', r # s, r \in before'[s]
                 PROVE  FALSE
      BY DEF ReplayRejected
    <3>1. ~ReceiveWebhook(s)
      <4> SUFFICES ASSUME ReceiveWebhook(s) PROVE FALSE
        OBVIOUS
      <4>1. status[s] = "none" /\ status' = status
        BY DEF ReceiveWebhook, Unrecorded, eventVars
      <4> QED
        BY <4>1 DEF Exists
    <3>2. /\ r \in before[s] /\ at[r] \in Answer
          /\ delivery[r] = delivery[s] /\ delivery[s] \in Identified
      BY <1>2, <3>1, RequestMoves DEF ReplayInv, AnsweredBefore
    <3>3. Exists(r)
      BY <1>2, <3>2, EventsAreCreated DEF CreateWebhookEvent, Answer
    <3>4. ~Exists(s)
      BY <3>2, <3>3 DEF ReplayInv, ReplayRejected
    <3>5. at[s] = "create"
      BY <1>2, <3>4, EventsAreCreated DEF CreateWebhookEvent
    <3> QED
      BY <3>2, <3>3, <3>5 DEF ReplayInv, NoReplayYet
  <2> QED
    BY <2>1, <2>2, <2>3 DEF ReplayInv
<1> QED
  BY <1>1, <1>2

\* A delivery with an id that arrives again after it was answered is not recorded again
\* while its event is kept.
THEOREM ReplaysRejected == Spec => []ReplayRejected
<1>1. RunInv => Unrecorded
  BY DEF RunInv
<1>2. ReplayInv => ReplayRejected
  BY DEF ReplayInv
<1> QED
  BY <1>1, <1>2, InitRun, NextRun, InitReplay, NextReplay, TypeCorrect, PTL DEF Spec

-------------------------------------------------------------------------------
\* OneReviewPerPr

\* The sweep only reads events that are old.
SweptAreOld == sweep \subseteq old

\* A recent event that one task holds is open: nobody else has given it up.
HeldIsOpen ==
  \A w \in Worker :
    pc[w] \in {"loaded", "running"} /\ EventOf(w) \notin raced \cup old =>
      status[EventOf(w)] \in {"pending", "processing", "completed", "deleted"}

\* What was answered before a request that is past is_duplicate_pr_event is not worked on.
PastIsQuiet ==
  \A s \in Request : \A r \in before[s] :
    /\ at[s] \in {"replay", "create"} \/ Exists(s)
    /\ r # s /\ SamePr(s, r) /\ r \notin raced
    => ~Live(r)

ReviewInv == SweptAreOld /\ HeldIsOpen /\ PastIsQuiet

LEMMA InitReview == Init => ReviewInv
  BY DEF Init, ReviewInv, SweptAreOld, HeldIsOpen, PastIsQuiet

LEMMA ReviewImplies == TypeOK /\ ReviewInv => OneReviewPerPr
  BY DEF TypeOK, ReviewInv, PastIsQuiet, OneReviewPerPr, Live, Exists

\* Nothing makes an event recent, or a race undone.
LEMMA OnlyGrow ==
  ASSUME Next
  PROVE  old \subseteq old' /\ raced \subseteq raced'
  BY DEF Next, RequestStep, ReceiveWebhook, IsDuplicatePrEvent, CheckDelivery,
     CreateWebhookEvent, TriggerAgentExecution, CountSuccess, RequestFails, DeleteEvent, Age,
     LoadEvent, LoadFails, Raced, TaskStep, TaskFails, MarkProcessing, CompleteEvent,
     EventIsGone, UpdateEventFailure, Retry, Acknowledge, CommitFails, AgentFails, RetryFails,
     Crash, TimeLimit, Redeliver, Sweep, SelectStaleEvents, FailStaleEvents, eventVars,
     historyVars

LEMMA NextSwept ==
  ASSUME SweptAreOld, Next
  PROVE  SweptAreOld'
  BY DEF SweptAreOld, Stale, Next, RequestStep, ReceiveWebhook, IsDuplicatePrEvent, CheckDelivery,
     CreateWebhookEvent, TriggerAgentExecution, CountSuccess, RequestFails, DeleteEvent, Age,
     LoadEvent, LoadFails, Raced, TaskStep, TaskFails, MarkProcessing, CompleteEvent,
     EventIsGone, UpdateEventFailure, Retry, Acknowledge, CommitFails, AgentFails, RetryFails,
     Crash, TimeLimit, Redeliver, Sweep, SelectStaleEvents, FailStaleEvents, eventVars,
     historyVars

LEMMA NextHeld ==
  ASSUME TypeOK, Unrecorded, OneTask, SweptAreOld, HeldIsOpen, Next
  PROVE  HeldIsOpen'
<1> SUFFICES ASSUME NEW w \in Worker, pc'[w] \in {"loaded", "running"},
                    EventOf(w)' \notin raced' \cup old'
             PROVE  status'[EventOf(w)'] \in {"pending", "processing", "completed", "deleted"}
  BY DEF HeldIsOpen
<1> DEFINE e == EventOf(w)
<1> DEFINE Open(x) == x \in {"pending", "processing", "completed", "deleted"}
\* It is enough that the worker held the event, and nobody else gave it up.
<1>1. ASSUME pc[w] \in {"loaded", "running"}, EventOf(w)' = e, Open(status[e]) => Open(status'[e])
      PROVE  Open(status'[EventOf(w)'])
  BY <1>1, OnlyGrow DEF HeldIsOpen
<1>2. CASE \E r \in Request : RequestStep(r) \/ RequestFails(r) \/ DeleteEvent(r) \/ Age(r)
  <2>1. pc' = pc /\ EventOf(w)' = e
    BY <1>2 DEF RequestStep, ReceiveWebhook, IsDuplicatePrEvent, CheckDelivery,
       CreateWebhookEvent, TriggerAgentExecution, CountSuccess, RequestFails, DeleteEvent, Age,
       taskVars, EventOf
  <2>2. e \in Request
    BY <2>1, JobType
  <2>3. Open(status[e]) => Open(status'[e])
    BY <1>2, <2>2 DEF RequestStep, ReceiveWebhook, IsDuplicatePrEvent, CheckDelivery,
       CreateWebhookEvent, TriggerAgentExecution, CountSuccess, RequestFails, DeleteEvent, Age,
       eventVars, SetStatus, TypeOK, Unrecorded
  <2> QED
    BY <1>1, <2>1, <2>3
<1>3. ASSUME NEW v \in Worker, NEW j \in Job, LoadEvent(v, j) \/ LoadFails(v, j)
      PROVE  Open(status'[EventOf(w)'])
  <2>1. status' = status
    BY <1>3 DEF LoadEvent, LoadFails, eventVars
  <2>2. CASE v = w
    BY <1>3, <2>1, <2>2 DEF LoadEvent, LoadFails, Goto, Runnable, EventOf, TypeOK
  <2>3. CASE v # w
    BY <1>1, <1>3, <2>1, <2>3 DEF LoadEvent, LoadFails, Goto, EventOf, TypeOK
  <2> QED
    BY <2>2, <2>3
<1>4. ASSUME NEW v \in Worker, TaskStep(v) \/ TaskFails(v)
      PROVE  Open(status'[EventOf(w)'])
  <2>1. pc[w] \in {"loaded", "running"} /\ EventOf(w)' = e
    BY <1>4 DEF TaskStep, TaskFails, MarkProcessing, CompleteEvent, EventIsGone,
       UpdateEventFailure, Retry, Acknowledge, CommitFails, AgentFails, RetryFails, Crash,
       TimeLimit, Redeliver, taskVars, Goto, Free, EventOf, TypeOK
  <2>2. e \in Request /\ raced' = raced
    BY <1>4, <2>1, JobType DEF TaskStep, TaskFails, MarkProcessing, CompleteEvent, EventIsGone,
       UpdateEventFailure, Retry, Acknowledge, CommitFails, AgentFails, RetryFails, Crash,
       TimeLimit, Redeliver, historyVars
  <2>3. CASE UpdateEventFailure(v)
    <3>1. v # w /\ Busy(w, e)
      BY <2>1, <2>3 DEF UpdateEventFailure, Goto, Busy, TypeOK
    <3>2. EventOf(v) # e
      BY <2>1, <2>2, <2>3, <3>1 DEF UpdateEventFailure, OneTask, Busy
    <3> QED
      BY <1>1, <2>1, <2>2, <2>3, <3>2 DEF UpdateEventFailure, SetStatus, TypeOK
  <2>4. CASE ~UpdateEventFailure(v)
    <3>1. Open(status[e]) => Open(status'[e])
      BY <1>4, <2>2, <2>4 DEF TaskStep, TaskFails, MarkProcessing, CompleteEvent, EventIsGone,
         Retry, Acknowledge, CommitFails, AgentFails, RetryFails, Crash, TimeLimit, Redeliver,
         eventVars, SetStatus, TypeOK
    <3> QED
      BY <1>1, <2>1, <3>1
  <2> QED
    BY <2>3, <2>4
<1>5. CASE Sweep
  <2>1. pc' = pc /\ EventOf(w)' = e /\ old' = old
    BY <1>5 DEF Sweep, SelectStaleEvents, FailStaleEvents, taskVars, eventVars, EventOf
  <2>2. e \in Request /\ e \notin sweep
    BY <2>1, JobType DEF SweptAreOld
  <2>3. status'[e] = status[e]
    BY <1>5, <2>2 DEF Sweep, SelectStaleEvents, FailStaleEvents, eventVars
  <2> QED
    BY <1>1, <2>1, <2>3
<1> QED
  BY <1>2, <1>3, <1>4, <1>5 DEF Next

\* What was answered, and is not raced, does not come back to life.
LEMMA StaysQuiet ==
  ASSUME TypeOK, HeldIsOpen, Next,
         NEW r \in Request, at[r] \in Answer, r \notin raced', Live(r)'
  PROVE  Live(r)
<1>1. r \notin raced /\ r \notin old
  BY OnlyGrow DEF Live
<1> SUFFICES status[r] \in {"pending", "processing", "completed"}
  BY <1>1 DEF Live
<1>2. CASE status'[r] = status[r]
  BY <1>2 DEF Live
<1>3. ASSUME NEW w \in Worker, MarkProcessing(w) \/ CompleteEvent(w), EventOf(w) = r
      PROVE  status[r] \in {"pending", "processing", "completed"}
  BY <1>1, <1>3 DEF MarkProcessing, CompleteEvent, HeldIsOpen, SetStatus, Exists
<1>4. CASE \E q \in Request : RequestStep(q) \/ RequestFails(q) \/ DeleteEvent(q) \/ Age(q)
  BY <1>2, <1>4 DEF RequestStep, ReceiveWebhook, IsDuplicatePrEvent, CheckDelivery,
     CreateWebhookEvent, TriggerAgentExecution, CountSuccess, RequestFails, DeleteEvent, Age,
     eventVars, SetStatus, TypeOK, Live, Answer
<1>5. CASE \E w \in Worker, j \in Job : LoadEvent(w, j) \/ LoadFails(w, j)
  BY <1>2, <1>5 DEF LoadEvent, LoadFails, eventVars
<1>6. CASE \E w \in Worker : TaskStep(w) \/ TaskFails(w)
  BY <1>2, <1>3, <1>6 DEF TaskStep, TaskFails, MarkProcessing, CompleteEvent, EventIsGone,
     UpdateEventFailure, Retry, Acknowledge, CommitFails, AgentFails, RetryFails, Crash,
     TimeLimit, Redeliver, eventVars, SetStatus, TypeOK, Live
<1>7. CASE Sweep
  BY <1>2, <1>7 DEF Sweep, SelectStaleEvents, FailStaleEvents, eventVars, TypeOK, Live
<1> QED
  BY <1>4, <1>5, <1>6, <1>7 DEF Next

LEMMA NextQuiet ==
  ASSUME TypeOK, Unrecorded, AnsweredBefore, HeldIsOpen, PastIsQuiet, Next
  PROVE  PastIsQuiet'
<1> SUFFICES ASSUME NEW s \in Request, NEW r \in Request, r \in before'[s],
                    at'[s] \in {"replay", "create"} \/ Exists(s)',
                    r # s, SamePr(s, r)', r \notin raced', Live(r)'
             PROVE  FALSE
  BY BeforeType DEF PastIsQuiet
<1>1. ~ReceiveWebhook(s)
  BY DEF ReceiveWebhook, Step, Unrecorded, eventVars, Exists, TypeOK
<1>2. r \in before[s] /\ at[r] \in Answer /\ SamePr(s, r)
  BY <1>1, RequestMoves DEF AnsweredBefore, SamePr
<1>3. Live(r) /\ r \notin raced
  BY <1>2, StaysQuiet, OnlyGrow
<1>4. CASE at[s] \in {"replay", "create"} \/ Exists(s)
  BY <1>2, <1>3, <1>4 DEF PastIsQuiet
<1>5. CASE IsDuplicatePrEvent(s) /\ at'[s] = "replay"
  <2>1. ~Suppressed(s, r)
    BY <1>5 DEF IsDuplicatePrEvent, Step, TypeOK
  <2> QED
    BY <1>2, <1>3, <2>1 DEF Suppressed, Live, SamePr
<1>6. CASE CheckDelivery(s) \/ CreateWebhookEvent(s)
  BY <1>4, <1>6 DEF CheckDelivery, CreateWebhookEvent
<1> QED
  BY <1>4, <1>5, <1>6, RequestMoves, EventsAreCreated

LEMMA NextReview ==
  TypeOK /\ RunInv /\ ReplayInv /\ ReviewInv /\ [Next]_vars => ReviewInv'
<1> SUFFICES ASSUME TypeOK, RunInv, ReplayInv, ReviewInv, [Next]_vars PROVE ReviewInv'
  OBVIOUS
<1>1. CASE UNCHANGED vars
  BY <1>1 DEF ReviewInv, SweptAreOld, HeldIsOpen, PastIsQuiet, EventOf, Exists, SamePr, Live,
              vars, apiVars, eventVars, taskVars, historyVars
<1>2. CASE Next
  BY <1>2, NextSwept, NextHeld, NextQuiet DEF RunInv, ReplayInv, ReviewInv
<1> QED
  BY <1>1, <1>2

\* A pull request event and an earlier event about the same pull request that are worked
\* on in the same five minutes come from requests that overlapped, or from a race for the
\* earlier one.
THEOREM ReviewedOnce == Spec => []OneReviewPerPr
<1>1. RunInv => Unrecorded
  BY DEF RunInv
<1> QED
  BY InitRun, NextRun, InitReplay, NextReplay, InitReview, NextReview, ReviewImplies,
     TypeCorrect, <1>1, PTL DEF Spec

-------------------------------------------------------------------------------
\* NoEventForgotten

\* A task runs the agent only after it has marked the event.
RunningHasRun == \A w \in Worker : pc[w] = "running" => runs[EventOf(w)] > 0

ForgetInv == NoEventForgotten /\ RunningHasRun

LEMMA InitForget == Init => ForgetInv
  BY DEF Init, ForgetInv, NoEventForgotten, RunningHasRun

\* The agent may be cut off at work without a trace: the event is not pending.
LEMMA RunningIsMarked ==
  ASSUME TypeOK, RunInv, ForgetInv, NEW w \in Worker, pc[w] = "running"
  PROVE  status[EventOf(w)] # "pending"
  BY JobType DEF RunInv, RunLeavesMark, ForgetInv, RunningHasRun

\* Whoever goes on with an event, in a step that neither takes a job off the queue
\* nor moves a task, still does after it.
LEMMA UnderwayStays ==
  ASSUME NEW e \in Request, Underway(e), queue \subseteq queue', UNCHANGED <<pc, job>>
  PROVE  Underway(e)'
  BY DEF Underway, EventOf

LEMMA RequestForget ==
  ASSUME TypeOK, ForgetInv, NEW r \in Request,
         RequestStep(r) \/ RequestFails(r) \/ DeleteEvent(r) \/ Age(r)
  PROVE  ForgetInv'
<1>1. UNCHANGED <<pc, job, runs, dropped>> /\ queue \subseteq queue'
  BY DEF RequestStep, ReceiveWebhook, IsDuplicatePrEvent, CheckDelivery, CreateWebhookEvent,
         TriggerAgentExecution, CountSuccess, RequestFails, DeleteEvent, Age, taskVars,
         historyVars
<1>2. RunningHasRun'
  BY <1>1 DEF ForgetInv, RunningHasRun, EventOf
<1>3. NoEventForgotten'
  <2> SUFFICES ASSUME NEW e \in Request, at'[e] \in {"count", "accepted"},
                      status'[e] = "pending", e \notin dropped
               PROVE  Underway(e)'
    BY <1>1 DEF NoEventForgotten
  <2>1. CASE at[e] \in {"count", "accepted"} /\ status[e] = "pending"
    <3>1. Underway(e)
      BY <2>1 DEF ForgetInv, NoEventForgotten
    <3> QED
      BY <1>1, <3>1, UnderwayStays
  <2>2. CASE TriggerAgentExecution(e)
    <3>1. <<e, 0>> \in queue'
      BY <2>2 DEF TriggerAgentExecution
    <3> QED
      BY <3>1 DEF Underway
  <2>3. \/ at[e] \in {"count", "accepted"} /\ status[e] = "pending"
        \/ TriggerAgentExecution(e)
    BY DEF RequestStep, ReceiveWebhook, IsDuplicatePrEvent, CheckDelivery,
           CreateWebhookEvent, TriggerAgentExecution, CountSuccess, RequestFails,
           DeleteEvent, Age, SetStatus, Step, Answer, TypeOK, apiVars, eventVars
  <2> QED
    BY <2>1, <2>2, <2>3
<1> QED
  BY <1>2, <1>3 DEF ForgetInv

LEMMA LoadForget ==
  ASSUME TypeOK, ForgetInv, NEW w \in Worker, NEW j \in Job,
         LoadEvent(w, j) \/ LoadFails(w, j)
  PROVE  ForgetInv'
<1>1. /\ UNCHANGED <<at, status, runs, dropped>>
      /\ pc[w] = "idle" /\ job' = [job EXCEPT ![w] = j] /\ queue' = queue \ {j}
      /\ \E l \in {"loaded", "failing", "done"} :
           /\ pc' = [pc EXCEPT ![w] = l]
           /\ l = "done" => status[j[1]] # "pending"
  BY DEF LoadEvent, LoadFails, Goto, Runnable, apiVars, eventVars
<1>2. EventOf(w)' = j[1]
  BY <1>1 DEF EventOf, TypeOK
<1>3. \A v \in Worker \ {w} : pc'[v] = pc[v] /\ EventOf(v)' = EventOf(v)
  BY <1>1 DEF EventOf, TypeOK
<1>4. RunningHasRun'
  BY <1>1, <1>3 DEF ForgetInv, RunningHasRun, TypeOK
<1>5. NoEventForgotten'
  <2> SUFFICES ASSUME NEW e \in Request, status[e] = "pending", Underway(e)
               PROVE  Underway(e)'
    BY <1>1 DEF ForgetInv, NoEventForgotten
  <2>1. CASE j[1] = e
    <3>1. pc'[w] \in {"loaded", "failing"}
      BY <1>1, <2>1 DEF TypeOK
    <3> QED
      BY <1>2, <2>1, <3>1 DEF Underway
  <2>2. CASE j[1] # e
    BY <1>1, <1>3, <2>2 DEF Underway
  <2> QED
    BY <2>1, <2>2
<1> QED
  BY <1>4, <1>5 DEF ForgetInv

LEMMA TaskForget ==
  ASSUME TypeOK, RunInv, ForgetInv, NEW w \in Worker, TaskStep(w) \/ TaskFails(w)
  PROVE  ForgetInv'
<1>0. pc[w] # "idle"
  BY DEF TaskStep, TaskFails, MarkProcessing, CompleteEvent, EventIsGone,
     UpdateEventFailure, Retry, Acknowledge, CommitFails, AgentFails, RetryFails, Crash,
     TimeLimit, Redeliver
<1>1. PICK e \in Request : e = EventOf(w) /\ job[w] \in Job /\ job[w][1] = e
  BY <1>0, JobType DEF EventOf
<1>2. /\ UNCHANGED at
      /\ dropped \subseteq dropped' /\ queue \subseteq queue'
      /\ \A v \in Worker \ {w} : pc'[v] = pc[v] /\ job'[v] = job[v]
  BY DEF TaskStep, TaskFails, MarkProcessing, CompleteEvent, EventIsGone,
     UpdateEventFailure, Retry, Acknowledge, CommitFails, AgentFails, RetryFails, Crash,
     TimeLimit, Redeliver, apiVars, taskVars, historyVars, Goto, Free, TypeOK
<1>3. \A d \in Request \ {e} : status'[d] = status[d] /\ runs'[d] = runs[d]
  BY <1>1 DEF TaskStep, TaskFails, MarkProcessing, CompleteEvent, EventIsGone,
     UpdateEventFailure, Retry, Acknowledge, CommitFails, AgentFails, RetryFails, Crash,
     TimeLimit, Redeliver, eventVars, historyVars, SetStatus, TypeOK
<1>4. \/ status'[e] = status[e] \/ status'[e] # "pending"
  BY <1>1 DEF TaskStep, TaskFails, MarkProcessing, CompleteEvent, EventIsGone,
     UpdateEventFailure, Retry, Acknowledge, CommitFails, AgentFails, RetryFails, Crash,
     TimeLimit, Redeliver, eventVars, SetStatus, TypeOK
\* The event of the task itself, which is pending before and after the step.
<1>5. ASSUME status[e] = "pending", status'[e] = "pending", e \notin dropped', Underway(e)
      PROVE  Underway(e)'
  <2>1. CASE MarkProcessing(w) \/ CompleteEvent(w)
    BY <1>1, <1>5, <2>1 DEF MarkProcessing, CompleteEvent, SetStatus, TypeOK
  <2>2. CASE EventIsGone(w) \/ CommitFails(w) \/ AgentFails(w)
    <3>1. pc'[w] \in {"failing", "rejected"} /\ EventOf(w)' = e
      BY <1>1, <2>2 DEF EventIsGone, CommitFails, AgentFails, Goto, EventOf, TypeOK
    <3> QED
      BY <3>1 DEF Underway
  <2>3. CASE UpdateEventFailure(w)
    <3>1. pc'[w] = "retry" /\ EventOf(w)' = e
      BY <1>1, <1>5, <2>3 DEF UpdateEventFailure, SetStatus, Goto, EventOf, TypeOK
    <3> QED
      BY <3>1 DEF Underway
  <2>4. CASE Retry(w)
    <3>1. <<e, RetriesOf(w) + 1>> \in queue'
      BY <1>1, <2>4 DEF Retry
    <3> QED
      BY <3>1 DEF Underway
  <2>5. CASE RetryFails(w)
    BY <1>1, <1>5, <2>5 DEF RetryFails
  <2>6. CASE Crash(w) \/ Redeliver(w)
    <3>1. job[w] \in queue'
      BY <2>6 DEF Crash, Redeliver
    <3> QED
      BY <1>1, <3>1 DEF Underway
  <2>7. CASE TimeLimit(w)
    BY <1>1, <1>5, <2>7, RunningIsMarked DEF TimeLimit
  <2>8. CASE Acknowledge(w)
    <3>1. pc[w] = "done" /\ queue' = queue
      BY <2>8 DEF Acknowledge
    <3> QED
      BY <1>1, <1>2, <1>5, <3>1 DEF Underway, EventOf
  <2> QED
    BY <2>1, <2>2, <2>3, <2>4, <2>5, <2>6, <2>7, <2>8 DEF TaskStep, TaskFails
<1>6. NoEventForgotten'
  <2> SUFFICES ASSUME NEW d \in Request, at'[d] \in {"count", "accepted"},
                      status'[d] = "pending", d \notin dropped'
               PROVE  Underway(d)'
    BY DEF NoEventForgotten
  <2>1. status[d] = "pending"
    BY <1>3, <1>4
  <2>2. Underway(d)
    BY <1>2, <2>1 DEF ForgetInv, NoEventForgotten
  <2>3. CASE d = e
    BY <1>5, <2>1, <2>2, <2>3
  <2>4. CASE d # e
    BY <1>1, <1>2, <2>2, <2>4 DEF Underway, EventOf
  <2> QED
    BY <2>3, <2>4
<1>7. RunningHasRun'
  <2> SUFFICES ASSUME NEW v \in Worker, pc'[v] = "running" PROVE runs'[EventOf(v)'] > 0
    BY DEF RunningHasRun
  <2>1. CASE MarkProcessing(w)
    <3>1. /\ runs' = [runs EXCEPT ![e] = runs[e] + 1] /\ runs[e] \in Nat
          /\ UNCHANGED job /\ pc' = [pc EXCEPT ![w] = "running"]
      BY <1>1, <2>1 DEF MarkProcessing, Goto, TypeOK
    <3>2. v = w \/ pc[v] = "running"
      BY <3>1 DEF TypeOK
    <3>3. EventOf(v)' = EventOf(v)
      BY <3>1 DEF EventOf
    <3>4. pc[v] # "idle"
      BY <1>0, <3>2
    <3>5. EventOf(v) \in Request
      BY <3>4, JobType
    <3>6. CASE EventOf(v) = e
      BY <3>1, <3>3, <3>6 DEF TypeOK
    <3>7. CASE EventOf(v) # e
      BY <1>1, <1>3, <3>2, <3>3, <3>5, <3>7 DEF ForgetInv, RunningHasRun
    <3> QED
      BY <3>6, <3>7
  <2>2. CASE ~MarkProcessing(w)
    <3>1. UNCHANGED runs /\ pc[v] = "running" /\ job'[v] = job[v]
      BY <2>2 DEF TaskStep, TaskFails, CompleteEvent, EventIsGone, UpdateEventFailure,
         Retry, Acknowledge, CommitFails, AgentFails, RetryFails, Crash, TimeLimit,
         Redeliver, taskVars, historyVars, Goto, Free, TypeOK
    <3> QED
      BY <3>1 DEF ForgetInv, RunningHasRun, EventOf
  <2> QED
    BY <2>1, <2>2
<1> QED
  BY <1>6, <1>7 DEF ForgetInv

LEMMA NextForget == TypeOK /\ RunInv /\ ForgetInv /\ [Next]_vars => ForgetInv'
<1> SUFFICES ASSUME TypeOK, RunInv, ForgetInv, [Next]_vars PROVE ForgetInv'
  OBVIOUS
<1>1. CASE UNCHANGED vars
  BY <1>1 DEF ForgetInv, NoEventForgotten, RunningHasRun, Underway, EventOf, vars, apiVars,
              eventVars, taskVars, historyVars
<1>2. CASE Sweep
  <2>1. UNCHANGED <<at, queue, pc, job, runs, dropped>>
    BY <1>2 DEF Sweep, SelectStaleEvents, FailStaleEvents, apiVars, taskVars, historyVars
  <2>2. \A e \in Request : status'[e] = "pending" => status[e] = "pending"
    BY <1>2 DEF Sweep, SelectStaleEvents, FailStaleEvents, eventVars
  <2> QED
    BY <2>1, <2>2, UnderwayStays DEF ForgetInv, NoEventForgotten, RunningHasRun, EventOf
<1> QED
  BY <1>1, <1>2, RequestForget, LoadForget, TaskForget DEF Next

\* While an accepted event has not begun, its job is queued or a task is at it, unless
\* the task's last failure could not be written or its retry not sent.
THEOREM NoneForgotten == Spec => []NoEventForgotten
<1>1. ForgetInv => NoEventForgotten
  BY DEF ForgetInv
<1> QED
  BY <1>1, InitForget, InitRun, NextRun, NextForget, TypeCorrect, PTL DEF Spec
=============================================================================
