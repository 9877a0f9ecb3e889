---------------------------- MODULE ApprovalsProofs ----------------------------
(***************************************************************************)
(* Theorems about Approvals for any tasks, jobs, requests, answers and     *)
(* bounds: its types, that a tool runs no more often than it was approved, *)
(* that a reply never changes what is decided, that no approval is         *)
(* forgotten, and that a due task stays due until it is queued.            *)
(*                                                                         *)
(* The second counts, beside the executions, what may still be executed:   *)
(* answers that have yet to store a token, the token, and the runs that    *)
(* have used one up.  No step adds to the whole but the commit of an       *)
(* approving answer, which adds an approval too.                           *)
(***************************************************************************)
EXTENDS Approvals, FiniteSetTheorems, TLAPS

\* Spending keeps the budget in its type.
LEMMA SpendType ==
  ASSUME NEW kind \in {"faults", "toggles", "answers"},
         budget \in Budget, Spend(kind)
  PROVE  budget' \in Budget
  BY DEF Spend, Budget

-------------------------------------------------------------------------------
\* The types of the scheduler.

LEMMA QueueTypes ==
  ASSUME SchedulerTypeOK, NEW t \in Task, NEW o \in Origin, Queue(t, o)
  PROVE  /\ task' \in [Job -> Task \cup {NoTask}]
         /\ origin' \in [Job -> Origin]
         /\ running' \in SUBSET {j \in Job : task'[j] # NoTask}
         /\ answered' \in SUBSET Task
<1>1. PICK j \in Job : /\ task[j] = NoTask
                       /\ task' = [task EXCEPT ![j] = t]
                       /\ origin' = [origin EXCEPT ![j] = o]
                       /\ running' = running
                       /\ answered' = answered \cup {t}
  BY DEF Queue
<1> QED
  BY <1>1, ScheduledTasksAssumption DEF SchedulerTypeOK

LEMMA AcknowledgeTypes ==
  ASSUME SchedulerTypeOK, NEW j \in Job, Acknowledge(j)
  PROVE  /\ task' \in [Job -> Task \cup {NoTask}]
         /\ origin' \in [Job -> Origin]
         /\ running' \in SUBSET {i \in Job : task'[i] # NoTask}
  BY ScheduledTasksAssumption DEF SchedulerTypeOK, Acknowledge

LEMMA TickTypes ==
  ASSUME SchedulerTypeOK, NEW k \in Tick,
         \/ CheckScheduledTasks(k) \/ CommitSweep(k) \/ SweepFails(k)
         \/ \E t \in Task : QueueDue(k, t) \/ QueueingFails(k, t)
  PROVE  SchedulerTypeOK'
<1>1. CASE CheckScheduledTasks(k)
  BY <1>1 DEF CheckScheduledTasks, SchedulerTypeOK, SweepLabel, jobVars
<1>2. CASE CommitSweep(k)
  BY <1>2 DEF CommitSweep, SchedulerTypeOK, SweepLabel, jobVars
<1>3. CASE SweepFails(k)
  <2>1. budget' \in Budget
    BY <1>3, SpendType DEF SweepFails, SchedulerTypeOK
  <2> QED
    BY <1>3, <2>1 DEF SweepFails, SchedulerTypeOK, SweepLabel, jobVars
<1>4. ASSUME NEW t \in Task, QueueDue(k, t) PROVE SchedulerTypeOK'
  <2>1. Queue(t, Scheduled)
    BY <1>4 DEF QueueDue
  <2>2. /\ task' \in [Job -> Task \cup {NoTask}]
        /\ origin' \in [Job -> Origin]
        /\ running' \in SUBSET {j \in Job : task'[j] # NoTask}
        /\ answered' \in SUBSET Task
    BY <2>1, QueueTypes, ScheduledTasksAssumption
  <2>3. sweep[k] # "idle"
    BY <1>4 DEF QueueDue, SchedulerTypeOK
  <2> QED
    BY <1>4, <2>2, <2>3 DEF QueueDue, SchedulerTypeOK
<1>5. ASSUME NEW t \in Task, QueueingFails(k, t) PROVE SchedulerTypeOK'
  <2>1. budget' \in Budget
    BY <1>5, SpendType DEF QueueingFails, SchedulerTypeOK
  <2> QED
    BY <1>5, <2>1 DEF QueueingFails, SchedulerTypeOK, jobVars
<1> QED
  BY <1>1, <1>2, <1>3, <1>4, <1>5

LEMMA JobTypes ==
  ASSUME SchedulerTypeOK, NEW j \in Job,
         StartRun(j) \/ SkipRun(j) \/ EndRun(j) \/ RunFails(j) \/ LoseWorker(j)
  PROVE  SchedulerTypeOK'
<1>1. CASE StartRun(j)
  BY <1>1 DEF StartRun, SchedulerTypeOK, tickVars
<1>2. CASE SkipRun(j)
  BY <1>2, AcknowledgeTypes DEF SkipRun, SchedulerTypeOK, tickVars
<1>3. CASE EndRun(j)
  <2>1. task[j] \in Task
    BY <1>3 DEF EndRun, SchedulerTypeOK
  <2>2. due' \in [Task -> BOOLEAN] /\ answered' \in SUBSET Task
    BY <1>3, <2>1 DEF EndRun, SchedulerTypeOK
  <2>3. Acknowledge(j)
    BY <1>3 DEF EndRun
  <2> QED
    BY <1>3, <2>2, <2>3, AcknowledgeTypes DEF EndRun, SchedulerTypeOK, tickVars
<1>4. CASE RunFails(j)
  <2>1. budget' \in Budget
    BY <1>4, SpendType DEF RunFails, SchedulerTypeOK
  <2>2. Acknowledge(j)
    BY <1>4 DEF RunFails
  <2> QED
    BY <1>4, <2>1, <2>2, AcknowledgeTypes DEF RunFails, SchedulerTypeOK, tickVars
<1>5. CASE LoseWorker(j)
  <2>1. budget' \in Budget
    BY <1>5, SpendType DEF LoseWorker, SchedulerTypeOK
  <2> QED
    BY <1>5, <2>1 DEF LoseWorker, SchedulerTypeOK, tickVars
<1> QED
  BY <1>1, <1>2, <1>3, <1>4, <1>5

LEMMA UserTypes ==
  ASSUME SchedulerTypeOK, NEW t \in Task, TimePasses(t) \/ SetActive(t) \/ Trigger(t)
  PROVE  SchedulerTypeOK'
<1>1. CASE TimePasses(t)
  BY <1>1 DEF TimePasses, SchedulerTypeOK, jobVars
<1>2. CASE SetActive(t)
  <2>1. budget' \in Budget
    BY <1>2, SpendType DEF SetActive, SchedulerTypeOK
  <2> QED
    BY <1>2, <2>1 DEF SetActive, SchedulerTypeOK, jobVars, tickVars
<1>3. CASE Trigger(t)
  <2>1. budget' \in Budget
    BY <1>3, SpendType DEF Trigger, SchedulerTypeOK
  <2>2. Queue(t, Scheduled)
    BY <1>3 DEF Trigger
  <2> QED
    BY <1>3, <2>1, <2>2, QueueTypes, ScheduledTasksAssumption
       DEF Trigger, SchedulerTypeOK, tickVars
<1> QED
  BY <1>1, <1>2, <1>3

\* The scheduler leaves a job that is running as it is.
LEMMA SchedulerKeepsRuns ==
  ASSUME SchedulerTypeOK, SchedulerStep
  PROVE  /\ SchedulerTypeOK' /\ running' = running
         /\ \A j \in running : task'[j] = task[j]
<1>1. ASSUME NEW t \in Task, NEW o \in Origin, Queue(t, o)
      PROVE  running' = running /\ \A j \in running : task'[j] = task[j]
  BY <1>1, ScheduledTasksAssumption DEF Queue, SchedulerTypeOK
<1>2. Scheduled \in Origin
  BY ScheduledTasksAssumption
<1>3. ASSUME NEW k \in Tick,
             \/ CheckScheduledTasks(k) \/ CommitSweep(k) \/ SweepFails(k)
             \/ \E t \in Task : QueueDue(k, t) \/ QueueingFails(k, t)
      PROVE  running' = running /\ \A j \in running : task'[j] = task[j]
  BY <1>1, <1>2, <1>3 DEF CheckScheduledTasks, CommitSweep, SweepFails, QueueDue,
                          QueueingFails, jobVars
<1>4. ASSUME NEW j \in Job, SkipRun(j)
      PROVE  running' = running /\ \A i \in running : task'[i] = task[i]
  BY <1>4 DEF SkipRun, Acknowledge, SchedulerTypeOK
<1>5. ASSUME NEW t \in Task, TimePasses(t) \/ SetActive(t) \/ Trigger(t)
      PROVE  running' = running /\ \A j \in running : task'[j] = task[j]
  BY <1>1, <1>2, <1>5 DEF TimePasses, SetActive, Trigger, jobVars
<1>6. SchedulerTypeOK'
  BY TickTypes, JobTypes, UserTypes DEF SchedulerStep
<1> QED
  BY <1>3, <1>4, <1>5, <1>6 DEF SchedulerStep

-------------------------------------------------------------------------------
\* The types of the approvals.

LEMMA InitTypeOK == Init => TypeOK
  BY ScheduledTasksAssumption, ApprovalsAssumption
     DEF Init, SchedulerInit, TypeOK, Filed, SchedulerTypeOK, SweepLabel, Status, Gate,
         Label, Decision

\* Spending leaves the rest of the scheduler in its types.
LEMMA SpendKeepsTypes ==
  ASSUME SchedulerTypeOK, NEW kind \in {"faults", "answers"}, Spend(kind),
         UNCHANGED <<active, due, tickVars, jobVars, answered>>
  PROVE  SchedulerTypeOK'
  BY SpendType DEF SchedulerTypeOK, tickVars, jobVars

\* One more of one kind.
LEMMA CountType ==
  ASSUME NEW S, NEW f \in [S -> Nat], NEW p
  PROVE  [f EXCEPT ![p] = @ + 1] \in [S -> Nat]
<1> \A q \in S : f[q] + 1 \in Nat
  OBVIOUS
<1> QED
  OBVIOUS

LEMMA KeepsSchedulerTypes ==
  ASSUME SchedulerTypeOK, UNCHANGED schedulerVars
  PROVE  SchedulerTypeOK'
  BY DEF SchedulerTypeOK, schedulerVars, tickVars, jobVars

LEMMA RunTypeOK ==
  ASSUME TypeOK, NEW j \in Job,
                 RunStep(j) \/ Fail(j) \/ Lose(j) \/ GateFails(j) \/ TokenFails(j)
  PROVE  TypeOK'
<1> USE ApprovalsAssumption
<1>1. CASE Begin(j)
  <2>1. SchedulerTypeOK'
    BY <1>1, JobTypes DEF Begin, TypeOK
  <2> QED
    BY <1>1, <2>1 DEF Begin, StartRun, At, TypeOK, Filed, Gate, SchedulerTypeOK, approvalVars,
       requestVars, redisVars, answerVars, historyVars
<1>2. ASSUME \/ End(j) \/ Fail(j) \/ Lose(j) PROVE TypeOK'
  <2>1. SchedulerTypeOK' /\ running' = running \ {j} /\ Leave(j)
    BY <1>2, JobTypes DEF End, Fail, Lose, EndRun, RunFails, LoseWorker, Acknowledge,
       TypeOK
  <2>2. spoiled' \in SUBSET Request
    BY <1>2 DEF End, Fail, Lose, TypeOK, approvalVars, historyVars, Wasted, GrantsOf, Filed
  <2>3. UNCHANGED <<requestVars, rowLock, redisVars, answerVars, granted, approvals,
                    executed, raced, served>>
    BY <1>2 DEF End, Fail, Lose, approvalVars, historyVars
  <2> QED
    BY <2>1, <2>2, <2>3 DEF Leave, At, TypeOK, Filed, Gate, requestVars, redisVars, answerVars
<1>3. ASSUME NEW a \in Args, CheckApprovalGate(j, a) PROVE TypeOK'
  <2>1. SchedulerTypeOK'
    BY <1>3, KeepsSchedulerTypes DEF CheckApprovalGate, TypeOK
  <2>2. task[j] \in Task
    BY <1>3 DEF CheckApprovalGate, TypeOK, SchedulerTypeOK
  <2>3. raced' \in SUBSET (Task \X Args)
    BY <1>3, <2>2 DEF CheckApprovalGate, TypeOK
  <2> QED
    BY <1>3, <2>1, <2>3 DEF CheckApprovalGate, TypeOK, Filed, At, Gate, schedulerVars, jobVars,
       requestVars, redisVars, answerVars
<1>4. CASE ConsumeToken(j)
  <2>1. SchedulerTypeOK'
    BY <1>4, KeepsSchedulerTypes DEF ConsumeToken, TypeOK
  <2> QED
    BY <1>4, <2>1 DEF ConsumeToken, TypeOK, Filed, At, Gate, schedulerVars, jobVars,
       requestVars, answerVars, historyVars
<1>5. CASE ExecuteTool(j)
  <2>1. SchedulerTypeOK'
    BY <1>5, KeepsSchedulerTypes DEF ExecuteTool, TypeOK
  <2>2. executed' \in [Task \X Args -> Nat]
    BY <1>5, CountType DEF ExecuteTool, TypeOK
  <2>3. served' \in SUBSET Request
    BY <1>5 DEF ExecuteTool, TypeOK, Filed, GrantsOf
  <2> QED
    BY <1>5, <2>1, <2>2, <2>3 DEF ExecuteTool, TypeOK, Filed, At, Gate, schedulerVars, jobVars,
       requestVars, redisVars, answerVars
<1>6. CASE CreateRequest(j)
  <2>1. SchedulerTypeOK'
    BY <1>6, KeepsSchedulerTypes DEF CreateRequest, TypeOK
  <2>2. PICK r \in Request : /\ status[r] = "none"
                             /\ status' = [status EXCEPT ![r] = "pending"]
                             /\ taskOf' = [taskOf EXCEPT ![r] = task[j]]
                             /\ args' = [args EXCEPT ![r] = call[j]]
                             /\ filed' = [filed EXCEPT ![j] = r]
    BY <1>6 DEF CreateRequest
  <2>3. task[j] \in Task /\ call[j] \in Args
    BY <1>6 DEF CreateRequest, TypeOK, SchedulerTypeOK
  <2>4. /\ status' \in [Request -> Status]
        /\ taskOf' \in [Request -> Task \cup {NoTask}]
        /\ args' \in [Request -> Args \cup {NoArgs}]
        /\ Filed' = Filed \cup {r}
        /\ \A q \in Filed' : taskOf'[q] \in Task /\ args'[q] \in Args
    BY <2>2, <2>3 DEF TypeOK, Status, Filed
  <2>5. filed' \in [Job -> Filed' \cup {NoRequest}]
    BY <2>2, <2>4 DEF TypeOK
  <2> QED
    BY <1>6, <2>1, <2>2, <2>4, <2>5 DEF CreateRequest, TypeOK, At, Gate, schedulerVars,
       jobVars, redisVars, answerVars, historyVars
<1>7. CASE Notify(j)
  <2>1. SchedulerTypeOK'
    BY <1>7, KeepsSchedulerTypes DEF Notify, TypeOK
  <2>2. task[j] \in Task /\ filed[j] \in Filed
    BY <1>7 DEF Notify, TypeOK, SchedulerTypeOK
  <2> QED
    BY <1>7, <2>1, <2>2 DEF Notify, TypeOK, Filed, At, Gate, schedulerVars, jobVars,
       requestVars, answerVars, historyVars
<1>8. CASE GateFails(j)
  <2>1. SchedulerTypeOK'
    <3>1. UNCHANGED <<active, due, tickVars, jobVars, answered>>
      BY <1>8 DEF GateFails
    <3>2. CASE Spend("faults")
      BY <3>1, <3>2, SpendKeepsTypes DEF TypeOK
    <3>3. CASE UNCHANGED budget
      BY <3>1, <3>3, KeepsSchedulerTypes DEF TypeOK, schedulerVars
    <3> QED
      BY <1>8, <3>2, <3>3 DEF GateFails
  <2> QED
    BY <1>8, <2>1 DEF GateFails, TypeOK, Filed, At, Gate, jobVars, approvalVars,
       requestVars, redisVars, answerVars, historyVars
<1>9. CASE TokenFails(j)
  <2>1. SchedulerTypeOK'
    BY <1>9, SpendKeepsTypes DEF TokenFails, TypeOK
  <2>2. /\ gate[j] \in {"thinking", "cleared"}
        /\ call' \in [Job -> Args \cup {NoArgs}]
        /\ \A i \in Job : i # j => call'[i] = call[i]
    BY <1>9 DEF TokenFails, TypeOK
  <2>3. tokens' \in SUBSET (Task \X Args)
    BY <1>9 DEF TokenFails, TypeOK
  <2>4. spoiled' \in SUBSET Request
    BY <1>9 DEF TokenFails, TypeOK, GrantsOf, Filed
  <2>5. gate' = [gate EXCEPT ![j] = "thinking"] /\ running' = running
    BY <1>9 DEF TokenFails, At, jobVars
  <2>6. /\ gate' \in [Job -> Gate]
        /\ \A i \in Job : /\ gate'[i] = "none" <=> i \notin running'
                          /\ gate'[i] \notin {"none", "thinking"} => call'[i] \in Args
                          /\ gate'[i] = "notifying" => filed[i] \in Filed
    BY <2>2, <2>5 DEF TypeOK, Gate
  <2> QED
    BY <1>9, <2>1, <2>2, <2>3, <2>4, <2>6 DEF TokenFails, TypeOK, Filed, requestVars,
       answerVars
<1> QED
  BY <1>1, <1>2, <1>3, <1>4, <1>5, <1>6, <1>7, <1>8, <1>9 DEF RunStep

LEMMA AnswerTypeOK ==
  ASSUME TypeOK, NEW c \in Answer,
         \/ AnswerStep(c) \/ AnswerFails(c)
         \/ \E t \in Task : ReceiveReply(c, t)
         \/ \E r \in Request : ReadRequest(c, r)
  PROVE  TypeOK'
<1> USE ApprovalsAssumption
<1>1. ASSUME NEW t \in Task, ReceiveReply(c, t) PROVE TypeOK'
  <2>1. SchedulerTypeOK'
    BY <1>1, SpendKeepsTypes DEF ReceiveReply, TypeOK
  <2>2. routing[t] \in Filed
    BY <1>1 DEF ReceiveReply, TypeOK
  <2> QED
    BY <1>1, <2>1, <2>2 DEF ReceiveReply, TypeOK, Filed, Goto, Label, jobVars,
       requestVars, redisVars, runVars, historyVars
<1>2. ASSUME NEW r \in Request, ReadRequest(c, r) PROVE TypeOK'
  <2>1. SchedulerTypeOK'
    BY <1>2, SpendKeepsTypes DEF ReadRequest, TypeOK
  <2>2. \E d \in Decision \ {"none"} : decision' = [decision EXCEPT ![c] = d]
    BY <1>2 DEF ReadRequest, Decisions, Decision
  <2> QED
    BY <1>2, <2>1, <2>2 DEF ReadRequest, TypeOK, Filed, Goto, Label, jobVars,
       requestVars, redisVars, runVars, historyVars
<1>3. CASE LockRequest(c)
  <2>1. SchedulerTypeOK'
    BY <1>3, KeepsSchedulerTypes DEF LockRequest, TypeOK
  <2>2. \E d \in Decision \ {"none"} : decision' = [decision EXCEPT ![c] = d]
    BY <1>3 DEF LockRequest, Decisions, Decision
  <2>3. about[c] \in Filed
    BY <1>3 DEF LockRequest, TypeOK
  <2> QED
    BY <1>3, <2>1, <2>2, <2>3 DEF LockRequest, TypeOK, Filed, Goto, Label,
       schedulerVars, jobVars, requestVars, redisVars, runVars, historyVars
<1>4. CASE CommitDecision(c)
  <2>1. SchedulerTypeOK'
    BY <1>4, KeepsSchedulerTypes DEF CommitDecision, TypeOK
  <2> DEFINE r == about[c]  d == decision[c]
  <2>2. r \in Filed
    BY <1>4 DEF CommitDecision, TypeOK
  <2>3. status' = [status EXCEPT ![r] = StatusAfter(d)]
    BY <1>4 DEF CommitDecision
  <2>4. d \in {"approve", "reject", "feedback", "expire"}
    BY <1>4 DEF CommitDecision, TypeOK, Decision
  <2>5. StatusAfter(d) \in Status \ {"none"}
    BY <2>4 DEF StatusAfter, Status
  <2>6. status' \in [Request -> Status] /\ Filed' = Filed
    BY <2>2, <2>3, <2>5 DEF TypeOK, Filed
  <2>7. approvals' \in [Task \X Args -> Nat]
    BY <1>4, CountType DEF CommitDecision, TypeOK
  <2>8. granted' \in SUBSET Filed
    BY <1>4, <2>2 DEF CommitDecision, TypeOK
  <2> QED
    BY <1>4, <2>1, <2>6, <2>7, <2>8 DEF CommitDecision, TypeOK, Goto, Label,
       schedulerVars, jobVars, redisVars, runVars
<1>5. CASE StoreExecutionToken(c)
  <2>1. SchedulerTypeOK'
    BY <1>5, KeepsSchedulerTypes DEF StoreExecutionToken, TypeOK
  <2>2. ActionOf(about[c]) \in Task \X Args
    BY <1>5 DEF StoreExecutionToken, ActionOf, TypeOK
  <2> QED
    BY <1>5, <2>1, <2>2 DEF StoreExecutionToken, TypeOK, Filed, Goto, Label,
       schedulerVars, jobVars, requestVars, runVars, historyVars
<1>6. CASE FireRun(c)
  <2>1. SchedulerTypeOK' /\ running' = running
    <3>1. taskOf[about[c]] \in Task /\ about[c] \in Request
      BY <1>6 DEF FireRun, TypeOK, Filed
    <3>2. PICK o \in Origin : Queue(taskOf[about[c]], o)
      BY <1>6, <3>1, ScheduledTasksAssumption DEF FireRun
    <3>3. running' = running
      BY <3>2 DEF Queue
    <3>4. UNCHANGED <<active, due, tickVars, budget>>
      BY <1>6 DEF FireRun
    <3> QED
      BY <3>1, <3>2, <3>3, <3>4, QueueTypes DEF TypeOK, SchedulerTypeOK, tickVars
  <2> QED
    BY <1>6, <2>1 DEF FireRun, TypeOK, Filed, Goto, Label, requestVars, redisVars,
       runVars, historyVars
<1>7. ASSUME Close(c), UNCHANGED <<requestVars, tokens, runVars, granted, approvals,
                                   executed, raced, served>>,
             running' = running, SchedulerTypeOK',
             routing' \in [Task -> Filed \cup {NoRequest}], spoiled' \in SUBSET Request
      PROVE  TypeOK'
  <2>1. /\ pc' \in [Answer -> Label] /\ via' \in [Answer -> {"reply", "respond"}]
        /\ about' \in [Answer -> Filed \cup {NoRequest}]
        /\ decision' \in [Answer -> Decision]
        /\ rowLock' \in [Request -> Answer \cup {NoAnswer}]
    BY <1>7 DEF Close, TypeOK, Goto, Label, Decision
  <2>2. \A b \in Answer :
          /\ pc'[b] # "idle" => about'[b] \in Filed
          /\ pc'[b] \notin {"idle", "routed"} => decision'[b] # "none"
    BY <1>7 DEF Close, TypeOK, Goto
  <2>3. Filed' = Filed
    BY <1>7 DEF Filed, requestVars
  <2> QED
    BY <1>7, <2>1, <2>2, <2>3 DEF TypeOK, requestVars, runVars
<1>8. CASE FinishAnswer(c)
  <2>1. SchedulerTypeOK' /\ running' = running
    BY <1>8, KeepsSchedulerTypes DEF FinishAnswer, TypeOK, schedulerVars, jobVars
  <2>2. routing' \in [Task -> Filed \cup {NoRequest}]
    BY <1>8 DEF FinishAnswer, TypeOK
  <2> QED
    BY <1>7, <1>8, <2>1, <2>2 DEF FinishAnswer, historyVars, TypeOK
<1>9. CASE AnswerFails(c)
  <2>1. SchedulerTypeOK' /\ running' = running
    BY <1>9, SpendKeepsTypes DEF AnswerFails, TypeOK, jobVars
  <2>2. spoiled' \in SUBSET Request
    BY <1>9 DEF AnswerFails, TypeOK, Filed
  <2> QED
    BY <1>7, <1>9, <2>1, <2>2 DEF AnswerFails, redisVars, TypeOK
<1> QED
  BY <1>1, <1>2, <1>3, <1>4, <1>5, <1>6, <1>8, <1>9 DEF AnswerStep

LEMMA StepTypeOK == TypeOK /\ [Next]_vars => TypeOK'
<1> SUFFICES ASSUME TypeOK, [Next]_vars PROVE TypeOK'
  OBVIOUS
<1>1. CASE SchedulerStep
  <2>1. SchedulerTypeOK' /\ running' = running
    BY <1>1, SchedulerKeepsRuns DEF TypeOK
  <2> QED
    BY <1>1, <2>1 DEF SchedulerStep, TypeOK, Filed, approvalVars, requestVars,
       redisVars, runVars, answerVars, historyVars
<1>2. ASSUME NEW r \in Request, Expire(r) PROVE TypeOK'
  <2>1. SchedulerTypeOK' /\ running' = running
    BY <1>2, KeepsSchedulerTypes DEF Expire, TypeOK, schedulerVars, jobVars
  <2> QED
    BY <1>2, <2>1 DEF Expire, TypeOK, Filed, redisVars, runVars, answerVars, historyVars
<1>3. ASSUME NEW t \in Task, RoutingExpires(t) PROVE TypeOK'
  <2>1. SchedulerTypeOK' /\ running' = running
    BY <1>3, KeepsSchedulerTypes DEF RoutingExpires, TypeOK, schedulerVars, jobVars
  <2> QED
    BY <1>3, <2>1 DEF RoutingExpires, TypeOK, Filed, requestVars, runVars, answerVars,
       historyVars
<1>4. ASSUME NEW p \in tokens, TokenExpires(p) PROVE TypeOK'
  <2>1. SchedulerTypeOK' /\ running' = running
    BY <1>4, SpendKeepsTypes DEF TokenExpires, TypeOK, jobVars
  <2> QED
    BY <1>4, <2>1 DEF TokenExpires, TypeOK, Filed, GrantsOf, requestVars, runVars,
       answerVars
<1>5. CASE UNCHANGED vars
  <2>1. SchedulerTypeOK' /\ running' = running
    BY <1>5, KeepsSchedulerTypes DEF vars, TypeOK, schedulerVars, jobVars
  <2> QED
    BY <1>5, <2>1 DEF vars, TypeOK, Filed, requestVars, redisVars, runVars, answerVars,
       historyVars
<1> QED
  BY <1>1, <1>2, <1>3, <1>4, <1>5, RunTypeOK, AnswerTypeOK DEF Next

\* The type invariant of the approvals.
THEOREM TypeCorrect == Spec => []TypeOK
  BY InitTypeOK, StepTypeOK, PTL DEF Spec

-------------------------------------------------------------------------------
\* While a reply is decided its request is locked, and what it decides is pending.
ReplyInv ==
  \A c \in Answer :
    pc[c] = "locked" =>
      /\ rowLock[about[c]] = c
      /\ decision[c] \notin {"leave", "unclear"} => status[about[c]] = "pending"

\* What the steps of anything but an answer keep.
LEMMA OthersKeepAnswers ==
  ASSUME TypeOK, NEW j \in Job,
                 RunStep(j) \/ Fail(j) \/ Lose(j) \/ GateFails(j) \/ TokenFails(j)
  PROVE  /\ UNCHANGED <<answerVars, rowLock>>
         /\ \A r \in Filed : /\ status'[r] = status[r] /\ taskOf'[r] = taskOf[r]
                             /\ args'[r] = args[r]
<1>1. CASE CreateRequest(j)
  BY <1>1 DEF CreateRequest, TypeOK, Filed
<1>2. ASSUME NEW a \in Args, CheckApprovalGate(j, a)
      PROVE  UNCHANGED <<answerVars, rowLock, requestVars>>
  BY <1>2 DEF CheckApprovalGate
<1>3. CASE Begin(j) \/ End(j) \/ GateFails(j)
  BY <1>3 DEF Begin, End, GateFails, approvalVars, requestVars
<1>4. CASE \/ Fail(j) \/ Lose(j) \/ ConsumeToken(j) \/ ExecuteTool(j) \/ Notify(j)
           \/ TokenFails(j)
  BY <1>4 DEF Fail, Lose, ConsumeToken, ExecuteTool, Notify, TokenFails, requestVars
<1> QED
  BY <1>1, <1>2, <1>3, <1>4 DEF RunStep, requestVars

LEMMA StepReplyInv == TypeOK /\ ReplyInv /\ [Next]_vars => ReplyInv'
<1> SUFFICES ASSUME TypeOK, ReplyInv, [Next]_vars PROVE ReplyInv'
  OBVIOUS
<1>1. ASSUME UNCHANGED <<answerVars, rowLock>>, \A r \in Filed : status'[r] = status[r]
      PROVE  ReplyInv'
  BY <1>1 DEF ReplyInv, TypeOK, answerVars
<1>2. ASSUME NEW c \in Answer, LockRequest(c) PROVE ReplyInv'
  <2>1. about[c] \in Request
    BY <1>2 DEF LockRequest, TypeOK, Filed
  <2>2. PICK d \in Decisions(c, about[c]) : decision' = [decision EXCEPT ![c] = d]
    BY <1>2 DEF LockRequest
  <2>3. d \notin {"leave", "unclear"} => status[about[c]] = "pending"
    BY <2>2 DEF Decisions
  <2> QED
    BY <1>2, <2>1, <2>2, <2>3, ApprovalsAssumption
       DEF LockRequest, ReplyInv, TypeOK, Goto, requestVars
<1>3. ASSUME NEW c \in Answer, CommitDecision(c) PROVE ReplyInv'
  BY <1>3, ApprovalsAssumption DEF CommitDecision, ReplyInv, TypeOK, Filed, Goto
<1>4. ASSUME NEW c \in Answer, Close(c), UNCHANGED status PROVE ReplyInv'
  BY <1>4 DEF Close, ReplyInv, TypeOK, Goto
<1>5. ASSUME NEW c \in Answer, FinishAnswer(c) \/ AnswerFails(c) PROVE ReplyInv'
  BY <1>4, <1>5 DEF FinishAnswer, AnswerFails, requestVars
<1>6. ASSUME NEW c \in Answer,
             \/ StoreExecutionToken(c) \/ FireRun(c)
             \/ \E t \in Task : ReceiveReply(c, t)
             \/ \E r \in Request : ReadRequest(c, r)
      PROVE  ReplyInv'
  BY <1>6 DEF StoreExecutionToken, FireRun, ReceiveReply, ReadRequest, ReplyInv,
              TypeOK, Goto, requestVars
<1>7. ASSUME \/ SchedulerStep
             \/ \E r \in Request : Expire(r)
             \/ \E t \in Task : RoutingExpires(t)
             \/ \E p \in tokens : TokenExpires(p)
             \/ UNCHANGED vars
      PROVE  ReplyInv'
  BY <1>1, <1>7 DEF SchedulerStep, Expire, RoutingExpires, TokenExpires, vars,
                    approvalVars, requestVars
<1>8. ASSUME NEW j \in Job,
             RunStep(j) \/ Fail(j) \/ Lose(j) \/ GateFails(j) \/ TokenFails(j)
      PROVE  ReplyInv'
  BY <1>1, <1>8, OthersKeepAnswers
<1> QED
  BY <1>2, <1>3, <1>5, <1>6, <1>7, <1>8 DEF Next, AnswerStep

LEMMA StepReply ==
  TypeOK /\ ReplyInv /\ [Next]_vars =>
    \A c \in Answer :
      pc[c] = "locked" /\ pc'[c] # "locked" /\ status' # status
        => status[about[c]] = "pending"
<1> SUFFICES ASSUME TypeOK, ReplyInv, [Next]_vars, NEW c \in Answer,
                    pc[c] = "locked", pc'[c] # "locked", status' # status
             PROVE  status[about[c]] = "pending"
  OBVIOUS
<1>1. ASSUME NEW b \in Answer, CommitDecision(b) PROVE status[about[c]] = "pending"
  BY <1>1 DEF CommitDecision, ReplyInv, TypeOK, Goto
<1>2. ASSUME NEW b \in Answer,
             \/ LockRequest(b) \/ StoreExecutionToken(b) \/ FireRun(b)
             \/ FinishAnswer(b) \/ AnswerFails(b)
             \/ \E t \in Task : ReceiveReply(b, t)
             \/ \E r \in Request : ReadRequest(b, r)
      PROVE  FALSE
  BY <1>2 DEF LockRequest, StoreExecutionToken, FireRun, FinishAnswer, AnswerFails,
              ReceiveReply, ReadRequest, requestVars
<1>3. CASE SchedulerStep \/ (\E r \in Request : Expire(r))
           \/ (\E t \in Task : RoutingExpires(t)) \/ (\E p \in tokens : TokenExpires(p))
           \/ UNCHANGED vars
  BY <1>3 DEF SchedulerStep, Expire, RoutingExpires, TokenExpires, vars, approvalVars,
              requestVars
<1>4. ASSUME NEW j \in Job,
             RunStep(j) \/ Fail(j) \/ Lose(j) \/ GateFails(j) \/ TokenFails(j)
      PROVE  FALSE
  BY <1>4, OthersKeepAnswers DEF answerVars
<1> QED
  BY <1>1, <1>2, <1>3, <1>4 DEF Next, AnswerStep

\* A reply in the channel never changes what another answer has decided, whatever
\* answers come by the dashboard and the buttons at the same time.
THEOREM ReplyDecidesPending == Spec => RepliesNeverOverride
<1>1. Init => ReplyInv
  BY DEF Init, ReplyInv
<1> QED
  BY <1>1, InitTypeOK, StepTypeOK, StepReplyInv, StepReply, PTL
     DEF Spec, RepliesNeverOverride

-------------------------------------------------------------------------------
\* Executions that an approval of call p allows and that did not happen yet: runs
\* past the gate, answers that have not stored their token, and the token, which a
\* run may have read and not deleted.
Cleared(p)   == {j \in Job : gate[j] = "cleared" /\ CallOf(j) = p}
Executing(p) == {j \in Job : gate[j] = "executing" /\ CallOf(j) = p}
Storing(p)   == {c \in Answer : pc[c] = "committed" /\ ActionOf(about[c]) = p}
Ready(p)     == IF p \in tokens \/ Cleared(p) # {} THEN 1 ELSE 0

Outstanding(p) == Cardinality(Executing(p)) + Cardinality(Storing(p)) + Ready(p)

\* A call nobody raced for is cleared for one run at a time, and what was executed
\* and what may still be was approved.
Covered(p) ==
  /\ \A i, j \in Cleared(p) : i = j
  /\ executed[p] + Outstanding(p) <= approvals[p]

OnceInv == \A p \in (Task \X Args) \ raced : Covered(p)

LEMMA CardinalityTypes ==
  ASSUME NEW p
  PROVE  /\ IsFiniteSet(Executing(p)) /\ IsFiniteSet(Storing(p))
         /\ Cardinality(Executing(p)) \in Nat /\ Cardinality(Storing(p)) \in Nat
         /\ Ready(p) \in {0, 1}
<1>1. IsFiniteSet(Executing(p)) /\ IsFiniteSet(Storing(p))
  BY ApprovalsAssumption, FS_Subset DEF Executing, Storing
<1> QED
  BY <1>1, FS_CardinalityType DEF Ready

\* A step that makes nothing more outstanding keeps a call covered.
LEMMA CoveredShrinks ==
  ASSUME TypeOK, NEW p \in Task \X Args, Covered(p),
         Cleared(p)' \subseteq Cleared(p), Executing(p)' \subseteq Executing(p),
         Storing(p)' \subseteq Storing(p), p \in tokens' => p \in tokens,
         executed'[p] = executed[p], approvals'[p] \in Nat, approvals[p] <= approvals'[p]
  PROVE  Covered(p)'
<1>1. /\ Cardinality(Executing(p)') <= Cardinality(Executing(p))
      /\ Cardinality(Storing(p)') <= Cardinality(Storing(p))
      /\ Cardinality(Executing(p)') \in Nat /\ Cardinality(Storing(p)') \in Nat
  BY CardinalityTypes, FS_Subset, FS_CardinalityType
<1>2. Ready(p)' <= Ready(p) /\ Ready(p)' \in {0, 1} /\ Ready(p) \in {0, 1}
  BY DEF Ready
<1>3. Cardinality(Executing(p)) \in Nat /\ Cardinality(Storing(p)) \in Nat
  BY CardinalityTypes
<1>4. executed[p] \in Nat /\ approvals[p] \in Nat
  BY DEF TypeOK
<1>5. executed'[p] + Outstanding(p)' <= approvals'[p]
  BY <1>1, <1>2, <1>3, <1>4 DEF Covered, Outstanding
<1> QED
  BY <1>5 DEF Covered

\* A run whose place in a tool call is unchanged, or is neither cleared nor
\* executing, adds to neither set.
LEMMA RunsShrink ==
  ASSUME TypeOK, NEW p,
         \A i \in Job : \/ gate'[i] \notin {"cleared", "executing"}
                        \/ gate'[i] = gate[i] /\ task'[i] = task[i] /\ call'[i] = call[i]
  PROVE  Cleared(p)' \subseteq Cleared(p) /\ Executing(p)' \subseteq Executing(p)
  BY DEF Cleared, Executing, CallOf

LEMMA AnswersShrink ==
  ASSUME TypeOK, NEW p,
         \A r \in Filed : taskOf'[r] = taskOf[r] /\ args'[r] = args[r],
         \A c \in Answer : pc'[c] = "committed" =>
                             pc[c] = "committed" /\ about'[c] = about[c]
  PROVE  Storing(p)' \subseteq Storing(p)
  BY DEF Storing, ActionOf, TypeOK

LEMMA RunStepOnce ==
  ASSUME TypeOK, OnceInv, NEW j \in Job,
         RunStep(j) \/ Fail(j) \/ Lose(j) \/ GateFails(j) \/ TokenFails(j),
         NEW p \in (Task \X Args) \ raced'
  PROVE  Covered(p)'
<1>1. raced \subseteq raced' /\ approvals' = approvals
  <2>1. ASSUME NEW a \in Args, CheckApprovalGate(j, a)
        PROVE  raced \subseteq raced' /\ approvals' = approvals
    BY <2>1 DEF CheckApprovalGate
  <2>2. ASSUME ~ \E a \in Args : CheckApprovalGate(j, a)
        PROVE  UNCHANGED <<raced, approvals>>
    BY <2>2 DEF RunStep, Begin, End, Fail, Lose, GateFails, TokenFails, ConsumeToken,
                ExecuteTool, CreateRequest, Notify, approvalVars, historyVars
  <2> QED
    BY <2>1, <2>2
<1>2. Covered(p)
  BY <1>1 DEF OnceInv
<1>3. Storing(p)' \subseteq Storing(p)
  BY OthersKeepAnswers, AnswersShrink DEF answerVars
<1>4. approvals[p] \in Nat /\ executed[p] \in Nat
  BY DEF TypeOK
<1>5. ASSUME Cleared(p)' \subseteq Cleared(p), Executing(p)' \subseteq Executing(p),
             UNCHANGED <<tokens, executed>>
      PROVE  Covered(p)'
  BY <1>1, <1>2, <1>3, <1>4, <1>5, CoveredShrinks
<1>6. CASE Begin(j)
  <2>1. Cleared(p)' \subseteq Cleared(p) /\ Executing(p)' \subseteq Executing(p)
    BY <1>6, RunsShrink DEF Begin, StartRun, At, TypeOK
  <2> QED
    BY <1>5, <1>6, <2>1 DEF Begin, approvalVars, redisVars, historyVars
<1>7. CASE End(j) \/ Fail(j) \/ Lose(j)
  <2>1. Leave(j) /\ \A i \in Job \ {j} : task'[i] = task[i]
    BY <1>7 DEF End, Fail, Lose, EndRun, RunFails, LoseWorker, Acknowledge, TypeOK,
                SchedulerTypeOK
  <2>2. Cleared(p)' \subseteq Cleared(p) /\ Executing(p)' \subseteq Executing(p)
    BY <2>1, RunsShrink DEF Leave, At, TypeOK
  <2> QED
    BY <1>5, <1>7, <2>2 DEF End, Fail, Lose, approvalVars, redisVars, historyVars
<1>8. CASE CreateRequest(j) \/ Notify(j) \/ GateFails(j)
  <2>1. Cleared(p)' \subseteq Cleared(p) /\ Executing(p)' \subseteq Executing(p)
    BY <1>8, RunsShrink
       DEF CreateRequest, Notify, GateFails, At, TypeOK, schedulerVars, jobVars
  <2> QED
    BY <1>5, <1>8, <2>1
       DEF CreateRequest, Notify, GateFails, approvalVars, redisVars, historyVars
<1>9. ASSUME NEW a \in Args, CheckApprovalGate(j, a) PROVE Covered(p)'
  <2> DEFINE q == <<task[j], a>>
  <2>1. /\ gate[j] = "thinking" /\ task' = task
        /\ gate' = [gate EXCEPT ![j] = IF q \in tokens THEN "cleared" ELSE "asking"]
        /\ call' = [call EXCEPT ![j] = a]
        /\ UNCHANGED <<tokens, executed>>
    BY <1>9 DEF CheckApprovalGate, At, schedulerVars, jobVars, redisVars
  <2>2. CASE q \in tokens /\ q = p
    <3>1. Cleared(p) = {}
      BY <1>9, <2>2 DEF CheckApprovalGate, Cleared
    <3>2. Cleared(p)' \subseteq {j}
      BY <2>1, <3>1 DEF Cleared, CallOf, TypeOK
    <3>3. Executing(p)' \subseteq Executing(p)
      BY <2>1, <2>2 DEF Executing, CallOf, TypeOK
    <3>4. Ready(p)' = 1 /\ Ready(p) = 1
      BY <2>1, <2>2 DEF Ready
    <3>5. /\ Cardinality(Executing(p)') <= Cardinality(Executing(p))
          /\ Cardinality(Storing(p)') <= Cardinality(Storing(p))
          /\ Cardinality(Executing(p)') \in Nat /\ Cardinality(Storing(p)') \in Nat
          /\ Cardinality(Executing(p)) \in Nat /\ Cardinality(Storing(p)) \in Nat
      BY <1>3, <3>3, CardinalityTypes, FS_Subset, FS_CardinalityType
    <3>6. executed'[p] + Outstanding(p)' <= approvals'[p]
      BY <1>1, <1>2, <1>4, <2>1, <3>4, <3>5 DEF Covered, Outstanding
    <3> QED
      BY <3>2, <3>6 DEF Covered
  <2>3. CASE ~(q \in tokens /\ q = p)
    <3>1. Cleared(p)' \subseteq Cleared(p) /\ Executing(p)' \subseteq Executing(p)
      BY <2>1, <2>3 DEF Cleared, Executing, CallOf, TypeOK
    <3> QED
      BY <1>5, <2>1, <3>1
  <2> QED
    BY <2>2, <2>3
<1>10. CASE ConsumeToken(j)
  <2>1. /\ gate[j] = "cleared" /\ UNCHANGED <<task, call, executed>>
        /\ gate' = [gate EXCEPT ![j] = "executing"]
        /\ tokens' = tokens \ {CallOf(j)}
    BY <1>10 DEF ConsumeToken, At, schedulerVars, jobVars, historyVars
  <2>2. CASE CallOf(j) = p
    <3>1. Cleared(p) = {j} /\ Cleared(p)' = {}
      BY <1>2, <2>1, <2>2 DEF Covered, Cleared, CallOf, TypeOK
    <3>2. Ready(p) = 1 /\ Ready(p)' = 0
      BY <2>1, <2>2, <3>1 DEF Ready
    <3>3. Executing(p)' = Executing(p) \cup {j} /\ j \notin Executing(p)
      BY <2>1, <2>2 DEF Executing, CallOf, TypeOK
    <3>4. Cardinality(Executing(p)') = Cardinality(Executing(p)) + 1
      BY <3>3, CardinalityTypes, FS_AddElement
    <3>5. /\ Cardinality(Storing(p)') <= Cardinality(Storing(p))
          /\ Cardinality(Storing(p)') \in Nat
          /\ Cardinality(Executing(p)) \in Nat /\ Cardinality(Storing(p)) \in Nat
      BY <1>3, CardinalityTypes, FS_Subset, FS_CardinalityType
    <3>6. executed'[p] + Outstanding(p)' <= approvals'[p]
      BY <1>1, <1>2, <1>4, <2>1, <3>2, <3>4, <3>5 DEF Covered, Outstanding
    <3> QED
      BY <3>1, <3>6 DEF Covered
  <2>3. CASE CallOf(j) # p
    <3>1. Cleared(p)' \subseteq Cleared(p) /\ Executing(p)' \subseteq Executing(p)
      BY <2>1, <2>3 DEF Cleared, Executing, CallOf, TypeOK
    <3> QED
      BY <1>1, <1>2, <1>3, <1>4, <2>1, <3>1, CoveredShrinks
  <2> QED
    BY <2>2, <2>3
<1>11. CASE ExecuteTool(j)
  <2>1. /\ gate[j] = "executing" /\ UNCHANGED <<task, call, tokens>>
        /\ gate' = [gate EXCEPT ![j] = "thinking"]
        /\ executed' = [executed EXCEPT ![CallOf(j)] = @ + 1]
    BY <1>11 DEF ExecuteTool, At, schedulerVars, jobVars, redisVars
  <2>2. Cleared(p)' = Cleared(p)
    BY <2>1 DEF Cleared, CallOf, TypeOK
  <2>3. CASE CallOf(j) = p
    <3>1. Executing(p)' = Executing(p) \ {j} /\ j \in Executing(p)
      BY <2>1, <2>3 DEF Executing, CallOf, TypeOK
    <3>2. Cardinality(Executing(p)') = Cardinality(Executing(p)) - 1
      BY <3>1, CardinalityTypes, FS_RemoveElement
    <3>3. /\ Cardinality(Storing(p)') <= Cardinality(Storing(p))
          /\ Cardinality(Storing(p)') \in Nat
          /\ Cardinality(Executing(p)) \in Nat /\ Cardinality(Storing(p)) \in Nat
      BY <1>3, CardinalityTypes, FS_Subset, FS_CardinalityType
    <3>4. Ready(p)' = Ready(p) /\ Ready(p) \in {0, 1}
      BY <2>1, <2>2 DEF Ready
    <3>5. executed'[p] = executed[p] + 1
      BY <2>1, <2>3 DEF TypeOK
    <3>6. executed'[p] + Outstanding(p)' <= approvals'[p]
      BY <1>1, <1>2, <1>4, <3>2, <3>3, <3>4, <3>5 DEF Covered, Outstanding
    <3> QED
      BY <1>2, <2>2, <3>6 DEF Covered
  <2>4. CASE CallOf(j) # p
    <3>1. Executing(p)' \subseteq Executing(p)
      BY <2>1 DEF Executing, CallOf, TypeOK
    <3>2. executed'[p] = executed[p]
      BY <2>1, <2>4 DEF TypeOK
    <3> QED
      BY <1>1, <1>2, <1>3, <1>4, <2>1, <2>2, <3>1, <3>2, CoveredShrinks
  <2> QED
    BY <2>3, <2>4
<1>12. CASE TokenFails(j)
  <2>1. /\ task' = task /\ gate' = [gate EXCEPT ![j] = "thinking"]
        /\ \A i \in Job \ {j} : call'[i] = call[i]
    BY <1>12 DEF TokenFails, At, jobVars, TypeOK
  <2>2. Cleared(p)' \subseteq Cleared(p) /\ Executing(p)' \subseteq Executing(p)
    BY <2>1, RunsShrink DEF TypeOK
  <2>3. executed' = executed /\ tokens' \subseteq tokens
    BY <1>12 DEF TokenFails
  <2> QED
    BY <1>1, <1>2, <1>3, <1>4, <2>2, <2>3, CoveredShrinks
<1> QED
  BY <1>6, <1>7, <1>8, <1>9, <1>10, <1>11, <1>12 DEF RunStep

LEMMA AnswerStepOnce ==
  ASSUME TypeOK, OnceInv, NEW c \in Answer,
         \/ AnswerStep(c) \/ AnswerFails(c)
         \/ \E t \in Task : ReceiveReply(c, t)
         \/ \E r \in Request : ReadRequest(c, r),
         NEW p \in (Task \X Args) \ raced'
  PROVE  Covered(p)'
<1>1. /\ UNCHANGED <<taskOf, args, runVars, raced, executed>>
      /\ \A i \in running : task'[i] = task[i]
  <2>1. CASE FireRun(c)
    <3>1. \E t, o : Queue(t, o)
      BY <2>1 DEF FireRun
    <3> QED
      BY <2>1, <3>1, ScheduledTasksAssumption
         DEF FireRun, Queue, TypeOK, SchedulerTypeOK, requestVars, historyVars
  <2>2. CASE \/ CommitDecision(c) \/ (\E t \in Task : ReceiveReply(c, t))
             \/ \E r \in Request : ReadRequest(c, r)
    BY <2>2 DEF CommitDecision, ReceiveReply, ReadRequest, schedulerVars, jobVars,
                requestVars, historyVars
  <2>3. CASE LockRequest(c) \/ StoreExecutionToken(c) \/ FinishAnswer(c)
             \/ AnswerFails(c)
    BY <2>3 DEF LockRequest, StoreExecutionToken, FinishAnswer, AnswerFails,
                schedulerVars, jobVars, requestVars, historyVars
  <2> QED
    BY <2>1, <2>2, <2>3 DEF AnswerStep
<1>2. Covered(p)
  BY <1>1 DEF OnceInv
<1>3. Cleared(p)' = Cleared(p) /\ Executing(p)' = Executing(p)
  <2>1. \A i \in Job : gate[i] # "none" => task'[i] = task[i]
    BY <1>1 DEF TypeOK
  <2> QED
    BY <1>1, <2>1 DEF Cleared, Executing, CallOf, runVars
<1>4. approvals[p] \in Nat /\ executed[p] \in Nat
  BY DEF TypeOK
<1>5. ASSUME Storing(p)' \subseteq Storing(p), tokens' = tokens,
             approvals' = approvals
      PROVE  Covered(p)'
  BY <1>1, <1>2, <1>3, <1>4, <1>5, CoveredShrinks
<1>6. CASE CommitDecision(c)
  <2> DEFINE q == ActionOf(about[c])
  <2>1. /\ tokens' = tokens /\ about' = about /\ about[c] \in Filed
        /\ pc[c] \in {"locked", "read"}
        /\ pc' = [pc EXCEPT ![c] = CASE decision[c] = "approve" -> "committed"
                                     [] decision[c] = "feedback" -> "stored"
                                     [] OTHER -> "answered"]
        /\ approvals' = IF decision[c] = "approve"
                        THEN [approvals EXCEPT ![q] = @ + 1] ELSE approvals
    BY <1>6 DEF CommitDecision, Goto, redisVars, TypeOK
  <2>2. CASE decision[c] = "approve" /\ q = p
    <3>1. Storing(p)' = Storing(p) \cup {c} /\ c \notin Storing(p)
      BY <1>1, <2>1, <2>2 DEF Storing, ActionOf, TypeOK
    <3>2. Cardinality(Storing(p)') = Cardinality(Storing(p)) + 1
      BY <3>1, CardinalityTypes, FS_AddElement
    <3>3. Ready(p)' = Ready(p) /\ Ready(p) \in {0, 1}
      BY <1>3, <2>1 DEF Ready
    <3>4. Cardinality(Executing(p)) \in Nat /\ Cardinality(Storing(p)) \in Nat
      BY CardinalityTypes
    <3>5. approvals'[p] = approvals[p] + 1
      BY <2>1, <2>2 DEF TypeOK
    <3>6. executed'[p] + Outstanding(p)' <= approvals'[p]
      BY <1>1, <1>2, <1>3, <1>4, <3>2, <3>3, <3>4, <3>5 DEF Covered, Outstanding
    <3> QED
      BY <1>2, <1>3, <3>6 DEF Covered
  <2>3. CASE decision[c] = "approve" /\ q # p
    <3>1. Storing(p)' \subseteq Storing(p)
      BY <1>1, <2>1, <2>3 DEF Storing, ActionOf, TypeOK
    <3>2. approvals'[p] = approvals[p]
      BY <2>1, <2>3 DEF TypeOK
    <3> QED
      BY <1>1, <1>2, <1>3, <1>4, <2>1, <3>1, <3>2, CoveredShrinks
  <2>4. CASE decision[c] # "approve"
    <3>1. Storing(p)' \subseteq Storing(p)
      BY <1>1, <2>1, <2>4 DEF Storing, ActionOf, TypeOK
    <3> QED
      BY <1>5, <2>1, <2>4, <3>1
  <2> QED
    BY <2>2, <2>3, <2>4
<1>7. CASE StoreExecutionToken(c)
  <2> DEFINE q == ActionOf(about[c])
  <2>1. /\ pc[c] = "committed" /\ tokens' = tokens \cup {q}
        /\ pc' = [pc EXCEPT ![c] = "stored"] /\ UNCHANGED <<about, approvals>>
    BY <1>7 DEF StoreExecutionToken, Goto, historyVars
  <2>2. CASE q = p
    <3>1. Storing(p)' = Storing(p) \ {c} /\ c \in Storing(p)
      BY <1>1, <2>1, <2>2 DEF Storing, ActionOf, TypeOK
    <3>2. Cardinality(Storing(p)') = Cardinality(Storing(p)) - 1
      BY <3>1, CardinalityTypes, FS_RemoveElement
    <3>3. Ready(p)' = 1 /\ Ready(p) \in {0, 1}
      BY <2>1, <2>2 DEF Ready
    <3>4. Cardinality(Executing(p)) \in Nat /\ Cardinality(Storing(p)) \in Nat
      BY CardinalityTypes
    <3>5. executed'[p] + Outstanding(p)' <= approvals'[p]
      BY <1>1, <1>2, <1>3, <1>4, <2>1, <3>2, <3>3, <3>4 DEF Covered, Outstanding
    <3> QED
      BY <1>2, <1>3, <3>5 DEF Covered
  <2>3. CASE q # p
    <3>1. Storing(p)' \subseteq Storing(p)
      BY <1>1, <2>1 DEF Storing, ActionOf, TypeOK
    <3> QED
      BY <1>1, <1>2, <1>3, <1>4, <2>1, <2>3, <3>1, CoveredShrinks
  <2> QED
    BY <2>2, <2>3
<1>8. CASE \/ LockRequest(c) \/ FireRun(c) \/ (\E t \in Task : ReceiveReply(c, t))
           \/ \E r \in Request : ReadRequest(c, r)
  <2>1. /\ \A b \in Answer : pc'[b] = "committed" =>
                               pc[b] = "committed" /\ about'[b] = about[b]
        /\ UNCHANGED <<tokens, approvals>>
    BY <1>8 DEF LockRequest, FireRun, ReceiveReply, ReadRequest, Goto, redisVars,
                historyVars, TypeOK
  <2>2. Storing(p)' \subseteq Storing(p)
    BY <1>1, <2>1, AnswersShrink
  <2> QED
    BY <1>5, <2>1, <2>2
<1>9. CASE FinishAnswer(c) \/ AnswerFails(c)
  <2>1. Close(c) /\ UNCHANGED <<tokens, approvals>>
    BY <1>9 DEF FinishAnswer, AnswerFails, redisVars, historyVars
  <2>2. \A b \in Answer : pc'[b] = "committed" =>
                            pc[b] = "committed" /\ about'[b] = about[b]
    BY <2>1 DEF Close, Goto, TypeOK
  <2>3. Storing(p)' \subseteq Storing(p)
    BY <1>1, <2>2, AnswersShrink
  <2> QED
    BY <1>5, <2>1, <2>3
<1> QED
  BY <1>6, <1>7, <1>8, <1>9 DEF AnswerStep

LEMMA StepOnceInv == TypeOK /\ OnceInv /\ [Next]_vars => OnceInv'
<1> SUFFICES ASSUME TypeOK, OnceInv, [Next]_vars, NEW p \in (Task \X Args) \ raced'
             PROVE  Covered(p)'
  BY DEF OnceInv
<1>1. ASSUME UNCHANGED <<runVars, answerVars, taskOf, args, raced, approvals, executed>>,
             tokens' \subseteq tokens, \A i \in running : task'[i] = task[i]
      PROVE  Covered(p)'
  <2>1. Covered(p) /\ approvals[p] \in Nat
    BY <1>1 DEF OnceInv, TypeOK
  <2>2. \A i \in Job : gate[i] # "none" => task'[i] = task[i]
    BY <1>1 DEF TypeOK
  <2>3. Cleared(p)' \subseteq Cleared(p) /\ Executing(p)' \subseteq Executing(p)
    BY <1>1, <2>2, RunsShrink DEF runVars
  <2>4. Storing(p)' \subseteq Storing(p)
    BY <1>1, AnswersShrink DEF answerVars
  <2> QED
    BY <1>1, <2>1, <2>3, <2>4, CoveredShrinks
<1>2. CASE SchedulerStep
  BY <1>1, <1>2, SchedulerKeepsRuns
     DEF SchedulerStep, TypeOK, approvalVars, requestVars, redisVars, historyVars
<1>3. ASSUME \/ \E r \in Request : Expire(r)
             \/ \E t \in Task : RoutingExpires(t)
             \/ \E q \in tokens : TokenExpires(q)
             \/ UNCHANGED vars
      PROVE  Covered(p)'
  <2>1. \A i \in running : task'[i] = task[i]
    BY <1>3 DEF Expire, RoutingExpires, TokenExpires, vars, schedulerVars, jobVars
  <2> QED
    BY <1>1, <1>3, <2>1 DEF Expire, RoutingExpires, TokenExpires, vars, requestVars,
                            redisVars, historyVars
<1> QED
  BY <1>2, <1>3, RunStepOnce, AnswerStepOnce DEF Next

\* However many answers, runs, redeliveries and losses there are, a tool runs with
\* given arguments no more often than they were approved, unless two runs read the
\* same token before one of them deleted it.
THEOREM ExecutedAsApproved == Spec => []OncePerApproval
<1>1. Init => OnceInv
  <2> SUFFICES ASSUME Init, NEW p \in Task \X Args PROVE Covered(p)
    BY DEF OnceInv
  <2>1. Cleared(p) = {} /\ Executing(p) = {} /\ Storing(p) = {}
    BY DEF Init, Cleared, Executing, Storing
  <2>2. Outstanding(p) = 0
    BY <2>1, FS_EmptySet DEF Init, Outstanding, Ready
  <2> QED
    BY <2>1, <2>2 DEF Init, Covered
<1>2. TypeOK /\ OnceInv => OncePerApproval
  <2> SUFFICES ASSUME TypeOK, OnceInv, NEW p \in (Task \X Args) \ raced
               PROVE  executed[p] <= approvals[p]
    BY DEF OncePerApproval
  <2>1. Outstanding(p) \in Nat
    BY CardinalityTypes DEF Outstanding
  <2>2. executed[p] \in Nat /\ approvals[p] \in Nat
    BY DEF TypeOK
  <2>3. executed[p] + Outstanding(p) <= approvals[p]
    BY DEF OnceInv, Covered
  <2> QED
    BY <2>1, <2>2, <2>3
<1> QED
  BY <1>1, <1>2, InitTypeOK, StepTypeOK, StepOnceInv, PTL DEF Spec

-------------------------------------------------------------------------------
LEMMA InitMarked == Init => MarkedWereQueued
  BY DEF Init, SchedulerInit, MarkedWereQueued

\* Steps that add to neither the marks nor the dues.
LEMMA LeavesMarks ==
  ASSUME MarkedWereQueued, answered \subseteq answered',
         UNCHANGED <<due, marked, outdated>>
  PROVE  MarkedWereQueued' /\ \A t \in Task : due[t] /\ ~due'[t] => t \in answered'
  BY DEF MarkedWereQueued

LEMMA QueueAnswers ==
  ASSUME NEW t, NEW o, Queue(t, o) PROVE answered' = answered \cup {t}
  BY DEF Queue

LEMMA StepMarked ==
  TypeOK /\ MarkedWereQueued /\ [Next]_vars
    => MarkedWereQueued' /\ \A t \in Task : due[t] /\ ~due'[t] => t \in answered'
<1> DEFINE Goal == /\ MarkedWereQueued'
                   /\ \A t \in Task : due[t] /\ ~due'[t] => t \in answered'
<1> SUFFICES ASSUME TypeOK, MarkedWereQueued, [Next]_vars PROVE Goal
  OBVIOUS
<1>1. SchedulerTypeOK
  BY DEF TypeOK
<1>2. ASSUME NEW k \in Tick, CheckScheduledTasks(k) PROVE Goal
  BY <1>2, LeavesMarks DEF CheckScheduledTasks
<1>3. ASSUME NEW k \in Tick, NEW t \in Task, QueueDue(k, t) PROVE Goal
  <2>1. /\ answered' = answered \cup {t} /\ UNCHANGED <<due, outdated>>
        /\ marked' = [marked EXCEPT ![k] = @ \cup {t}]
    BY <1>3, QueueAnswers DEF QueueDue
  <2>2. \A l \in Tick : marked'[l] \subseteq marked[l] \cup {t}
    BY <1>1, <2>1 DEF SchedulerTypeOK
  <2> QED
    BY <2>1, <2>2 DEF MarkedWereQueued
<1>4. ASSUME NEW k \in Tick, NEW t \in Task, QueueingFails(k, t) PROVE Goal
  BY <1>4, LeavesMarks DEF QueueingFails
<1>5. ASSUME NEW k \in Tick, CommitSweep(k) \/ SweepFails(k) PROVE Goal
  <2>1. /\ answered' = answered
        /\ marked' = [marked EXCEPT ![k] = {}]
        /\ outdated' = [outdated EXCEPT ![k] = {}]
    BY <1>5 DEF CommitSweep, SweepFails
  <2>2. MarkedWereQueued'
    BY <1>1, <2>1 DEF MarkedWereQueued, SchedulerTypeOK
  <2>3. ASSUME NEW t \in Task, due[t], ~due'[t] PROVE t \in marked[k] \ outdated[k]
    BY <1>5, <2>3 DEF CommitSweep, SweepFails
  <2> QED
    BY <2>1, <2>2, <2>3 DEF MarkedWereQueued
<1>6. ASSUME NEW t \in Task, TimePasses(t) PROVE Goal
  <2>1. /\ answered' = answered \ {t} /\ marked' = marked
        /\ due' = [due EXCEPT ![t] = TRUE]
        /\ \A k \in Tick : outdated'[k] = outdated[k] \cup ({t} \cap marked[k])
    BY <1>6 DEF TimePasses
  <2>2. \A u \in Task : due[u] => due'[u]
    BY <1>1, <2>1 DEF SchedulerTypeOK
  <2> QED
    BY <2>1, <2>2 DEF MarkedWereQueued
<1>7. ASSUME NEW t \in Task, SetActive(t) \/ Trigger(t) PROVE Goal
  BY <1>7, LeavesMarks, QueueAnswers DEF SetActive, Trigger, tickVars
<1>8. ASSUME NEW j \in Job, SkipRun(j) \/ StartRun(j) \/ RunFails(j) \/ LoseWorker(j)
      PROVE  Goal
  BY <1>8, LeavesMarks DEF SkipRun, StartRun, RunFails, LoseWorker, tickVars
<1>9. ASSUME NEW j \in Job, EndRun(j) PROVE Goal
  <2>1. /\ answered' = answered \cup {task[j]} /\ UNCHANGED <<marked, outdated>>
        /\ due' = [due EXCEPT ![task[j]] = FALSE]
    BY <1>9 DEF EndRun, tickVars
  <2> QED
    BY <1>1, <2>1 DEF MarkedWereQueued, SchedulerTypeOK
<1>10. ASSUME UNCHANGED <<due, tickVars, answered>> PROVE Goal
  BY <1>10, LeavesMarks DEF tickVars
<1>11. ASSUME NEW j \in Job,
              RunStep(j) \/ Fail(j) \/ Lose(j) \/ GateFails(j) \/ TokenFails(j)
       PROVE  Goal
  BY <1>8, <1>9, <1>10, <1>11
     DEF RunStep, Begin, End, Fail, Lose, GateFails, TokenFails, CheckApprovalGate, ConsumeToken,
         ExecuteTool, CreateRequest, Notify, schedulerVars
<1>12. ASSUME NEW c \in Answer, FireRun(c) PROVE Goal
  <2>1. answered \subseteq answered'
    BY <1>12, QueueAnswers DEF FireRun
  <2> QED
    BY <1>12, <2>1, LeavesMarks DEF FireRun, tickVars
<1>13. ASSUME NEW c \in Answer,
              \/ LockRequest(c) \/ CommitDecision(c) \/ StoreExecutionToken(c)
              \/ FinishAnswer(c) \/ AnswerFails(c)
              \/ \E t \in Task : ReceiveReply(c, t)
              \/ \E r \in Request : ReadRequest(c, r)
       PROVE Goal
  BY <1>10, <1>13 DEF LockRequest, CommitDecision, StoreExecutionToken, FinishAnswer,
                      AnswerFails, ReceiveReply, ReadRequest, schedulerVars
<1>14. CASE (\E r \in Request : Expire(r)) \/ (\E t \in Task : RoutingExpires(t))
            \/ (\E p \in tokens : TokenExpires(p)) \/ UNCHANGED vars
  BY <1>10, <1>14 DEF Expire, RoutingExpires, TokenExpires, vars, schedulerVars
<1> HIDE DEF Goal
<1> QED
  BY <1>2, <1>3, <1>4, <1>5, <1>6, <1>7, <1>8, <1>11, <1>12, <1>13, <1>14
     DEF Next, SchedulerStep, AnswerStep

\* A due task stays due until it was queued or run, for any number of ticks whose
\* pages overlap with each other, with runs and with the next instant.
THEOREM DueTasksKept == Spec => DueUntilQueued
  BY InitTypeOK, StepTypeOK, InitMarked, StepMarked, PTL DEF Spec, DueUntilQueued

-------------------------------------------------------------------------------
\* Somebody goes on with an approval that nobody's step took away.
LEMMA StaysUnderway ==
  ASSUME TypeOK, NEW r \in Filed, Underway(r),
         taskOf'[r] = taskOf[r], args'[r] = args[r],
         ActionOf(r) \in tokens => ActionOf(r) \in tokens',
         \A c \in Answer : /\ about[c] = r
                           /\ \/ pc[c] = "committed"
                              \/ pc[c] = "stored" /\ decision[c] = "approve"
                           => UNCHANGED <<pc[c], about[c], decision[c]>>,
         \A j \in Job : gate[j] = "executing" /\ CallOf(j) = ActionOf(r)
                        => UNCHANGED <<gate[j], task[j], call[j]>>,
         \A j \in Job : Carries(j, r) => Carries(j, r)'
  PROVE  Underway(r)'
<1>1. ActionOf(r)' = ActionOf(r)
  BY DEF ActionOf
<1>2. CASE \E c \in Answer : pc[c] = "committed" /\ about[c] = r
  BY <1>2 DEF Underway
<1>3. CASE \E j \in Job : gate[j] = "executing" /\ CallOf(j) = ActionOf(r)
  BY <1>1, <1>3 DEF Underway, CallOf
<1>4. CASE /\ ActionOf(r) \in tokens
           /\ \E c \in Answer : pc[c] = "stored" /\ about[c] = r /\ decision[c] = "approve"
  BY <1>1, <1>4 DEF Underway
<1>5. CASE ActionOf(r) \in tokens /\ \E j \in Job : Carries(j, r)
  BY <1>1, <1>5 DEF Underway
<1> QED
  BY <1>2, <1>3, <1>4, <1>5 DEF Underway

\* The scheduler takes no job of an approval away: it runs a paused task for one.
LEMMA SchedulerKeepsApproved ==
  ASSUME TypeOK, SchedulerStep
  PROVE  \A j \in Job : task[j] # NoTask /\ origin[j] \in Request
                        => task'[j] = task[j] /\ origin'[j] = origin[j]
<1> DEFINE Kept == \A j \in Job : task[j] # NoTask /\ origin[j] \in Request
                                  => task'[j] = task[j] /\ origin'[j] = origin[j]
<1>1. ASSUME NEW t, NEW o, Queue(t, o) PROVE Kept
  BY <1>1 DEF Queue, TypeOK, SchedulerTypeOK
<1>2. ASSUME NEW j \in Job, SkipRun(j) PROVE Kept
  BY <1>2, ApprovalsAssumption
     DEF SkipRun, Runnable, Acknowledge, TypeOK, SchedulerTypeOK
<1>3. ASSUME UNCHANGED jobVars PROVE Kept
  BY <1>3 DEF jobVars
<1> HIDE DEF Kept
<1>4. Kept
  BY <1>1, <1>2, <1>3 DEF SchedulerStep, CheckScheduledTasks, CommitSweep, SweepFails,
     QueueDue, QueueingFails, TimePasses, SetActive, Trigger
<1> QED
  BY <1>4 DEF Kept

\* A run that leaves gives up what it carries only if the approval is spoiled.
LEMMA RunStepUnderway ==
  ASSUME TypeOK, ApprovalInvariant, NEW j \in Job,
         RunStep(j) \/ Fail(j) \/ Lose(j) \/ GateFails(j) \/ TokenFails(j),
         NEW r \in granted' \ (served' \cup spoiled')
  PROVE  Underway(r)'
<1> USE ApprovalsAssumption
<1>1. granted' = granted /\ served \subseteq served' /\ spoiled \subseteq spoiled'
  <2>1. ASSUME NEW a \in Args, CheckApprovalGate(j, a)
        PROVE  UNCHANGED <<granted, served, spoiled>>
    BY <2>1 DEF CheckApprovalGate
  <2>2. ASSUME ~ \E a \in Args : CheckApprovalGate(j, a)
        PROVE  granted' = granted /\ served \subseteq served' /\ spoiled \subseteq spoiled'
    BY <2>2 DEF RunStep, Begin, End, Fail, Lose, GateFails, TokenFails, ConsumeToken,
                ExecuteTool, CreateRequest, Notify, approvalVars, historyVars
  <2> QED
    BY <2>1, <2>2
<1>2. r \in Filed /\ Underway(r) /\ r \in Request
  BY <1>1 DEF ApprovalInvariant, NoApprovalForgotten, TypeOK, Filed
<1>3. /\ UNCHANGED <<pc, about, decision>>
      /\ taskOf'[r] = taskOf[r] /\ args'[r] = args[r]
      /\ ActionOf(r)' = ActionOf(r)
  BY <1>2, OthersKeepAnswers DEF answerVars, ActionOf
<1>4. taskOf[r] \in Task /\ args[r] \in Args /\ args[r] # NoArgs /\ taskOf[r] # NoTask
  BY <1>2, ScheduledTasksAssumption DEF TypeOK
<1>5. ASSUME ActionOf(r) \in tokens => ActionOf(r) \in tokens',
             \A i \in Job : gate[i] = "executing" /\ CallOf(i) = ActionOf(r)
                            => UNCHANGED <<gate[i], task[i], call[i]>>,
             \A i \in Job : Carries(i, r) => Carries(i, r)'
      PROVE  Underway(r)'
  BY <1>2, <1>3, <1>5, StaysUnderway
\* The steps that change job j's place and leave the others and the tokens.
<1>6. ASSUME tokens' = tokens,
             \A i \in Job \ {j} : UNCHANGED <<task[i], origin[i], gate[i], call[i]>>,
             ~ (gate[j] = "executing" /\ CallOf(j) = ActionOf(r)),
             Carries(j, r) => Carries(j, r)'
      PROVE  Underway(r)'
  BY <1>3, <1>5, <1>6 DEF Carries
<1>7. CASE Begin(j)
  <2>1. UNCHANGED <<tokens, task, origin, call>> /\ gate' = [gate EXCEPT ![j] = "thinking"]
    BY <1>7 DEF Begin, StartRun, At, approvalVars, redisVars
  <2>2. gate[j] = "none"
    BY <1>7 DEF Begin, StartRun, TypeOK
  <2>3. Carries(j, r) => Carries(j, r)'
    BY <1>3, <2>1, <2>2 DEF Carries
  <2> QED
    BY <1>6, <2>1, <2>2, <2>3 DEF TypeOK
<1>8. CASE End(j) \/ Fail(j)
  <2>1. Acknowledge(j) /\ Leave(j) /\ tokens' = tokens
    BY <1>8 DEF End, EndRun, Fail, RunFails, approvalVars, redisVars
  <2>2. \A i \in Job \ {j} : UNCHANGED <<task[i], origin[i], gate[i], call[i]>>
    BY <2>1 DEF Acknowledge, Leave, At, TypeOK, SchedulerTypeOK
  <2>3. ~ (gate[j] = "executing" /\ CallOf(j) = ActionOf(r))
    BY <1>1, <1>8 DEF End, Fail, Wasted, GrantsOf
  <2>4. ~ Carries(j, r)
    <3>1. CASE End(j)
      BY <1>2, <3>1 DEF End, Carries
    <3>2. CASE Fail(j)
      BY <1>2, <3>2 DEF Fail, Carries
    <3> QED
      BY <1>8, <3>1, <3>2
  <2> QED
    BY <1>6, <2>1, <2>2, <2>3, <2>4
<1>9. CASE Lose(j)
  <2>1. Leave(j) /\ UNCHANGED <<tokens, task, origin>>
    BY <1>9 DEF Lose, LoseWorker, redisVars
  <2>2. \A i \in Job \ {j} : UNCHANGED <<task[i], origin[i], gate[i], call[i]>>
    BY <2>1 DEF Leave, At, TypeOK
  <2>3. ~ (gate[j] = "executing" /\ CallOf(j) = ActionOf(r))
    BY <1>1, <1>9 DEF Lose, Wasted, GrantsOf
  <2>4. Carries(j, r) => Carries(j, r)'
    BY <1>3, <2>1 DEF Carries, Leave, TypeOK
  <2> QED
    BY <1>6, <2>1, <2>2, <2>3, <2>4
<1>10. ASSUME NEW a \in Args, CheckApprovalGate(j, a) PROVE Underway(r)'
  <2>1. /\ gate[j] = "thinking" /\ call[j] = NoArgs
        /\ origin[j] \in Request => a = args[origin[j]]
        /\ UNCHANGED <<tokens, task, origin>>
        /\ call' = [call EXCEPT ![j] = a]
        /\ gate' = [gate EXCEPT ![j] = IF <<task[j], a>> \in tokens THEN "cleared"
                                       ELSE "asking"]
    BY <1>10 DEF CheckApprovalGate, At, schedulerVars, jobVars, redisVars
  <2>2. \A i \in Job \ {j} : UNCHANGED <<task[i], origin[i], gate[i], call[i]>>
    BY <2>1 DEF TypeOK
  <2>3. CASE ActionOf(r) \in tokens
    <3>1. Carries(j, r) => Carries(j, r)'
      BY <1>2, <1>3, <2>1, <2>3 DEF Carries, ActionOf, TypeOK
    <3> QED
      BY <1>6, <2>1, <2>2, <3>1
  <2>4. CASE ActionOf(r) \notin tokens
    <3>1. \/ \E c \in Answer : pc[c] = "committed" /\ about[c] = r
          \/ \E i \in Job : gate[i] = "executing" /\ CallOf(i) = ActionOf(r)
      BY <1>2, <2>4 DEF Underway
    <3>2. \A i \in Job : gate[i] = "executing" /\ CallOf(i) = ActionOf(r)
                         => gate'[i] = "executing" /\ CallOf(i)' = ActionOf(r)
      BY <2>1, <2>2 DEF CallOf
    <3> QED
      BY <1>3, <3>1, <3>2 DEF Underway
  <2> QED
    BY <2>3, <2>4
<1>11. CASE ConsumeToken(j)
  <2>1. /\ gate[j] = "cleared" /\ UNCHANGED <<task, origin, call>>
        /\ gate' = [gate EXCEPT ![j] = "executing"]
        /\ tokens' = tokens \ {CallOf(j)}
    BY <1>11 DEF ConsumeToken, At, schedulerVars, jobVars
  <2>2. CASE CallOf(j) = ActionOf(r)
    <3>1. gate'[j] = "executing" /\ CallOf(j)' = ActionOf(r)'
      BY <1>3, <2>1, <2>2 DEF CallOf, TypeOK
    <3> QED
      BY <3>1 DEF Underway
  <2>3. CASE CallOf(j) # ActionOf(r)
    <3>1. ~ Carries(j, r)
      BY <1>4, <2>1, <2>3 DEF Carries, CallOf, ActionOf, TypeOK
    <3>2. \A i \in Job : Carries(i, r) => Carries(i, r)'
      BY <1>3, <2>1, <3>1 DEF Carries, TypeOK
    <3>3. ActionOf(r) \in tokens => ActionOf(r) \in tokens'
      BY <2>1, <2>3
    <3>4. \A i \in Job : gate[i] = "executing" => UNCHANGED <<gate[i], task[i], call[i]>>
      BY <2>1 DEF TypeOK
    <3> QED
      BY <1>5, <3>2, <3>3, <3>4
  <2> QED
    BY <2>2, <2>3
<1>12. CASE ExecuteTool(j)
  <2>1. /\ gate[j] = "executing" /\ UNCHANGED <<task, origin, call, tokens>>
        /\ gate' = [gate EXCEPT ![j] = "thinking"]
        /\ served' = served \cup GrantsOf(CallOf(j))
    BY <1>12 DEF ExecuteTool, At, schedulerVars, jobVars, redisVars
  <2>2. CallOf(j) # ActionOf(r)
    BY <1>1, <2>1 DEF GrantsOf
  <2>3. Carries(j, r) => Carries(j, r)'
    BY <1>3, <2>1 DEF Carries, TypeOK
  <2> QED
    BY <1>6, <2>1, <2>2, <2>3 DEF TypeOK
<1>13. CASE CreateRequest(j) \/ Notify(j) \/ GateFails(j)
  <2>1. /\ gate[j] \in {"asking", "notifying"} /\ UNCHANGED <<task, origin, call, tokens>>
        /\ \A i \in Job \ {j} : gate'[i] = gate[i]
    BY <1>13 DEF CreateRequest, Notify, GateFails, At, schedulerVars, jobVars,
                 approvalVars, redisVars, TypeOK
  <2>2. Carries(j, r) => Carries(j, r)'
    BY <1>3, <2>1 DEF Carries
  <2> QED
    BY <1>6, <2>1, <2>2
<1>14. CASE TokenFails(j)
  <2>1. /\ gate[j] \in {"thinking", "cleared"} /\ UNCHANGED <<task, origin>>
        /\ \A i \in Job \ {j} : gate'[i] = gate[i] /\ call'[i] = call[i]
    BY <1>14 DEF TokenFails, At, jobVars, TypeOK
  <2>2. r \notin served /\ origin[j] # r
    BY <1>1, <1>2, <1>14 DEF TokenFails
  <2>3. ActionOf(r) \in tokens => ActionOf(r) \in tokens'
    BY <1>1, <1>14, <2>2 DEF TokenFails, GrantsOf
  <2>4. \A i \in Job : Carries(i, r) => Carries(i, r)'
    BY <1>3, <2>1, <2>2 DEF Carries
  <2> QED
    BY <1>5, <2>1, <2>3, <2>4
<1> QED
  BY <1>7, <1>8, <1>9, <1>10, <1>11, <1>12, <1>13, <1>14 DEF RunStep

LEMMA AnswerStepUnderway ==
  ASSUME TypeOK, ApprovalInvariant, NEW c \in Answer,
         \/ AnswerStep(c) \/ AnswerFails(c)
         \/ \E t \in Task : ReceiveReply(c, t)
         \/ \E r \in Request : ReadRequest(c, r),
         NEW r \in granted' \ (served' \cup spoiled')
  PROVE  Underway(r)'
<1> USE ApprovalsAssumption
<1>1. /\ UNCHANGED <<taskOf, args, runVars, running, served>>
      /\ spoiled \subseteq spoiled' /\ tokens \subseteq tokens'
      /\ \A j \in Job : task[j] # NoTask => task'[j] = task[j] /\ origin'[j] = origin[j]
  <2>1. CASE FireRun(c)
    <3>1. \E t, o : Queue(t, o)
      BY <2>1 DEF FireRun
    <3> QED
      BY <2>1, <3>1 DEF FireRun, Queue, TypeOK, SchedulerTypeOK, requestVars, redisVars,
                        historyVars
  <2>2. CASE \/ CommitDecision(c) \/ (\E t \in Task : ReceiveReply(c, t))
             \/ \E q \in Request : ReadRequest(c, q)
    BY <2>2 DEF CommitDecision, ReceiveReply, ReadRequest, schedulerVars, jobVars,
                requestVars, redisVars, historyVars
  <2>3. CASE LockRequest(c) \/ StoreExecutionToken(c) \/ FinishAnswer(c)
             \/ AnswerFails(c)
    BY <2>3 DEF LockRequest, StoreExecutionToken, FinishAnswer, AnswerFails,
                schedulerVars, jobVars, requestVars, redisVars, historyVars
  <2> QED
    BY <2>1, <2>2, <2>3 DEF AnswerStep
<1>2. CASE CommitDecision(c) /\ r \notin granted
  <2>1. r = about[c] /\ about' = about /\ pc' = [pc EXCEPT ![c] = "committed"]
    BY <1>2 DEF CommitDecision, Goto
  <2> QED
    BY <2>1 DEF Underway, TypeOK
<1>3. ASSUME r \in granted PROVE Underway(r)'
  <2>1. r \in Filed /\ r \in Request /\ Underway(r) /\ ActionOf(r)' = ActionOf(r)
    BY <1>1, <1>3 DEF ApprovalInvariant, NoApprovalForgotten, TypeOK, ActionOf, Filed
  <2>2. taskOf[r] \in Task /\ taskOf[r] # NoTask
    BY <2>1, ScheduledTasksAssumption DEF TypeOK
  <2>3. \A j \in Job : Carries(j, r) => Carries(j, r)'
    BY <1>1, <2>1, <2>2 DEF Carries, runVars
  <2>4. \A j \in Job : gate[j] = "executing" => UNCHANGED <<gate[j], task[j], call[j]>>
    <3>1. \A j \in Job : gate[j] = "executing" => task[j] # NoTask
      BY DEF TypeOK, SchedulerTypeOK
    <3> QED
      BY <1>1, <3>1 DEF runVars
  <2>5. ASSUME \A b \in Answer : /\ about[b] = r
                                 /\ \/ pc[b] = "committed"
                                    \/ pc[b] = "stored" /\ decision[b] = "approve"
                                 => UNCHANGED <<pc[b], about[b], decision[b]>>
        PROVE  Underway(r)'
    BY <1>1, <2>1, <2>3, <2>4, <2>5, StaysUnderway
  <2>6. CASE \/ LockRequest(c) \/ CommitDecision(c)
             \/ (\E t \in Task : ReceiveReply(c, t)) \/ \E q \in Request : ReadRequest(c, q)
    BY <2>5, <2>6 DEF LockRequest, CommitDecision, ReceiveReply, ReadRequest, Goto, TypeOK
  <2>7. CASE StoreExecutionToken(c)
    <3>1. /\ pc[c] = "committed" /\ pc' = [pc EXCEPT ![c] = "stored"]
          /\ UNCHANGED <<about, decision>> /\ ActionOf(about[c]) \in tokens'
      BY <2>7 DEF StoreExecutionToken, Goto
    <3>2. CASE about[c] = r
      <4>1. pc'[c] = "stored" /\ decision'[c] = "approve" /\ about'[c] = r
        BY <3>1, <3>2 DEF ApprovalInvariant, TypeOK
      <4> QED
        BY <2>1, <3>1, <3>2, <4>1 DEF Underway
    <3>3. CASE about[c] # r
      BY <2>5, <3>1, <3>3 DEF TypeOK
    <3> QED
      BY <3>2, <3>3
  <2>8. CASE FireRun(c)
    <3>1. CASE about[c] = r /\ decision[c] = "approve" /\ ActionOf(r) \in tokens
      <4>1. PICK j \in Job : /\ task[j] = NoTask
                             /\ task' = [task EXCEPT ![j] = taskOf[r]]
                             /\ origin' = [origin EXCEPT ![j] = r]
        BY <2>8, <3>1 DEF FireRun, Queue
      <4>2. call[j] = NoArgs
        BY <4>1 DEF ApprovalInvariant, TypeOK, SchedulerTypeOK
      <4>3. Carries(j, r)'
        BY <1>1, <4>1, <4>2 DEF Carries, runVars, TypeOK, SchedulerTypeOK
      <4> QED
        BY <1>1, <2>1, <3>1, <4>3 DEF Underway
    <3>2. CASE ~ (about[c] = r /\ decision[c] = "approve")
      <4>1. /\ pc[c] = "stored" /\ pc' = [pc EXCEPT ![c] = "answered"]
            /\ UNCHANGED <<about, decision>>
        BY <2>8 DEF FireRun, Goto
      <4> QED
        BY <2>5, <3>2, <4>1 DEF TypeOK
    <3>3. CASE ActionOf(r) \notin tokens
      <4>1. pc[c] = "stored" /\ pc' = [pc EXCEPT ![c] = "answered"] /\ about' = about
        BY <2>8 DEF FireRun, Goto
      <4>2. \A b \in Answer : pc[b] = "committed" => pc'[b] = "committed"
        BY <4>1 DEF TypeOK
      <4>3. \/ \E b \in Answer : pc[b] = "committed" /\ about[b] = r
            \/ \E j \in Job : gate[j] = "executing" /\ CallOf(j) = ActionOf(r)
        BY <2>1, <3>3 DEF Underway
      <4>4. \A j \in Job : gate[j] = "executing" /\ CallOf(j) = ActionOf(r)
                           => gate'[j] = "executing" /\ CallOf(j)' = ActionOf(r)
        BY <2>4 DEF CallOf
      <4> QED
        BY <2>1, <4>1, <4>2, <4>3, <4>4 DEF Underway
    <3> QED
      BY <3>1, <3>2, <3>3
  <2>9. CASE FinishAnswer(c)
    <3>1. pc[c] \notin {"committed", "stored"}
      BY <2>9 DEF FinishAnswer
    <3> QED
      BY <2>5, <2>9, <3>1 DEF FinishAnswer, Close, Goto, TypeOK
  <2>10. CASE AnswerFails(c)
    <3>1. pc[c] \in {"committed", "stored"} => about[c] # r
      BY <1>3, <2>10 DEF AnswerFails
    <3> QED
      BY <2>5, <2>10, <3>1 DEF AnswerFails, Close, Goto, TypeOK
  <2> QED
    BY <2>6, <2>7, <2>8, <2>9, <2>10 DEF AnswerStep
<1>4. ~ CommitDecision(c) => granted' = granted
  BY DEF AnswerStep, LockRequest, StoreExecutionToken, FireRun, FinishAnswer,
         AnswerFails, ReceiveReply, ReadRequest, historyVars
<1> QED
  BY <1>2, <1>3, <1>4

LEMMA StepApproval ==
  TypeOK /\ ApprovalInvariant /\ [Next]_vars => ApprovalInvariant'
<1> SUFFICES ASSUME TypeOK, ApprovalInvariant, [Next]_vars PROVE ApprovalInvariant'
  OBVIOUS
<1> USE ApprovalsAssumption
<1>1. NoApprovalForgotten'
  <2> SUFFICES ASSUME NEW r \in granted' \ (served' \cup spoiled') PROVE Underway(r)'
    BY DEF NoApprovalForgotten
  <2>1. ASSUME UNCHANGED <<runVars, answerVars, taskOf, args, granted, served>>,
               tokens' = tokens \/ r \notin granted
                 \/ (ActionOf(r) \in tokens => ActionOf(r) \in tokens'),
               spoiled \subseteq spoiled',
               \A j \in Job : task[j] # NoTask /\ origin[j] \in Request
                              => task'[j] = task[j] /\ origin'[j] = origin[j],
               \A j \in running : task'[j] = task[j]
        PROVE  Underway(r)'
    <3>1. r \in Filed /\ r \in Request /\ Underway(r)
      BY <2>1 DEF ApprovalInvariant, NoApprovalForgotten, TypeOK, Filed
    <3>2. taskOf[r] \in Task /\ taskOf[r] # NoTask
      BY <3>1, ScheduledTasksAssumption DEF TypeOK
    <3>3. \A j \in Job : Carries(j, r) => Carries(j, r)'
      BY <2>1, <3>1, <3>2 DEF Carries, runVars
    <3>4. \A j \in Job : gate[j] = "executing" => UNCHANGED <<gate[j], task[j], call[j]>>
      BY <2>1 DEF runVars, TypeOK
    <3> QED
      BY <2>1, <3>1, <3>3, <3>4, StaysUnderway DEF answerVars
  <2>2. CASE SchedulerStep
    BY <2>1, <2>2, SchedulerKeepsRuns, SchedulerKeepsApproved
       DEF SchedulerStep, TypeOK, approvalVars, requestVars, redisVars, historyVars
  <2>3. CASE \E p \in tokens : TokenExpires(p)
    <3>1. PICK p \in tokens : TokenExpires(p)
      BY <2>3
    <3>2. r \in granted => ActionOf(r) # p
      BY <3>1 DEF TokenExpires, GrantsOf
    <3> QED
      BY <2>1, <3>1, <3>2 DEF TokenExpires, requestVars, jobVars
  <2>4. CASE (\E q \in Request : Expire(q)) \/ (\E t \in Task : RoutingExpires(t))
             \/ UNCHANGED vars
    BY <2>1, <2>4 DEF Expire, RoutingExpires, vars, schedulerVars, jobVars, requestVars,
                      redisVars, historyVars
  <2> QED
    BY <2>2, <2>3, <2>4, RunStepUnderway, AnswerStepUnderway DEF Next
<1>2. \A j \in Job \ running' : call'[j] = NoArgs
  <2>1. CASE SchedulerStep
    BY <2>1, SchedulerKeepsRuns DEF SchedulerStep, TypeOK, ApprovalInvariant, runVars
  <2>2. ASSUME NEW j \in Job,
               RunStep(j) \/ Fail(j) \/ Lose(j) \/ GateFails(j) \/ TokenFails(j)
        PROVE  \A i \in Job \ running' : call'[i] = NoArgs
    <3>1. CASE End(j) \/ Fail(j) \/ Lose(j)
      <4>1. Leave(j) /\ running' = running \ {j}
        BY <3>1 DEF End, Fail, Lose, EndRun, RunFails, LoseWorker, Acknowledge
      <4> QED
        BY <4>1 DEF Leave, ApprovalInvariant, TypeOK
    <3>2. CASE Begin(j)
      BY <3>2 DEF Begin, StartRun, ApprovalInvariant
    <3>3. ASSUME NEW a \in Args, CheckApprovalGate(j, a)
          PROVE  \A i \in Job \ running' : call'[i] = NoArgs
      <4>1. j \in running /\ running' = running /\ call' = [call EXCEPT ![j] = a]
        BY <3>3 DEF CheckApprovalGate, schedulerVars, jobVars, TypeOK
      <4> QED
        BY <4>1 DEF ApprovalInvariant, TypeOK
    <3>4. CASE \/ ConsumeToken(j) \/ ExecuteTool(j) \/ CreateRequest(j) \/ Notify(j)
               \/ GateFails(j)
      BY <3>4 DEF ConsumeToken, ExecuteTool, CreateRequest, Notify, GateFails,
                  schedulerVars, jobVars, ApprovalInvariant
    <3>5. CASE TokenFails(j)
      <4>1. j \in running /\ running' = running /\ \A i \in Job \ {j} : call'[i] = call[i]
        BY <3>5 DEF TokenFails, jobVars, TypeOK
      <4> QED
        BY <4>1 DEF ApprovalInvariant
    <3> QED
      BY <2>2, <3>1, <3>2, <3>3, <3>4, <3>5 DEF RunStep
  <2>3. ASSUME NEW c \in Answer,
               \/ AnswerStep(c) \/ AnswerFails(c)
               \/ \E t \in Task : ReceiveReply(c, t)
               \/ \E r \in Request : ReadRequest(c, r)
        PROVE  UNCHANGED <<running, call>>
    <3>1. CASE FireRun(c)
      BY <3>1 DEF FireRun, Queue, runVars
    <3>2. CASE ~ FireRun(c)
      BY <2>3, <3>2 DEF AnswerStep, LockRequest, CommitDecision, StoreExecutionToken,
         FinishAnswer, AnswerFails, ReceiveReply, ReadRequest, schedulerVars, jobVars,
         runVars
    <3> QED
      BY <3>1, <3>2
  <2>4. CASE (\E q \in Request : Expire(q)) \/ (\E t \in Task : RoutingExpires(t))
             \/ (\E p \in tokens : TokenExpires(p)) \/ UNCHANGED vars
    BY <2>4 DEF Expire, RoutingExpires, TokenExpires, vars, schedulerVars, jobVars,
                runVars, ApprovalInvariant
  <2> QED
    BY <2>1, <2>2, <2>3, <2>4 DEF Next, ApprovalInvariant
<1>3. \A c \in Answer : pc'[c] = "committed" => decision'[c] = "approve"
  <2>1. ASSUME NEW c \in Answer, CommitDecision(c)
        PROVE  \A b \in Answer : pc'[b] = "committed" => decision'[b] = "approve"
    BY <2>1 DEF CommitDecision, Goto, ApprovalInvariant, TypeOK
  <2>2. ASSUME NEW c \in Answer,
               \/ LockRequest(c) \/ StoreExecutionToken(c) \/ FireRun(c)
               \/ FinishAnswer(c) \/ AnswerFails(c)
               \/ \E t \in Task : ReceiveReply(c, t)
               \/ \E r \in Request : ReadRequest(c, r)
        PROVE  \A b \in Answer : pc'[b] = "committed" => decision'[b] = "approve"
    BY <2>2 DEF LockRequest, StoreExecutionToken, FireRun, FinishAnswer, AnswerFails,
                ReceiveReply, ReadRequest, Close, Goto, ApprovalInvariant, TypeOK
  <2>3. ASSUME UNCHANGED answerVars
        PROVE  \A b \in Answer : pc'[b] = "committed" => decision'[b] = "approve"
    BY <2>3 DEF answerVars, ApprovalInvariant
  <2>4. CASE SchedulerStep \/ (\E q \in Request : Expire(q))
             \/ (\E t \in Task : RoutingExpires(t)) \/ (\E p \in tokens : TokenExpires(p))
             \/ UNCHANGED vars
    BY <2>3, <2>4 DEF SchedulerStep, Expire, RoutingExpires, TokenExpires, vars,
                      approvalVars
  <2> QED
    BY <2>1, <2>2, <2>3, <2>4, OthersKeepAnswers DEF Next, AnswerStep
<1> QED
  BY <1>1, <1>2, <1>3 DEF ApprovalInvariant

\* Until an approved action has run, or its approval is cut off, somebody goes on
\* with it: for any tasks, requests about the same call, answers and runs at once.
THEOREM ApprovalsKept == Spec => []NoApprovalForgotten
<1>1. Init => ApprovalInvariant
  BY DEF Init, SchedulerInit, ApprovalInvariant, NoApprovalForgotten
<1>2. ApprovalInvariant => NoApprovalForgotten
  BY DEF ApprovalInvariant
<1> QED
  BY <1>1, <1>2, InitTypeOK, StepTypeOK, StepApproval, PTL DEF Spec

===============================================================================
