------------------------------- MODULE Approvals -------------------------------
(***************************************************************************)
(* Human approvals of what autonomous tasks do                             *)
(* (services/human_approval_service.py and the gate in adk_tools.py), over *)
(* the scheduler and the runs of ScheduledTasks.                           *)
(*                                                                         *)
(* A run that calls a gated tool finds a token in Redis and goes on, or    *)
(* files a request and tells a human.  The human answers in the channel    *)
(* ("reply": Slack and WhatsApp messages, looked up by a routing key in    *)
(* Redis, handled with the request's row locked) or by a button or the     *)
(* dashboard ("respond": without a lock).  An approving answer is          *)
(* committed, then stores the token, then queues a run.                    *)
(***************************************************************************)
EXTENDS ScheduledTasks, FiniteSets

CONSTANTS
  Request,     \* bound: rows of agent_approval_requests
  Args,        \* arguments the agent calls the gated tool with
  Answer,      \* answers handled at the same time
  Channels,    \* how they arrive, a subset of {"reply", "respond"}
  Feedback,    \* the origin of a run with a feedback text
  NoRequest, NoArgs, NoAnswer

ASSUME ApprovalsAssumption ==
  /\ IsFiniteSet(Job) /\ IsFiniteSet(Answer)
  /\ Approval = Request /\ Feedback \in Origin \ Request
  /\ Channels \subseteq {"reply", "respond"}
  /\ NoRequest \notin Request /\ NoArgs \notin Args /\ NoAnswer \notin Answer

VARIABLES
  \* rows of agent_approval_requests, and who holds one FOR UPDATE
  status, taskOf, args,
  late,        \* the requests whose expires_at is over
  rowLock,
  \* Redis
  routing,     \* [Task -> the request a reply in its channel is about]
  tokens,      \* the keys approval_token:<task>:<tool>:<arguments>
  \* a run, and the tool call it is at
  gate, call,
  filed,       \* the request it has filed for the call
  \* an answer
  pc, via, about, decision,
  \* history and bounds
  granted,     \* the requests somebody approved
  approvals,   \* [Task \X Args -> approving answers committed]
  executed,    \* [Task \X Args -> times the tool ran]
  raced,       \* calls whose token two runs read before one deleted it
  served,      \* requests whose action ran after they were approved
  spoiled      \* requests the approval of which was cut off or came to nothing

requestVars == <<status, taskOf, args, late>>
redisVars   == <<routing, tokens>>
runVars     == <<gate, call, filed>>
answerVars  == <<pc, via, about, decision>>
historyVars == <<granted, approvals, executed, raced, served, spoiled>>
vars == <<schedulerVars, requestVars, rowLock, redisVars, runVars, answerVars,
          historyVars>>

Status   == {"none", "pending", "approved", "rejected", "expired"}
Gate     == {"none", "thinking", "cleared", "executing", "asking", "notifying"}
Label    == {"idle", "routed", "locked", "read", "committed", "stored", "answered"}
Decision == {"none", "approve", "reject", "feedback", "expire", "unclear", "leave"}

Filed == {r \in Request : status[r] # "none"}

TypeOK ==
  /\ SchedulerTypeOK
  /\ status \in [Request -> Status]
  /\ taskOf \in [Request -> Task \cup {NoTask}]
  /\ args \in [Request -> Args \cup {NoArgs}]
  /\ \A r \in Filed : taskOf[r] \in Task /\ args[r] \in Args
  /\ late \in SUBSET Filed
  /\ rowLock \in [Request -> Answer \cup {NoAnswer}]
  /\ routing \in [Task -> Filed \cup {NoRequest}]
  /\ tokens \in SUBSET (Task \X Args)
  /\ gate \in [Job -> Gate]
  /\ call \in [Job -> Args \cup {NoArgs}]
  /\ filed \in [Job -> Filed \cup {NoRequest}]
  /\ \A j \in Job : /\ gate[j] = "none" <=> j \notin running
                    /\ gate[j] \notin {"none", "thinking"} => call[j] \in Args
                    /\ gate[j] = "notifying" => filed[j] \in Filed
  /\ pc \in [Answer -> Label]
  /\ via \in [Answer -> {"reply", "respond"}]
  /\ about \in [Answer -> Filed \cup {NoRequest}]
  /\ decision \in [Answer -> Decision]
  /\ \A c \in Answer : /\ pc[c] # "idle" => about[c] \in Filed
                       /\ pc[c] \notin {"idle", "routed"} => decision[c] # "none"
  /\ granted \in SUBSET Filed
  /\ approvals \in [Task \X Args -> Nat]
  /\ executed \in [Task \X Args -> Nat]
  /\ raced \in SUBSET (Task \X Args)
  /\ served \in SUBSET Request
  /\ spoiled \in SUBSET Request

Init ==
  /\ SchedulerInit
  /\ status = [r \in Request |-> "none"]
  /\ taskOf = [r \in Request |-> NoTask]
  /\ args = [r \in Request |-> NoArgs]
  /\ late = {}
  /\ rowLock = [r \in Request |-> NoAnswer]
  /\ routing = [t \in Task |-> NoRequest]
  /\ tokens = {}
  /\ gate = [j \in Job |-> "none"]
  /\ call = [j \in Job |-> NoArgs]
  /\ filed = [j \in Job |-> NoRequest]
  /\ pc = [c \in Answer |-> "idle"]
  /\ via = [c \in Answer |-> "reply"]
  /\ about = [c \in Answer |-> NoRequest]
  /\ decision = [c \in Answer |-> "none"]
  /\ approvals = [p \in Task \X Args |-> 0]
  /\ executed = [p \in Task \X Args |-> 0]
  /\ granted = {} /\ raced = {} /\ served = {} /\ spoiled = {}

-------------------------------------------------------------------------------
\* Helpers.

\* Everything but the scheduler and the runs.
approvalVars == <<requestVars, rowLock, redisVars, answerVars, historyVars>>

Goto(c, l) == pc' = [pc EXCEPT ![c] = l]
At(j, g)   == gate' = [gate EXCEPT ![j] = g]

\* What a token is for, and what a request is about.
CallOf(j)    == <<task[j], call[j]>>
ActionOf(r)  == <<taskOf[r], args[r]>>
GrantsOf(p)  == {r \in granted : ActionOf(r) = p}

\* Mutant: a job that is cut off stays at its tool call.
LeaveAtCall(j) == UNCHANGED runVars

\* The run forgets its call.
Leave(j) == /\ At(j, "none")
            /\ call' = [call EXCEPT ![j] = NoArgs]
            /\ filed' = [filed EXCEPT ![j] = NoRequest]

\* What is lost with the run: its approval, and a token it has consumed.
Wasted(j) == IF gate[j] = "executing" THEN GrantsOf(CallOf(j)) \ served ELSE {}

-------------------------------------------------------------------------------
\* The scheduler, beside the approvals

SchedulerStep ==
  /\ \/ \E k \in Tick : \/ CheckScheduledTasks(k) \/ CommitSweep(k) \/ SweepFails(k)
                         \/ \E t \in Task : QueueDue(k, t) \/ QueueingFails(k, t)
     \/ \E j \in Job : SkipRun(j)
     \/ \E t \in Task : TimePasses(t) \/ SetActive(t) \/ Trigger(t)
  /\ UNCHANGED <<approvalVars, runVars>>

Begin(j) == /\ StartRun(j)
            /\ At(j, "thinking")
            /\ UNCHANGED <<approvalVars, call, filed>>

\* A run with an approval ends after the call the prompt tells it to make.
End(j) == /\ gate[j] = "thinking"
          /\ origin[j] \in Request => call[j] # NoArgs
          /\ EndRun(j)
          /\ Leave(j)
          /\ UNCHANGED approvalVars

Fail(j) == /\ RunFails(j)
           /\ Leave(j)
           /\ spoiled' = spoiled \cup Wasted(j) \cup ({origin[j]} \cap Request)
           /\ UNCHANGED <<requestVars, rowLock, redisVars, answerVars, granted,
                          approvals, executed, raced, served>>

Lose(j) == /\ LoseWorker(j)
           /\ Leave(j)
           /\ spoiled' = spoiled \cup Wasted(j)
           /\ UNCHANGED <<requestVars, rowLock, redisVars, answerVars, granted,
                          approvals, executed, raced, served>>

-------------------------------------------------------------------------------
\* _check_approval_gate

\* The agent calls the gated tool, and the token is looked up.
CheckApprovalGate(j, a) ==
  LET p == <<task[j], a>> IN
  /\ gate[j] = "thinking" /\ call[j] = NoArgs
  /\ origin[j] \in Request => a = args[origin[j]]
  /\ call' = [call EXCEPT ![j] = a]
  /\ At(j, IF p \in tokens THEN "cleared" ELSE "asking")
  /\ raced' = IF p \in tokens /\ \E i \in Job : gate[i] = "cleared" /\ CallOf(i) = p
            THEN raced \cup {p} ELSE raced
  /\ UNCHANGED <<schedulerVars, requestVars, rowLock, redisVars, filed, answerVars,
                 granted, approvals, executed, served, spoiled>>

\* Mutant: the token is not deleted.
KeepToken(j) ==
  /\ gate[j] = "cleared"
  /\ At(j, "executing")
  /\ UNCHANGED <<schedulerVars, call, filed, approvalVars>>

\* The token is deleted.
ConsumeToken(j) ==
  /\ gate[j] = "cleared"
  /\ tokens' = tokens \ {CallOf(j)}
  /\ At(j, "executing")
  /\ UNCHANGED <<schedulerVars, requestVars, rowLock, routing, call, filed,
                 answerVars, historyVars>>

\* The gate returns None, and execute_tool calls the tool.
ExecuteTool(j) ==
  /\ gate[j] = "executing"
  /\ executed' = [executed EXCEPT ![CallOf(j)] = @ + 1]
  /\ served' = served \cup GrantsOf(CallOf(j))
  /\ At(j, "thinking")
  /\ UNCHANGED <<schedulerVars, requestVars, rowLock, redisVars, call, filed,
                 answerVars, granted, approvals, raced, spoiled>>

\* create_and_notify commits a pending request.
CreateRequest(j) ==
  /\ gate[j] = "asking"
  /\ \E r \in Request :
       /\ status[r] = "none"
       /\ status' = [status EXCEPT ![r] = "pending"]
       /\ taskOf' = [taskOf EXCEPT ![r] = task[j]]
       /\ args' = [args EXCEPT ![r] = call[j]]
       /\ filed' = [filed EXCEPT ![j] = r]
  /\ At(j, "notifying")
  /\ UNCHANGED <<schedulerVars, late, rowLock, redisVars, call, answerVars,
                 historyVars>>

\* It stores the routing key, whatever that held, and sends the notification; the
\* tool's result tells the agent to wait.
Notify(j) ==
  /\ gate[j] = "notifying"
  /\ routing' = [routing EXCEPT ![task[j]] = filed[j]]
  /\ At(j, "thinking")
  /\ UNCHANGED <<schedulerVars, requestVars, rowLock, tokens, call, filed,
                 answerVars, historyVars>>

\* Redis fails at the GET or at the DELETE of the token, and execute_tool makes an
\* error of the tool of it: the run goes on without the call.  The DELETE may have
\* been executed.
TokenFails(j) ==
  /\ Spend("faults")
  /\ \/ /\ gate[j] = "thinking" /\ call[j] = NoArgs
        /\ \E a \in Args : /\ origin[j] \in Request => a = args[origin[j]]
                           /\ call' = [call EXCEPT ![j] = a]
        /\ UNCHANGED tokens
     \/ /\ gate[j] = "cleared"
        /\ tokens' \in {tokens, tokens \ {CallOf(j)}}
        /\ UNCHANGED call
  /\ At(j, "thinking")
  /\ spoiled' = spoiled \cup ({origin[j]} \cap Request)
                 \cup (IF tokens' = tokens THEN {} ELSE GrantsOf(CallOf(j)) \ served)
  /\ UNCHANGED <<active, due, tickVars, jobVars, answered, requestVars, rowLock,
                 routing, filed, answerVars, granted, approvals, executed, raced,
                 served>>

\* An error of the gate blocks the tool too (and so does the bound on requests).
GateFails(j) ==
  /\ gate[j] \in {"asking", "notifying"}
  /\ \/ Spend("faults")
     \/ /\ gate[j] = "asking" /\ \A r \in Request : status[r] # "none"
        /\ UNCHANGED budget
  /\ At(j, "thinking")
  /\ UNCHANGED <<active, due, tickVars, jobVars, answered, call, filed, approvalVars>>

-------------------------------------------------------------------------------
\* Time

\* expires_at is over.
Expire(r) ==
  /\ status[r] # "none" /\ r \notin late
  /\ late' = late \cup {r}
  /\ UNCHANGED <<schedulerVars, status, taskOf, args, rowLock, redisVars, runVars,
                 answerVars, historyVars>>

\* So is the time of the routing key, set a moment later.
RoutingExpires(t) ==
  /\ routing[t] \in late
  /\ routing' = [routing EXCEPT ![t] = NoRequest]
  /\ UNCHANGED <<schedulerVars, requestVars, rowLock, tokens, runVars, answerVars,
                 historyVars>>

\* Ten minutes after the approval the token is gone, whether or not a worker was
\* free for the run.
TokenExpires(p) ==
  /\ p \in tokens
  /\ Spend("faults")
  /\ tokens' = tokens \ {p}
  /\ spoiled' = spoiled \cup (GrantsOf(p) \ served)
  /\ UNCHANGED <<active, due, tickVars, jobVars, answered, requestVars, rowLock, routing,
                 runVars, answerVars, granted, approvals, executed, raced, served>>

-------------------------------------------------------------------------------
\* An answer

\* What is done about request r in the state it is read in.
Decisions(c, r) ==
  CASE r \in late /\ status[r] = "pending" -> {"expire"}
    [] r \in late \/ status[r] # "pending" -> {"leave"}
    [] OTHER -> {"approve", "reject", "feedback"}
                  \cup (IF via[c] = "reply" THEN {"unclear"} ELSE {})

\* A message arrives in the channel, and the routing key names a request.
ReceiveReply(c, t) ==
  /\ pc[c] = "idle" /\ "reply" \in Channels
  /\ Spend("answers")
  /\ routing[t] # NoRequest
  /\ Goto(c, "routed")
  /\ via' = [via EXCEPT ![c] = "reply"]
  /\ about' = [about EXCEPT ![c] = routing[t]]
  /\ UNCHANGED <<active, due, tickVars, jobVars, answered, requestVars, rowLock,
                 redisVars, runVars, decision, historyVars>>

\* Mutant: handle_reply reads the request without FOR UPDATE.
ReadForReply(c) ==
  /\ pc[c] = "routed"
  /\ Goto(c, "locked")
  /\ \E d \in Decisions(c, about[c]) : decision' = [decision EXCEPT ![c] = d]
  /\ UNCHANGED <<schedulerVars, requestVars, rowLock, redisVars, runVars, via, about,
                 historyVars>>

\* handle_reply reads the request FOR UPDATE and classifies the text.
LockRequest(c) ==
  /\ pc[c] = "routed"
  /\ rowLock[about[c]] = NoAnswer
  /\ rowLock' = [rowLock EXCEPT ![about[c]] = c]
  /\ Goto(c, "locked")
  /\ \E d \in Decisions(c, about[c]) : decision' = [decision EXCEPT ![c] = d]
  /\ UNCHANGED <<schedulerVars, requestVars, redisVars, runVars, via, about,
                 historyVars>>

\* respond_to_approval reads the request, without a lock.
ReadRequest(c, r) ==
  /\ pc[c] = "idle" /\ "respond" \in Channels
  /\ Spend("answers")
  /\ status[r] # "none"
  /\ Goto(c, "read")
  /\ via' = [via EXCEPT ![c] = "respond"]
  /\ about' = [about EXCEPT ![c] = r]
  /\ \E d \in Decisions(c, r) \ {"unclear"} : decision' = [decision EXCEPT ![c] = d]
  /\ UNCHANGED <<active, due, tickVars, jobVars, answered, requestVars, rowLock,
                 redisVars, runVars, historyVars>>

StatusAfter(d) == CASE d = "approve" -> "approved"
                    [] d \in {"reject", "feedback"} -> "rejected"
                    [] d = "expire" -> "expired"

\* The decision is committed, which ends the transaction and its lock.
CommitDecision(c) ==
  LET r == about[c]
      d == decision[c] IN
  /\ pc[c] \in {"locked", "read"} /\ d \notin {"leave", "unclear"}
  /\ rowLock[r] \in {c, NoAnswer}
  /\ rowLock' = [rowLock EXCEPT ![r] = NoAnswer]
  /\ status' = [status EXCEPT ![r] = StatusAfter(d)]
  /\ granted' = IF d = "approve" THEN granted \cup {r} ELSE granted
  /\ approvals' = IF d = "approve" THEN [approvals EXCEPT ![ActionOf(r)] = @ + 1]
                  ELSE approvals
  /\ Goto(c, CASE d = "approve" -> "committed" [] d = "feedback" -> "stored"
               [] OTHER -> "answered")
  /\ UNCHANGED <<schedulerVars, taskOf, args, late, redisVars, runVars, via, about,
                 decision, executed, raced, served, spoiled>>

\* Mutant: Redis cannot be reached, and the run is queued all the same.
GoOnWithoutToken(c) ==
  /\ pc[c] = "committed"
  /\ Goto(c, "stored")
  /\ UNCHANGED <<schedulerVars, requestVars, rowLock, redisVars, runVars, via, about,
                 decision, historyVars>>

StoreExecutionToken(c) ==
  /\ pc[c] = "committed"
  /\ tokens' = tokens \cup {ActionOf(about[c])}
  /\ Goto(c, "stored")
  /\ UNCHANGED <<schedulerVars, requestVars, rowLock, routing, runVars, via, about,
                 decision, historyVars>>

\* _fire_approved_run, _fire_feedback_run.
FireRun(c) ==
  /\ pc[c] = "stored"
  /\ Queue(taskOf[about[c]], IF decision[c] = "approve" THEN about[c] ELSE Feedback)
  /\ Goto(c, "answered")
  /\ UNCHANGED <<active, due, tickVars, budget, requestVars, rowLock, redisVars,
                 runVars, via, about, decision, historyVars>>

\* The answer is over: its session is closed.
Close(c) ==
  /\ Goto(c, "idle")
  /\ via' = [via EXCEPT ![c] = "reply"]
  /\ about' = [about EXCEPT ![c] = NoRequest]
  /\ decision' = [decision EXCEPT ![c] = "none"]
  /\ rowLock' = [rowLock EXCEPT ![about[c]] = IF @ = c THEN NoAnswer ELSE @]

\* A channel handler deletes the routing key, whichever request it names by now,
\* unless the text was unclear.
FinishAnswer(c) ==
  /\ \/ pc[c] = "answered"
     \/ pc[c] \in {"locked", "read"} /\ decision[c] \in {"leave", "unclear"}
  /\ routing' = IF via[c] = "reply" /\ decision[c] # "unclear"
                THEN [routing EXCEPT ![taskOf[about[c]]] = NoRequest] ELSE routing
  /\ Close(c)
  /\ UNCHANGED <<schedulerVars, requestVars, tokens, runVars, historyVars>>

\* An error, or the process is lost: what was committed stays.
AnswerFails(c) ==
  /\ pc[c] # "idle"
  /\ Spend("faults")
  /\ Close(c)
  /\ spoiled' = spoiled \cup (IF pc[c] \in {"committed", "stored"}
                              THEN {about[c]} \cap granted ELSE {})
  /\ UNCHANGED <<active, due, tickVars, jobVars, answered, requestVars, redisVars, runVars,
                 granted, approvals, executed, raced, served>>

-------------------------------------------------------------------------------
RunStep(j) ==
  \/ Begin(j) \/ End(j) \/ ConsumeToken(j) \/ ExecuteTool(j) \/ CreateRequest(j)
  \/ Notify(j) \/ \E a \in Args : CheckApprovalGate(j, a)

AnswerStep(c) == \/ LockRequest(c) \/ CommitDecision(c) \/ StoreExecutionToken(c)
                 \/ FireRun(c) \/ FinishAnswer(c)

Next ==
  \/ SchedulerStep
  \/ \E j \in Job : RunStep(j) \/ Fail(j) \/ Lose(j) \/ GateFails(j) \/ TokenFails(j)
  \/ \E r \in Request : Expire(r)
  \/ \E t \in Task : RoutingExpires(t)
  \/ \E p \in tokens : TokenExpires(p)
  \/ \E c \in Answer : \/ AnswerStep(c) \/ AnswerFails(c)
                       \/ \E t \in Task : ReceiveReply(c, t)
                       \/ \E r \in Request : ReadRequest(c, r)

Spec == Init /\ [][Next]_vars

\* The workers take the jobs and finish what they are at, beat ticks, and the
\* server finishes the answers it has begun.  Nobody needs to answer, nothing
\* needs to fail, and no task needs to become due.  SF: the queue is not bounded as
\* Job is, so that nobody waits for a place in it.
Fairness ==
  /\ \A k \in Tick :
       WF_vars(/\ \/ CheckScheduledTasks(k) \/ CommitSweep(k)
                  \/ \E t \in Task : QueueDue(k, t)
               /\ UNCHANGED <<approvalVars, runVars>>)
  /\ \A j \in Job :
       WF_vars(\/ RunStep(j) \/ GateFails(j)
               \/ SkipRun(j) /\ UNCHANGED <<approvalVars, runVars>>)
  /\ \A c \in Answer : WF_vars(AnswerStep(c)) /\ SF_vars(FireRun(c))

FairSpec == Spec /\ Fairness

-------------------------------------------------------------------------------
\* Properties

\* The tool runs with given arguments no more often than somebody approved them:
\* the token is used up by the call, whatever is delivered again, unless two runs
\* read it before one of them deletes it.
OncePerApproval ==
  \A p \in (Task \X Args) \ raced : executed[p] <= approvals[p]

\* A reply in the channel decides a pending request only: it never changes what
\* another answer has decided, since it reads the request under the row's lock.
RepliesNeverOverride ==
  [][\A c \in Answer :
       pc[c] = "locked" /\ pc'[c] # "locked" /\ status' # status
         => status[about[c]] = "pending"]_vars

\* Job j is a run for the approval r that has yet to use it.
Carries(j, r) == /\ task[j] = taskOf[r] /\ origin[j] = r
                 /\ call[j] = NoArgs \/ (gate[j] = "cleared" /\ call[j] = args[r])

\* The answer will store the token, a run has used the token up for the call, or
\* the token is there and the run for it, or the answer that will queue it.
Underway(r) ==
  \/ \E c \in Answer : pc[c] = "committed" /\ about[c] = r
  \/ \E j \in Job : gate[j] = "executing" /\ CallOf(j) = ActionOf(r)
  \/ /\ ActionOf(r) \in tokens
     /\ \/ \E c \in Answer : pc[c] = "stored" /\ about[c] = r /\ decision[c] = "approve"
        \/ \E j \in Job : Carries(j, r)

\* No approval is forgotten: until its action has run, or it is cut off, there is
\* always somebody who goes on with it, whatever other runs, answers and requests
\* for the same call do with the token they share.
NoApprovalForgotten == \A r \in granted \ (served \cup spoiled) : Underway(r)

\* What makes it inductive: a job that is not running is at no call, and only an
\* approving answer stores a token.
ApprovalInvariant ==
  /\ NoApprovalForgotten
  /\ \A j \in Job \ running : call[j] = NoArgs
  /\ \A c \in Answer : pc[c] = "committed" => decision[c] = "approve"

\* A due task is not marked as run, by a tick or by the end of a run, before it was
\* queued or run since it became due: a tick that commits its page late does not
\* swallow the instant that came meanwhile.
DueUntilQueued ==
  [][\A t \in Task : due[t] /\ ~due'[t] => t \in answered']_vars

\* What makes that inductive.
MarkedWereQueued == \A k \in Tick : marked[k] \ outdated[k] \subseteq answered

\* What was approved is done, paused task or not, unless the approval was cut off,
\* the token ran out, or the run was lost with the token in its hand.
ApprovedActionRuns ==
  \A r \in Request : r \in granted ~> r \in served \cup spoiled

\* A due task is queued, whatever happens to a tick; TimePasses is not fair, so
\* its next instant does not make up for a lost one.
DueTaskQueued ==
  \A t \in Task :
    due[t] /\ active[t] ~> ~active[t] \/ t \in answered
===============================================================================
