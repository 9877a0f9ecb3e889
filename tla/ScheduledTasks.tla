---------------------------- MODULE ScheduledTasks ----------------------------
(***************************************************************************)
(* The scheduler of tasks/scheduled_tasks.py: Celery beat sends            *)
(* check_scheduled_tasks every minute, which queues the tasks that are due *)
(* as jobs execute_scheduled_task; the workers run the jobs and acknowledge *)
(* them late.  What one run does is the business of the modules that extend *)
(* this one; here it is a job that is running, ends, or is cut off.        *)
(*                                                                         *)
(* The clock is abstracted to due[t]: last_run_at plus the interval, or    *)
(* the next instant of the cron expression after it, is not after now.     *)
(***************************************************************************)
EXTENDS Naturals

CONSTANTS
  Task,        \* the rows of scheduled_tasks, of one page of the sweep
  Tick,        \* executions of check_scheduled_tasks at the same time
  Job,         \* bound: messages execute_scheduled_task at the same time
  Origin,      \* what a job may have been queued with
  Scheduled,   \* the job has neither an approval nor a feedback text
  Approval,    \* the origins that are the identifier of an approval
  NoTask,      \* the slot of a job is free
  Budgets      \* bound: how much may happen, one of these records

\* Broker and database errors, lost workers and tokens that run out; tasks that
\* users pause, resume or start; answers of humans.
Budget == [faults : Nat, toggles : Nat, answers : Nat]

ASSUME ScheduledTasksAssumption ==
  /\ Scheduled \in Origin \ Approval /\ Approval \subseteq Origin
  /\ NoTask \notin Task
  /\ Budgets \subseteq Budget

VARIABLES
  active,   \* ScheduledTask.is_active
  due,      \* what _is_task_due_sync says of the row as it is committed
  sweep,    \* [Tick -> SweepLabel]
  page,     \* the due tasks a tick has read and not come to yet
  marked,   \* those whose last_run_at it has set, and not committed
  outdated, \* those of them that are due again since
  task,     \* [Job -> the task of the message, or NoTask]
  origin,   \* the approval_id of the message, feedback, or Scheduled
  running,  \* the jobs a worker is at; the others wait in the queue
  answered, \* history: tasks queued, or run to an end, since they were last due
  budget    \* how much more may happen

tickVars  == <<sweep, page, marked, outdated>>
jobVars   == <<task, origin, running>>
schedulerVars == <<active, due, tickVars, jobVars, answered, budget>>

SweepLabel == {"idle", "sweeping"}

SchedulerTypeOK ==
  /\ active \in [Task -> BOOLEAN]
  /\ due \in [Task -> BOOLEAN]
  /\ sweep \in [Tick -> SweepLabel]
  /\ page \in [Tick -> SUBSET Task]
  /\ marked \in [Tick -> SUBSET Task]
  /\ outdated \in [Tick -> SUBSET Task]
  /\ \A k \in Tick : outdated[k] \subseteq marked[k]
  /\ \A k \in Tick : sweep[k] = "idle" => page[k] = {} /\ marked[k] = {}
  /\ task \in [Job -> Task \cup {NoTask}]
  /\ origin \in [Job -> Origin]
  /\ running \in SUBSET {j \in Job : task[j] # NoTask}
  /\ answered \in SUBSET Task
  /\ budget \in Budget

SchedulerInit ==
  /\ active = [t \in Task |-> TRUE]
  /\ due = [t \in Task |-> TRUE]      \* never run
  /\ sweep = [k \in Tick |-> "idle"]
  /\ page = [k \in Tick |-> {}]
  /\ marked = [k \in Tick |-> {}]
  /\ outdated = [k \in Tick |-> {}]
  /\ task = [j \in Job |-> NoTask]
  /\ origin = [j \in Job |-> Scheduled]
  /\ running = {}
  /\ answered = {}
  /\ budget \in Budgets

-------------------------------------------------------------------------------
Spend(kind) == /\ budget[kind] > 0
               /\ budget' = [budget EXCEPT ![kind] = @ - 1]

\* execute_scheduled_task.delay.
Queue(t, o) ==
  \E j \in Job : /\ task[j] = NoTask
                 /\ task' = [task EXCEPT ![j] = t]
                 /\ origin' = [origin EXCEPT ![j] = o]
                 /\ UNCHANGED running
                 /\ answered' = answered \cup {t}

\* The message is acknowledged.
Acknowledge(j) ==
  /\ task' = [task EXCEPT ![j] = NoTask]
  /\ origin' = [origin EXCEPT ![j] = Scheduled]
  /\ running' = running \ {j}

-------------------------------------------------------------------------------
\* check_scheduled_tasks

\* The page of active tasks is read, with the instant all of them are compared
\* to.  A tick that finds none of them due changes nothing.
CheckScheduledTasks(k) ==
  /\ sweep[k] = "idle"
  /\ \E t \in Task : active[t] /\ due[t]
  /\ sweep' = [sweep EXCEPT ![k] = "sweeping"]
  /\ page' = [page EXCEPT ![k] = {t \in Task : active[t] /\ due[t]}]
  /\ UNCHANGED <<active, due, marked, outdated, jobVars, answered, budget>>

\* Mutant: the task is marked before it is queued, and queueing it fails.
MarkThenQueue(k, t) ==
  /\ t \in page[k]
  /\ Spend("faults")
  /\ page' = [page EXCEPT ![k] = @ \ {t}]
  /\ marked' = [marked EXCEPT ![k] = @ \cup {t}]
  /\ UNCHANGED <<active, due, sweep, outdated, jobVars, answered>>

\* A due task is queued, then marked in the session.
QueueDue(k, t) ==
  /\ t \in page[k]
  /\ Queue(t, Scheduled)
  /\ page' = [page EXCEPT ![k] = @ \ {t}]
  /\ marked' = [marked EXCEPT ![k] = @ \cup {t}]
  /\ UNCHANGED <<active, due, sweep, outdated, budget>>

\* The broker cannot be reached: the task is passed over, and not marked.
QueueingFails(k, t) ==
  /\ t \in page[k]
  /\ Spend("faults")
  /\ page' = [page EXCEPT ![k] = @ \ {t}]
  /\ UNCHANGED <<active, due, sweep, marked, outdated, jobVars, answered>>

\* Mutant: an instant that came during the sweep is overwritten.
CommitOldSweep(k) ==
  /\ sweep[k] = "sweeping" /\ page[k] = {}
  /\ due' = [t \in Task |-> due[t] /\ t \notin marked[k]]
  /\ sweep' = [sweep EXCEPT ![k] = "idle"]
  /\ marked' = [marked EXCEPT ![k] = {}]
  /\ outdated' = [outdated EXCEPT ![k] = {}]
  /\ UNCHANGED <<active, page, jobVars, answered, budget>>

\* The marks of the page are committed together.
CommitSweep(k) ==
  /\ sweep[k] = "sweeping" /\ page[k] = {}
  /\ due' = [t \in Task |-> t \in outdated[k] \/ (due[t] /\ t \notin marked[k])]
  /\ sweep' = [sweep EXCEPT ![k] = "idle"]
  /\ marked' = [marked EXCEPT ![k] = {}]
  /\ outdated' = [outdated EXCEPT ![k] = {}]
  /\ UNCHANGED <<active, page, jobVars, answered, budget>>

\* An error or a lost worker: the marks are rolled back, the jobs are queued.
SweepFails(k) ==
  /\ sweep[k] = "sweeping"
  /\ Spend("faults")
  /\ sweep' = [sweep EXCEPT ![k] = "idle"]
  /\ page' = [page EXCEPT ![k] = {}]
  /\ marked' = [marked EXCEPT ![k] = {}]
  /\ outdated' = [outdated EXCEPT ![k] = {}]
  /\ UNCHANGED <<active, due, jobVars, answered>>

-------------------------------------------------------------------------------
\* execute_scheduled_task

\* Mutant: a paused task runs for nobody.
RunnableWhenActive(j) == active[task[j]]

\* A paused task runs for an approval only; a feedback text does not count.
Runnable(j) == active[task[j]] \/ origin[j] \in Approval

\* A worker takes a message and records the execution.
StartRun(j) ==
  /\ task[j] # NoTask /\ j \notin running
  /\ Runnable(j)
  /\ running' = running \cup {j}
  /\ UNCHANGED <<active, due, tickVars, task, origin, answered, budget>>

SkipRun(j) ==
  /\ task[j] # NoTask /\ j \notin running
  /\ ~Runnable(j)
  /\ Acknowledge(j)
  /\ UNCHANGED <<active, due, tickVars, answered, budget>>

\* The run ends, well or with an error: last_run_at is now, and Celery is told.
EndRun(j) ==
  /\ j \in running
  /\ due' = [due EXCEPT ![task[j]] = FALSE]
  /\ answered' = answered \cup {task[j]}
  /\ Acknowledge(j)
  /\ UNCHANGED <<active, tickVars, budget>>

\* An error before the execution is recorded, or while its end is: last_run_at
\* keeps its value, and Celery is told all the same.
RunFails(j) ==
  /\ j \in running
  /\ Spend("faults")
  /\ Acknowledge(j)
  /\ UNCHANGED <<active, due, tickVars, answered>>

\* The worker is lost: task_acks_late and task_reject_on_worker_lost put the
\* message back.
LoseWorker(j) ==
  /\ j \in running
  /\ Spend("faults")
  /\ running' = running \ {j}
  /\ UNCHANGED <<active, due, tickVars, task, origin, answered>>

-------------------------------------------------------------------------------
\* Time and users

\* The next instant of the task comes, after every last_run_at there is.
TimePasses(t) ==
  /\ ~due[t] \/ \E k \in Tick : t \in marked[k] \ outdated[k]
  /\ due' = [due EXCEPT ![t] = TRUE]
  /\ outdated' = [k \in Tick |-> outdated[k] \cup ({t} \cap marked[k])]
  /\ answered' = answered \ {t}
  /\ UNCHANGED <<active, sweep, page, marked, jobVars, budget>>

\* The task is paused or resumed (PUT .../autonomous, toggle_task_status).
SetActive(t) ==
  /\ Spend("toggles")
  /\ active' = [active EXCEPT ![t] = ~@]
  /\ UNCHANGED <<due, tickVars, jobVars, answered>>

\* An immediate run (POST .../trigger and .../execute).
Trigger(t) ==
  /\ Spend("toggles")
  /\ Queue(t, Scheduled)
  /\ UNCHANGED <<active, due, tickVars>>
===============================================================================
