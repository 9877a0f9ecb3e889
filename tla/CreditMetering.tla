---------------------------- MODULE CreditMetering ----------------------------
(***************************************************************************)
(* How the assistant messages of one tenant are billed: the chat process   *)
(* queues a deduction for a message it has saved (chat_service.py), Celery *)
(* workers of the billing queue execute it (tasks/billing_tasks.py,        *)
(* services/billing/credit_service.py), and a nightly run looks for what   *)
(* slipped through (reconcile_credits_daily).                              *)
(*                                                                         *)
(* A worker's action is the code from one database or broker call to the   *)
(* next; a transaction takes effect in the action that commits it.         *)
(***************************************************************************)
EXTENDS Integers, Sequences, FiniteSets

CONSTANTS
  Msg,             \* assistant messages of one tenant, answered by one agent
  Worker,          \* Celery workers of the billing queue
  NoWorker, NoJob, \* nobody holds the row lock; the worker has no job
  BaseCost,        \* ActionType.get_credit_cost
  Markup,          \* AgentPricing.credits_per_use
  InitialCredits, TopUpAmount,
  MaxRetries,      \* max_retries of deduct_credits_async
  Period,          \* minutes between two nightly runs (1440)
  Grace, Window,   \* a missing deduction is looked for at this age (60, 1440)
  Limit,           \* LIMIT of the query for missing deductions (100)
  Instants,        \* bound: the minutes of the day at which things happen
  MaxErrors,       \* bound: failed database calls
  MaxOutages,      \* bound: failed calls to the broker or to Redis
  MaxKills,        \* bound: jobs killed by the hard time limit
  MaxCrashes,      \* bound: worker processes lost
  MaxTopUps        \* bound: top-ups

Cost == BaseCost + Markup

ASSUME CreditMeteringAssumption ==
  /\ NoWorker \notin Worker
  /\ BaseCost \in Nat /\ Markup \in Nat
  /\ InitialCredits \in Nat /\ TopUpAmount \in Nat
  /\ MaxRetries \in Nat /\ Limit \in Nat
  /\ Period \in Nat /\ Grace \in Nat /\ Window \in Nat
  /\ Instants \subseteq 1..Period /\ Period \in Instants
  /\ MaxErrors \in Nat /\ MaxOutages \in Nat /\ MaxKills \in Nat
  /\ MaxCrashes \in Nat /\ MaxTopUps \in Nat

VARIABLES
  clock,         \* minutes since the last nightly run
  chat,          \* what the chat process is doing with each message
  age,           \* minutes since a message was saved, up to Window
  balance,       \* the CreditBalance row
  rowLock,       \* the worker whose transaction holds that row FOR UPDATE
  transactions,  \* CreditTransaction rows of type USAGE; their key is UNIQUE
  revenue,       \* AgentRevenue rows, in the order of their creation
  totalUses,     \* AgentPricing.total_uses
  queue,         \* how many times each job is in the billing queue
  pc, job,       \* what each worker is doing, and for which job
  seen,          \* the balance a worker has read
  uses,          \* the total_uses a worker has read
  failed,        \* sorted set billing:failed_deductions, with the entries' ages
  reconcile,     \* where the nightly run is
  todoFailed,    \* failed deductions it has still to queue again
  removing,      \* the failed deduction it has queued and not yet removed
  todoMissing,   \* missing deductions it has still to queue
  lost,          \* history: messages a repair of which was lost since the run began
  budget         \* how many more errors, outages, ... may happen

chatVars   == <<chat, age>>
ledgerVars == <<balance, rowLock, transactions>>
payVars    == <<revenue, totalUses>>
workerVars == <<pc, job, seen, uses>>
runVars    == <<reconcile, todoFailed, removing, todoMissing>>
vars == <<clock, chatVars, ledgerVars, payVars, queue, workerVars, failed,
          runVars, lost, budget>>

Job     == [msg : Msg, retries : 0..MaxRetries]
Balance == [total : Nat, used : Nat, available : Int]
Failure == [msg : Msg, age : 0..Grace]
Budget  == [errors : Nat, outages : Nat, kills : Nat, crashes : Nat, topups : Nat]
Label   == {"idle", "began", "locked", "charged", "failed", "ack"}

NothingSeen == [total |-> 0, used |-> 0, available |-> 0]

TypeOK ==
  /\ clock \in Instants
  /\ chat \in [Msg -> {"none", "answering", "saved", "done"}]
  /\ age \in [Msg -> 0..Window]
  /\ balance \in Balance
  /\ rowLock \in Worker \cup {NoWorker}
  /\ transactions \in SUBSET [key : Msg, msg : Msg]
  /\ revenue \in Seq(Msg)
  /\ totalUses \in Nat
  /\ queue \in [Job -> Nat]
  /\ pc \in [Worker -> Label]
  /\ job \in [Worker -> Job \cup {NoJob}]
  /\ \A w \in Worker : pc[w] # "idle" => job[w] \in Job
  /\ seen \in [Worker -> Balance]
  /\ uses \in [Worker -> Nat]
  /\ failed \in SUBSET Failure
  /\ reconcile \in {"idle", "start", "failed", "missing"}
  /\ todoFailed \in SUBSET Failure
  /\ removing \in SUBSET Failure
  /\ todoMissing \in SUBSET Msg
  /\ lost \in SUBSET Msg
  /\ budget \in Budget

Init ==
  /\ clock \in Instants \ {Period}
  /\ chat = [m \in Msg |-> "none"]
  /\ age = [m \in Msg |-> 0]
  /\ balance = [total |-> InitialCredits, used |-> 0, available |-> InitialCredits]
  /\ rowLock = NoWorker
  /\ transactions = {}
  /\ revenue = <<>>
  /\ totalUses = 0
  /\ queue = [j \in Job |-> 0]
  /\ pc = [w \in Worker |-> "idle"]
  /\ job = [w \in Worker |-> NoJob]
  /\ seen = [w \in Worker |-> NothingSeen]
  /\ uses = [w \in Worker |-> 0]
  /\ failed = {}
  /\ reconcile = "idle"
  /\ todoFailed = {}
  /\ removing = {}
  /\ todoMissing = {}
  /\ lost = {}
  /\ budget = [errors |-> MaxErrors, outages |-> MaxOutages, kills |-> MaxKills,
               crashes |-> MaxCrashes, topups |-> MaxTopUps]

-------------------------------------------------------------------------------
\* Helpers.

Spend(kind) == /\ budget[kind] > 0
               /\ budget' = [budget EXCEPT ![kind] = @ - 1]

\* Mutant: the key names the attempt and not the message.
KeyOfAttempt(j) == j

\* The idempotency key of a job: its message, in every retry and every repair.
IdempotencyKey(j) == j.msg

\* The query of the idempotency check.
Processed(j) == \E t \in transactions : t.key = IdempotencyKey(j)

\* Mutant: the price is compared with the credits ever given.
AffordableInTotal(credits) == credits.total >= Cost

Affordable(credits) == credits.available >= Cost

Charged(m) == \E t \in transactions : t.msg = m

\* The first attempt of a job, and the attempt after job j.
FirstAttempt(m) == [msg |-> m, retries |-> 0]
NextAttempt(j)  == [msg |-> j.msg, retries |-> j.retries + 1]

\* An entry of billing:failed_deductions.
Failed(m, minutes) == [msg |-> m, age |-> minutes]

\* deduct_credits_async.delay()
Delay(m) == queue' = [queue EXCEPT ![FirstAttempt(m)] = @ + 1]

\* The transaction of worker w ends; only a commit changes the balance.
Unlock(w) == rowLock' = IF rowLock = w THEN NoWorker ELSE rowLock

\* Worker w has done with its job.
Rest(w) == /\ pc' = [pc EXCEPT ![w] = "idle"]
           /\ job' = [job EXCEPT ![w] = NoJob]
           /\ seen' = [seen EXCEPT ![w] = NothingSeen]
           /\ uses' = [uses EXCEPT ![w] = 0]

-------------------------------------------------------------------------------
\* The chat process

\* validate_credits: a plain read, for the base cost only.
Validate(m) ==
  /\ chat[m] = "none"
  /\ balance.total - balance.used >= BaseCost
  /\ chat' = [chat EXCEPT ![m] = "answering"]
  /\ UNCHANGED <<clock, age, ledgerVars, payVars, queue, workerVars, failed,
                 runVars, lost, budget>>

\* The answer is streamed and the message is saved as COMPLETED.
Save(m) ==
  /\ chat[m] = "answering"
  /\ clock # Period
  /\ chat' = [chat EXCEPT ![m] = "saved"]
  /\ UNCHANGED <<clock, age, ledgerVars, payVars, queue, workerVars, failed,
                 runVars, lost, budget>>

\* queue_credit_deduction.
QueueDeduction(m) ==
  /\ chat[m] = "saved"
  /\ chat' = [chat EXCEPT ![m] = "done"]
  /\ Delay(m)
  /\ UNCHANGED <<clock, age, ledgerVars, payVars, workerVars, failed, runVars,
                 lost, budget>>

\* The stream ends between the save and the queueing (the client is gone, an
\* error), or the broker refuses the job and the exception is swallowed.
SkipDeduction(m) ==
  /\ chat[m] = "saved"
  /\ chat' = [chat EXCEPT ![m] = "done"]
  /\ UNCHANGED <<clock, age, ledgerVars, payVars, queue, workerVars, failed,
                 runVars, lost, budget>>

\* add_credits, which holds the row lock from its read to its commit.
TopUp ==
  /\ rowLock = NoWorker
  /\ Spend("topups")
  /\ balance' = [total     |-> balance.total + TopUpAmount,
                 used      |-> balance.used,
                 available |-> balance.total + TopUpAmount - balance.used]
  /\ UNCHANGED <<clock, chatVars, rowLock, transactions, payVars, queue,
                 workerVars, failed, runVars, lost>>

-------------------------------------------------------------------------------
\* deduct_credits_async, in a billing worker

\* A job is delivered, not yet acknowledged; the agent's pricing row is read and
\* stays in the session with the totals it has now.
Take(w) ==
  /\ pc[w] = "idle"
  /\ \E j \in Job :
       /\ queue[j] > 0
       /\ queue' = [queue EXCEPT ![j] = @ - 1]
       /\ job' = [job EXCEPT ![w] = j]
  /\ pc' = [pc EXCEPT ![w] = "began"]
  /\ uses' = [uses EXCEPT ![w] = totalUses]
  /\ UNCHANGED <<clock, chatVars, ledgerVars, payVars, seen, failed, runVars,
                 lost, budget>>

\* Mutant: a SELECT without FOR UPDATE.
ReadBalance(w) ==
  /\ pc[w] = "began"
  /\ rowLock' = w
  /\ seen' = [seen EXCEPT ![w] = balance]
  /\ pc' = [pc EXCEPT ![w] = "locked"]
  /\ UNCHANGED <<clock, chatVars, balance, transactions, payVars, queue, job,
                 uses, failed, runVars, lost, budget>>

\* SELECT ... FOR UPDATE: waits for the lock and reads the row.
LockBalance(w) ==
  /\ pc[w] = "began"
  /\ rowLock = NoWorker
  /\ rowLock' = w
  /\ seen' = [seen EXCEPT ![w] = balance]
  /\ pc' = [pc EXCEPT ![w] = "locked"]
  /\ UNCHANGED <<clock, chatVars, balance, transactions, payVars, queue, job,
                 uses, failed, runVars, lost, budget>>

\* The job has passed both checks, and its transaction is committed.
Deductible(w) == ~Processed(job[w]) /\ Affordable(seen[w])

Commit(w) ==
  LET spent == seen[w].used + Cost IN
  /\ balance' = [total     |-> seen[w].total,
                 used      |-> spent,
                 available |-> seen[w].total - spent]
  /\ transactions' =
       transactions \cup {[key |-> IdempotencyKey(job[w]), msg |-> job[w].msg]}

\* Mutant: a job that was processed before goes on to the creator's revenue.
DeductAndAlwaysPay(w) ==
  /\ pc[w] = "locked"
  /\ Unlock(w)
  /\ IF Deductible(w) THEN Commit(w) ELSE UNCHANGED <<balance, transactions>>
  /\ pc' = [pc EXCEPT ![w] = "charged"]
  /\ UNCHANGED <<clock, chatVars, payVars, queue, job, seen, uses, failed,
                 runVars, lost, budget>>

\* The rest of deduct_credits_idempotent: None when the message was processed
\* before or the credits do not suffice, otherwise the transaction.
Deduct(w) ==
  /\ pc[w] = "locked"
  /\ Unlock(w)
  /\ IF Deductible(w)
     THEN Commit(w) /\ pc' = [pc EXCEPT ![w] = "charged"]
     ELSE UNCHANGED <<balance, transactions>> /\ pc' = [pc EXCEPT ![w] = "ack"]
  /\ UNCHANGED <<clock, chatVars, payVars, queue, job, seen, uses, failed,
                 runVars, lost, budget>>

\* A database call raises.  When it was the COMMIT, or the refresh after it, the
\* transaction may have been committed all the same.
DeductFails(w) ==
  /\ pc[w] \in {"began", "locked"}
  /\ Spend("errors")
  /\ Unlock(w)
  /\ \/ UNCHANGED <<balance, transactions>>
     \/ pc[w] = "locked" /\ Deductible(w) /\ Commit(w)
  /\ pc' = [pc EXCEPT ![w] = "failed"]
  /\ UNCHANGED <<clock, chatVars, payVars, queue, job, seen, uses, failed,
                 runVars, lost>>

\* record_agent_usage writes back the totals it read with the job.
RecordAgentUsage(w) ==
  /\ pc[w] = "charged"
  /\ revenue' = Append(revenue, job[w].msg)
  /\ totalUses' = uses[w] + 1
  /\ pc' = [pc EXCEPT ![w] = "ack"]
  /\ UNCHANGED <<clock, chatVars, ledgerVars, queue, job, seen, uses, failed,
                 runVars, lost, budget>>

\* An error there is swallowed.
RecordingFails(w) ==
  /\ pc[w] = "charged"
  /\ Spend("errors")
  /\ pc' = [pc EXCEPT ![w] = "ack"]
  /\ UNCHANGED <<clock, chatVars, ledgerVars, payVars, queue, job, seen, uses,
                 failed, runVars, lost>>

\* self.retry() for an error that looks transient publishes the next attempt.
Retry(w) ==
  /\ pc[w] = "failed"
  /\ job[w].retries < MaxRetries
  /\ queue' = [queue EXCEPT ![NextAttempt(job[w])] = @ + 1]
  /\ pc' = [pc EXCEPT ![w] = "ack"]
  /\ UNCHANGED <<clock, chatVars, ledgerVars, payVars, job, seen, uses, failed,
                 runVars, lost, budget>>

\* _store_failed_deduction, for a permanent error or after the last attempt.
StoreFailedDeduction(w) ==
  /\ pc[w] = "failed"
  /\ failed' = failed \cup {Failed(job[w].msg, 0)}
  /\ pc' = [pc EXCEPT ![w] = "ack"]
  /\ UNCHANGED <<clock, chatVars, ledgerVars, payVars, queue, job, seen, uses,
                 runVars, lost, budget>>

\* The broker refuses the next attempt, or Redis the failed deduction.
FailureIsLost(w) ==
  /\ pc[w] = "failed"
  /\ Spend("outages")
  /\ lost' = lost \cup {job[w].msg}
  /\ pc' = [pc EXCEPT ![w] = "ack"]
  /\ UNCHANGED <<clock, chatVars, ledgerVars, payVars, queue, job, seen, uses,
                 failed, runVars>>

\* The job is acknowledged, after its work (acks_late).
Acknowledge(w) ==
  /\ pc[w] = "ack"
  /\ Rest(w)
  /\ UNCHANGED <<clock, chatVars, ledgerVars, payVars, queue, failed, runVars,
                 lost, budget>>

\* The hard time limit kills the job, which is acknowledged.
Kill(w) ==
  /\ pc[w] \notin {"idle", "ack"}
  /\ Spend("kills")
  /\ Unlock(w)
  /\ lost' = lost \cup {job[w].msg}
  /\ Rest(w)
  /\ UNCHANGED <<clock, chatVars, balance, transactions, payVars, queue, failed,
                 runVars>>

\* The worker's process is lost and the job is delivered again.
Crash(w) ==
  /\ pc[w] # "idle"
  /\ Spend("crashes")
  /\ Unlock(w)
  /\ queue' = [queue EXCEPT ![job[w]] = @ + 1]
  /\ Rest(w)
  /\ UNCHANGED <<clock, chatVars, balance, transactions, payVars, failed,
                 runVars, lost>>

-------------------------------------------------------------------------------
\* reconcile_credits_daily

\* _process_failed_deductions selects the failed deductions older than the
\* grace period; if Redis does not answer it goes on with none.
SelectFailedDeductions ==
  /\ reconcile = "start"
  /\ reconcile' = "failed"
  /\ \/ todoFailed' = {f \in failed : f.age >= Grace} /\ UNCHANGED budget
     \/ todoFailed' = {} /\ Spend("outages")
  /\ UNCHANGED <<clock, chatVars, ledgerVars, payVars, queue, workerVars, failed,
                 removing, todoMissing, lost>>

\* Mutant: an entry leaves the set even if it could not be queued again.
RequeueOrDrop ==
  /\ reconcile = "failed"
  /\ removing = {}
  /\ \E f \in todoFailed :
       /\ todoFailed' = todoFailed \ {f}
       /\ removing' = {f}
       /\ \/ Delay(f.msg) /\ UNCHANGED budget
          \/ Spend("outages") /\ UNCHANGED queue
  /\ UNCHANGED <<clock, chatVars, ledgerVars, payVars, workerVars, failed,
                 reconcile, todoMissing, lost>>

\* Each of them is queued again; one that cannot be stays for the next run.
RequeueFailedDeduction ==
  /\ reconcile = "failed"
  /\ removing = {}
  /\ \E f \in todoFailed :
       /\ todoFailed' = todoFailed \ {f}
       /\ \/ Delay(f.msg) /\ removing' = {f} /\ UNCHANGED budget
          \/ Spend("outages") /\ UNCHANGED <<queue, removing>>
  /\ UNCHANGED <<clock, chatVars, ledgerVars, payVars, workerVars, failed,
                 reconcile, todoMissing, lost>>

\* Then it is removed from the set, if Redis answers.
RemoveFailedDeduction ==
  /\ removing # {}
  /\ removing' = {}
  /\ \/ failed' = failed \ removing /\ UNCHANGED budget
     \/ Spend("outages") /\ UNCHANGED failed
  /\ UNCHANGED <<clock, chatVars, ledgerVars, payVars, queue, workerVars,
                 reconcile, todoFailed, todoMissing, lost>>

\* Mutant: the query looks at the last twelve hours only.
MissingInHalfADay ==
  {m \in Msg : /\ chat[m] \in {"saved", "done"}
               /\ Grace < age[m] /\ age[m] < Window \div 2
               /\ ~Charged(m)}

\* The query of _find_missing_deductions, before its LIMIT.
Missing ==
  {m \in Msg : /\ chat[m] \in {"saved", "done"}
               /\ Grace < age[m] /\ age[m] < Window
               /\ ~Charged(m)}

\* An error of the query leaves nothing to queue.
FindMissingDeductions ==
  /\ reconcile = "failed"
  /\ todoFailed = {} /\ removing = {}
  /\ reconcile' = "missing"
  /\ \/ /\ todoMissing' \in SUBSET Missing
        /\ \/ Cardinality(todoMissing') = Limit
           \/ Cardinality(todoMissing') < Limit /\ todoMissing' = Missing
        /\ UNCHANGED <<lost, budget>>
     \/ /\ todoMissing' = {}
        /\ lost' = lost \cup Missing
        /\ Spend("errors")
  /\ UNCHANGED <<clock, chatVars, ledgerVars, payVars, queue, workerVars, failed,
                 todoFailed, removing>>

RequeueMissingDeduction ==
  /\ reconcile = "missing"
  /\ \E m \in todoMissing :
       /\ todoMissing' = todoMissing \ {m}
       /\ \/ Delay(m) /\ UNCHANGED <<lost, budget>>
          \/ Spend("outages") /\ lost' = lost \cup {m} /\ UNCHANGED queue
  /\ UNCHANGED <<clock, chatVars, ledgerVars, payVars, workerVars, failed,
                 reconcile, todoFailed, removing>>

FinishRun ==
  /\ reconcile = "missing"
  /\ todoMissing = {}
  /\ reconcile' = "idle"
  /\ UNCHANGED <<clock, chatVars, ledgerVars, payVars, queue, workerVars, failed,
                 todoFailed, removing, todoMissing, lost, budget>>

\* The run's worker is lost, or an error makes the task retry: from the start.
RestartRun ==
  /\ reconcile \in {"failed", "missing"}
  /\ Spend("crashes")
  /\ reconcile' = "start"
  /\ todoFailed' = {}
  /\ removing' = {}
  /\ todoMissing' = {}
  /\ UNCHANGED <<clock, chatVars, ledgerVars, payVars, queue, workerVars, failed,
                 lost>>

-------------------------------------------------------------------------------
\* Time

Min2(a, b) == IF a <= b THEN a ELSE b

\* i is the next of the instants; the day starts anew after Period.
Upcoming == LET later == {i \in Instants : i > clock} IN
            IF later = {} THEN Instants ELSE later
IsNext(i) == i \in Upcoming /\ \A j \in Upcoming : i <= j
Elapsed(i) == IF i > clock THEN i - clock ELSE i + Period - clock

\* Time passes to the next instant; the beat schedule starts the nightly run.
Tick ==
  /\ reconcile = "idle"
  /\ \E i \in Instants :
       /\ IsNext(i)
       /\ clock' = i
       /\ age' = [m \in Msg |-> IF chat[m] \in {"saved", "done"}
                                THEN Min2(age[m] + Elapsed(i), Window) ELSE age[m]]
       /\ failed' = {Failed(f.msg, Min2(f.age + Elapsed(i), Grace)) : f \in failed}
       /\ IF i = Period THEN reconcile' = "start" /\ lost' = {}
                        ELSE UNCHANGED <<reconcile, lost>>
  /\ UNCHANGED <<chat, ledgerVars, payVars, queue, workerVars, todoFailed,
                 removing, todoMissing, budget>>

-------------------------------------------------------------------------------
ChatStep(m) == \/ Validate(m) \/ Save(m) \/ QueueDeduction(m) \/ SkipDeduction(m)
JobStep(w)  == \/ Take(w) \/ LockBalance(w) \/ Deduct(w) \/ RecordAgentUsage(w)
               \/ Retry(w) \/ StoreFailedDeduction(w) \/ Acknowledge(w)
RunStep     == \/ SelectFailedDeductions \/ RequeueFailedDeduction
               \/ RemoveFailedDeduction \/ FindMissingDeductions
               \/ RequeueMissingDeduction \/ FinishRun

Next ==
  \/ \E m \in Msg : ChatStep(m)
  \/ TopUp
  \/ \E w \in Worker :
       \/ JobStep(w)
       \/ DeductFails(w) \/ RecordingFails(w) \/ FailureIsLost(w)
       \/ Kill(w) \/ Crash(w)
  \/ RunStep \/ RestartRun
  \/ Tick

Spec == Init /\ [][Next]_vars

\* The workers work, the nightly run goes on and time passes.  Nothing obliges a
\* chat to go on, nor errors, outages, kills, crashes or top-ups to happen.
Fairness == /\ \A w \in Worker : WF_vars(JobStep(w))
            /\ WF_vars(RunStep)
            /\ WF_vars(Tick)

FairSpec == Spec /\ Fairness

-------------------------------------------------------------------------------
\* Safety

\* A message is charged once, although its job may be delivered again, retried,
\* repaired from the failed set and found missing, all at the same time.
ChargedOnce ==
  \A t, u \in transactions : t.msg = u.msg => t = u

\* The row of the balance agrees with the transactions: no charge is lost to a
\* concurrent one or to a top-up, and the computed column follows.
LedgerMatches ==
  /\ balance.used = Cost * Cardinality(transactions)
  /\ balance.available = balance.total - balance.used

\* Charges never exceed the credits, although validate_credits lets concurrent
\* chats through on the same credits and for less than the full price.
NeverOverdrawn == balance.used <= balance.total

\* The creator of the agent is paid for charged messages only, and once for each,
\* although the payment is a transaction of its own.
RevenueOnce ==
  /\ \A i, k \in DOMAIN revenue : revenue[i] = revenue[k] => i = k
  /\ \A i \in DOMAIN revenue : Charged(revenue[i])

\* What CreditLedger promises.
Ledger == INSTANCE CreditLedger
            WITH total <- balance.total, used <- balance.used,
                 charged <- {t.msg : t \in transactions}
LedgerSpec == Ledger!Spec

-------------------------------------------------------------------------------
\* Liveness

\* A message need not be charged while the credits do not suffice, and will not
\* be when the nightly run's own repair was lost.
Settled(m) == Charged(m) \/ balance.available < Cost \/ m \in lost

\* The nightly run repairs what was not charged: a message that is more than an
\* hour and less than a day old when the run starts, and not too many of them.
DueMessagesCharged ==
  \A m \in Msg :
    (reconcile = "start" /\ chat[m] \in {"saved", "done"}
       /\ Grace < age[m] /\ age[m] < Window) ~> Settled(m)

\* A deduction stored as failed is charged in the end, however old its message.
FailedDeductionsCharged ==
  \A m \in Msg : (\E f \in failed : f.msg = m) ~> Settled(m)
===============================================================================
