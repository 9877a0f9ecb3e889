------------------------- MODULE CreditMeteringProofs -------------------------
(***************************************************************************)
(* What TLAPS proves of CreditMetering, for every number of messages,      *)
(* workers, retries, failures and credits: its type invariant, that it     *)
(* implements CreditLedger, and the safety properties of the ledger and of *)
(* the creator's revenue.                                                  *)
(***************************************************************************)
EXTENDS CreditMetering, FiniteSetTheorems, TLAPS

-------------------------------------------------------------------------------
\* Types.

\* The price of a message is a number.
LEMMA CostType == Cost \in Nat
  BY CreditMeteringAssumption DEF Cost

\* The initial states have their types.
LEMMA InitTypeOK == Init => TypeOK
  BY CreditMeteringAssumption DEF Init, TypeOK, Balance, Budget, Job, Label, NothingSeen

\* Spending keeps the type of the budget.
LEMMA SpendType ==
  ASSUME budget \in Budget,
         NEW kind \in {"errors", "outages", "kills", "crashes", "topups"},
         Spend(kind)
  PROVE  budget' \in Budget
  BY DEF Spend, Budget

\* A job queued anew keeps the type of the queue.
LEMMA DelayType ==
  ASSUME queue \in [Job -> Nat], NEW m \in Msg, Delay(m)
  PROVE  queue' \in [Job -> Nat]
<1>1. FirstAttempt(m) \in Job
  BY CreditMeteringAssumption DEF FirstAttempt, Job
<1> QED
  BY <1>1 DEF Delay

\* The chat process and the top-ups.
LEMMA ChatStepType ==
  ASSUME TypeOK, NEW m \in Msg, ChatStep(m)
  PROVE  TypeOK'
<1>1. queue' \in [Job -> Nat]
  BY DelayType DEF ChatStep, Validate, Save, QueueDeduction, SkipDeduction, TypeOK
<1>2. chat' \in [Msg -> {"none", "answering", "saved", "done"}]
  BY DEF ChatStep, Validate, Save, QueueDeduction, SkipDeduction, TypeOK
<1> QED
  BY <1>1, <1>2
  DEF ChatStep, Validate, Save, QueueDeduction, SkipDeduction, TypeOK,
      ledgerVars, payVars, workerVars, runVars

\* A top-up keeps the types.
LEMMA TopUpType ==
  ASSUME TypeOK, TopUp
  PROVE  TypeOK'
<1>1. budget' \in Budget
  BY SpendType DEF TopUp, TypeOK
<1>2. balance' \in Balance
  BY CreditMeteringAssumption DEF TopUp, TypeOK, Balance
<1> QED
  BY <1>1, <1>2 DEF TopUp, TypeOK, chatVars, payVars, workerVars, runVars

\* A committed deduction keeps the types of the balance and of the transactions.
LEMMA CommitType ==
  ASSUME TypeOK, NEW w \in Worker, pc[w] = "locked", Commit(w)
  PROVE  /\ balance' \in Balance
         /\ transactions' \in SUBSET [key : Msg, msg : Msg]
<1>1. seen[w] \in Balance /\ job[w] \in Job
  BY DEF TypeOK
<1>2. seen[w].used + Cost \in Nat
  BY <1>1, CostType DEF Balance
<1>3. seen[w].total - (seen[w].used + Cost) \in Int /\ seen[w].total \in Nat
  BY <1>1, <1>2 DEF Balance
<1>4. balance' \in Balance
  BY <1>2, <1>3 DEF Commit, Balance
<1>5. IdempotencyKey(job[w]) \in Msg /\ job[w].msg \in Msg
  BY <1>1 DEF IdempotencyKey, Job
<1>6. [key |-> IdempotencyKey(job[w]), msg |-> job[w].msg] \in [key : Msg, msg : Msg]
  BY <1>5
<1>7. transactions' \in SUBSET [key : Msg, msg : Msg]
  BY <1>6 DEF Commit, TypeOK
<1> QED
  BY <1>4, <1>7

\* The end of a job keeps the types of the worker's variables.
LEMMA RestType ==
  ASSUME TypeOK, NEW w \in Worker, Rest(w)
  PROVE  /\ pc' \in [Worker -> Label]
         /\ job' \in [Worker -> Job \cup {NoJob}]
         /\ \A v \in Worker : pc'[v] # "idle" => job'[v] \in Job
         /\ seen' \in [Worker -> Balance]
         /\ uses' \in [Worker -> Nat]
  BY DEF Rest, TypeOK, Label, NothingSeen, Balance

\* The steps of a worker that does its job keep the types.
LEMMA JobStepType ==
  ASSUME TypeOK, NEW w \in Worker, JobStep(w)
  PROVE  TypeOK'
<1>1. CASE Take(w)
  <2>1. PICK j \in Job : /\ queue' = [queue EXCEPT ![j] = @ - 1]
                         /\ queue[j] > 0
                         /\ job' = [job EXCEPT ![w] = j]
    BY <1>1 DEF Take
  <2>2. queue' \in [Job -> Nat]
    BY <2>1 DEF TypeOK
  <2>3. /\ pc' \in [Worker -> Label]
        /\ job' \in [Worker -> Job \cup {NoJob}]
        /\ \A v \in Worker : pc'[v] # "idle" => job'[v] \in Job
        /\ uses' \in [Worker -> Nat]
    BY <1>1, <2>1 DEF Take, TypeOK, Label
  <2> QED
    BY <1>1, <2>2, <2>3 DEF Take, TypeOK, chatVars, ledgerVars, payVars, runVars
<1>2. CASE LockBalance(w)
  BY <1>2 DEF LockBalance, TypeOK, Label, chatVars, payVars, runVars
<1>3. CASE Deduct(w)
  <2>1. /\ balance' \in Balance
        /\ transactions' \in SUBSET [key : Msg, msg : Msg]
    BY <1>3, CommitType DEF Deduct, TypeOK
  <2>2. rowLock' \in Worker \cup {NoWorker}
    BY <1>3 DEF Deduct, Unlock, TypeOK
  <2>3. /\ pc' \in [Worker -> Label]
        /\ \A v \in Worker : pc'[v] # "idle" => pc[v] # "idle"
    BY <1>3 DEF Deduct, TypeOK, Label
  <2> QED
    BY <1>3, <2>1, <2>2, <2>3 DEF Deduct, TypeOK, chatVars, payVars, runVars
<1>4. CASE RecordAgentUsage(w)
  <2>1. job[w].msg \in Msg
    BY <1>4 DEF RecordAgentUsage, TypeOK, Job
  <2>2. revenue' \in Seq(Msg) /\ totalUses' \in Nat
    BY <1>4, <2>1 DEF RecordAgentUsage, TypeOK
  <2>3. /\ pc' \in [Worker -> Label]
        /\ \A v \in Worker : pc'[v] # "idle" => pc[v] # "idle"
    BY <1>4 DEF RecordAgentUsage, TypeOK, Label
  <2> QED
    BY <1>4, <2>2, <2>3 DEF RecordAgentUsage, TypeOK, chatVars, ledgerVars, runVars
<1>5. CASE Retry(w)
  <2>1. job[w] \in Job
    BY <1>5 DEF Retry, TypeOK
  <2>2. NextAttempt(job[w]) \in Job
    BY <1>5, <2>1, CreditMeteringAssumption DEF Retry, Job, NextAttempt
  <2>3. queue' \in [Job -> Nat]
    BY <1>5, <2>2 DEF Retry, TypeOK
  <2>4. /\ pc' \in [Worker -> Label]
        /\ \A v \in Worker : pc'[v] # "idle" => pc[v] # "idle"
    BY <1>5 DEF Retry, TypeOK, Label
  <2> QED
    BY <1>5, <2>3, <2>4 DEF Retry, TypeOK, chatVars, ledgerVars, payVars, runVars
<1>6. CASE StoreFailedDeduction(w)
  <2>1. job[w] \in Job
    BY <1>6 DEF StoreFailedDeduction, TypeOK
  <2>2. Failed(job[w].msg, 0) \in Failure
    BY <2>1, CreditMeteringAssumption DEF Failed, Job, Failure
  <2>3. /\ pc' \in [Worker -> Label]
        /\ \A v \in Worker : pc'[v] # "idle" => pc[v] # "idle"
    BY <1>6 DEF StoreFailedDeduction, TypeOK, Label
  <2> QED
    BY <1>6, <2>2, <2>3
    DEF StoreFailedDeduction, TypeOK, chatVars, ledgerVars, payVars, runVars
<1>7. CASE Acknowledge(w)
  BY <1>7, RestType
  DEF Acknowledge, TypeOK, chatVars, ledgerVars, payVars, runVars
<1> QED
  BY <1>1, <1>2, <1>3, <1>4, <1>5, <1>6, <1>7 DEF JobStep

\* The failures of a worker.
LEMMA FaultType ==
  ASSUME TypeOK, NEW w \in Worker,
         \/ DeductFails(w) \/ RecordingFails(w) \/ FailureIsLost(w)
         \/ Kill(w) \/ Crash(w)
  PROVE  TypeOK'
<1>1. CASE DeductFails(w)
  <2>1. /\ balance' \in Balance
        /\ transactions' \in SUBSET [key : Msg, msg : Msg]
    BY <1>1, CommitType DEF DeductFails, TypeOK
  <2>2. rowLock' \in Worker \cup {NoWorker} /\ budget' \in Budget
    BY <1>1, SpendType DEF DeductFails, Unlock, TypeOK
  <2>3. /\ pc' \in [Worker -> Label]
        /\ \A v \in Worker : pc'[v] # "idle" => pc[v] # "idle"
    BY <1>1 DEF DeductFails, TypeOK, Label
  <2> QED
    BY <1>1, <2>1, <2>2, <2>3 DEF DeductFails, TypeOK, chatVars, payVars, runVars
<1>2. CASE RecordingFails(w)
  <2>1. budget' \in Budget
    BY <1>2, SpendType DEF RecordingFails, TypeOK
  <2>2. /\ pc' \in [Worker -> Label]
        /\ \A v \in Worker : pc'[v] # "idle" => pc[v] # "idle"
    BY <1>2 DEF RecordingFails, TypeOK, Label
  <2> QED
    BY <1>2, <2>1, <2>2
    DEF RecordingFails, TypeOK, chatVars, ledgerVars, payVars, runVars
<1>3. CASE FailureIsLost(w)
  <2>1. budget' \in Budget
    BY <1>3, SpendType DEF FailureIsLost, TypeOK
  <2>2. /\ pc' \in [Worker -> Label]
        /\ \A v \in Worker : pc'[v] # "idle" => pc[v] # "idle"
    BY <1>3 DEF FailureIsLost, TypeOK, Label
  <2>3. lost' \in SUBSET Msg
    BY <1>3 DEF FailureIsLost, TypeOK, Job
  <2> QED
    BY <1>3, <2>1, <2>2, <2>3
    DEF FailureIsLost, TypeOK, chatVars, ledgerVars, payVars, runVars
<1>4. CASE Kill(w)
  <2>1. rowLock' \in Worker \cup {NoWorker} /\ budget' \in Budget
    BY <1>4, SpendType DEF Kill, Unlock, TypeOK
  <2>2. lost' \in SUBSET Msg
    BY <1>4 DEF Kill, TypeOK, Job
  <2> QED
    BY <1>4, <2>1, <2>2, RestType DEF Kill, TypeOK, chatVars, payVars, runVars
<1>5. CASE Crash(w)
  <2>1. rowLock' \in Worker \cup {NoWorker} /\ budget' \in Budget
    BY <1>5, SpendType DEF Crash, Unlock, TypeOK
  <2>2. queue' \in [Job -> Nat]
    BY <1>5 DEF Crash, TypeOK
  <2> QED
    BY <1>5, <2>1, <2>2, RestType DEF Crash, TypeOK, chatVars, payVars, runVars
<1> QED
  BY <1>1, <1>2, <1>3, <1>4, <1>5

\* The nightly run.
LEMMA RunStepType ==
  ASSUME TypeOK, RunStep \/ RestartRun
  PROVE  TypeOK'
<1>1. CASE SelectFailedDeductions
  <2>1. budget' \in Budget
    BY <1>1, SpendType DEF SelectFailedDeductions, TypeOK
  <2>2. todoFailed' \in SUBSET Failure
    BY <1>1 DEF SelectFailedDeductions, TypeOK
  <2> QED
    BY <1>1, <2>1, <2>2
    DEF SelectFailedDeductions, TypeOK, chatVars, ledgerVars, payVars, workerVars
<1>2. CASE RequeueFailedDeduction
  <2>1. PICK f \in todoFailed :
          /\ todoFailed' = todoFailed \ {f}
          /\ \/ Delay(f.msg) /\ removing' = {f} /\ UNCHANGED budget
             \/ Spend("outages") /\ UNCHANGED <<queue, removing>>
    BY <1>2 DEF RequeueFailedDeduction
  <2>2. f \in Failure /\ f.msg \in Msg
    BY <2>1 DEF TypeOK, Failure
  <2>3. queue' \in [Job -> Nat] /\ budget' \in Budget
    BY <2>1, <2>2, DelayType, SpendType DEF TypeOK
  <2>4. removing' \in SUBSET Failure /\ todoFailed' \in SUBSET Failure
    BY <2>1, <2>2 DEF TypeOK
  <2> QED
    BY <1>2, <2>3, <2>4
    DEF RequeueFailedDeduction, TypeOK, chatVars, ledgerVars, payVars, workerVars
<1>3. CASE RemoveFailedDeduction
  <2>1. budget' \in Budget
    BY <1>3, SpendType DEF RemoveFailedDeduction, TypeOK
  <2> QED
    BY <1>3, <2>1
    DEF RemoveFailedDeduction, TypeOK, chatVars, ledgerVars, payVars, workerVars
<1>4. CASE FindMissingDeductions
  <2>1. budget' \in Budget
    BY <1>4, SpendType DEF FindMissingDeductions, TypeOK
  <2>2. todoMissing' \in SUBSET Msg /\ lost' \in SUBSET Msg
    BY <1>4 DEF FindMissingDeductions, Missing, TypeOK
  <2> QED
    BY <1>4, <2>1, <2>2
    DEF FindMissingDeductions, TypeOK, chatVars, ledgerVars, payVars, workerVars
<1>5. CASE RequeueMissingDeduction
  <2>1. PICK m \in todoMissing :
          /\ todoMissing' = todoMissing \ {m}
          /\ \/ Delay(m) /\ UNCHANGED <<lost, budget>>
             \/ Spend("outages") /\ lost' = lost \cup {m} /\ UNCHANGED queue
    BY <1>5 DEF RequeueMissingDeduction
  <2>2. m \in Msg
    BY <2>1 DEF TypeOK
  <2>3. queue' \in [Job -> Nat] /\ budget' \in Budget
    BY <2>1, <2>2, DelayType, SpendType DEF TypeOK
  <2>4. todoMissing' \in SUBSET Msg /\ lost' \in SUBSET Msg
    BY <2>1, <2>2 DEF TypeOK
  <2> QED
    BY <1>5, <2>3, <2>4
    DEF RequeueMissingDeduction, TypeOK, chatVars, ledgerVars, payVars, workerVars
<1>6. CASE FinishRun
  BY <1>6 DEF FinishRun, TypeOK, chatVars, ledgerVars, payVars, workerVars
<1>7. CASE RestartRun
  <2>1. budget' \in Budget
    BY <1>7, SpendType DEF RestartRun, TypeOK
  <2> QED
    BY <1>7, <2>1
    DEF RestartRun, TypeOK, chatVars, ledgerVars, payVars, workerVars
<1> QED
  BY <1>1, <1>2, <1>3, <1>4, <1>5, <1>6, <1>7 DEF RunStep

\* Ages grow up to the limit that the queries look at.
LEMMA TickType ==
  ASSUME TypeOK, Tick
  PROVE  TypeOK'
<1>1. PICK i \in Instants :
        /\ clock' = i
        /\ age' = [m \in Msg |-> IF chat[m] \in {"saved", "done"}
                                 THEN Min2(age[m] + Elapsed(i), Window) ELSE age[m]]
        /\ failed' = {Failed(f.msg, Min2(f.age + Elapsed(i), Grace)) : f \in failed}
        /\ IF i = Period THEN reconcile' = "start" /\ lost' = {}
                         ELSE UNCHANGED <<reconcile, lost>>
  BY DEF Tick
<1>2. /\ i \in Int /\ clock \in Int /\ 1 <= i /\ clock <= Period
      /\ Period \in Nat /\ Grace \in Nat /\ Window \in Nat
  BY CreditMeteringAssumption DEF TypeOK
<1>3. Elapsed(i) \in Nat
  BY <1>2 DEF Elapsed
<1>4. ASSUME NEW x \in Nat, NEW bound \in Nat
      PROVE  Min2(x + Elapsed(i), bound) \in 0..bound
  BY <1>3 DEF Min2
<1>5. age' \in [Msg -> 0..Window]
  <2>1. ASSUME NEW m \in Msg
        PROVE  Min2(age[m] + Elapsed(i), Window) \in 0..Window /\ age[m] \in 0..Window
    <3>1. age[m] \in 0..Window
      BY DEF TypeOK
    <3>2. age[m] \in Nat
      BY <1>2, <3>1
    <3> QED
      BY <1>2, <1>4, <3>1, <3>2
  <2> QED
    BY <1>1, <2>1
<1>6. failed' \in SUBSET Failure
  <2>1. ASSUME NEW f \in failed
        PROVE  Failed(f.msg, Min2(f.age + Elapsed(i), Grace)) \in Failure
    <3>1. f.msg \in Msg /\ f.age \in Nat
      BY <1>2, <2>1 DEF TypeOK, Failure
    <3>2. Min2(f.age + Elapsed(i), Grace) \in 0..Grace
      BY <1>2, <1>4, <3>1
    <3> QED
      BY <3>1, <3>2 DEF Failed, Failure
  <2> QED
    BY <1>1, <2>1
<1>7. reconcile' \in {"idle", "start", "failed", "missing"} /\ lost' \in SUBSET Msg
  BY <1>1 DEF TypeOK
<1> QED
  BY <1>1, <1>5, <1>6, <1>7
  DEF Tick, TypeOK, ledgerVars, payVars, workerVars

\* Every step keeps the types.
LEMMA NextTypeOK == TypeOK /\ [Next]_vars => TypeOK'
<1> SUFFICES ASSUME TypeOK, [Next]_vars
             PROVE  TypeOK'
  OBVIOUS
<1>1. CASE Next
  BY <1>1, ChatStepType, TopUpType, JobStepType, FaultType, RunStepType, TickType
  DEF Next
<1>2. CASE UNCHANGED vars
  BY <1>2
  DEF TypeOK, vars, chatVars, ledgerVars, payVars, workerVars, runVars
<1> QED
  BY <1>1, <1>2

\* The type invariant of the billing of a tenant's messages.
THEOREM TypeCorrect == Spec => []TypeOK
  BY InitTypeOK, NextTypeOK, PTL DEF Spec

-------------------------------------------------------------------------------
\* The ledger and the revenue.

\* Whoever has passed the SELECT ... FOR UPDATE holds the row, and what it has
\* read of it is still what the row is.
LockInvariant ==
  \A w \in Worker : pc[w] = "locked" => rowLock = w /\ seen[w] = balance

\* The key of a transaction names its message.
KeyInvariant == \A t \in transactions : t.key = t.msg

LedgerInvariant ==
  /\ IsFiniteSet(transactions)
  /\ KeyInvariant
  /\ LedgerMatches
  /\ NeverOverdrawn

\* A worker between the charge and the creator's revenue has charged the message
\* itself: it is charged, nobody else is there for it and nobody has paid it.
RevenueInvariant ==
  /\ \A w \in Worker : pc[w] = "charged" =>
       /\ Charged(job[w].msg)
       /\ \A i \in DOMAIN revenue : revenue[i] # job[w].msg
  /\ \A v, w \in Worker : pc[v] = "charged" /\ pc[w] = "charged"
                          /\ job[v].msg = job[w].msg => v = w
  /\ RevenueOnce

MeteringInvariant ==
  TypeOK /\ LockInvariant /\ LedgerInvariant /\ RevenueInvariant

\* A step that neither enters the critical part of a deduction nor changes the
\* ledger: most of them are.
Quiet ==
  /\ UNCHANGED <<balance, transactions, revenue>>
  /\ \A w \in Worker : pc'[w] = "locked" =>
       /\ pc[w] = "locked"
       /\ seen'[w] = seen[w]
       /\ rowLock = w => rowLock' = w
  /\ \A w \in Worker : pc'[w] = "charged" =>
       pc[w] = "charged" /\ job'[w] = job[w]

\* A quiet step keeps the invariant: it can only leave the critical part.
LEMMA QuietKeepsInvariant ==
  ASSUME MeteringInvariant, TypeOK', Quiet
  PROVE  MeteringInvariant'
<1>1. LockInvariant'
  BY DEF MeteringInvariant, LockInvariant, Quiet
<1>2. LedgerInvariant'
  BY DEF MeteringInvariant, LedgerInvariant, KeyInvariant, LedgerMatches,
         NeverOverdrawn, Quiet
<1>3. RevenueInvariant'
  BY DEF MeteringInvariant, RevenueInvariant, RevenueOnce, Charged, Quiet
<1> QED
  BY <1>1, <1>2, <1>3 DEF MeteringInvariant

\* The end of a transaction of w leaves the lock of anybody else alone.
LEMMA QuietWorkerStep ==
  ASSUME MeteringInvariant, NEW w \in Worker,
         \/ Take(w) \/ RecordingFails(w) \/ Retry(w) \/ StoreFailedDeduction(w)
         \/ FailureIsLost(w) \/ Acknowledge(w) \/ Kill(w) \/ Crash(w)
         \/ Deduct(w) /\ ~Deductible(w)
         \/ DeductFails(w) /\ UNCHANGED <<balance, transactions>>
  PROVE  Quiet
<1> USE DEF MeteringInvariant, TypeOK, Quiet, LockInvariant, ledgerVars, payVars
<1>1. CASE Take(w)
  BY <1>1 DEF Take
<1>2. CASE RecordingFails(w)
  BY <1>2 DEF RecordingFails
<1>3. CASE Retry(w)
  BY <1>3 DEF Retry
<1>4. CASE StoreFailedDeduction(w)
  BY <1>4 DEF StoreFailedDeduction
<1>5. CASE FailureIsLost(w)
  BY <1>5 DEF FailureIsLost
<1>6. CASE Acknowledge(w)
  BY <1>6 DEF Acknowledge, Rest
<1>7. CASE Kill(w)
  BY <1>7 DEF Kill, Rest, Unlock
<1>8. CASE Crash(w)
  BY <1>8 DEF Crash, Rest, Unlock
<1>9. CASE Deduct(w) /\ ~Deductible(w)
  BY <1>9 DEF Deduct, Unlock
<1>10. CASE DeductFails(w) /\ UNCHANGED <<balance, transactions>>
  BY <1>10 DEF DeductFails, Unlock
<1> QED
  BY <1>1, <1>2, <1>3, <1>4, <1>5, <1>6, <1>7, <1>8, <1>9, <1>10

\* The chat process, the nightly run and time are quiet.
LEMMA QuietOtherStep ==
  ASSUME MeteringInvariant,
         (\E m \in Msg : ChatStep(m)) \/ RunStep \/ RestartRun \/ Tick
           \/ UNCHANGED vars
  PROVE  Quiet
BY DEF ChatStep, Validate, Save, QueueDeduction, SkipDeduction, RunStep,
       SelectFailedDeductions, RequeueFailedDeduction, RemoveFailedDeduction,
       FindMissingDeductions, RequeueMissingDeduction, FinishRun, RestartRun,
       Tick, vars, ledgerVars, payVars, workerVars, Quiet

\* A deduction that is committed, whether or not its worker comes to know.
Committed(w) ==
  /\ pc[w] = "locked"
  /\ Deductible(w)
  /\ Commit(w)
  /\ Unlock(w)
  /\ pc' \in {[pc EXCEPT ![w] = "charged"], [pc EXCEPT ![w] = "failed"]}
  /\ UNCHANGED <<job, seen, revenue>>

\* Under the lock the message was not charged before and the credits suffice: a
\* commit charges it, once, for its price.
LEMMA CommitCharges ==
  ASSUME MeteringInvariant, NEW w \in Worker, Committed(w)
  PROVE  /\ job[w].msg \in Msg
         /\ ~Charged(job[w].msg)
         /\ balance.used + Cost <= balance.total
         /\ balance' = [total     |-> balance.total,
                        used      |-> balance.used + Cost,
                        available |-> balance.total - (balance.used + Cost)]
         /\ transactions' =
              transactions \cup {[key |-> job[w].msg, msg |-> job[w].msg]}
<1>1. seen[w] = balance /\ job[w] \in Job /\ balance \in Balance
  BY DEF MeteringInvariant, LockInvariant, TypeOK, Committed
<1>2. job[w].msg \in Msg
  BY <1>1 DEF Job
<1>3. ~Charged(job[w].msg)
  BY DEF MeteringInvariant, LedgerInvariant, KeyInvariant, Committed, Deductible,
         Processed, IdempotencyKey, Charged
<1>4. balance.available >= Cost /\ balance.available = balance.total - balance.used
  BY <1>1
  DEF MeteringInvariant, LedgerInvariant, LedgerMatches, Committed, Deductible,
      Affordable
<1>5. balance.used + Cost <= balance.total
  BY <1>1, <1>4, CostType DEF Balance
<1>6. /\ balance' = [total     |-> balance.total,
                     used      |-> balance.used + Cost,
                     available |-> balance.total - (balance.used + Cost)]
      /\ transactions' =
           transactions \cup {[key |-> job[w].msg, msg |-> job[w].msg]}
  BY <1>1 DEF Committed, Commit, IdempotencyKey
<1> QED
  BY <1>2, <1>3, <1>5, <1>6

\* A commit keeps the invariant: its message was not charged, so nobody else is
\* between its charge and its revenue.
LEMMA CommitKeepsInvariant ==
  ASSUME MeteringInvariant, TypeOK', NEW w \in Worker, Committed(w)
  PROVE  MeteringInvariant'
<1> DEFINE m == job[w].msg
           row == [key |-> m, msg |-> m]
<1>1. /\ m \in Msg
      /\ ~Charged(m)
      /\ balance.used + Cost <= balance.total
      /\ balance' = [total     |-> balance.total,
                     used      |-> balance.used + Cost,
                     available |-> balance.total - (balance.used + Cost)]
      /\ transactions' = transactions \cup {row}
  BY CommitCharges
<1>2. \A v \in Worker : pc'[v] # "locked"
  BY DEF MeteringInvariant, TypeOK, LockInvariant, Committed
<1>3. LockInvariant'
  BY <1>2 DEF LockInvariant
<1>4. row \notin transactions
  BY <1>1 DEF Charged
<1>5. LedgerInvariant'
  <2>1. /\ IsFiniteSet(transactions')
        /\ Cardinality(transactions') = Cardinality(transactions) + 1
        /\ Cardinality(transactions) \in Nat
    BY <1>1, <1>4, FS_AddElement, FS_CardinalityType
    DEF MeteringInvariant, LedgerInvariant
  <2>2. KeyInvariant'
    BY <1>1 DEF MeteringInvariant, LedgerInvariant, KeyInvariant
  <2>3. balance \in Balance /\ balance.used = Cost * Cardinality(transactions)
    BY DEF MeteringInvariant, TypeOK, LedgerInvariant, LedgerMatches
  <2>4. ASSUME NEW n \in Nat
        PROVE  Cost * (n + 1) = Cost * n + Cost
    BY CostType
  <2>5. LedgerMatches'
    BY <1>1, <2>1, <2>3, <2>4 DEF LedgerMatches
  <2>6. NeverOverdrawn'
    BY <1>1 DEF NeverOverdrawn
  <2> QED
    BY <2>1, <2>2, <2>5, <2>6 DEF LedgerInvariant
<1>6. RevenueInvariant'
  <2>1. \A i \in DOMAIN revenue : revenue[i] # m
    BY <1>1 DEF MeteringInvariant, RevenueInvariant, RevenueOnce
  <2>2. \A v \in Worker : pc'[v] = "charged" => v = w \/ pc[v] = "charged"
    BY DEF Committed, MeteringInvariant, TypeOK
  <2>3. \A v \in Worker : pc[v] = "charged" => job[v].msg # m
    BY <1>1 DEF MeteringInvariant, RevenueInvariant
  <2>4. ASSUME NEW v \in Worker, pc'[v] = "charged"
        PROVE  /\ Charged(job[v].msg)'
               /\ \A i \in DOMAIN revenue' : revenue'[i] # job'[v].msg
    <3>1. job' = job /\ revenue' = revenue
      BY DEF Committed
    <3>2. CASE v = w
      <4>1. row \in transactions' /\ row.msg = job'[v].msg
        BY <1>1, <3>1, <3>2
      <4> QED
        BY <2>1, <3>1, <3>2, <4>1 DEF Charged
    <3>3. CASE v # w
      <4>1. Charged(job[v].msg) /\ \A i \in DOMAIN revenue : revenue[i] # job[v].msg
        BY <2>2, <2>4, <3>3 DEF MeteringInvariant, RevenueInvariant
      <4>2. transactions \subseteq transactions'
        BY <1>1
      <4> QED
        BY <3>1, <4>1, <4>2 DEF Charged
    <3> QED
      BY <3>2, <3>3
  <2>5. \A u, v \in Worker : pc'[u] = "charged" /\ pc'[v] = "charged"
                             /\ job[u].msg = job[v].msg => u = v
    BY <2>2, <2>3 DEF MeteringInvariant, RevenueInvariant
  <2>6. RevenueOnce'
    BY <1>1 DEF MeteringInvariant, RevenueInvariant, RevenueOnce, Charged, Committed
  <2> QED
    BY <2>4, <2>5, <2>6 DEF RevenueInvariant, Committed
<1> QED
  BY <1>3, <1>5, <1>6 DEF MeteringInvariant

\* The other steps that are not quiet: a top-up, which needs the row lock, the
\* lock, and the creator's revenue.
LEMMA OtherStepsKeepInvariant ==
  ASSUME MeteringInvariant, TypeOK',
         TopUp \/ \E w \in Worker : LockBalance(w) \/ RecordAgentUsage(w)
  PROVE  MeteringInvariant'
<1>1. CASE TopUp
  <2>1. balance' = [total     |-> balance.total + TopUpAmount,
                    used      |-> balance.used,
                    available |-> balance.total + TopUpAmount - balance.used]
    BY <1>1 DEF TopUp
  <2>2. \A w \in Worker : pc'[w] # "locked"
    BY <1>1, CreditMeteringAssumption
    DEF TopUp, MeteringInvariant, LockInvariant, workerVars
  <2>3. LockInvariant'
    BY <2>2 DEF LockInvariant
  <2>4. LedgerMatches'
    <3>1. transactions' = transactions /\ balance.used = Cost * Cardinality(transactions)
      BY <1>1 DEF TopUp, MeteringInvariant, LedgerInvariant, LedgerMatches
    <3>2. balance.total \in Int /\ balance.used \in Int /\ TopUpAmount \in Int
      BY CreditMeteringAssumption DEF MeteringInvariant, TypeOK, Balance
    <3>3. /\ balance'.used = balance.used
          /\ balance'.available = balance'.total - balance'.used
      BY <2>1, <3>2
    <3> QED
      BY <3>1, <3>3 DEF LedgerMatches
  <2>5. NeverOverdrawn'
    BY <2>1, CreditMeteringAssumption
    DEF MeteringInvariant, LedgerInvariant, NeverOverdrawn, TypeOK, Balance
  <2>6. LedgerInvariant'
    BY <1>1, <2>4, <2>5
    DEF TopUp, MeteringInvariant, LedgerInvariant, KeyInvariant
  <2>7. RevenueInvariant'
    BY <1>1 DEF TopUp, MeteringInvariant, RevenueInvariant, RevenueOnce, Charged,
                payVars, workerVars
  <2> QED
    BY <2>3, <2>6, <2>7 DEF MeteringInvariant
<1>2. ASSUME NEW w \in Worker, LockBalance(w)
      PROVE  MeteringInvariant'
  <2>1. LockInvariant'
    BY <1>2, CreditMeteringAssumption
    DEF LockBalance, MeteringInvariant, TypeOK, LockInvariant
  <2>2. LedgerInvariant'
    BY <1>2 DEF LockBalance, MeteringInvariant, LedgerInvariant, KeyInvariant,
                LedgerMatches, NeverOverdrawn
  <2>3. RevenueInvariant'
    BY <1>2 DEF LockBalance, MeteringInvariant, TypeOK, RevenueInvariant,
                RevenueOnce, Charged, payVars
  <2> QED
    BY <2>1, <2>2, <2>3 DEF MeteringInvariant
<1>3. ASSUME NEW w \in Worker, RecordAgentUsage(w)
      PROVE  MeteringInvariant'
  <2>1. /\ pc[w] = "charged"
        /\ pc' = [pc EXCEPT ![w] = "ack"]
        /\ revenue' = Append(revenue, job[w].msg)
        /\ revenue \in Seq(Msg)
        /\ UNCHANGED <<balance, rowLock, transactions, job, seen>>
    BY <1>3 DEF RecordAgentUsage, ledgerVars, MeteringInvariant, TypeOK
  <2>2. LockInvariant'
    BY <2>1 DEF MeteringInvariant, TypeOK, LockInvariant
  <2>3. LedgerInvariant'
    BY <2>1 DEF MeteringInvariant, LedgerInvariant, KeyInvariant, LedgerMatches,
                NeverOverdrawn
  <2>4. /\ Charged(job[w].msg)
        /\ \A i \in DOMAIN revenue : revenue[i] # job[w].msg
    BY <2>1 DEF MeteringInvariant, RevenueInvariant
  <2>5. \A i \in DOMAIN revenue' :
          \/ i \in DOMAIN revenue /\ revenue'[i] = revenue[i]
          \/ i = Len(revenue) + 1 /\ revenue'[i] = job[w].msg
    BY <2>1
  <2>6. RevenueOnce'
    BY <2>1, <2>4, <2>5 DEF MeteringInvariant, RevenueInvariant, RevenueOnce, Charged
  <2>7. \A v \in Worker : pc'[v] = "charged" => v # w /\ pc[v] = "charged"
    BY <2>1 DEF MeteringInvariant, TypeOK
  <2>8. \A v \in Worker : pc'[v] = "charged" =>
          \A i \in DOMAIN revenue' : revenue'[i] # job[v].msg
    BY <2>1, <2>5, <2>7 DEF MeteringInvariant, RevenueInvariant
  <2>9. RevenueInvariant'
    BY <2>1, <2>6, <2>7, <2>8 DEF MeteringInvariant, RevenueInvariant, Charged
  <2> QED
    BY <2>2, <2>3, <2>9 DEF MeteringInvariant
<1> QED
  BY <1>1, <1>2, <1>3

\* Every step is quiet, commits a deduction or is one of the three others.
LEMMA StepCases ==
  ASSUME MeteringInvariant, [Next]_vars
  PROVE  \/ Quiet
         \/ \E w \in Worker : Committed(w)
         \/ TopUp
         \/ \E w \in Worker : LockBalance(w) \/ RecordAgentUsage(w)
<1>1. ASSUME NEW w \in Worker, Deduct(w), Deductible(w)
      PROVE  Committed(w)
  BY <1>1 DEF Deduct, Committed, payVars
<1>2. ASSUME NEW w \in Worker, DeductFails(w)
      PROVE  UNCHANGED <<balance, transactions>> \/ Committed(w)
  BY <1>2 DEF DeductFails, Committed, payVars
<1>3. ASSUME NEW w \in Worker,
             \/ JobStep(w) \/ DeductFails(w) \/ RecordingFails(w)
             \/ FailureIsLost(w) \/ Kill(w) \/ Crash(w)
      PROVE  Quiet \/ Committed(w) \/ LockBalance(w) \/ RecordAgentUsage(w)
  BY <1>1, <1>2, <1>3, QuietWorkerStep DEF JobStep
<1> QED
  BY <1>3, QuietOtherStep DEF Next

\* The initial states satisfy the invariant.
LEMMA InitInvariant == Init => MeteringInvariant
<1> SUFFICES ASSUME Init
             PROVE  MeteringInvariant
  OBVIOUS
<1>1. transactions = {} /\ revenue = <<>> /\ \A w \in Worker : pc[w] = "idle"
  BY DEF Init
<1>2. IsFiniteSet(transactions) /\ Cardinality(transactions) = 0
  BY <1>1, FS_EmptySet
<1>3. LedgerMatches /\ NeverOverdrawn
  BY <1>2, CostType, CreditMeteringAssumption DEF Init, LedgerMatches, NeverOverdrawn
<1>4. LedgerInvariant
  BY <1>1, <1>2, <1>3 DEF LedgerInvariant, KeyInvariant
<1>5. LockInvariant /\ RevenueInvariant
  BY <1>1 DEF LockInvariant, RevenueInvariant, RevenueOnce
<1> QED
  BY <1>4, <1>5, InitTypeOK DEF MeteringInvariant

\* Every step keeps the invariant.
LEMMA NextInvariant == MeteringInvariant /\ [Next]_vars => MeteringInvariant'
<1> SUFFICES ASSUME MeteringInvariant, [Next]_vars
             PROVE  MeteringInvariant'
  OBVIOUS
<1>1. TypeOK'
  BY NextTypeOK DEF MeteringInvariant
<1> QED
  BY <1>1, StepCases, QuietKeepsInvariant, CommitKeepsInvariant,
     OtherStepsKeepInvariant

\* The invariant is inductive, and so it always holds.
LEMMA InvariantHolds == Spec => []MeteringInvariant
  BY InitInvariant, NextInvariant, PTL DEF Spec

\* deduct_credits_idempotent: whatever is delivered twice, retried or repaired,
\* no two transactions charge the same message.
THEOREM OneCharge == Spec => []ChargedOnce
<1>1. MeteringInvariant => ChargedOnce
  BY DEF MeteringInvariant, TypeOK, LedgerInvariant, KeyInvariant, ChargedOnce
<1> QED
  BY <1>1, InvariantHolds, PTL

\* SELECT ... FOR UPDATE: no update of the balance is lost.
THEOREM LedgerCorrect == Spec => []LedgerMatches
<1>1. MeteringInvariant => LedgerMatches
  BY DEF MeteringInvariant, LedgerInvariant
<1> QED
  BY <1>1, InvariantHolds, PTL

\* The check of the balance under the lock: the credits are never exceeded.
THEOREM NoOverdraft == Spec => []NeverOverdrawn
<1>1. MeteringInvariant => NeverOverdrawn
  BY DEF MeteringInvariant, LedgerInvariant
<1> QED
  BY <1>1, InvariantHolds, PTL

\* The creator is paid once, and only for a message that was charged, although
\* the workers commit the charge and the revenue separately.
THEOREM OnePayment == Spec => []RevenueOnce
<1>1. MeteringInvariant => RevenueOnce
  BY DEF MeteringInvariant, RevenueInvariant
<1> QED
  BY <1>1, InvariantHolds, PTL

-------------------------------------------------------------------------------
\* CreditMetering implements CreditLedger.

\* The initial balance is the ledger's.
LEMMA InitRefines == Init => Ledger!Init
  BY DEF Init, Ledger!Init

\* A commit charges a message of the ledger, a top-up tops it up, and every
\* other step leaves the ledger alone.
LEMMA StepRefines ==
  ASSUME MeteringInvariant, [Next]_vars
  PROVE  [Ledger!Next]_(Ledger!vars)
<1>1. CASE Quiet
  BY <1>1 DEF Quiet, Ledger!vars
<1>2. ASSUME NEW w \in Worker, Committed(w)
      PROVE  Ledger!Next
  <2>0. PICK m \in Msg : m = job[w].msg
    BY <1>2, CommitCharges
  <2> DEFINE row == [key |-> m, msg |-> m]
  <2>1. /\ ~Charged(m)
        /\ balance.used + Cost <= balance.total
        /\ balance' = [total     |-> balance.total,
                       used      |-> balance.used + Cost,
                       available |-> balance.total - (balance.used + Cost)]
        /\ transactions' = transactions \cup {row}
    BY <1>2, <2>0, CommitCharges
  <2>2. {t.msg : t \in transactions'} = {t.msg : t \in transactions} \cup {m}
    <3>1. row \in transactions' /\ transactions \subseteq transactions' /\ row.msg = m
      BY <2>1
    <3>2. \A t \in transactions' : t \in transactions \/ t.msg = m
      BY <2>1
    <3> HIDE DEF row
    <3>3. {t.msg : t \in transactions'} \subseteq {t.msg : t \in transactions} \cup {m}
      BY <3>2
    <3>4. {t.msg : t \in transactions} \cup {m} \subseteq {t.msg : t \in transactions'}
      BY <3>1
    <3> QED
      BY <3>3, <3>4
  <2>3. Ledger!Charge(m)
    BY <2>1, <2>2 DEF Ledger!Charge, Charged
  <2> QED
    BY <2>3 DEF Ledger!Next
<1>3. CASE TopUp
  <2>1. /\ balance'.total = balance.total + TopUpAmount
        /\ balance'.used = balance.used
        /\ transactions' = transactions
    BY <1>3 DEF TopUp
  <2> QED
    BY <2>1 DEF Ledger!Next, Ledger!TopUp
<1>4. ASSUME NEW w \in Worker, LockBalance(w) \/ RecordAgentUsage(w)
      PROVE  UNCHANGED Ledger!vars
  BY <1>4 DEF LockBalance, RecordAgentUsage, ledgerVars, Ledger!vars
<1> QED
  BY <1>1, <1>2, <1>3, <1>4, StepCases

\* What the workers, the retries and the nightly run do to the balance is, step
\* by step, what CreditLedger allows.
THEOREM ImplementsLedger == Spec => LedgerSpec
<1>1. Init => Ledger!Init
  BY InitRefines
<1>2. MeteringInvariant /\ [Next]_vars => [Ledger!Next]_(Ledger!vars)
  BY StepRefines
<1> QED
  BY <1>1, <1>2, InvariantHolds, PTL DEF Spec, LedgerSpec, Ledger!Spec
===============================================================================
