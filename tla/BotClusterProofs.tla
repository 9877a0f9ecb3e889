--------------------------- MODULE BotClusterProofs ---------------------------
(***************************************************************************)
(* Proofs about BotCluster, for every set of workers and bots, every set   *)
(* of ring points, every hash, every capacity and every bound.             *)
(*                                                                         *)
(* The first part proves the type invariant, one lemma per group of        *)
(* actions.  The second part proves that the claim lock excludes: the      *)
(* exclusion alone is not inductive (a second SET NX could succeed if the  *)
(* first starter's lock were gone), so the invariant ClaimInvariant adds   *)
(* LockHeld, that a task which is starting a bot finds its worker's name   *)
(* in the lock.  Only two actions clear a lock: the DELETE of the task     *)
(* that holds it and LockExpires, which spares a held lock as long as no   *)
(* start outlasts the 30 s (SlowStarts = FALSE).                           *)
(*                                                                         *)
(* The last part is about the ring: what GetNode answers as workers come   *)
(* and go (OneOwner, LeavingMovesOwnBots, JoiningTakesForItself), that the *)
(* workers of a ring share the active bots out among them (RingShares),    *)
(* and that no task ever asks a ring without workers (RingsUsable).        *)
(* FiniteSums gives it the least element of a set of points.               *)
(***************************************************************************)
EXTENDS BotCluster, FiniteSums

\* The state before any worker has started.
LEMMA InitTypeOK == Init => TypeOK
  BY BotClusterAssumption
     DEF Init, TypeOK, StoreTypeOK, QueueTypeOK, ApiTypeOK, ProcTypeOK, BotTypeOK,
         TaskTypeOK, LoopTypeOK, Label, Phase, Budget, Task, Working

\* Goto, into a label that works on a bot only when it is given one.
LEMMA GotoType ==
  ASSUME TaskTypeOK, NEW w \in Worker, NEW t \in Task, NEW l \in Label,
         NEW b \in Bot \cup {NoBot}, l \in Working => b \in Bot,
         Goto(w, t, l, b)
  PROVE  /\ pc' \in [Worker -> [Task -> Label]]
         /\ target' \in [Worker -> [Task -> Bot \cup {NoBot}]]
         /\ \A v \in Worker, u \in Task :
              pc'[v][u] \in Working => target'[v][u] \in Bot
  <1>1. pc' \in [Worker -> [Task -> Label]]
    BY DEF Goto, TaskTypeOK
  <1>2. target' \in [Worker -> [Task -> Bot \cup {NoBot}]]
    BY DEF Goto, TaskTypeOK
  <1>3. ASSUME NEW v \in Worker, NEW u \in Task, pc'[v][u] \in Working
        PROVE  target'[v][u] \in Bot
    <2>1. CASE v = w /\ u = t
      BY <1>3, <2>1 DEF Goto, TaskTypeOK
    <2>2. CASE ~(v = w /\ u = t)
      BY <1>3, <2>2 DEF Goto, TaskTypeOK
    <2> QED BY <2>1, <2>2
  <1> QED BY <1>1, <1>2, <1>3

\* Where a task goes on when _stop_bot returns.
LEMMA ReturnFromStopType ==
  ASSUME TaskTypeOK, NEW w \in Worker, NEW t \in Task, pc[w][t] \in Working,
         ReturnFromStop(w, t)
  PROVE  TaskTypeOK'
  <1>1. CASE t \in restarting[w]
    <2>1. /\ Goto(w, t, "claim", target[w][t])
          /\ restarting' = [restarting EXCEPT ![w] = @ \ {t}]
      BY <1>1 DEF ReturnFromStop
    <2>2. target[w][t] \in Bot
      BY DEF TaskTypeOK
    <2> QED BY <2>1, <2>2, GotoType DEF TaskTypeOK, Label
  <1>2. CASE t \notin restarting[w]
    <2> DEFINE l == CASE t = "check" -> "shed" [] t = "main" -> "drain"
                      [] OTHER -> "idle"
    <2>1. Goto(w, t, l, NoBot) /\ UNCHANGED restarting
      BY <1>2 DEF ReturnFromStop
    <2>2. l \in Label /\ l \notin Working
      BY DEF Label, Working, Task
    <2> QED BY <2>1, <2>2, GotoType DEF TaskTypeOK
  <1> QED BY <1>1, <1>2

\* Goto in an action that leaves the restarts alone.
LEMMA GotoTaskType ==
  ASSUME TaskTypeOK, NEW w \in Worker, NEW t \in Task, NEW l \in Label,
         NEW b \in Bot \cup {NoBot}, l \in Working => b \in Bot,
         Goto(w, t, l, b), restarting' \in [Worker -> SUBSET Task]
  PROVE  TaskTypeOK'
  BY GotoType DEF TaskTypeOK

\* The parts of the type invariant an action does not touch.
LEMMA UnchangedTypes ==
  /\ StoreTypeOK /\ UNCHANGED storeVars => StoreTypeOK'
  /\ QueueTypeOK /\ UNCHANGED queueVars => QueueTypeOK'
  /\ ApiTypeOK /\ UNCHANGED apiVars => ApiTypeOK'
  /\ ProcTypeOK /\ UNCHANGED procVars => ProcTypeOK'
  /\ BotTypeOK /\ UNCHANGED botVars => BotTypeOK'
  /\ TaskTypeOK /\ UNCHANGED taskVars => TaskTypeOK'
  /\ LoopTypeOK /\ UNCHANGED loopVars => LoopTypeOK'
  BY DEF StoreTypeOK, QueueTypeOK, ApiTypeOK, ProcTypeOK, BotTypeOK, TaskTypeOK,
         LoopTypeOK, storeVars, queueVars, apiVars, procVars, botVars, taskVars,
         loopVars

\* A bound is spent by one and stays a natural number.
LEMMA SpendType ==
  ASSUME budget \in Budget,
         NEW kind \in {"ops", "crashes", "stops", "stalls", "faults"}, Spend(kind)
  PROVE  budget' \in Budget
  BY DEF Spend, Budget

\* _claim_and_start_bot, step by step.
LEMMA StartStepType ==
  ASSUME TypeOK, NEW w \in Worker, NEW t \in Task,
         StartStep(w, t) \/ StartFails(w, t)
  PROVE  TypeOK'
  <1> DEFINE b == target[w][t]
  <1> USE UnchangedTypes DEF TypeOK
  <1>l. /\ AfterStart(w, t) \in Label \ Working
        /\ {"starting", "connect", "assign", "release", "raise", "idle"}
             \subseteq Label
        /\ "idle" \notin Working
    BY DEF AfterStart, Label, Working
  <1>b. pc[w][t] \in Working => b \in Bot
    BY DEF TaskTypeOK
  <1>1. CASE TryClaimBotLock(w, t)
    <2>1. b \in Bot
      BY <1>1, <1>b DEF TryClaimBotLock, Working
    <2>2. StoreTypeOK'
      BY <1>1, <2>1 DEF TryClaimBotLock, StoreTypeOK
    <2>3. restarting' \in [Worker -> SUBSET Task]
      BY <1>1 DEF TryClaimBotLock, TaskTypeOK
    <2>4. TaskTypeOK'
      <3>1. CASE Goto(w, t, "starting", b)
        BY <3>1, <2>1, <2>3, <1>l, GotoTaskType
      <3>2. CASE Goto(w, t, AfterStart(w, t), NoBot)
        BY <3>2, <2>3, <1>l, GotoTaskType
      <3> QED BY <1>1, <3>1, <3>2 DEF TryClaimBotLock
    <2> QED BY <1>1, <2>2, <2>4 DEF TryClaimBotLock
  <1>2. CASE StartBot(w, t)
    <2>1. b \in Bot
      BY <1>2, <1>b DEF StartBot, Working
    <2>2. TaskTypeOK'
      <3>1. restarting' \in [Worker -> SUBSET Task]
        BY <1>2 DEF StartBot, TaskTypeOK
      <3>2. CASE Goto(w, t, "connect", b)
        BY <3>2, <3>1, <2>1, <1>l, GotoTaskType
      <3>3. CASE Goto(w, t, "release", b)
        BY <3>3, <3>1, <2>1, <1>l, GotoTaskType
      <3> QED BY <1>2, <3>2, <3>3 DEF StartBot
    <2> QED BY <1>2, <2>2 DEF StartBot
  <1>3. CASE Connect(w, t)
    <2>1. b \in Bot
      BY <1>3, <1>b DEF Connect, Working
    <2>2. BotTypeOK'
      BY <1>3, <2>1 DEF Connect, BotTypeOK
    <2>3. TaskTypeOK'
      BY <1>3, <2>1, <1>l, GotoTaskType DEF Connect, TaskTypeOK
    <2> QED BY <1>3, <2>2, <2>3 DEF Connect
  <1>4. CASE AssignBot(w, t)
    <2>1. b \in Bot
      BY <1>4, <1>b DEF AssignBot, Working
    <2>2. StoreTypeOK'
      BY <1>4, <2>1 DEF AssignBot, StoreTypeOK
    <2>3. TaskTypeOK'
      BY <1>4, <2>1, <1>l, GotoTaskType DEF AssignBot, TaskTypeOK
    <2> QED BY <1>4, <2>2, <2>3 DEF AssignBot
  <1>5. CASE ReleaseBotLock(w, t)
    <2>1. b \in Bot
      BY <1>5, <1>b DEF ReleaseBotLock, Working
    <2>2. StoreTypeOK'
      BY <1>5, <2>1 DEF ReleaseBotLock, StoreTypeOK
    <2>3. TaskTypeOK'
      BY <1>5, <1>l, GotoTaskType DEF ReleaseBotLock, TaskTypeOK
    <2> QED BY <1>5, <2>2, <2>3 DEF ReleaseBotLock
  <1>6. CASE StartFails(w, t)
    <2>1. b \in Bot
      BY <1>6, <1>b DEF StartFails, Working
    <2>2. budget' \in Budget
      BY <1>6, SpendType DEF StartFails
    <2>3. PICK l \in {"release", "raise"} : Goto(w, t, l, b)
      BY <1>6 DEF StartFails, AfterFailure
    <2>4. restarting' \in [Worker -> SUBSET Task]
      BY <1>6 DEF StartFails, TaskTypeOK
    <2>5. TaskTypeOK'
      BY <2>1, <2>3, <2>4, <1>l, GotoTaskType
    <2> QED BY <1>6, <2>2, <2>5 DEF StartFails
  <1>7. CASE RaiseFromStart(w, t)
    <2>1. b \in Bot
      BY <1>7, <1>b DEF RaiseFromStart, Working
    <2>2. StoreTypeOK'
      BY <1>7, <2>1 DEF RaiseFromStart, StoreTypeOK
    <2>3. restarting' \in [Worker -> SUBSET Task]
      BY <1>7 DEF RaiseFromStart, TaskTypeOK
    <2>4. TaskTypeOK'
      BY <1>7, <2>3, <1>l, GotoTaskType DEF RaiseFromStart
    <2>5. ProcTypeOK'
      BY <1>7 DEF RaiseFromStart, ProcTypeOK, Phase
    <2>6. LoopTypeOK'
      BY <1>7 DEF RaiseFromStart, LoopTypeOK
    <2> QED BY <1>7, <2>2, <2>4, <2>5, <2>6 DEF RaiseFromStart
  <1> QED BY <1>1, <1>2, <1>3, <1>4, <1>5, <1>6, <1>7 DEF StartStep

\* _stop_bot, step by step.
LEMMA StopStepType ==
  ASSUME TypeOK, NEW w \in Worker, NEW t \in Task,
         StopStep(w, t) \/ StopFails(w, t)
  PROVE  TypeOK'
  <1> DEFINE b == target[w][t]
  <1> USE UnchangedTypes DEF TypeOK
  <1>b. pc[w][t] \in Working /\ b \in Bot
    BY DEF StopStep, BeginStop, PopSlackHandler, CloseBot, UnassignBot,
           StopFails, TaskTypeOK, Working
  <1>r. ReturnFromStop(w, t) => TaskTypeOK'
    BY <1>b, ReturnFromStopType
  <1>g. ASSUME NEW l \in {"await", "close", "unassign"}, Goto(w, t, l, b),
               UNCHANGED restarting
        PROVE  TaskTypeOK'
    <2>1. l \in Label
      BY DEF Label
    <2>2. restarting' \in [Worker -> SUBSET Task]
      BY <1>g DEF TaskTypeOK
    <2> QED BY <1>b, <1>g, <2>1, <2>2, GotoTaskType
  <1>1. CASE BeginStop(w, t)
    <2>1. TaskTypeOK'
      BY <1>1, <1>r, <1>g DEF BeginStop
    <2>2. BotTypeOK'
      <3>1. CASE UNCHANGED botVars
        BY <3>1
      <3>2. CASE /\ DropHandler(w, b)
                 /\ UNCHANGED <<activeBots, connections, quitting>>
        BY <3>2 DEF BotTypeOK, DropHandler
      <3>3. CASE /\ activeBots' = [activeBots EXCEPT ![w] = @ \ {b}]
                 /\ DropHandler(w, b)
                 /\ quitting' = [quitting EXCEPT ![w][b] = @ + Live(w, b)]
                 /\ UNCHANGED connections
        <4>1. Live(w, b) \in Int
          BY DEF Live
        <4>2. quitting' \in [Worker -> [Bot -> Int]]
          BY <3>3, <4>1, <1>b DEF BotTypeOK
        <4> QED BY <3>3, <4>2 DEF BotTypeOK, DropHandler
      <3> QED BY <1>1, <3>1, <3>2, <3>3 DEF BeginStop
    <2> QED BY <1>1, <2>1, <2>2 DEF BeginStop
  <1>2. CASE CloseBot(w, t)
    <2>1. TaskTypeOK'
      BY <1>2, <1>r, <1>g DEF CloseBot
    <2>2. BotTypeOK'
      <3>1. CASE UNCHANGED <<handlers, ended>>
        BY <1>2, <1>b, <3>1 DEF CloseBot, BotTypeOK
      <3>2. CASE DropHandler(w, b)
        BY <1>2, <1>b, <3>2 DEF CloseBot, BotTypeOK, DropHandler
      <3> QED BY <1>2, <3>1, <3>2 DEF CloseBot
    <2> QED BY <1>2, <2>1, <2>2 DEF CloseBot
  <1>3. CASE UnassignBot(w, t)
    <2>1. TaskTypeOK'
      BY <1>3, <1>r DEF UnassignBot
    <2>2. StoreTypeOK'
      BY <1>3, <1>b DEF UnassignBot, StoreTypeOK
    <2> QED BY <1>3, <2>1, <2>2 DEF UnassignBot
  <1>4. CASE StopFails(w, t)
    <2>1. TaskTypeOK'
      BY <1>4, <1>r DEF StopFails
    <2>2. BotTypeOK'
      BY <1>4, <1>b DEF StopFails, BotTypeOK, DropHandler
    <2>3. budget' \in Budget
      BY <1>4, SpendType DEF StopFails
    <2> QED BY <1>4, <2>1, <2>2, <2>3 DEF StopFails
  <1>5. CASE PopSlackHandler(w, t)
    <2>1. TaskTypeOK'
      BY <1>5, <1>r, <1>g DEF PopSlackHandler
    <2>2. BotTypeOK'
      BY <1>5, <1>b DEF PopSlackHandler, BotTypeOK, DropHandler
    <2> QED BY <1>5, <2>1, <2>2 DEF PopSlackHandler
  <1> QED BY <1>1, <1>2, <1>3, <1>4, <1>5 DEF StopStep

\* A process that ends, however it ends.
LEMMA ExitType ==
  ASSUME TypeOK, NEW w \in Worker, Exit(w), UNCHANGED events
  PROVE  QueueTypeOK' /\ ProcTypeOK' /\ BotTypeOK' /\ TaskTypeOK' /\ LoopTypeOK'
  <1> USE DEF TypeOK
  <1>1. QueueTypeOK'
    BY DEF Exit, QueueTypeOK
  <1>2. ProcTypeOK'
    BY DEF Exit, ProcTypeOK, Phase
  <1>3. BotTypeOK'
    BY DEF Exit, BotTypeOK
  <1>4. TaskTypeOK'
    BY DEF Exit, TaskTypeOK, Label, Working
  <1>5. LoopTypeOK'
    BY DEF Exit, LoopTypeOK
  <1> QED BY <1>1, <1>2, <1>3, <1>4, <1>5

\* stop() cancels a background task.
LEMMA CancelTaskType ==
  ASSUME TypeOK, NEW w \in Worker, NEW t \in Task, CancelTask(w, t)
  PROVE  TypeOK'
  <1> USE UnchangedTypes DEF TypeOK
  <1>1. ProcTypeOK'
    BY DEF CancelTask, ProcTypeOK
  <1>2. LoopTypeOK'
    BY DEF CancelTask, LoopTypeOK, loopVars
  <1>3. StoreTypeOK'
    BY DEF CancelTask, LastWrite, StoreTypeOK
  <1>4. TaskTypeOK'
    <2>1. CASE UNCHANGED taskVars
      BY <2>1
    <2>2. CASE ~UNCHANGED taskVars
      <3>1. restarting' = [restarting EXCEPT ![w] = @ \ {t}]
        BY <2>2 DEF CancelTask
      <3>2. restarting' \in [Worker -> SUBSET Task]
        BY <3>1 DEF TaskTypeOK
      <3>3. CASE Claiming(w, t) /\ Goto(w, t, "release", target[w][t])
        <4>1. target[w][t] \in Bot
          BY <3>3 DEF Claiming, TaskTypeOK, Working
        <4> QED BY <3>2, <3>3, <4>1, GotoTaskType DEF Label
      <3>4. CASE Goto(w, t, "idle", NoBot)
        BY <3>2, <3>4, GotoTaskType DEF Label, Working
      <3> QED BY <2>2, <3>3, <3>4 DEF CancelTask
    <2> QED BY <2>1, <2>2
  <1> QED BY <1>1, <1>2, <1>3, <1>4 DEF CancelTask

\* start() and stop().
LEMMA MainStepType ==
  ASSUME TypeOK, NEW w \in Worker, MainStep(w)
  PROVE  TypeOK'
  <1> USE UnchangedTypes DEF TypeOK
  <1>t. "main" \in Task
    BY DEF Task
  <1>r. UNCHANGED restarting => restarting' \in [Worker -> SUBSET Task]
    BY DEF TaskTypeOK
  <1>g. ASSUME NEW l \in {"drain", "idle"}, Goto(w, "main", l, NoBot),
               UNCHANGED restarting
        PROVE  TaskTypeOK'
    BY <1>t, <1>r, <1>g, GotoTaskType DEF Label, Working
  <1>1. CASE Register(w)
    BY <1>1 DEF Register, StoreTypeOK, ProcTypeOK, Phase
  <1>2. CASE SelectAssignedBots(w)
    <2>1. FreshRing(w) \subseteq Worker /\ MyBots(w, FreshRing(w)) \subseteq Bot
      BY DEF FreshRing, HealthyWorkers, MyBots, GetKeysForNode, ActiveBotIds
    <2>2. ProcTypeOK' /\ LoopTypeOK'
      BY <1>2, <2>1 DEF SelectAssignedBots, ProcTypeOK, LoopTypeOK, Phase
    <2> QED BY <1>2, <2>2 DEF SelectAssignedBots
  <1>3. CASE ClaimAssignedBot(w)
    <2>1. PICK b \in todo[w] : /\ todo' = [todo EXCEPT ![w] = @ \ {b}]
                               /\ Goto(w, "main", "claim", b)
      BY <1>3 DEF ClaimAssignedBot
    <2>2. b \in Bot
      BY <2>1 DEF LoopTypeOK
    <2>3. TaskTypeOK'
      BY <1>3, <2>1, <2>2, GotoTaskType
         DEF ClaimAssignedBot, TaskTypeOK, Label, Task
    <2>4. LoopTypeOK'
      BY <1>3, <2>1 DEF ClaimAssignedBot, LoopTypeOK
    <2> QED BY <1>3, <2>3, <2>4 DEF ClaimAssignedBot
  <1>4. CASE StartLoops(w)
    <2>1. Len(events) \in Nat
      BY DEF QueueTypeOK
    <2>2. ProcTypeOK'
      BY <1>4, <2>1 DEF StartLoops, ProcTypeOK, Phase
    <2> QED BY <1>4, <2>2 DEF StartLoops
  <1>5. CASE SelectAllBots(w)
    <2>1. TaskTypeOK'
      BY <1>5, <1>g DEF SelectAllBots
    <2>2. LoopTypeOK'
      BY <1>5 DEF SelectAllBots, LoopTypeOK, BotTypeOK
    <2> QED BY <1>5, <2>1, <2>2 DEF SelectAllBots
  <1>6. CASE StopNextBot(w)
    <2>1. PICK b \in todo[w] : /\ todo' = [todo EXCEPT ![w] = @ \ {b}]
                               /\ Goto(w, "main", "stop", b)
      BY <1>6 DEF StopNextBot
    <2>2. b \in Bot
      BY <2>1 DEF LoopTypeOK
    <2>3. TaskTypeOK'
      BY <1>6, <2>1, <2>2, GotoTaskType DEF StopNextBot, TaskTypeOK, Label, Task
    <2>4. LoopTypeOK'
      BY <1>6, <2>1 DEF StopNextBot, LoopTypeOK
    <2> QED BY <1>6, <2>3, <2>4 DEF StopNextBot
  <1>7. CASE Unregister(w)
    <2>1. StoreTypeOK' /\ ApiTypeOK' /\ budget' \in Budget
      BY <1>7 DEF Unregister, StoreTypeOK
    <2>2. Exit(w) /\ UNCHANGED events
      BY <1>7 DEF Unregister
    <2> QED BY <2>1, <2>2, ExitType
  <1>8. ASSUME NEW t \in Task, CancelTask(w, t)
        PROVE  TypeOK'
    BY <1>8, CancelTaskType
  <1> QED BY <1>1, <1>2, <1>3, <1>4, <1>5, <1>6, <1>7, <1>8 DEF MainStep

\* _dead_worker_check_loop.
LEMMA CheckStepType ==
  ASSUME TypeOK, NEW w \in Worker, CheckStep(w)
  PROVE  TypeOK'
  <1> USE UnchangedTypes DEF TypeOK
  <1>t. "check" \in Task
    BY DEF Task
  <1>r. UNCHANGED restarting => restarting' \in [Worker -> SUBSET Task]
    BY DEF TaskTypeOK
  <1>g. ASSUME NEW l \in {"cull", "orphans", "shed", "idle"},
               Goto(w, "check", l, NoBot), UNCHANGED restarting
        PROVE  TaskTypeOK'
    BY <1>t, <1>r, <1>g, GotoTaskType DEF Label, Working
  <1>b. ASSUME NEW l \in {"claim", "stop"}, NEW b \in Bot,
               Goto(w, "check", l, b), UNCHANGED restarting
        PROVE  TaskTypeOK'
    BY <1>t, <1>r, <1>b, GotoTaskType DEF Label, Working
  <1>1. CASE FindDeadWorkers(w)
    <2>1. TaskTypeOK'
      BY <1>1, <1>g DEF FindDeadWorkers
    <2>2. LoopTypeOK'
      BY <1>1 DEF FindDeadWorkers, LoopTypeOK, DeadWorkers
    <2> QED BY <1>1, <2>1, <2>2 DEF FindDeadWorkers
  <1>2. CASE UnregisterDead(w)
    BY <1>2 DEF UnregisterDead, LoopTypeOK, StoreTypeOK
  <1>3. CASE RebuildHashRing(w)
    <2>1. FreshRing(w) \subseteq Worker /\ MyBots(w, FreshRing(w)) \subseteq Bot
      BY DEF FreshRing, HealthyWorkers, MyBots, GetKeysForNode, ActiveBotIds
    <2>2. TaskTypeOK'
      BY <1>3, <1>g DEF RebuildHashRing
    <2>3. ProcTypeOK' /\ LoopTypeOK'
      BY <1>3, <2>1 DEF RebuildHashRing, ProcTypeOK, LoopTypeOK
    <2> QED BY <1>3, <2>2, <2>3 DEF RebuildHashRing
  <1>4. CASE ClaimOrphanedBot(w)
    <2>1. PICK b \in todo[w] :
            /\ todo' = [todo EXCEPT ![w] = @ \ {b}]
            /\ \/ UNCHANGED taskVars
               \/ Goto(w, "check", "claim", b) /\ UNCHANGED restarting
      BY <1>4 DEF ClaimOrphanedBot
    <2>2. b \in Bot
      BY <2>1 DEF LoopTypeOK
    <2>3. TaskTypeOK'
      BY <2>1, <2>2, <1>b
    <2>4. LoopTypeOK'
      BY <1>4, <2>1 DEF ClaimOrphanedBot, LoopTypeOK
    <2> QED BY <1>4, <2>3, <2>4 DEF ClaimOrphanedBot
  <1>5. CASE SelectUnownedBots(w)
    <2>1. TaskTypeOK'
      BY <1>5, <1>g DEF SelectUnownedBots
    <2>2. UnownedBots(w) \subseteq Bot
      BY DEF UnownedBots, BotTypeOK
    <2>3. LoopTypeOK'
      BY <1>5, <2>2 DEF SelectUnownedBots, LoopTypeOK
    <2> QED BY <1>5, <2>1, <2>3 DEF SelectUnownedBots
  <1>6. CASE ReleaseUnownedBot(w)
    <2>1. TaskTypeOK'
      BY <1>6, <1>g, <1>b DEF ReleaseUnownedBot, LoopTypeOK
    <2>2. LoopTypeOK'
      BY <1>6 DEF ReleaseUnownedBot, LoopTypeOK
    <2> QED BY <1>6, <2>1, <2>2 DEF ReleaseUnownedBot
  <1> QED BY <1>1, <1>2, <1>3, <1>4, <1>5, <1>6 DEF CheckStep

\* _handle_bot_event and _handle_command.
LEMMA ListenerType ==
  ASSUME TypeOK, NEW w \in Worker, HandleBotEvent(w) \/ HandleCommand(w)
  PROVE  TypeOK'
  <1> USE UnchangedTypes DEF TypeOK
  <1>g. ASSUME NEW t \in {"events", "commands"}, NEW l \in {"claim", "stop"},
               NEW b \in Bot, Goto(w, t, l, b), NEW op \in Op,
               restarting' = [restarting EXCEPT
                                ![w] = IF op = "restart" THEN @ \cup {t} ELSE @]
        PROVE  TaskTypeOK'
    <2>1. t \in Task
      BY DEF Task
    <2>2. restarting' \in [Worker -> SUBSET Task]
      BY <1>g, <2>1 DEF TaskTypeOK
    <2> QED BY <1>g, <2>1, <2>2, GotoTaskType DEF Label, Working
  <1>1. CASE HandleBotEvent(w)
    <2> DEFINE event == events[lastEventId[w] + 1]
    <2>1. event \in Request
      BY <1>1 DEF HandleBotEvent, QueueTypeOK, ProcTypeOK
    <2>2. event.bot \in Bot /\ event.op \in Op
      BY <2>1 DEF Request
    <2>3. TaskTypeOK'
      <3>1. CASE UNCHANGED taskVars
        BY <3>1
      <3>2. CASE ~UNCHANGED taskVars
        BY <1>1, <2>2, <3>2, <1>g DEF HandleBotEvent
      <3> QED BY <3>1, <3>2
    <2>4. ProcTypeOK'
      BY <1>1 DEF HandleBotEvent, ProcTypeOK
    <2> QED BY <1>1, <2>3, <2>4 DEF HandleBotEvent
  <1>2. CASE HandleCommand(w)
    <2> DEFINE command == Head(commands[w])
    <2>1. command \in Request /\ Tail(commands[w]) \in Seq(Request)
      BY <1>2 DEF HandleCommand, QueueTypeOK
    <2>2. command.bot \in Bot /\ command.op \in Op
      BY <2>1 DEF Request
    <2>3. TaskTypeOK'
      BY <1>2, <2>2, <1>g DEF HandleCommand
    <2>4. QueueTypeOK'
      BY <1>2, <2>1 DEF HandleCommand, QueueTypeOK
    <2> QED BY <1>2, <2>3, <2>4 DEF HandleCommand
  <1> QED BY <1>1, <1>2

\* SIGTERM raises the flag.
LEMMA ShutdownType ==
  ASSUME TypeOK, NEW w \in Worker, Shutdown(w)
  PROVE  TypeOK'
  <1> USE UnchangedTypes DEF TypeOK
  <1>1. ProcTypeOK'
    BY DEF Shutdown, ProcTypeOK, Phase
  <1>2. budget' \in Budget
    BY SpendType DEF Shutdown
  <1> QED BY <1>1, <1>2 DEF Shutdown

\* A client that ends by itself, whichever it is.
LEMMA ClientEndsType ==
  ASSUME BotTypeOK, NEW w \in Worker, NEW b \in Bot,
         connections' = [connections EXCEPT ![w][b] = @ - 1],
         \/ ended' = ended
         \/ ended' = [ended EXCEPT ![w] = @ \cup {b}]
         \/ ended' = [ended EXCEPT ![w] = @ \ {b}],
         \/ quitting' = quitting
         \/ quitting' = [quitting EXCEPT ![w][b] = @ - 1],
         \/ UNCHANGED <<activeBots, handlers>>
         \/ /\ activeBots' = [activeBots EXCEPT ![w] = @ \ {b}]
            /\ handlers' = [handlers EXCEPT ![w] = @ \ {b}]
  PROVE  BotTypeOK'
  <1>a. /\ activeBots \in [Worker -> SUBSET Bot]
        /\ handlers \in [Worker -> SUBSET Bot]
        /\ ended \in [Worker -> SUBSET Bot]
    BY DEF BotTypeOK
  <1>1. activeBots' \in [Worker -> SUBSET Bot]
    <2>1. CASE activeBots' = activeBots
      BY <1>a, <2>1
    <2>2. CASE activeBots' = [activeBots EXCEPT ![w] = @ \ {b}]
      BY <1>a, <2>2
    <2> QED BY <2>1, <2>2
  <1>2. handlers' \in [Worker -> SUBSET Bot]
    <2>1. CASE handlers' = handlers
      BY <1>a, <2>1
    <2>2. CASE handlers' = [handlers EXCEPT ![w] = @ \ {b}]
      BY <1>a, <2>2
    <2> QED BY <2>1, <2>2
  <1>3. ended' \in [Worker -> SUBSET Bot]
    <2>1. CASE ended' = ended
      BY <1>a, <2>1
    <2>2. CASE ended' = [ended EXCEPT ![w] = @ \cup {b}]
      BY <1>a, <2>2
    <2>3. CASE ended' = [ended EXCEPT ![w] = @ \ {b}]
      BY <1>a, <2>3
    <2> QED BY <2>1, <2>2, <2>3
  <1>4. connections' \in [Worker -> [Bot -> Int]]
    BY DEF BotTypeOK
  <1>5. quitting' \in [Worker -> [Bot -> Int]]
    BY DEF BotTypeOK
  <1> QED BY <1>1, <1>2, <1>3, <1>4, <1>5 DEF BotTypeOK

\* The platform clients, in their own tasks and threads.
LEMMA ClientStepType ==
  ASSUME TypeOK, NEW w \in Worker, NEW b \in Bot, ClientStep(w, b)
  PROVE  TypeOK'
  <1> USE UnchangedTypes DEF TypeOK
  <1>1. CASE PollingEnds(w, b)
    <2>1. BotTypeOK'
      BY <1>1, ClientEndsType DEF PollingEnds, ClientEnds
    <2> QED BY <1>1, <2>1 DEF PollingEnds, ClientEnds
  <1>2. CASE ThreadExits(w, b)
    <2>1. BotTypeOK'
      BY <1>2, ClientEndsType DEF ThreadExits, DropHandler
    <2>2. budget' \in Budget
      BY <1>2, SpendType DEF ThreadExits
    <2> QED BY <1>2, <2>1, <2>2 DEF ThreadExits
  <1>3. CASE ClientFails(w, b)
    <2>1. BotTypeOK'
      BY <1>3, ClientEndsType DEF ClientFails, ClientEnds
    <2>2. budget' \in Budget
      BY <1>3, SpendType DEF ClientFails
    <2> QED BY <1>3, <2>1, <2>2 DEF ClientFails, ClientEnds
  <1>4. CASE ThreadGoesOn(w, b)
    <2>1. BotTypeOK'
      BY <1>4 DEF ThreadGoesOn, BotTypeOK
    <2> QED BY <1>4, <2>1 DEF ThreadGoesOn
  <1> QED BY <1>1, <1>2, <1>3, <1>4 DEF ClientStep

\* Failures, exits, heartbeats and the passing of time.
LEMMA EnvironmentType ==
  ASSUME TypeOK, NEW w \in Worker,
         \/ Heartbeat(w) \/ MainReturns(w) \/ Crash(w) \/ HeartbeatExpires(w)
         \/ \E b \in Bot : ClientStep(w, b)
  PROVE  TypeOK'
  <1> USE UnchangedTypes DEF TypeOK
  <1>1. CASE Heartbeat(w)
    BY <1>1 DEF Heartbeat, StoreTypeOK
  <1>2. CASE MainReturns(w)
    BY <1>2, ExitType DEF MainReturns
  <1>3. CASE Crash(w)
    BY <1>3, ExitType, SpendType DEF Crash
  <1>4. CASE HeartbeatExpires(w)
    <2>1. StoreTypeOK'
      BY <1>4 DEF HeartbeatExpires, StoreTypeOK
    <2>2. budget' \in Budget
      BY <1>4, SpendType DEF HeartbeatExpires
    <2> QED BY <1>4, <2>1, <2>2 DEF HeartbeatExpires
  <1>5. ASSUME NEW b \in Bot, ClientStep(w, b)
        PROVE  TypeOK'
    BY <1>5, ClientStepType
  <1> QED BY <1>1, <1>2, <1>3, <1>4, <1>5

\* BotDeploymentService.
LEMMA ApiType ==
  ASSUME TypeOK, NEW request \in Request,
         ApiRequest(request) \/ ActivateBot(request) \/ CommandBot(request)
  PROVE  TypeOK'
  <1> USE UnchangedTypes DEF TypeOK
  <1>1. CASE ApiRequest(request)
    <2>1. ApiTypeOK'
      BY <1>1 DEF ApiRequest, ApiTypeOK, Request
    <2>2. budget' \in Budget
      BY <1>1, SpendType DEF ApiRequest
    <2> QED BY <1>1, <2>1, <2>2 DEF ApiRequest
  <1>2. CASE ActivateBot(request)
    <2>1. ApiTypeOK' /\ QueueTypeOK'
      BY <1>2 DEF ActivateBot, ApiTypeOK, QueueTypeOK
    <2> QED BY <1>2, <2>1 DEF ActivateBot
  <1>3. CASE CommandBot(request)
    <2>1. ApiTypeOK'
      BY <1>3 DEF CommandBot, ApiTypeOK
    <2>2. assignments[request.bot] \in Worker \cup {NoWorker}
      BY DEF StoreTypeOK, Request
    <2>3. QueueTypeOK'
      <3> DEFINE worker == assignments[request.bot]
      <3>1. CASE worker = NoWorker
        BY <1>3, <3>1 DEF CommandBot, QueueTypeOK
      <3>2. CASE worker \in Worker /\ worker # NoWorker
        <4>1. Append(commands[worker], request) \in Seq(Request)
          BY <3>2 DEF QueueTypeOK
        <4>2. UNCHANGED events
          BY <1>3, <3>2 DEF CommandBot
        <4>3. \/ commands' = [commands EXCEPT
                               ![worker] = Append(commands[worker], request)]
              \/ commands' = commands
          BY <1>3, <3>2 DEF CommandBot
        <4> QED BY <4>1, <4>2, <4>3 DEF QueueTypeOK
      <3> QED BY <2>2, <3>1, <3>2
    <2> QED BY <1>3, <2>1, <2>3 DEF CommandBot
  <1> QED BY <1>1, <1>2, <1>3

\* The type invariant is inductive as it stands.
LEMMA NextTypeOK == TypeOK /\ [Next]_vars => TypeOK'
  <1> SUFFICES ASSUME TypeOK, [Next]_vars PROVE TypeOK'
    OBVIOUS
  <1>1. CASE UNCHANGED vars
    <2>1. /\ UNCHANGED <<storeVars, queueVars, apiVars, procVars>>
          /\ UNCHANGED <<botVars, taskVars, loopVars, budget>>
      BY <1>1 DEF vars
    <2> QED BY <2>1, UnchangedTypes DEF TypeOK
  <1>2. ASSUME NEW w \in Worker,
               \/ MainStep(w) \/ CheckStep(w)
               \/ HandleBotEvent(w) \/ HandleCommand(w) \/ Shutdown(w)
        PROVE  TypeOK'
    BY <1>2, MainStepType, CheckStepType, ListenerType, ShutdownType
  <1>3. ASSUME NEW w \in Worker, NEW t \in Task,
               StartStep(w, t) \/ StopStep(w, t)
               \/ StartFails(w, t) \/ StopFails(w, t)
        PROVE  TypeOK'
    BY <1>3, StartStepType, StopStepType
  <1>4. ASSUME NEW w \in Worker,
               \/ Heartbeat(w) \/ MainReturns(w) \/ Crash(w)
               \/ HeartbeatExpires(w)
               \/ \E b \in Bot : ClientStep(w, b)
        PROVE  TypeOK'
    BY <1>4, EnvironmentType
  <1>5. ASSUME NEW request \in Request,
               ApiRequest(request) \/ ActivateBot(request) \/ CommandBot(request)
        PROVE  TypeOK'
    BY <1>5, ApiType
  <1>6. ASSUME NEW b \in Bot, LockExpires(b)
        PROVE  TypeOK'
    BY <1>6, UnchangedTypes DEF TypeOK, LockExpires, StoreTypeOK
  <1> QED BY <1>1, <1>2, <1>3, <1>4, <1>5, <1>6 DEF Next

\* The store, the queues and every worker's memory keep their types: a task that
\* works on a bot has a bot to work on, whatever the interleaving of the workers'
\* tasks, of requests and of failures.
THEOREM TypeCorrect == Spec => []TypeOK
  <1>1. Init => TypeOK
    BY InitTypeOK
  <1>2. TypeOK /\ [Next]_vars => TypeOK'
    BY NextTypeOK
  <1> QED BY <1>1, <1>2, PTL DEF Spec

-------------------------------------------------------------------------------
\* The claim lock, for deployments whose starts end within the lock's 30 s.

\* Preserved by every step that leaves the locks alone and takes no claim.
LEMMA KeepsClaims ==
  ASSUME ClaimInvariant, UNCHANGED claimLock,
         \A w \in Worker, t \in Task :
           Claiming(w, t)' => Claiming(w, t) /\ target'[w][t] = target[w][t]
  PROVE  LockHeld' /\ ClaimExclusion'
  BY DEF ClaimInvariant, LockHeld, ClaimExclusion

\* A task that goes anywhere but into a claim takes none.
LEMMA GotoKeepsClaims ==
  ASSUME ClaimInvariant, NEW w \in Worker, NEW t \in Task, NEW l, NEW b,
         Goto(w, t, l, b), UNCHANGED claimLock,
         l \in {"starting", "connect", "assign", "release", "raise"}
           => Claiming(w, t) /\ b = target[w][t]
  PROVE  LockHeld' /\ ClaimExclusion'
  <1>1. ASSUME NEW v \in Worker, NEW u \in Task, Claiming(v, u)'
        PROVE  Claiming(v, u) /\ target'[v][u] = target[v][u]
    <2>1. CASE v = w /\ u = t
      BY <1>1, <2>1 DEF ClaimInvariant, TypeOK, TaskTypeOK, Goto, Claiming
    <2>2. CASE ~(v = w /\ u = t)
      BY <1>1, <2>2 DEF ClaimInvariant, TypeOK, TaskTypeOK, Goto, Claiming
    <2> QED BY <2>1, <2>2
  <1> QED BY <1>1, KeepsClaims

\* A step that moves no task and clears no lock.
LEMMA UnchangedKeepsClaims ==
  ASSUME ClaimInvariant, UNCHANGED claimLock, UNCHANGED taskVars
  PROVE  LockHeld' /\ ClaimExclusion'
  BY KeepsClaims DEF taskVars, Claiming

\* _claim_and_start_bot: SET NX takes the claim, the DELETE gives it back.
LEMMA StartStepClaims ==
  ASSUME ClaimInvariant, NEW w \in Worker, NEW t \in Task,
         StartStep(w, t) \/ StartFails(w, t)
  PROVE  LockHeld' /\ ClaimExclusion'
  <1> DEFINE b == target[w][t]
  <1>1. CASE TryClaimBotLock(w, t)
    <2>1. CASE /\ claimLock[b] = NoWorker
               /\ claimLock' = [claimLock EXCEPT ![b] = w]
               /\ Goto(w, t, "starting", b)
      <3>1. b \in Bot
        BY <1>1 DEF TryClaimBotLock, ClaimInvariant, TypeOK, TaskTypeOK, Working
      <3>2. \A v \in Worker, u \in Task : Claiming(v, u) => target[v][u] # b
        BY <2>1, BotClusterAssumption DEF ClaimInvariant, LockHeld
      <3>3. ~Claiming(w, t)
        BY <1>1 DEF TryClaimBotLock, Claiming
      <3>4. \A v \in Worker, u \in Task :
              /\ target'[v][u] = target[v][u]
              /\ Claiming(v, u)' <=> Claiming(v, u) \/ (v = w /\ u = t)
        BY <2>1 DEF Goto, Claiming, ClaimInvariant, TypeOK, TaskTypeOK
      <3>5. LockHeld'
        BY <2>1, <3>1, <3>2, <3>4
           DEF LockHeld, ClaimInvariant, TypeOK, StoreTypeOK, TaskTypeOK
      <3>6. ClaimExclusion'
        BY <3>2, <3>4 DEF ClaimExclusion, ClaimInvariant
      <3> QED BY <3>5, <3>6
    <2>2. CASE Goto(w, t, AfterStart(w, t), NoBot) /\ UNCHANGED claimLock
      BY <2>2, GotoKeepsClaims DEF AfterStart
    <2> QED BY <1>1, <2>1, <2>2 DEF TryClaimBotLock
  <1>2. CASE StartBot(w, t)
    BY <1>2, GotoKeepsClaims DEF StartBot, storeVars, Claiming
  <1>3. CASE Connect(w, t)
    BY <1>3, GotoKeepsClaims DEF Connect, storeVars, Claiming
  <1>4. CASE AssignBot(w, t)
    BY <1>4, GotoKeepsClaims DEF AssignBot, Claiming
  <1>5. CASE ReleaseBotLock(w, t) \/ RaiseFromStart(w, t)
    <2>1. Claiming(w, t) /\ b \in Bot
      BY <1>5 DEF ReleaseBotLock, RaiseFromStart, Claiming, ClaimInvariant, TypeOK,
                  TaskTypeOK, Working
    <2>2. \A v \in Worker, u \in Task :
            Claiming(v, u)' => /\ Claiming(v, u) /\ ~(v = w /\ u = t)
                               /\ target'[v][u] = target[v][u]
      BY <1>5 DEF ReleaseBotLock, RaiseFromStart, Goto, Claiming, AfterStart,
                  ClaimInvariant, TypeOK, TaskTypeOK
    <2>3. \A v \in Worker, u \in Task : Claiming(v, u)' => target[v][u] # b
      BY <2>1, <2>2 DEF ClaimInvariant, ClaimExclusion
    <2>4. \A v \in Worker, u \in Task : Claiming(v, u) => target[v][u] \in Bot
      BY DEF Claiming, ClaimInvariant, TypeOK, TaskTypeOK, Working
    <2>5. \A c \in Bot : c # b => claimLock'[c] = claimLock[c]
      BY <1>5 DEF ReleaseBotLock, RaiseFromStart, ClaimInvariant, TypeOK,
                  StoreTypeOK
    <2>6. LockHeld'
      BY <2>2, <2>3, <2>4, <2>5 DEF LockHeld, ClaimInvariant
    <2>7. ClaimExclusion'
      BY <2>2 DEF ClaimExclusion, ClaimInvariant
    <2> QED BY <2>6, <2>7
  <1>6. CASE StartFails(w, t)
    <2>1. \E l \in {"release", "raise"} : Goto(w, t, l, b)
      BY <1>6 DEF StartFails, AfterFailure
    <2>2. Claiming(w, t) /\ UNCHANGED claimLock
      BY <1>6 DEF StartFails, Claiming, storeVars
    <2> QED BY <2>1, <2>2, GotoKeepsClaims
  <1> QED BY <1>1, <1>2, <1>3, <1>4, <1>5, <1>6 DEF StartStep

\* _stop_bot takes no claim; a restart goes on to ask for one.
LEMMA StopStepClaims ==
  ASSUME ClaimInvariant, NEW w \in Worker, NEW t \in Task,
         StopStep(w, t) \/ StopFails(w, t)
  PROVE  LockHeld' /\ ClaimExclusion'
  <1>1. UNCHANGED claimLock
    BY DEF StopStep, BeginStop, PopSlackHandler, CloseBot, UnassignBot,
           StopFails, storeVars
  <1>2. ReturnFromStop(w, t) => LockHeld' /\ ClaimExclusion'
    <2>1. CASE t \in restarting[w]
      BY <1>1, <2>1, GotoKeepsClaims DEF ReturnFromStop
    <2>2. CASE t \notin restarting[w]
      BY <1>1, <2>2, GotoKeepsClaims DEF ReturnFromStop
    <2> QED BY <2>1, <2>2
  <1>3. ASSUME NEW l \in {"await", "close", "unassign"},
               Goto(w, t, l, target[w][t])
        PROVE  LockHeld' /\ ClaimExclusion'
    BY <1>1, <1>3, GotoKeepsClaims
  <1> QED BY <1>2, <1>3 DEF StopStep, BeginStop, PopSlackHandler, CloseBot,
                           UnassignBot, StopFails

\* A process that ends takes its claims with it; the locks are left to expire.
LEMMA ExitClaims ==
  ASSUME ClaimInvariant, NEW w \in Worker, Exit(w), UNCHANGED claimLock
  PROVE  LockHeld' /\ ClaimExclusion'
  <1>1. ASSUME NEW v \in Worker, NEW u \in Task, Claiming(v, u)'
        PROVE  Claiming(v, u) /\ target'[v][u] = target[v][u]
    BY <1>1 DEF Exit, Claiming, ClaimInvariant, TypeOK, TaskTypeOK
  <1> QED BY <1>1, KeepsClaims

\* A cancelled start still holds the lock until its `finally` has run, and a
\* cancelled SET NX that is executed takes a lock nobody holds.
LEMMA CancelTaskClaims ==
  ASSUME ClaimInvariant, NEW w \in Worker, NEW t \in Task, CancelTask(w, t)
  PROVE  LockHeld' /\ ClaimExclusion'
  <1> DEFINE b == target[w][t]
  <1>1. \A v \in Worker, u \in Task :
          Claiming(v, u)' => Claiming(v, u) /\ target'[v][u] = target[v][u]
    <2>1. CASE UNCHANGED taskVars
      BY <2>1 DEF taskVars, Claiming
    <2>2. CASE Claiming(w, t) /\ Goto(w, t, "release", b)
      BY <2>2 DEF Goto, Claiming, ClaimInvariant, TypeOK, TaskTypeOK
    <2>3. CASE Goto(w, t, "idle", NoBot)
      BY <2>3 DEF Goto, Claiming, ClaimInvariant, TypeOK, TaskTypeOK
    <2> QED BY <2>1, <2>2, <2>3 DEF CancelTask
  <1>2. CASE UNCHANGED claimLock
    BY <1>1, <1>2, KeepsClaims
  <1>3. CASE claimLock[b] = NoWorker /\ claimLock' = [claimLock EXCEPT ![b] = w]
    <2>1. \A v \in Worker, u \in Task : Claiming(v, u) => target[v][u] # b
      BY <1>3, BotClusterAssumption DEF ClaimInvariant, LockHeld
    <2>2. \A v \in Worker, u \in Task : Claiming(v, u) => target[v][u] \in Bot
      BY DEF Claiming, ClaimInvariant, TypeOK, TaskTypeOK, Working
    <2>3. \A c \in Bot : c # b => claimLock'[c] = claimLock[c]
      BY <1>3 DEF ClaimInvariant, TypeOK, StoreTypeOK
    <2>4. LockHeld'
      BY <1>1, <2>1, <2>2, <2>3 DEF LockHeld, ClaimInvariant
    <2>5. ClaimExclusion'
      BY <1>1 DEF ClaimExclusion, ClaimInvariant
    <2> QED BY <2>4, <2>5
  <1> QED BY <1>2, <1>3 DEF CancelTask, LastWrite

\* The other steps of a worker, which leave the locks alone.
LEMMA OtherStepClaims ==
  ASSUME ClaimInvariant, NEW w \in Worker,
         \/ MainStep(w) \/ CheckStep(w) \/ HandleBotEvent(w) \/ HandleCommand(w)
         \/ Heartbeat(w) \/ MainReturns(w) \/ Crash(w) \/ HeartbeatExpires(w)
         \/ Shutdown(w) \/ \E b \in Bot : ClientStep(w, b)
  PROVE  LockHeld' /\ ClaimExclusion'
  <1>t. {"main", "check", "events", "commands"} \subseteq Task
    BY DEF Task
  <1>1. CASE MainStep(w)
    <2>2. CASE Unregister(w)
      BY <2>2, ExitClaims DEF Unregister
    <2>3. CASE Register(w) \/ SelectAssignedBots(w) \/ StartLoops(w)
      BY <2>3, UnchangedKeepsClaims DEF Register, SelectAssignedBots, StartLoops,
                                        storeVars
    <2>4. CASE ClaimAssignedBot(w) \/ SelectAllBots(w) \/ StopNextBot(w)
      <3>1. UNCHANGED claimLock
        BY <2>4 DEF ClaimAssignedBot, SelectAllBots, StopNextBot, storeVars
      <3>2. \E l \in {"claim", "drain", "stop"}, b \in Bot \cup {NoBot} :
              Goto(w, "main", l, b)
        BY <2>4 DEF ClaimAssignedBot, SelectAllBots, StopNextBot, ClaimInvariant,
                    TypeOK, LoopTypeOK
      <3> QED BY <1>t, <3>1, <3>2, GotoKeepsClaims
    <2>5. CASE \E t \in Task : CancelTask(w, t)
      BY <2>5, CancelTaskClaims
    <2> QED BY <1>1, <2>2, <2>3, <2>4, <2>5 DEF MainStep
  <1>2. CASE CheckStep(w)
    <2>1. UNCHANGED claimLock
      BY <1>2 DEF CheckStep, FindDeadWorkers, UnregisterDead, RebuildHashRing,
                  ClaimOrphanedBot, SelectUnownedBots, ReleaseUnownedBot,
                  storeVars
    <2>2. CASE UNCHANGED taskVars
      BY <2>1, <2>2, UnchangedKeepsClaims
    <2>3. CASE ~UNCHANGED taskVars
      <3>1. \E l \in {"cull", "orphans", "claim", "shed", "idle", "stop"},
               b \in Bot \cup {NoBot} : Goto(w, "check", l, b)
        BY <1>2, <2>3 DEF CheckStep, FindDeadWorkers, UnregisterDead,
                  RebuildHashRing, ClaimOrphanedBot, SelectUnownedBots,
                  ReleaseUnownedBot, ClaimInvariant, TypeOK, LoopTypeOK
      <3> QED BY <1>t, <2>1, <3>1, GotoKeepsClaims
    <2> QED BY <2>2, <2>3
  <1>3. CASE HandleBotEvent(w)
    <2>1. CASE UNCHANGED taskVars
      BY <1>3, <2>1, UnchangedKeepsClaims DEF HandleBotEvent, storeVars
    <2>2. CASE ~UNCHANGED taskVars
      BY <1>t, <1>3, <2>2, GotoKeepsClaims DEF HandleBotEvent, storeVars
    <2> QED BY <2>1, <2>2
  <1>4. CASE HandleCommand(w)
    BY <1>t, <1>4, GotoKeepsClaims DEF HandleCommand, storeVars
  <1>5. CASE Heartbeat(w) \/ HeartbeatExpires(w)
    BY <1>5, UnchangedKeepsClaims DEF Heartbeat, HeartbeatExpires
  <1>6. CASE MainReturns(w) \/ Crash(w)
    BY <1>6, ExitClaims DEF MainReturns, Crash, storeVars
  <1>7. CASE \E b \in Bot : ClientStep(w, b)
    <2>1. UNCHANGED <<claimLock, taskVars>>
      BY <1>7 DEF ClientStep, ThreadExits, PollingEnds, ClientFails, ThreadGoesOn,
                  ClientEnds, storeVars
    <2> QED BY <2>1, UnchangedKeepsClaims
  <1>8. CASE Shutdown(w)
    BY <1>8, UnchangedKeepsClaims DEF Shutdown, storeVars
  <1> QED BY <1>1, <1>2, <1>3, <1>4, <1>5, <1>6, <1>7, <1>8

\* The invariant is inductive.
LEMMA NextClaims ==
  ASSUME SlowStarts = FALSE, ClaimInvariant, [Next]_vars
  PROVE  ClaimInvariant'
  <1>1. TypeOK'
    BY NextTypeOK DEF ClaimInvariant
  <1>2. LockHeld' /\ ClaimExclusion'
    <2>1. CASE UNCHANGED vars
      BY <2>1, UnchangedKeepsClaims DEF vars, storeVars
    <2>2. ASSUME NEW w \in Worker, NEW t \in Task,
                 StartStep(w, t) \/ StopStep(w, t)
                 \/ StartFails(w, t) \/ StopFails(w, t)
          PROVE  LockHeld' /\ ClaimExclusion'
      BY <2>2, StartStepClaims, StopStepClaims
    <2>3. ASSUME NEW w \in Worker,
                 \/ MainStep(w) \/ CheckStep(w)
                 \/ HandleBotEvent(w) \/ HandleCommand(w) \/ Heartbeat(w)
                 \/ MainReturns(w) \/ Crash(w) \/ HeartbeatExpires(w)
                 \/ Shutdown(w)
                 \/ \E b \in Bot : ClientStep(w, b)
          PROVE  LockHeld' /\ ClaimExclusion'
      BY <2>3, OtherStepClaims
    <2>4. ASSUME NEW b \in Bot, LockExpires(b)
          PROVE  LockHeld' /\ ClaimExclusion'
      <3>1. \A w \in Worker, t \in Task : Claiming(w, t) => target[w][t] # b
        BY <2>4, SlowStarts = FALSE DEF LockExpires
      <3>2. \A w \in Worker, t \in Task : Claiming(w, t) => target[w][t] \in Bot
        BY DEF Claiming, ClaimInvariant, TypeOK, TaskTypeOK, Working
      <3>3. UNCHANGED <<pc, target>>
        BY <2>4 DEF LockExpires, taskVars
      <3>4. \A c \in Bot : c # b => claimLock'[c] = claimLock[c]
        BY <2>4 DEF LockExpires, ClaimInvariant, TypeOK, StoreTypeOK
      <3>5. LockHeld'
        BY <3>1, <3>2, <3>3, <3>4 DEF LockHeld, Claiming, ClaimInvariant
      <3>6. ClaimExclusion'
        BY <3>3 DEF ClaimExclusion, Claiming, ClaimInvariant
      <3> QED BY <3>5, <3>6
    <2>5. ASSUME NEW request \in Request,
                 ApiRequest(request) \/ ActivateBot(request) \/ CommandBot(request)
          PROVE  LockHeld' /\ ClaimExclusion'
      BY <2>5, UnchangedKeepsClaims DEF ApiRequest, ActivateBot, CommandBot,
                                        storeVars
    <2> QED BY <2>1, <2>2, <2>3, <2>4, <2>5 DEF Next
  <1> QED BY <1>1, <1>2 DEF ClaimInvariant

\* Nobody is starting a bot before any worker has started.
LEMMA InitClaims == Init => ClaimInvariant
  <1> SUFFICES ASSUME Init PROVE ClaimInvariant
    OBVIOUS
  <1>1. \A w \in Worker, t \in Task : ~Claiming(w, t)
    BY DEF Init, Claiming
  <1> QED BY <1>1, InitTypeOK DEF ClaimInvariant, LockHeld, ClaimExclusion

\* When no start outlasts the lock's time to live, at most one task of the whole
\* pool at a time is between the SET NX and the DELETE of a bot's lock, for any
\* number of workers and bots and any failures (_claim_and_start_bot).
THEOREM Exclusion == SlowStarts = FALSE => (Spec => []ClaimExclusion)
  <1> SUFFICES ASSUME SlowStarts = FALSE PROVE Spec => []ClaimExclusion
    OBVIOUS
  <1>1. Init => ClaimInvariant
    BY InitClaims
  <1>2. ClaimInvariant /\ [Next]_vars => ClaimInvariant'
    BY NextClaims
  <1>3. ClaimInvariant => ClaimExclusion
    BY DEF ClaimInvariant
  <1> QED BY <1>1, <1>2, <1>3, PTL DEF Spec

\* The unconditional DELETE of the `finally` in _claim_and_start_bot only ever
\* deletes the lock of the worker that runs it.
THEOREM OwnLock == SlowStarts = FALSE => (Spec => []LockHeld)
  <1> SUFFICES ASSUME SlowStarts = FALSE PROVE Spec => []LockHeld
    OBVIOUS
  <1>1. Init => ClaimInvariant
    BY InitClaims
  <1>2. ClaimInvariant /\ [Next]_vars => ClaimInvariant'
    BY NextClaims
  <1>3. ClaimInvariant => LockHeld
    BY DEF ClaimInvariant
  <1> QED BY <1>1, <1>2, <1>3, PTL DEF Spec

\* Only the holder of a bot's lock ever writes its assignment, so no two
\* workers overwrite each other's (assign_bot under _claim_and_start_bot).
THEOREM AssignedUnderLock == SlowStarts = FALSE => (Spec => OnlyClaimantAssigns)
  <1> SUFFICES ASSUME SlowStarts = FALSE PROVE Spec => OnlyClaimantAssigns
    OBVIOUS
  <1> DEFINE P == \A b \in Bot : assignments'[b] \notin {assignments[b], NoWorker}
                                 => claimLock[b] = assignments'[b]
  <1>1. Init => ClaimInvariant
    BY InitClaims
  <1>2. ClaimInvariant /\ [Next]_vars => ClaimInvariant'
    BY NextClaims
  <1>3. ClaimInvariant /\ [Next]_vars => [P]_vars
    <2> SUFFICES ASSUME ClaimInvariant, Next, NEW b \in Bot,
                        assignments'[b] \notin {assignments[b], NoWorker}
                 PROVE  claimLock[b] = assignments'[b]
      OBVIOUS
    <2>1. PICK w \in Worker, t \in Task :
            AssignBot(w, t) \/ UnassignBot(w, t) \/ CancelTask(w, t)
      <3>1. ASSUME NEW w \in Worker, MainStep(w) \/ CheckStep(w)
            PROVE  UNCHANGED assignments \/ \E t \in Task : CancelTask(w, t)
        BY <3>1 DEF MainStep, Register, SelectAssignedBots, ClaimAssignedBot,
                StartLoops, SelectAllBots, StopNextBot, Unregister, CheckStep,
                FindDeadWorkers, UnregisterDead, RebuildHashRing,
                ClaimOrphanedBot, SelectUnownedBots, ReleaseUnownedBot,
                storeVars
      <3>2. ASSUME NEW w \in Worker,
                   \/ HandleBotEvent(w) \/ HandleCommand(w) \/ Heartbeat(w)
                   \/ MainReturns(w) \/ Crash(w) \/ HeartbeatExpires(w)
                   \/ Shutdown(w)
                   \/ \E c \in Bot : ClientStep(w, c)
            PROVE  UNCHANGED assignments
        BY <3>2 DEF HandleBotEvent, HandleCommand, Heartbeat, MainReturns,
                Crash, HeartbeatExpires, Shutdown, ClientStep, ThreadExits,
                PollingEnds, ClientFails, ThreadGoesOn, ClientEnds, storeVars
      <3>3. ASSUME NEW w \in Worker, NEW t \in Task,
                   \/ StartStep(w, t) \/ StopStep(w, t)
                   \/ StartFails(w, t) \/ StopFails(w, t)
            PROVE  UNCHANGED assignments \/ AssignBot(w, t) \/ UnassignBot(w, t)
        BY <3>3 DEF StartStep, TryClaimBotLock, StartBot, Connect,
                ReleaseBotLock, RaiseFromStart, StopStep, BeginStop,
                PopSlackHandler, CloseBot, StartFails, StopFails, storeVars
      <3>4. ASSUME NEW c \in Bot, LockExpires(c)
            PROVE  UNCHANGED assignments
        BY <3>4 DEF LockExpires
      <3>5. ASSUME NEW request \in Request,
                 ApiRequest(request) \/ ActivateBot(request) \/ CommandBot(request)
            PROVE  UNCHANGED assignments
        BY <3>5 DEF ApiRequest, ActivateBot, CommandBot, storeVars
      <3> QED BY <3>1, <3>2, <3>3, <3>4, <3>5 DEF Next
    <2>2. pc[w][t] = "assign" => claimLock[target[w][t]] = w
      BY DEF ClaimInvariant, LockHeld, Claiming
    <2>3. CASE AssignBot(w, t)
      BY <2>2, <2>3 DEF AssignBot, ClaimInvariant, TypeOK, StoreTypeOK
    <2>4. CASE UnassignBot(w, t)
      BY <2>4 DEF UnassignBot, ClaimInvariant, TypeOK, StoreTypeOK
    <2>5. CASE CancelTask(w, t)
      BY <2>2, <2>5 DEF CancelTask, LastWrite, ClaimInvariant, TypeOK, StoreTypeOK
    <2> QED BY <2>1, <2>3, <2>4, <2>5
  <1>4. Spec => [][P]_vars
    BY <1>1, <1>2, <1>3, PTL DEF Spec
  <1> QED BY <1>4 DEF OnlyClaimantAssigns

-------------------------------------------------------------------------------
\* The hash ring: what the selections of _claim_assigned_bots,
\* _claim_orphaned_bots and _release_unowned_bots rely on.

LEMMA FirstIsLeast ==
  ASSUME NEW T, T \subseteq Nat, T # {}
  PROVE  First(T) \in T /\ \A q \in T : First(T) <= q
  BY LeastElement DEF First

\* The point get_node looks up is one of the ring's ...
LEMMA NextPointIsPoint ==
  ASSUME NEW T, T \subseteq Nat, T # {}, NEW h \in Nat
  PROVE  NextPoint(T, h) \in T
  <1> DEFINE following == {p \in T : p >= h}
  <1>1. NextPoint(T, h) = First(IF following = {} THEN T ELSE following)
    BY DEF NextPoint
  <1>2. CASE following = {}
    BY <1>1, <1>2, FirstIsLeast
  <1>3. CASE following # {}
    <2>1. following \subseteq Nat
      OBVIOUS
    <2>2. First(following) \in following
      BY <1>3, <2>1, FirstIsLeast
    <2> QED BY <1>1, <1>3, <2>2
  <1> QED BY <1>2, <1>3

\* ... and remains the one looked up when others leave the ring.
LEMMA NextPointStays ==
  ASSUME NEW T, T \subseteq Nat, NEW S, S \subseteq T, NEW h \in Nat,
         NextPoint(T, h) \in S
  PROVE  NextPoint(S, h) = NextPoint(T, h)
  <1> DEFINE later(U) == {p \in U : p >= h}
  <1> DEFINE among(U) == IF later(U) = {} THEN U ELSE later(U)
  <1> DEFINE p == NextPoint(T, h)
  <1>1. \A U : NextPoint(U, h) = First(among(U))
    BY DEF NextPoint
  <1>2. among(T) \subseteq Nat /\ among(T) # {}
    <2>1. T # {}
      OBVIOUS
    <2>2. CASE later(T) = {}
      BY <2>1, <2>2
    <2>3. CASE later(T) # {}
      BY <2>3
    <2> QED BY <2>2, <2>3
  <1>3. p \in among(T) /\ \A q \in among(T) : p <= q
    <2> DEFINE A == among(T)
    <2>1. First(A) \in A /\ \A q \in A : First(A) <= q
      <3> HIDE DEF A
      <3> QED BY <1>2, FirstIsLeast DEF A
    <2>2. p = First(A)
      BY <1>1
    <2> QED BY <2>1, <2>2
  <1>4. p \in among(S) /\ among(S) \subseteq among(T)
    BY <1>3
  <1>5. First(among(S)) \in among(S) /\ \A q \in among(S) : First(among(S)) <= q
    BY <1>2, <1>4, FirstIsLeast
  <1> DEFINE r == First(among(S))
  <1>6. p \in Nat /\ r \in Nat /\ p <= r /\ r <= p
    BY <1>2, <1>3, <1>4, <1>5
  <1>7. p = r
    BY <1>6
  <1> QED BY <1>1, <1>7

LEMMA RingPointsType ==
  ASSUME NEW ring, ring \subseteq Worker
  PROVE  /\ RingPoints(ring) \subseteq Nat
         /\ ring # {} => RingPoints(ring) # {}
  <1>1. \A w \in ring : Points[w] \subseteq Nat /\ Points[w] # {}
    BY HashRingAssumption
  <1>2. RingPoints(ring) \subseteq Nat
    BY <1>1 DEF RingPoints
  <1>3. ASSUME ring # {} PROVE RingPoints(ring) # {}
    <2>1. PICK w \in ring : TRUE
      BY <1>3
    <2>2. PICK p \in Points[w] : TRUE
      BY <1>1, <2>1
    <2>3. p \in RingPoints(ring)
      BY <2>1, <2>2 DEF RingPoints
    <2> QED BY <2>3
  <1> QED BY <1>2, <1>3

\* get_node finds an owner among the workers of the ring, and only one worker
\* has the point it goes by.
THEOREM OneOwner ==
  ASSUME NEW ring, ring \subseteq Worker, ring # {}, NEW b \in Bot
  PROVE  /\ GetNode(b, ring) \in ring
         /\ \A w \in ring : NextPoint(RingPoints(ring), Hash[b]) \in Points[w]
                              <=> w = GetNode(b, ring)
  <1> DEFINE p == NextPoint(RingPoints(ring), Hash[b])
  <1>1. p \in RingPoints(ring)
    BY RingPointsType, NextPointIsPoint, HashRingAssumption
  <1>2. PICK w \in ring : p \in Points[w]
    BY <1>1 DEF RingPoints
  <1>3. GetNode(b, ring) \in ring /\ p \in Points[GetNode(b, ring)]
    BY <1>2 DEF GetNode
  <1>4. \A v \in ring : p \in Points[v] => v = GetNode(b, ring)
    BY <1>3, HashRingAssumption
  <1> QED BY <1>3, <1>4

\* A bot whose owner is in a smaller ring as well has the same owner there.
LEMMA OwnerStays ==
  ASSUME NEW ring, ring \subseteq Worker, NEW part, part \subseteq ring,
         NEW b \in Bot, GetNode(b, ring) \in part
  PROVE  GetNode(b, part) = GetNode(b, ring)
  <1> DEFINE w == GetNode(b, ring)
  <1> DEFINE p == NextPoint(RingPoints(ring), Hash[b])
  <1>1. p \in Points[w]
    BY OneOwner
  <1>2. /\ RingPoints(ring) \subseteq Nat
        /\ RingPoints(part) \subseteq RingPoints(ring)
        /\ p \in RingPoints(part)
    BY <1>1, RingPointsType DEF RingPoints
  <1>3. NextPoint(RingPoints(part), Hash[b]) = p
    BY <1>2, NextPointStays, HashRingAssumption
  <1> QED BY <1>1, <1>3, OneOwner

\* The module's promise that few bots are reassigned "when workers join/leave":
\* a worker that leaves the ring changes the owner of no bot but its own ...
THEOREM LeavingMovesOwnBots ==
  ASSUME NEW ring, ring \subseteq Worker, NEW w \in ring, NEW b \in Bot,
         GetNode(b, ring) # w
  PROVE  GetNode(b, ring \ {w}) = GetNode(b, ring)
  <1>1. GetNode(b, ring) \in ring \ {w}
    BY OneOwner
  <1> QED BY <1>1, OwnerStays

\* ... and one that joins takes bots for itself and moves none between others.
THEOREM JoiningTakesForItself ==
  ASSUME NEW ring, ring \subseteq Worker, ring # {}, NEW w \in Worker,
         NEW b \in Bot
  PROVE  GetNode(b, ring \cup {w}) \in {w, GetNode(b, ring)}
  <1> DEFINE larger == ring \cup {w}
  <1>1. GetNode(b, larger) \in larger
    BY OneOwner
  <1>2. CASE GetNode(b, larger) \in ring
    BY <1>2, OwnerStays
  <1> QED BY <1>1, <1>2

\* Workers that have the same ring share the active bots: each bot is selected
\* by one worker of the ring and by no other.
THEOREM RingShares ==
  ASSUME NEW ring, ring \subseteq Worker, ring # {}, isActive \in [Bot -> BOOLEAN],
         NEW b \in ActiveBotIds
  PROVE  \E w \in ring : \A v \in Worker : b \in MyBots(v, ring) <=> v = w
  <1>1. b \in Bot
    BY DEF ActiveBotIds
  <1>2. GetNode(b, ring) \in ring
    BY <1>1, OneOwner
  <1>3. \A v \in Worker : b \in MyBots(v, ring) <=> v = GetNode(b, ring)
    BY DEF MyBots, GetKeysForNode
  <1> QED BY <1>2, <1>3

\* The steps that build, drop or start to use a ring; no other one touches it.
LEMMA NextInOwnRing ==
  ASSUME TypeOK, InOwnRing, [Next]_vars
  PROVE  InOwnRing'
  <1> USE DEF InOwnRing, HasRing, TypeOK, ProcTypeOK
  <1>u. ASSUME UNCHANGED <<phase, hashRing>> PROVE InOwnRing'
    BY <1>u
  <1>1. CASE UNCHANGED vars
    BY <1>1, <1>u DEF vars, procVars
  <1>e. ASSUME NEW w \in Worker, Exit(w) PROVE InOwnRing'
    BY <1>e DEF Exit
  <1>2. ASSUME NEW w \in Worker, MainStep(w) PROVE InOwnRing'
    <2>1. CASE Register(w)
      BY <2>1 DEF Register
    <2>2. CASE SelectAssignedBots(w)
      BY <2>2 DEF SelectAssignedBots, FreshRing
    <2>3. CASE StartLoops(w)
      BY <2>3 DEF StartLoops
    <2>4. CASE Unregister(w)
      BY <2>4, <1>e DEF Unregister
    <2>5. ASSUME \/ ClaimAssignedBot(w) \/ SelectAllBots(w) \/ StopNextBot(w)
                 \/ \E t \in Task : CancelTask(w, t)
          PROVE  UNCHANGED <<phase, hashRing>>
      BY <2>5 DEF ClaimAssignedBot, SelectAllBots, StopNextBot, CancelTask,
                  procVars
    <2> QED BY <1>2, <1>u, <2>1, <2>2, <2>3, <2>4, <2>5 DEF MainStep
  <1>3. ASSUME NEW w \in Worker, CheckStep(w) PROVE InOwnRing'
    <2>1. CASE RebuildHashRing(w)
      BY <2>1 DEF RebuildHashRing, FreshRing
    <2>2. ASSUME \/ FindDeadWorkers(w) \/ UnregisterDead(w)
                 \/ ClaimOrphanedBot(w) \/ SelectUnownedBots(w)
                 \/ ReleaseUnownedBot(w)
          PROVE  UNCHANGED <<phase, hashRing>>
      BY <2>2 DEF FindDeadWorkers, UnregisterDead, ClaimOrphanedBot,
                  SelectUnownedBots, ReleaseUnownedBot, procVars
    <2> QED BY <1>3, <1>u, <2>1, <2>2 DEF CheckStep
  <1>4. ASSUME NEW w \in Worker,
               \/ HandleBotEvent(w) \/ HandleCommand(w) \/ Heartbeat(w)
               \/ HeartbeatExpires(w)
               \/ \E b \in Bot : ClientStep(w, b)
               \/ \E t \in Task : StartStep(w, t) \/ StopStep(w, t)
                                  \/ StartFails(w, t) \/ StopFails(w, t)
        PROVE  \/ UNCHANGED <<phase, hashRing>>
               \/ \E t \in Task : RaiseFromStart(w, t)
    <2>1. ASSUME \/ HandleBotEvent(w) \/ HandleCommand(w) \/ Heartbeat(w)
                 \/ HeartbeatExpires(w)
                 \/ \E b \in Bot : ClientStep(w, b)
          PROVE  UNCHANGED <<phase, hashRing>>
      BY <2>1 DEF HandleBotEvent, HandleCommand, Heartbeat, HeartbeatExpires,
                  ClientStep, ThreadExits, PollingEnds, ClientFails,
                  ThreadGoesOn, ClientEnds, procVars
    <2>2. ASSUME NEW t \in Task, \/ StartStep(w, t) \/ StopStep(w, t)
                                 \/ StartFails(w, t) \/ StopFails(w, t)
          PROVE  UNCHANGED <<phase, hashRing>> \/ RaiseFromStart(w, t)
      BY <2>2 DEF StartStep, TryClaimBotLock, StartBot, Connect, AssignBot,
                  ReleaseBotLock, StopStep, BeginStop, PopSlackHandler,
                  CloseBot, UnassignBot, StartFails, StopFails, procVars
    <2> QED BY <1>4, <2>1, <2>2
  <1>5. ASSUME NEW w \in Worker,
               Shutdown(w) \/ \E t \in Task : RaiseFromStart(w, t)
        PROVE  InOwnRing'
    BY <1>5 DEF Shutdown, RaiseFromStart
  <1>6. ASSUME NEW w \in Worker, MainReturns(w) \/ Crash(w) PROVE InOwnRing'
    BY <1>6, <1>e DEF MainReturns, Crash
  <1>7. ASSUME \/ \E b \in Bot : LockExpires(b)
               \/ \E request \in Request :
                    \/ ApiRequest(request) \/ ActivateBot(request)
                    \/ CommandBot(request)
        PROVE  UNCHANGED <<phase, hashRing>>
    BY <1>7 DEF LockExpires, ApiRequest, ActivateBot, CommandBot, procVars
  <1> QED
    BY <1>1, <1>2, <1>3, <1>4, <1>5, <1>6, <1>7, <1>u DEF Next

\* Whatever joins, leaves, dies or comes back: a worker looks bots up only in a
\* ring that has the worker itself, and an active bot it gives up is another
\* worker's by that ring.
THEOREM RingsUsable == Spec => [](InOwnRing /\ ReleasedToAnother)
  <1>1. Init => TypeOK /\ InOwnRing
    BY InitTypeOK DEF Init, InOwnRing, HasRing
  <1>2. TypeOK /\ InOwnRing /\ [Next]_vars => TypeOK' /\ InOwnRing'
    BY NextTypeOK, NextInOwnRing
  <1>3. TypeOK /\ InOwnRing => ReleasedToAnother
    <2> SUFFICES ASSUME TypeOK, InOwnRing, NEW w \in Worker, HasRing(w),
                        NEW b \in UnownedBots(w) \cap ActiveBotIds
                 PROVE  GetNode(b, hashRing[w]) \in hashRing[w] \ {w}
      BY DEF ReleasedToAnother
    <2>1. hashRing[w] \subseteq Worker /\ hashRing[w] # {} /\ b \in Bot
      BY DEF TypeOK, ProcTypeOK, InOwnRing, ActiveBotIds
    <2>2. GetNode(b, hashRing[w]) \in hashRing[w]
      BY <2>1, OneOwner
    <2>3. GetNode(b, hashRing[w]) # w
      BY DEF UnownedBots, MyBots, GetKeysForNode
    <2> QED BY <2>2, <2>3
  <1> QED BY <1>1, <1>2, <1>3, PTL DEF Spec
===============================================================================
