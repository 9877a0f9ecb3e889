------------------------- MODULE BotConnectionsProofs -------------------------
(***************************************************************************)
(* Proofs about the connections of BotCluster, for every set of workers    *)
(* and bots, every capacity and every bound.                               *)
(*                                                                         *)
(* TrackedConnections is inductive once the kinds of bots are known that   *)
(* can be awaited, closed or told to disconnect.  OnlyEndedGhosts is not:  *)
(* it rests on TrackedConnections and on every active bot having a handler *)
(* in the store or in the hands of a task that closes it.  Together they   *)
(* are ConnectionInvariant of BotCluster.  The number of closing tasks is  *)
(* followed through the steps by two lemmas about Goto, and every step is  *)
(* then a matter of one worker and one bot.                                *)
(***************************************************************************)
EXTENDS BotClusterProofs, FiniteSetTheorems

\* How many tasks of w are closing a connection of b.
Count(w, b) == Cardinality(Closing(w, b))

\* The tasks are four, so they can be counted.
LEMMA FiniteTasks == IsFiniteSet(Task)
  <1>1. Task = ((({} \cup {"main"}) \cup {"events"}) \cup {"commands"})
               \cup {"check"}
    BY DEF Task
  <1>2. IsFiniteSet({} \cup {"main"})
    BY FS_EmptySet, FS_AddElement
  <1>3. IsFiniteSet(({} \cup {"main"}) \cup {"events"})
    BY <1>2, FS_AddElement
  <1>4. IsFiniteSet((({} \cup {"main"}) \cup {"events"}) \cup {"commands"})
    BY <1>3, FS_AddElement
  <1> QED BY <1>1, <1>4, FS_AddElement

LEMMA CountType ==
  ASSUME NEW w, NEW b
  PROVE  /\ IsFiniteSet(Closing(w, b)) /\ Count(w, b) \in Nat /\ Count(w, b)' \in Nat
         /\ Closing(w, b) # {} <=> Count(w, b) > 0
         /\ Closing(w, b)' # {} <=> Count(w, b)' > 0
  <1>1. Closing(w, b) \in SUBSET Task /\ Closing(w, b)' \in SUBSET Task
    BY DEF Closing
  <1>2. IsFiniteSet(Closing(w, b)) /\ IsFiniteSet(Closing(w, b)')
    BY <1>1, FiniteTasks, FS_Subset
  <1>3. Cardinality(Closing(w, b)) \in Nat /\ Cardinality(Closing(w, b)') \in Nat
    BY <1>2, FS_CardinalityType
  <1>4. /\ Closing(w, b) = {} <=> Cardinality(Closing(w, b)) = 0
        /\ Closing(w, b)' = {} <=> Cardinality(Closing(w, b)') = 0
    BY <1>2, FS_EmptySet
  <1> QED BY <1>2, <1>3, <1>4 DEF Count

\* A task that goes anywhere but to a close ends the close it was in, if any.
LEMMA GotoElsewhere ==
  ASSUME TaskTypeOK, NEW w \in Worker, NEW t \in Task, NEW l, NEW b,
         Goto(w, t, l, b), l # "close", NEW v \in Worker, NEW c \in Bot
  PROVE  Count(v, c)' = IF v = w /\ pc[w][t] = "close" /\ target[w][t] = c
                        THEN Count(v, c) - 1 ELSE Count(v, c)
  <1>1. CASE v = w /\ pc[w][t] = "close" /\ target[w][t] = c
    <2>1. Closing(v, c)' = Closing(v, c) \ {t}
      BY <1>1 DEF Closing, Goto, TaskTypeOK
    <2>2. t \in Closing(v, c)
      BY <1>1 DEF Closing
    <2>3. Cardinality(Closing(v, c) \ {t}) = Cardinality(Closing(v, c)) - 1
      BY <2>2, CountType, FS_RemoveElement
    <2> QED BY <1>1, <2>1, <2>3 DEF Count
  <1>2. CASE ~(v = w /\ pc[w][t] = "close" /\ target[w][t] = c)
    <2>1. Closing(v, c)' = Closing(v, c)
      BY <1>2 DEF Closing, Goto, TaskTypeOK
    <2> QED BY <1>2, <2>1 DEF Count
  <1> QED BY <1>1, <1>2

\* A task that goes on to a close is one more.
LEMMA GotoClose ==
  ASSUME TaskTypeOK, NEW w \in Worker, NEW t \in Task, pc[w][t] # "close",
         NEW b \in Bot, Goto(w, t, "close", b), NEW v \in Worker, NEW c \in Bot
  PROVE  Count(v, c)' = IF v = w /\ c = b THEN Count(v, c) + 1 ELSE Count(v, c)
  <1>1. CASE v = w /\ c = b
    <2>1. Closing(v, c)' = Closing(v, c) \cup {t}
      BY <1>1 DEF Closing, Goto, TaskTypeOK
    <2>2. t \notin Closing(v, c)
      BY <1>1 DEF Closing
    <2>3. Cardinality(Closing(v, c) \cup {t}) = Cardinality(Closing(v, c)) + 1
      BY <2>2, CountType, FS_AddElement
    <2> QED BY <1>1, <2>1, <2>3 DEF Count
  <1>2. CASE ~(v = w /\ c = b)
    <2>1. Closing(v, c)' = Closing(v, c)
      BY <1>2 DEF Closing, Goto, TaskTypeOK
    <2> QED BY <1>2, <2>1 DEF Count
  <1> QED BY <1>1, <1>2

\* A task goes to a close or an await only of a bot of the right kind.
LEMMA GotoKinds ==
  ASSUME TaskTypeOK, TaskKinds, NEW w \in Worker, NEW t \in Task, NEW l, NEW b,
         Goto(w, t, l, b),
         l = "await" => Kind[b] = "slack",
         l = "close" => Kind[b] # "whatsapp"
  PROVE  TaskKinds'
  <1> SUFFICES ASSUME NEW v \in Worker, NEW u \in Task
               PROVE  /\ pc'[v][u] = "await" => Kind[target'[v][u]] = "slack"
                      /\ pc'[v][u] = "close" => Kind[target'[v][u]] # "whatsapp"
    BY DEF TaskKinds
  <1>1. CASE v = w /\ u = t
    BY <1>1 DEF Goto, TaskTypeOK
  <1>2. CASE ~(v = w /\ u = t)
    BY <1>2 DEF Goto, TaskTypeOK, TaskKinds
  <1> QED BY <1>1, <1>2

\* What a step must keep, given that it keeps the types.
Kept == /\ TaskKinds
        /\ \A w \in Worker, b \in Bot :
             Covered(w, b) /\ ActiveIsHeld(w, b) /\ ClientKind(w, b)

\* What a step must establish for one bot of one worker.
KeptFor(w, b) ==
  /\ connections[w][b] >= Live(w, b) + quitting[w][b] + Count(w, b)
  /\ phase[w] # "draining" /\ b \in activeBots[w] =>
       b \in handlers[w] \/ Count(w, b) > 0
  /\ ClientKind(w, b)

LEMMA KeptForAll ==
  ASSUME TaskKinds', \A w \in Worker, b \in Bot : KeptFor(w, b)'
  PROVE  Kept'
  <1>1. ASSUME NEW w \in Worker, NEW b \in Bot
        PROVE  Covered(w, b)' /\ ActiveIsHeld(w, b)' /\ ClientKind(w, b)'
    BY CountType DEF KeptFor, Covered, ActiveIsHeld, Count
  <1> QED BY <1>1 DEF Kept

\* The numbers of one bot of one worker, before a step.
LEMMA Numbers ==
  ASSUME ConnectionInvariant, NEW w \in Worker, NEW b \in Bot
  PROVE  /\ connections[w][b] \in Int /\ quitting[w][b] \in Nat
         /\ Count(w, b) \in Nat /\ Live(w, b) \in {0, 1}
         /\ KeptFor(w, b)
  <1>1. Count(w, b) \in Nat
    BY CountType
  <1>2. connections[w][b] \in Int /\ quitting[w][b] \in Nat
    BY DEF ConnectionInvariant, TypeOK, BotTypeOK, ClientKind
  <1>3. Live(w, b) \in {0, 1}
    BY DEF Live
  <1>4. KeptFor(w, b)
    BY CountType DEF ConnectionInvariant, Covered, ActiveIsHeld, Count, KeptFor
  <1> QED BY <1>1, <1>2, <1>3, <1>4

\* A bot whose clients and closes a step leaves as they are.
LEMMA KeptOther ==
  ASSUME ConnectionInvariant, NEW v \in Worker, NEW c \in Bot,
         connections'[v][c] = connections[v][c],
         quitting'[v][c] = quitting[v][c],
         c \in handlers'[v] <=> c \in handlers[v],
         c \in ended'[v] <=> c \in ended[v],
         c \in activeBots'[v] <=> c \in activeBots[v],
         Count(v, c)' <= Count(v, c),
         phase'[v] # "draining" =>
           phase[v] # "draining" /\ Count(v, c)' = Count(v, c)
  PROVE  KeptFor(v, c)'
  <1>1. Live(v, c)' = Live(v, c)
    BY DEF Live
  <1>2. connections'[v][c] >= Live(v, c)' + quitting'[v][c] + Count(v, c)'
    BY <1>1, Numbers, CountType DEF KeptFor
  <1>3. phase'[v] # "draining" /\ c \in activeBots'[v] =>
          c \in handlers'[v] \/ Count(v, c)' > 0
    BY Numbers DEF KeptFor
  <1>4. ClientKind(v, c)'
    BY Numbers DEF KeptFor, ClientKind
  <1> QED BY <1>2, <1>3, <1>4 DEF KeptFor

\* A step that touches no connection and starts no close, and ends none but in a
\* worker that is shutting down.
LEMMA KeepsConnections ==
  ASSUME ConnectionInvariant, UNCHANGED botVars, TaskKinds',
         \A v \in Worker, c \in Bot :
           /\ Count(v, c)' <= Count(v, c)
           /\ phase'[v] # "draining" =>
                phase[v] # "draining" /\ Count(v, c)' = Count(v, c)
  PROVE  Kept'
  <1>1. ASSUME NEW v \in Worker, NEW c \in Bot
        PROVE  KeptFor(v, c)'
    BY KeptOther DEF botVars
  <1> QED BY <1>1, KeptForAll

\* A step that changes the clients or the closes of one bot in one worker.
LEMMA OneBotStep ==
  ASSUME ConnectionInvariant, TaskKinds', UNCHANGED phase,
         NEW w \in Worker, NEW b \in Bot,
         \A v \in Worker, c \in Bot :
           ~(v = w /\ c = b) =>
             /\ connections'[v][c] = connections[v][c]
             /\ quitting'[v][c] = quitting[v][c]
             /\ c \in handlers'[v] <=> c \in handlers[v]
             /\ c \in ended'[v] <=> c \in ended[v]
             /\ c \in activeBots'[v] <=> c \in activeBots[v]
             /\ Count(v, c)' = Count(v, c),
         KeptFor(w, b)'
  PROVE  Kept'
  <1>1. ASSUME NEW v \in Worker, NEW c \in Bot
        PROVE  KeptFor(v, c)'
    <2>1. CASE v = w /\ c = b
      BY <2>1
    <2>2. CASE ~(v = w /\ c = b)
      <3>1. Count(v, c)' <= Count(v, c)
        BY <2>2, CountType
      <3> QED BY <2>2, <3>1, KeptOther
    <2> QED BY <2>1, <2>2
  <1> QED BY <1>1, KeptForAll

\* What leaves the store takes nothing else with it.
LEMMA DropType ==
  ASSUME BotTypeOK, NEW w \in Worker, NEW b \in Bot, DropHandler(w, b)
  PROVE  /\ b \notin handlers'[w] /\ b \notin ended'[w] /\ Live(w, b)' = 0
         /\ \A v \in Worker, c \in Bot :
              ~(v = w /\ c = b) => /\ c \in handlers'[v] <=> c \in handlers[v]
                                   /\ c \in ended'[v] <=> c \in ended[v]
  <1>1. b \notin handlers'[w] /\ b \notin ended'[w]
    BY DEF DropHandler, BotTypeOK
  <1>2. Live(w, b)' = 0
    BY <1>1 DEF Live
  <1>3. ASSUME NEW v \in Worker, NEW c \in Bot, ~(v = w /\ c = b)
        PROVE  c \in handlers'[v] <=> c \in handlers[v]
    BY <1>3 DEF DropHandler, BotTypeOK
  <1>4. ASSUME NEW v \in Worker, NEW c \in Bot, ~(v = w /\ c = b)
        PROVE  c \in ended'[v] <=> c \in ended[v]
    BY <1>4 DEF DropHandler, BotTypeOK
  <1> QED BY <1>1, <1>2, <1>3, <1>4

\* A task that goes nowhere near a close, in a step that leaves the bots alone: it
\* closes nothing, or its worker is shutting down.
LEMMA GotoKeeps ==
  ASSUME ConnectionInvariant, UNCHANGED botVars,
         NEW w \in Worker, NEW t \in Task, NEW l, NEW b, Goto(w, t, l, b),
         l # "close", l = "await" => Kind[b] = "slack",
         \A v \in Worker : phase'[v] # "draining" => phase[v] # "draining",
         pc[w][t] # "close" \/ phase'[w] = "draining"
  PROVE  Kept'
  <1>1. TaskTypeOK /\ TaskKinds
    BY DEF ConnectionInvariant, TypeOK
  <1>2. TaskKinds'
    BY <1>1, GotoKinds
  <1>3. ASSUME NEW v \in Worker, NEW c \in Bot
        PROVE  /\ Count(v, c)' <= Count(v, c)
               /\ phase'[v] # "draining" => Count(v, c)' = Count(v, c)
    BY <1>1, CountType, GotoElsewhere
  <1> QED BY <1>2, <1>3, KeepsConnections

\* A step that moves no task and touches no connection.
LEMMA NothingMoves ==
  ASSUME ConnectionInvariant, UNCHANGED botVars, UNCHANGED taskVars,
         \A v \in Worker : phase'[v] # "draining" => phase[v] # "draining"
  PROVE  Kept'
  <1>1. TaskKinds'
    BY DEF ConnectionInvariant, TaskKinds, taskVars
  <1>2. ASSUME NEW v \in Worker, NEW c \in Bot
        PROVE  Count(v, c)' <= Count(v, c) /\ Count(v, c)' = Count(v, c)
    <2>1. Closing(v, c)' = Closing(v, c)
      BY DEF Closing, taskVars
    <2> QED BY <2>1, CountType DEF Count
  <1> QED BY <1>1, <1>2, KeepsConnections

-------------------------------------------------------------------------------
\* _claim_and_start_bot: a new connection goes with the handler that is stored.
LEMMA StartStepConnections ==
  ASSUME ConnectionInvariant, NEW w \in Worker, NEW t \in Task,
         NEW b \in Bot, b = target[w][t],
         StartStep(w, t) \/ StartFails(w, t)
  PROVE  Kept'
  <1>t. TaskTypeOK /\ TaskKinds /\ BotTypeOK /\ ProcTypeOK
    BY DEF ConnectionInvariant, TypeOK
  <1>1. CASE TryClaimBotLock(w, t)
    <2>1. CASE Goto(w, t, "starting", b)
      BY <1>1, <2>1, GotoKeeps DEF TryClaimBotLock, procVars
    <2>2. CASE Goto(w, t, AfterStart(w, t), NoBot)
      BY <1>1, <2>2, GotoKeeps DEF TryClaimBotLock, AfterStart, procVars
    <2> QED BY <1>1, <2>1, <2>2 DEF TryClaimBotLock
  <1>2. CASE StartBot(w, t)
    BY <1>2, GotoKeeps DEF StartBot, procVars
  <1>3. CASE Connect(w, t)
    <2>1. b \in Bot /\ Goto(w, t, "assign", b) /\ pc[w][t] = "connect"
      BY <1>3, <1>t DEF Connect, TaskTypeOK, Working
    <2>2. TaskKinds' /\ UNCHANGED phase
      BY <1>3, <1>t, <2>1, GotoKinds DEF Connect, procVars
    <2>3. \A v \in Worker, c \in Bot : Count(v, c)' = Count(v, c)
      BY <1>t, <2>1, GotoElsewhere
    <2>4. /\ connections'[w][b] = connections[w][b] + 1
          /\ quitting'[w][b] = quitting[w][b]
          /\ b \in handlers'[w] /\ b \notin ended'[w]
      BY <1>3, <1>t, <2>1 DEF Connect, BotTypeOK
    <2>5. \A v \in Worker, c \in Bot :
            ~(v = w /\ c = b) =>
              /\ connections'[v][c] = connections[v][c]
              /\ quitting'[v][c] = quitting[v][c]
              /\ c \in handlers'[v] <=> c \in handlers[v]
              /\ c \in ended'[v] <=> c \in ended[v]
              /\ c \in activeBots'[v] <=> c \in activeBots[v]
      BY <1>3, <1>t, <2>1 DEF Connect, BotTypeOK
    <2>6. connections'[w][b] >= Live(w, b)' + quitting'[w][b] + Count(w, b)'
      <3>1. Live(w, b)' = 1
        BY <2>4 DEF Live
      <3> QED BY <3>1, <2>3, <2>4, Numbers DEF KeptFor
    <2>7. ClientKind(w, b)'
      BY <2>4, Numbers DEF ClientKind, KeptFor
    <2>8. KeptFor(w, b)'
      BY <2>4, <2>6, <2>7 DEF KeptFor
    <2> QED BY <2>2, <2>3, <2>5, <2>8, OneBotStep
  <1>4. CASE AssignBot(w, t)
    BY <1>4, GotoKeeps DEF AssignBot, procVars
  <1>5. CASE ReleaseBotLock(w, t)
    BY <1>5, GotoKeeps DEF ReleaseBotLock, AfterStart, procVars
  <1>6. CASE StartFails(w, t)
    <2>1. \E l \in {"release", "raise"} : Goto(w, t, l, b)
      BY <1>6 DEF StartFails, AfterFailure
    <2> QED BY <1>6, <2>1, GotoKeeps DEF StartFails, procVars
  <1>7. CASE RaiseFromStart(w, t)
    <2>1. \A v \in Worker : phase'[v] # "draining" => phase[v] # "draining"
      BY <1>7, <1>t DEF RaiseFromStart, ProcTypeOK
    <2> QED BY <1>7, <2>1, GotoKeeps DEF RaiseFromStart
  <1> QED BY <1>1, <1>2, <1>3, <1>4, <1>5, <1>6, <1>7 DEF StartStep

\* When _stop_bot returns, a close that was under way is over.
LEMMA ReturnEndsClose ==
  ASSUME TaskTypeOK, TaskKinds, NEW w \in Worker, NEW t \in Task,
         ReturnFromStop(w, t)
  PROVE  /\ TaskKinds'
         /\ \A v \in Worker, c \in Bot :
              Count(v, c)' = IF v = w /\ pc[w][t] = "close" /\ target[w][t] = c
                             THEN Count(v, c) - 1 ELSE Count(v, c)
  <1>1. \E l \in {"claim", "shed", "drain", "idle"} : \E b :
          Goto(w, t, l, b)
    BY DEF ReturnFromStop
  <1> QED BY <1>1, GotoKinds, GotoElsewhere

\* _stop_bot up to its first await.
LEMMA BeginStopConnections ==
  ASSUME ConnectionInvariant, NEW w \in Worker, NEW t \in Task,
         NEW b \in Bot, b = target[w][t],
         BeginStop(w, t)
  PROVE  Kept'
  <1>t. TaskTypeOK /\ TaskKinds /\ BotTypeOK
    BY DEF ConnectionInvariant, TypeOK
  <1>b. pc[w][t] = "stop" /\ UNCHANGED phase
    BY DEF BeginStop, procVars
  <1>1. CASE ReturnFromStop(w, t) /\ UNCHANGED botVars
    <2>1. TaskKinds' /\ \A v \in Worker, c \in Bot : Count(v, c)' = Count(v, c)
      BY <1>t, <1>b, <1>1, ReturnEndsClose
    <2>2. \A v \in Worker, c \in Bot : Count(v, c)' <= Count(v, c)
      BY <2>1, CountType
    <2> QED BY <1>1, <1>b, <2>1, <2>2, KeepsConnections
  <1>2. CASE Kind[b] = "slack" /\ Goto(w, t, "await", b) /\ UNCHANGED botVars
    BY <1>2, <1>b, GotoKeeps
  <1>3. CASE /\ b \in (activeBots[w] \cap handlers[w]) \ ended[w]
             /\ Kind[b] # "whatsapp"
             /\ DropHandler(w, b)
             /\ Goto(w, t, "close", b)
             /\ UNCHANGED <<activeBots, connections, quitting, restarting>>
    <2>1. TaskKinds'
      BY <1>t, <1>3, GotoKinds
    <2>2. \A v \in Worker, c \in Bot :
            Count(v, c)' = IF v = w /\ c = b THEN Count(v, c) + 1 ELSE Count(v, c)
      BY <1>t, <1>b, <1>3, GotoClose
    <2>3. /\ b \notin handlers'[w] /\ b \notin ended'[w] /\ Live(w, b)' = 0
          /\ \A v \in Worker, c \in Bot :
               ~(v = w /\ c = b) => /\ c \in handlers'[v] <=> c \in handlers[v]
                                    /\ c \in ended'[v] <=> c \in ended[v]
      BY <1>3, <1>t, DropType
    <2>4. Live(w, b) = 1
      BY <1>3 DEF Live
    <2>5. ClientKind(w, b)'
      BY <1>3, <2>3, Numbers DEF ClientKind, KeptFor
    <2>6. connections'[w][b] >= Live(w, b)' + quitting'[w][b] + Count(w, b)'
      BY <1>3, <2>2, <2>3, <2>4, Numbers DEF KeptFor
    <2>7. Count(w, b)' > 0
      BY <2>2, Numbers
    <2>8. KeptFor(w, b)'
      BY <2>5, <2>6, <2>7 DEF KeptFor
    <2> QED BY <1>b, <1>3, <2>1, <2>2, <2>3, <2>8, OneBotStep
  <1>4. CASE /\ b \in activeBots[w]
             /\ b \in handlers[w] => Kind[b] = "whatsapp" \/ b \in ended[w]
             /\ activeBots' = [activeBots EXCEPT ![w] = @ \ {b}]
             /\ DropHandler(w, b)
             /\ quitting' = [quitting EXCEPT ![w][b] = @ + Live(w, b)]
             /\ Goto(w, t, "unassign", b)
             /\ UNCHANGED <<connections, restarting>>
    <2>1. TaskKinds'
      BY <1>t, <1>4, GotoKinds
    <2>2. \A v \in Worker, c \in Bot : Count(v, c)' = Count(v, c)
      BY <1>t, <1>b, <1>4, GotoElsewhere
    <2>3. /\ b \notin handlers'[w] /\ b \notin ended'[w] /\ Live(w, b)' = 0
          /\ \A v \in Worker, c \in Bot :
               ~(v = w /\ c = b) => /\ c \in handlers'[v] <=> c \in handlers[v]
                                    /\ c \in ended'[v] <=> c \in ended[v]
      BY <1>4, <1>t, DropType
    <2>4. /\ quitting'[w][b] = quitting[w][b] + Live(w, b)
          /\ b \notin activeBots'[w]
          /\ \A v \in Worker, c \in Bot :
               ~(v = w /\ c = b) =>
                 /\ quitting'[v][c] = quitting[v][c]
                 /\ c \in activeBots'[v] <=> c \in activeBots[v]
      BY <1>4, <1>t DEF BotTypeOK
    <2>5. Live(w, b) = 1 => Kind[b] = "whatsapp"
      BY <1>4 DEF Live
    <2>6. ClientKind(w, b)'
      <3>1. quitting'[w][b] >= 0
        BY <2>4, Numbers
      <3>2. quitting'[w][b] > 0 => Kind[b] = "whatsapp"
        <4>1. CASE Live(w, b) = 1
          BY <2>5, <4>1
        <4>2. CASE Live(w, b) = 0
          BY <2>4, <4>2, Numbers DEF KeptFor, ClientKind
        <4> QED BY <4>1, <4>2, Numbers
      <3> QED BY <2>3, <3>1, <3>2 DEF ClientKind
    <2>7. connections'[w][b] >= Live(w, b)' + quitting'[w][b] + Count(w, b)'
      BY <1>4, <2>2, <2>3, <2>4, Numbers DEF KeptFor
    <2>8. KeptFor(w, b)'
      BY <2>4, <2>6, <2>7 DEF KeptFor
    <2> QED BY <1>b, <1>4, <2>1, <2>2, <2>3, <2>4, <2>8, OneBotStep
  <1> QED BY <1>1, <1>2, <1>3, <1>4 DEF BeginStop

\* The end of a Slack polling task: the handler that is there is closed next.
LEMMA PopSlackHandlerConnections ==
  ASSUME ConnectionInvariant, NEW w \in Worker, NEW t \in Task,
         NEW b \in Bot, b = target[w][t], PopSlackHandler(w, t)
  PROVE  Kept'
  <1>t. TaskTypeOK /\ TaskKinds /\ BotTypeOK
    BY DEF ConnectionInvariant, TypeOK
  <1>a. pc[w][t] = "await" /\ Kind[b] = "slack" /\ UNCHANGED phase
    BY <1>t DEF PopSlackHandler, TaskKinds, procVars
  <1>h. /\ connections' = connections /\ quitting' = quitting
        /\ b \notin handlers'[w] /\ b \notin ended'[w] /\ Live(w, b)' = 0
        /\ \A v \in Worker, c \in Bot :
             ~(v = w /\ c = b) => /\ c \in handlers'[v] <=> c \in handlers[v]
                                  /\ c \in ended'[v] <=> c \in ended[v]
    BY <1>t, DropType DEF PopSlackHandler
  <1>q. ClientKind(w, b)'
    BY <1>h, Numbers DEF ClientKind, KeptFor
  <1>1. CASE b \in handlers[w]
    <2>1. Goto(w, t, "close", b) /\ activeBots' = activeBots
      BY <1>1 DEF PopSlackHandler
    <2>2. TaskKinds'
      BY <1>t, <1>a, <2>1, GotoKinds
    <2>3. \A v \in Worker, c \in Bot :
            Count(v, c)' = IF v = w /\ c = b THEN Count(v, c) + 1 ELSE Count(v, c)
      BY <1>t, <1>a, <2>1, GotoClose
    <2>4. Live(w, b) = 1
      BY <1>1, <1>a, Numbers DEF Live, KeptFor, ClientKind
    <2>5. connections'[w][b] >= Live(w, b)' + quitting'[w][b] + Count(w, b)'
      BY <1>h, <2>3, <2>4, Numbers DEF KeptFor
    <2>6. Count(w, b)' > 0
      BY <2>3, Numbers
    <2>7. KeptFor(w, b)'
      BY <1>q, <2>5, <2>6 DEF KeptFor
    <2> QED BY <1>a, <1>h, <2>1, <2>2, <2>3, <2>7, OneBotStep
  <1>2. CASE b \notin handlers[w]
    <2>1. activeBots' = [activeBots EXCEPT ![w] = @ \ {b}] /\ ReturnFromStop(w, t)
      BY <1>2 DEF PopSlackHandler
    <2>2. TaskKinds' /\ \A v \in Worker, c \in Bot : Count(v, c)' = Count(v, c)
      BY <1>t, <1>a, <2>1, ReturnEndsClose
    <2>3. /\ b \notin activeBots'[w]
          /\ \A v \in Worker, c \in Bot :
               ~(v = w /\ c = b) => (c \in activeBots'[v] <=> c \in activeBots[v])
      BY <1>t, <2>1 DEF BotTypeOK
    <2>4. connections'[w][b] >= Live(w, b)' + quitting'[w][b] + Count(w, b)'
      BY <1>h, <2>2, Numbers DEF KeptFor
    <2>5. KeptFor(w, b)'
      BY <1>q, <2>3, <2>4 DEF KeptFor
    <2> QED BY <1>a, <1>h, <2>2, <2>3, <2>5, OneBotStep
  <1> QED BY <1>1, <1>2

\* A close that ends, well or not: the task no longer counts, at most one
\* connection is gone, and the bot has left _active_bots.
LEMMA CloseEnds ==
  ASSUME ConnectionInvariant, NEW w \in Worker, NEW t \in Task,
         NEW b \in Bot, b = target[w][t], pc[w][t] = "close",
         NEW l, Goto(w, t, l, target'[w][t]), l \notin {"close", "await"},
         NEW closed \in {0, 1},
         connections' = [connections EXCEPT ![w][b] = @ - closed],
         quitting' = quitting, UNCHANGED phase,
         activeBots' = [activeBots EXCEPT ![w] = @ \ {b}],
         DropHandler(w, b) \/ UNCHANGED <<handlers, ended>>
  PROVE  Kept'
  <1>t. TaskTypeOK /\ TaskKinds /\ BotTypeOK
    BY DEF ConnectionInvariant, TypeOK
  <1>1. TaskKinds'
    BY <1>t, GotoKinds
  <1>2. \A v \in Worker, c \in Bot :
          Count(v, c)' = IF v = w /\ c = b THEN Count(v, c) - 1 ELSE Count(v, c)
    BY <1>t, GotoElsewhere
  <1>3. connections'[w][b] = connections[w][b] - closed /\ b \notin activeBots'[w]
    BY <1>t DEF BotTypeOK
  <1>4. \A v \in Worker, c \in Bot :
          ~(v = w /\ c = b) => /\ connections'[v][c] = connections[v][c]
                               /\ c \in activeBots'[v] <=> c \in activeBots[v]
    BY <1>t DEF BotTypeOK
  <1>5. /\ Live(w, b)' \in {0, 1} /\ Live(w, b)' <= Live(w, b)
        /\ b \in ended'[w] => b \in ended[w] /\ b \in handlers'[w]
        /\ \A v \in Worker, c \in Bot :
             ~(v = w /\ c = b) => /\ c \in handlers'[v] <=> c \in handlers[v]
                                  /\ c \in ended'[v] <=> c \in ended[v]
    <2>1. CASE DropHandler(w, b)
      BY <2>1, <1>t, DropType, Numbers
    <2>2. CASE UNCHANGED <<handlers, ended>>
      BY <2>2, Numbers DEF Live, KeptFor, ClientKind
    <2> QED BY <2>1, <2>2
  <1>6. ClientKind(w, b)'
    BY <1>5, Numbers DEF ClientKind, KeptFor
  <1>7. connections'[w][b] >= Live(w, b)' + quitting'[w][b] + Count(w, b)'
    BY <1>2, <1>3, <1>5, Numbers DEF KeptFor
  <1>8. KeptFor(w, b)'
    BY <1>3, <1>6, <1>7 DEF KeptFor
  <1> QED BY <1>1, <1>2, <1>4, <1>5, <1>8, OneBotStep

\* Where a task goes when _stop_bot returns.
LEMMA ReturnGoes ==
  ASSUME NEW w \in Worker, NEW t \in Task, ReturnFromStop(w, t), TaskTypeOK
  PROVE  \E l \in {"claim", "shed", "drain", "idle"} :
           Goto(w, t, l, target'[w][t])
  <1>1. CASE t \in restarting[w]
    BY <1>1 DEF ReturnFromStop, Goto, TaskTypeOK
  <1>2. CASE t \notin restarting[w]
    BY <1>2 DEF ReturnFromStop, Goto, TaskTypeOK
  <1> QED BY <1>1, <1>2

\* The rest of _stop_bot, after its handler was taken out.
LEMMA CloseConnections ==
  ASSUME ConnectionInvariant, NEW w \in Worker, NEW t \in Task,
         NEW b \in Bot, b = target[w][t],
         CloseBot(w, t) \/ UnassignBot(w, t) \/ StopFails(w, t)
  PROVE  Kept'
  <1>t. TaskTypeOK /\ TaskKinds /\ BotTypeOK
    BY DEF ConnectionInvariant, TypeOK
  <1>p. UNCHANGED phase
    BY DEF CloseBot, UnassignBot, StopFails, procVars
  <1>r. ReturnFromStop(w, t) =>
          \E l : l \notin {"close", "await"} /\ Goto(w, t, l, target'[w][t])
    BY <1>t, ReturnGoes
  <1>1. CASE CloseBot(w, t)
    <2>1. PICK l : l \notin {"close", "await"} /\ Goto(w, t, l, target'[w][t])
      <3>1. Goto(w, t, "unassign", b) => Goto(w, t, "unassign", target'[w][t])
        BY <1>t DEF Goto, TaskTypeOK
      <3> QED BY <1>1, <1>r, <3>1 DEF CloseBot
    <2>2. /\ pc[w][t] = "close" /\ quitting' = quitting
          /\ connections' = [connections EXCEPT ![w][b] = @ - 1]
          /\ activeBots' = [activeBots EXCEPT ![w] = @ \ {b}]
      BY <1>1 DEF CloseBot
    <2>3. DropHandler(w, b) \/ UNCHANGED <<handlers, ended>>
      BY <1>1 DEF CloseBot
    <2> QED BY <1>p, <2>1, <2>2, <2>3, CloseEnds
  <1>2. CASE UnassignBot(w, t)
    <2>1. PICK l : l \notin {"close", "await"} /\ Goto(w, t, l, target'[w][t])
      BY <1>2, <1>r DEF UnassignBot
    <2> QED BY <1>2, <1>p, <2>1, GotoKeeps DEF UnassignBot
  <1>3. CASE StopFails(w, t) /\ pc[w][t] = "close"
    <2>1. PICK l : l \notin {"close", "await"} /\ Goto(w, t, l, target'[w][t])
      BY <1>3, <1>r DEF StopFails
    <2>2. PICK closed \in {0, 1} :
            connections' = [connections EXCEPT ![w][b] = @ - closed]
      BY <1>3 DEF StopFails
    <2>3. /\ quitting' = quitting
          /\ activeBots' = [activeBots EXCEPT ![w] = @ \ {b}]
          /\ DropHandler(w, b)
      BY <1>3 DEF StopFails
    <2> QED BY <1>3, <1>p, <2>1, <2>2, <2>3, CloseEnds
  <1>4. CASE StopFails(w, t) /\ pc[w][t] # "close"
    <2>1. ReturnFromStop(w, t) /\ quitting' = quitting
      BY <1>4 DEF StopFails
    <2>2. TaskKinds' /\ \A v \in Worker, c \in Bot : Count(v, c)' = Count(v, c)
      BY <1>t, <1>4, <2>1, ReturnEndsClose
    <2>3. /\ b \notin activeBots'[w]
          /\ \A v \in Worker, c \in Bot :
               /\ connections'[v][c] = connections[v][c]
               /\ ~(v = w /\ c = b) => (c \in activeBots'[v] <=> c \in activeBots[v])
      BY <1>t, <1>4 DEF BotTypeOK, StopFails
    <2>4. /\ b \notin handlers'[w] /\ b \notin ended'[w] /\ Live(w, b)' = 0
          /\ \A v \in Worker, c \in Bot :
               ~(v = w /\ c = b) => /\ c \in handlers'[v] <=> c \in handlers[v]
                                    /\ c \in ended'[v] <=> c \in ended[v]
      BY <1>t, <1>4, DropType DEF StopFails
    <2>5. ClientKind(w, b)'
      BY <2>1, <2>4, Numbers DEF ClientKind, KeptFor
    <2>6. connections'[w][b] >= Live(w, b)' + quitting'[w][b] + Count(w, b)'
      BY <2>1, <2>2, <2>3, <2>4, Numbers DEF KeptFor
    <2>7. KeptFor(w, b)'
      BY <2>3, <2>5, <2>6 DEF KeptFor
    <2> QED BY <1>p, <2>1, <2>2, <2>3, <2>4, <2>7, OneBotStep
  <1> QED BY <1>1, <1>2, <1>3, <1>4

-------------------------------------------------------------------------------
\* A client ends by itself: a stored one is an ended one from then on, and one of
\* which nothing is stored was none of those that count.
LEMMA ClientEndsOne ==
  ASSUME ConnectionInvariant, NEW w \in Worker, NEW b \in Bot, Kind[b] # "slack",
         ClientEnds(w, b), UNCHANGED quitting
  PROVE  /\ KeptFor(w, b)'
         /\ \A v \in Worker, c \in Bot :
              ~(v = w /\ c = b) => /\ connections'[v][c] = connections[v][c]
                                   /\ c \in ended'[v] <=> c \in ended[v]
  <1>t. BotTypeOK /\ UNCHANGED <<taskVars, phase, handlers, activeBots>>
    BY DEF ConnectionInvariant, TypeOK, ClientEnds, procVars
  <1>1. Count(w, b)' = Count(w, b) /\ Count(w, b) = Cardinality(Closing(w, b))
    BY <1>t DEF Count, Closing, taskVars
  <1>2. connections'[w][b] = connections[w][b] - 1
    BY <1>t DEF ClientEnds, BotTypeOK
  <1>3. \A v \in Worker, c \in Bot :
          ~(v = w /\ c = b) => connections'[v][c] = connections[v][c]
    BY <1>t DEF ClientEnds, BotTypeOK
  <1>4. CASE Live(w, b) = 1 /\ ended' = [ended EXCEPT ![w] = @ \cup {b}]
    <2>1. b \in ended'[w] /\ b \in handlers[w]
      BY <1>t, <1>4 DEF Live, BotTypeOK
    <2>2. \A v \in Worker, c \in Bot :
            ~(v = w /\ c = b) => (c \in ended'[v] <=> c \in ended[v])
      BY <1>t, <1>4 DEF BotTypeOK
    <2>3. Live(w, b)' = 0
      BY <2>1 DEF Live
    <2>4. connections'[w][b] >= Live(w, b)' + quitting'[w][b] + Count(w, b)'
      BY <1>1, <1>2, <1>4, <2>3, Numbers DEF KeptFor
    <2>5. ClientKind(w, b)'
      BY <1>t, <2>1, Numbers DEF ClientKind, KeptFor
    <2>6. KeptFor(w, b)'
      BY <1>t, <2>1, <2>4, <2>5 DEF KeptFor
    <2> QED BY <1>3, <2>2, <2>6
  <1>5. CASE Leaked(w, b) > 0 /\ ended' = ended
    <2>1. Live(w, b)' = Live(w, b)
      BY <1>t, <1>5 DEF Live
    <2>2. connections[w][b] - quitting[w][b] - Count(w, b) - Live(w, b) > 0
      BY <1>1, <1>5 DEF Leaked
    <2>3. connections'[w][b] >= Live(w, b)' + quitting'[w][b] + Count(w, b)'
      BY <1>1, <1>2, <2>1, <2>2, Numbers
    <2>4. ClientKind(w, b)'
      BY <1>t, <1>5, Numbers DEF ClientKind, KeptFor
    <2>5. phase'[w] # "draining" /\ b \in activeBots'[w] =>
            b \in handlers'[w] \/ Count(w, b)' > 0
      BY <1>t, <1>1, Numbers DEF KeptFor
    <2>6. KeptFor(w, b)'
      BY <2>3, <2>4, <2>5 DEF KeptFor
    <2> QED BY <1>3, <1>5, <2>6
  <1> QED BY <1>4, <1>5 DEF ClientEnds

\* The clients: each step is about one bot and moves no task.
LEMMA ClientStepConnections ==
  ASSUME ConnectionInvariant, NEW w \in Worker, NEW b \in Bot, ClientStep(w, b)
  PROVE  Kept'
  <1>t. TaskKinds /\ BotTypeOK
    BY DEF ConnectionInvariant, TypeOK
  <1>k. UNCHANGED taskVars /\ UNCHANGED phase
    BY DEF ClientStep, PollingEnds, ThreadExits, ClientFails, ClientEnds,
           ThreadGoesOn, procVars
  <1>1. TaskKinds'
    BY <1>k, <1>t DEF TaskKinds, taskVars
  <1>2. \A v \in Worker, c \in Bot : Count(v, c)' = Count(v, c)
    <2>1. ASSUME NEW v \in Worker, NEW c \in Bot
          PROVE  Closing(v, c)' = Closing(v, c)
      BY <1>k DEF Closing, taskVars
    <2> QED BY <2>1 DEF Count
  <1>3. CASE ClientEnds(w, b) /\ Kind[b] # "slack" /\ UNCHANGED quitting
    <2>1. handlers' = handlers /\ activeBots' = activeBots
      BY <1>3 DEF ClientEnds
    <2> QED BY <1>k, <1>1, <1>2, <1>3, <2>1, ClientEndsOne, OneBotStep
  <1>4. CASE /\ quitting[w][b] > 0
             /\ quitting' = [quitting EXCEPT ![w][b] = @ - 1]
             /\ connections' = [connections EXCEPT ![w][b] = @ - 1]
             /\ UNCHANGED <<activeBots, handlers, ended>>
    <2>1. /\ quitting'[w][b] = quitting[w][b] - 1
          /\ connections'[w][b] = connections[w][b] - 1
          /\ \A v \in Worker, c \in Bot :
               ~(v = w /\ c = b) => /\ connections'[v][c] = connections[v][c]
                                    /\ quitting'[v][c] = quitting[v][c]
      BY <1>t, <1>4 DEF BotTypeOK
    <2>2. Live(w, b)' = Live(w, b)
      BY <1>4 DEF Live
    <2>3. connections'[w][b] >= Live(w, b)' + quitting'[w][b] + Count(w, b)'
      BY <1>2, <2>1, <2>2, Numbers DEF KeptFor
    <2>4. ClientKind(w, b)'
      BY <1>4, <2>1, Numbers DEF ClientKind, KeptFor
    <2>5. phase'[w] # "draining" /\ b \in activeBots'[w] =>
            b \in handlers'[w] \/ Count(w, b)' > 0
      BY <1>k, <1>2, <1>4, Numbers DEF KeptFor
    <2>6. KeptFor(w, b)'
      BY <2>3, <2>4, <2>5 DEF KeptFor
    <2> QED BY <1>k, <1>1, <1>2, <1>4, <2>1, <2>6, OneBotStep
  <1>5. CASE ThreadGoesOn(w, b)
    <2>1. /\ b \in handlers'[w] /\ connections'[w][b] = connections[w][b]
          /\ quitting[w][b] > 0 /\ quitting'[w][b] = quitting[w][b] - 1
          /\ b \notin ended'[w]
          /\ \A v \in Worker, c \in Bot :
               ~(v = w /\ c = b) => /\ connections'[v][c] = connections[v][c]
                                    /\ quitting'[v][c] = quitting[v][c]
                                    /\ c \in ended'[v] <=> c \in ended[v]
      BY <1>t, <1>5 DEF ThreadGoesOn, BotTypeOK
    <2>2. Live(w, b)' = 1
      BY <2>1 DEF Live
    <2>3. connections'[w][b] >= Live(w, b)' + quitting'[w][b] + Count(w, b)'
      BY <1>2, <2>1, <2>2, Numbers DEF KeptFor
    <2>4. ClientKind(w, b)'
      BY <2>1, Numbers DEF ClientKind, KeptFor
    <2>5. KeptFor(w, b)'
      BY <2>1, <2>3, <2>4 DEF KeptFor
    <2>6. handlers' = handlers /\ activeBots' = activeBots
      BY <1>5 DEF ThreadGoesOn
    <2> QED BY <1>k, <1>1, <1>2, <2>1, <2>5, <2>6, OneBotStep
  <1>6. CASE ThreadExits(w, b)
    <2>1. Kind[b] = "whatsapp" /\ DropHandler(w, b)
      BY <1>6 DEF ThreadExits
    <2>2. /\ b \notin activeBots'[w] /\ connections'[w][b] = connections[w][b] - 1
          /\ \A v \in Worker, c \in Bot :
               ~(v = w /\ c = b) => /\ connections'[v][c] = connections[v][c]
                                    /\ quitting'[v][c] = quitting[v][c]
                                    /\ c \in activeBots'[v] <=> c \in activeBots[v]
      BY <1>6, <1>t DEF ThreadExits, BotTypeOK
    <2>3. /\ b \notin handlers'[w] /\ b \notin ended'[w] /\ Live(w, b)' = 0
          /\ \A v \in Worker, c \in Bot :
               ~(v = w /\ c = b) => /\ c \in handlers'[v] <=> c \in handlers[v]
                                    /\ c \in ended'[v] <=> c \in ended[v]
      BY <1>t, <2>1, DropType
    <2>4. Count(w, b) = 0
      <3>1. Closing(w, b) = {}
        BY <1>t, <2>1 DEF Closing, TaskKinds
      <3> QED BY <3>1, FS_EmptySet DEF Count
    <2>5. \/ quitting[w][b] > 0 /\ quitting'[w][b] = quitting[w][b] - 1
          \/ quitting[w][b] < connections[w][b] /\ quitting'[w][b] = quitting[w][b]
      BY <1>6, <1>t DEF ThreadExits, BotTypeOK
    <2>6. ClientKind(w, b)'
      BY <2>1, <2>3, <2>5, Numbers DEF ClientKind
    <2>7. connections'[w][b] >= Live(w, b)' + quitting'[w][b] + Count(w, b)'
      BY <1>2, <2>2, <2>3, <2>4, <2>5, Numbers DEF KeptFor
    <2>8. KeptFor(w, b)'
      BY <2>2, <2>6, <2>7 DEF KeptFor
    <2> QED BY <1>k, <1>1, <1>2, <2>2, <2>3, <2>8, OneBotStep
  <1>7. CASE PollingEnds(w, b)
    BY <1>3, <1>7 DEF PollingEnds
  <1>8. CASE ClientFails(w, b)
    BY <1>3, <1>4, <1>8 DEF ClientFails
  <1> QED BY <1>5, <1>6, <1>7, <1>8 DEF ClientStep

\* A process that ends takes its connections, handlers and tasks with it.
LEMMA ExitConnections ==
  ASSUME ConnectionInvariant, NEW w \in Worker, Exit(w)
  PROVE  Kept'
  <1>t. TaskTypeOK /\ TaskKinds /\ BotTypeOK /\ ProcTypeOK
    BY DEF ConnectionInvariant, TypeOK
  <1>1. TaskKinds'
    BY <1>t DEF Exit, TaskKinds, TaskTypeOK
  <1>2. ASSUME NEW v \in Worker, NEW c \in Bot
        PROVE  KeptFor(v, c)'
    <2>1. CASE v = w
      <3>1. Closing(v, c)' = {}
        BY <1>t, <2>1 DEF Closing, Exit, TaskTypeOK
      <3>2. Count(v, c)' = 0
        BY <3>1, FS_EmptySet DEF Count
      <3>3. connections'[v][c] = 0 /\ quitting'[v][c] = 0
        BY <1>t, <2>1 DEF Exit, BotTypeOK
      <3>4. c \notin handlers'[v] /\ c \notin ended'[v] /\ c \notin activeBots'[v]
        BY <1>t, <2>1 DEF Exit, BotTypeOK
      <3>5. Live(v, c)' = 0 /\ ClientKind(v, c)'
        BY <3>3, <3>4 DEF Live, ClientKind
      <3> QED BY <3>2, <3>3, <3>4, <3>5 DEF KeptFor
    <2>2. CASE v # w
      <3>1. Closing(v, c)' = Closing(v, c)
        BY <1>t, <2>2 DEF Closing, Exit, TaskTypeOK
      <3>2. Count(v, c)' = Count(v, c) /\ Count(v, c)' <= Count(v, c)
        BY <3>1, CountType DEF Count
      <3>3. connections'[v] = connections[v] /\ quitting'[v] = quitting[v]
        BY <1>t, <2>2 DEF Exit, BotTypeOK
      <3>4. /\ handlers'[v] = handlers[v] /\ activeBots'[v] = activeBots[v]
            /\ ended'[v] = ended[v]
        BY <1>t, <2>2 DEF Exit, BotTypeOK
      <3>5. phase'[v] = phase[v]
        BY <1>t, <2>2 DEF Exit, ProcTypeOK
      <3> QED BY <3>2, <3>3, <3>4, <3>5, KeptOther
    <2> QED BY <2>1, <2>2
  <1> QED BY <1>1, <1>2, KeptForAll

\* The other steps of a worker, which leave the connections alone.
LEMMA OtherStepConnections ==
  ASSUME ConnectionInvariant, NEW w \in Worker,
         \/ MainStep(w) \/ CheckStep(w) \/ HandleBotEvent(w) \/ HandleCommand(w)
         \/ Heartbeat(w) \/ MainReturns(w) \/ Crash(w) \/ HeartbeatExpires(w)
         \/ Shutdown(w)
  PROVE  Kept'
  <1>t. /\ {"main", "check", "events", "commands"} \subseteq Task
        /\ ProcTypeOK
    BY DEF Task, ConnectionInvariant, TypeOK
  <1>1. CASE MainStep(w)
    <2>1. CASE Unregister(w)
      BY <2>1, ExitConnections DEF Unregister
    <2>2. CASE Register(w) \/ SelectAssignedBots(w) \/ StartLoops(w)
      <3>1. \A v \in Worker : phase'[v] # "draining" => phase[v] # "draining"
        BY <2>2, <1>t DEF Register, SelectAssignedBots, StartLoops, ProcTypeOK
      <3> QED BY <2>2, <3>1, NothingMoves
              DEF Register, SelectAssignedBots, StartLoops
    <2>3. CASE ClaimAssignedBot(w) \/ SelectAllBots(w) \/ StopNextBot(w)
      <3>1. UNCHANGED botVars /\ UNCHANGED phase /\ pc[w]["main"] # "close"
        BY <1>t, <2>3 DEF ClaimAssignedBot, SelectAllBots, StopNextBot, procVars
      <3>2. \E l \in {"claim", "drain", "stop"} : \E b : Goto(w, "main", l, b)
        BY <2>3 DEF ClaimAssignedBot, SelectAllBots, StopNextBot
      <3> QED BY <1>t, <3>1, <3>2, GotoKeeps
    <2>4. CASE \E t \in Task : CancelTask(w, t)
      <3>1. UNCHANGED botVars /\ UNCHANGED phase /\ phase[w] = "draining"
        BY <2>4 DEF CancelTask
      <3>2. CASE UNCHANGED taskVars
        BY <3>1, <3>2, NothingMoves
      <3>3. CASE ~UNCHANGED taskVars
        <4>1. \E t \in Task, l \in {"release", "idle"} : \E b : Goto(w, t, l, b)
          BY <2>4, <3>3 DEF CancelTask
        <4> QED BY <3>1, <4>1, GotoKeeps
      <3> QED BY <3>2, <3>3
    <2> QED BY <1>1, <2>1, <2>2, <2>3, <2>4 DEF MainStep
  <1>2. CASE CheckStep(w)
    <2>1. UNCHANGED botVars /\ UNCHANGED phase
      BY <1>2 DEF CheckStep, FindDeadWorkers, UnregisterDead, RebuildHashRing,
                  ClaimOrphanedBot, SelectUnownedBots, ReleaseUnownedBot, procVars
    <2>2. CASE UNCHANGED taskVars
      BY <2>1, <2>2, NothingMoves
    <2>3. CASE ~UNCHANGED taskVars
      <3>1. \E l \in {"cull", "orphans", "claim", "shed", "idle", "stop"} : \E b :
              Goto(w, "check", l, b)
        BY <1>2, <2>3 DEF CheckStep, FindDeadWorkers, UnregisterDead,
                  RebuildHashRing, ClaimOrphanedBot, SelectUnownedBots,
                  ReleaseUnownedBot
      <3>2. pc[w]["check"] # "close"
        BY <1>2 DEF CheckStep, FindDeadWorkers, UnregisterDead, RebuildHashRing,
                  ClaimOrphanedBot, SelectUnownedBots, ReleaseUnownedBot
      <3> QED BY <1>t, <2>1, <3>1, <3>2, GotoKeeps
    <2> QED BY <2>2, <2>3
  <1>3. CASE HandleBotEvent(w)
    <2>1. UNCHANGED botVars /\ UNCHANGED phase /\ pc[w]["events"] # "close"
      BY <1>3 DEF HandleBotEvent
    <2>2. CASE UNCHANGED taskVars
      BY <2>1, <2>2, NothingMoves
    <2>3. CASE ~UNCHANGED taskVars
      <3>1. \E l \in {"claim", "stop"} : \E b : Goto(w, "events", l, b)
        BY <1>3, <2>3 DEF HandleBotEvent
      <3> QED BY <1>t, <2>1, <3>1, GotoKeeps
    <2> QED BY <2>2, <2>3
  <1>4. CASE HandleCommand(w)
    <2>1. UNCHANGED botVars /\ UNCHANGED phase /\ pc[w]["commands"] # "close"
      BY <1>4 DEF HandleCommand, procVars
    <2> QED BY <1>t, <1>4, <2>1, GotoKeeps DEF HandleCommand
  <1>5. CASE Heartbeat(w) \/ HeartbeatExpires(w) \/ Shutdown(w)
    <2>1. \A v \in Worker : phase'[v] # "draining" => phase[v] # "draining"
      BY <1>5, <1>t DEF Heartbeat, HeartbeatExpires, Shutdown, ProcTypeOK, procVars
    <2> QED BY <1>5, <2>1, NothingMoves DEF Heartbeat, HeartbeatExpires, Shutdown
  <1>6. CASE MainReturns(w) \/ Crash(w)
    BY <1>6, ExitConnections DEF MainReturns, Crash
  <1> QED BY <1>1, <1>2, <1>3, <1>4, <1>5, <1>6

\* The invariant is inductive.
LEMMA NextConnections ==
  ConnectionInvariant /\ [Next]_vars => ConnectionInvariant'
  <1> SUFFICES ASSUME ConnectionInvariant, [Next]_vars
               PROVE  ConnectionInvariant'
    OBVIOUS
  <1>1. TypeOK'
    BY NextTypeOK DEF ConnectionInvariant
  <1>2. Kept'
    <2>1. CASE UNCHANGED vars
      BY <2>1, NothingMoves DEF vars, procVars
    <2>2. ASSUME NEW w \in Worker, NEW t \in Task,
                 StartStep(w, t) \/ StopStep(w, t)
                 \/ StartFails(w, t) \/ StopFails(w, t)
          PROVE  Kept'
      <3>1. target[w][t] \in Bot
        BY <2>2 DEF StartStep, TryClaimBotLock, StartBot, Connect, AssignBot,
                    ReleaseBotLock, RaiseFromStart, StartFails, StopStep, BeginStop,
                    PopSlackHandler, CloseBot, UnassignBot, StopFails,
                    ConnectionInvariant, TypeOK, TaskTypeOK, Working
      <3> QED BY <2>2, <3>1, StartStepConnections, BeginStopConnections,
                 PopSlackHandlerConnections, CloseConnections DEF StopStep
    <2>3. ASSUME NEW w \in Worker,
                 \/ MainStep(w) \/ CheckStep(w)
                 \/ HandleBotEvent(w) \/ HandleCommand(w) \/ Heartbeat(w)
                 \/ MainReturns(w) \/ Crash(w) \/ HeartbeatExpires(w)
                 \/ Shutdown(w)
          PROVE  Kept'
      BY <2>3, OtherStepConnections
    <2>4. ASSUME NEW w \in Worker, NEW b \in Bot, ClientStep(w, b)
          PROVE  Kept'
      BY <2>4, ClientStepConnections
    <2>5. ASSUME NEW b \in Bot, LockExpires(b)
          PROVE  Kept'
      BY <2>5, NothingMoves DEF LockExpires, procVars
    <2>6. ASSUME NEW request \in Request,
                 ApiRequest(request) \/ ActivateBot(request) \/ CommandBot(request)
          PROVE  Kept'
      BY <2>6, NothingMoves DEF ApiRequest, ActivateBot, CommandBot, procVars
    <2> QED BY <2>1, <2>2, <2>3, <2>4, <2>5, <2>6 DEF Next
  <1> QED BY <1>1, <1>2 DEF ConnectionInvariant, Kept

\* Nothing is connected before any worker has started.
LEMMA InitConnections == Init => ConnectionInvariant
  <1> SUFFICES ASSUME Init PROVE ConnectionInvariant
    OBVIOUS
  <1>1. TypeOK
    BY InitTypeOK
  <1>2. TaskKinds
    BY DEF Init, TaskKinds
  <1>3. ASSUME NEW w \in Worker, NEW b \in Bot
        PROVE  Covered(w, b) /\ ActiveIsHeld(w, b) /\ ClientKind(w, b)
    <2>1. Closing(w, b) = {}
      BY DEF Init, Closing
    <2>2. Cardinality(Closing(w, b)) = 0
      BY <2>1, FS_EmptySet
    <2> QED BY <2>2 DEF Init, Covered, ActiveIsHeld, ClientKind, Live
  <1> QED BY <1>1, <1>2, <1>3 DEF ConnectionInvariant

\* No connection is ever closed twice: every stored handler whose client has not
\* ended by itself, every close under way and every thread told to disconnect
\* stand for connections of their own, whichever tasks of _stop_bot, polling loops
\* and threads overlap and whichever clients fail in the background.
THEOREM ConnectionsTracked == Spec => []TrackedConnections
  <1>1. ConnectionInvariant => TrackedConnections
    <2> SUFFICES ASSUME ConnectionInvariant, NEW w \in Worker, NEW b \in Bot
                 PROVE  connections[w][b] >=
                          Cardinality((handlers[w] \ ended[w]) \cap {b})
                          + quitting[w][b] + Cardinality(Closing(w, b))
      BY DEF TrackedConnections
    <2>1. Cardinality((handlers[w] \ ended[w]) \cap {b}) = Live(w, b)
      <3>1. CASE b \in handlers[w] \ ended[w]
        <4>1. (handlers[w] \ ended[w]) \cap {b} = {b}
          BY <3>1
        <4> QED BY <3>1, <4>1, FS_Singleton DEF Live
      <3>2. CASE b \notin handlers[w] \ ended[w]
        <4>1. (handlers[w] \ ended[w]) \cap {b} = {}
          BY <3>2
        <4> QED BY <3>2, <4>1, FS_EmptySet DEF Live
      <3> QED BY <3>1, <3>2
    <2> QED BY <2>1, Numbers DEF Count, KeptFor
  <1> QED BY <1>1, InitConnections, NextConnections, PTL DEF Spec

\* Until a worker shuts down, a bot in its _active_bots without a connection is one
\* whose stored client ended by itself: the overlap of starts, stops and exiting
\* threads leaves none, nor does a start or a stop that fails.
THEOREM GhostsAreEndedClients == Spec => []OnlyEndedGhosts
  <1>1. ConnectionInvariant => OnlyEndedGhosts
    <2> SUFFICES ASSUME ConnectionInvariant, NEW w \in Worker,
                        phase[w] # "draining", NEW b \in activeBots[w]
                 PROVE  connections[w][b] > 0 \/ b \in ended[w]
      BY DEF OnlyEndedGhosts
    <2>1. b \in Bot
      BY DEF ConnectionInvariant, TypeOK, BotTypeOK
    <2>2. b \in handlers[w] \/ Count(w, b) > 0
      BY <2>1, Numbers DEF KeptFor
    <2>3. b \in ended[w] \/ Live(w, b) + Count(w, b) > 0
      BY <2>1, <2>2, Numbers DEF Live
    <2> QED BY <2>1, <2>3, Numbers DEF KeptFor
  <1> QED BY <1>1, InitConnections, NextConnections, PTL DEF Spec
===============================================================================
