------------------------------ MODULE BotCluster ------------------------------
(***************************************************************************)
(* The pool of bot workers (bot_worker/worker.py), the state they share in *)
(* Redis (bot_worker/redis_state.py) and the API side that drives them     *)
(* (services/bot_worker/bot_deployment_service.py).                        *)
(*                                                                         *)
(* A worker is one asyncio process.  Its coroutines are the tasks below;   *)
(* between two awaits a task runs alone in its worker, so an action of the *)
(* model is the code from one await to the next, and a Redis command takes *)
(* effect in the action that awaits it.                                    *)
(***************************************************************************)
EXTENDS HashRing, Sequences, FiniteSets

CONSTANTS
  NoWorker, NoBot,     \* absent hash field, absent key, no current bot
  Capacity,            \* BotWorkerConfig.worker_capacity
  Kind,                \* [Bot -> {"slack", "telegram", "whatsapp"}]
  SlowStarts,          \* TRUE: a start may outlast the claim lock's 30 s
  ReuseIds,            \* TRUE: a restarted container keeps its WORKER_ID
  ActiveAtStart,       \* the bots active in the database at the start
  ApiOps,              \* bound: the kinds of API request made
  MaxConn,             \* bound: connections of one bot one worker may pile up
  Budgets              \* bound: how many API requests, killed processes, SIGTERMs,
                       \* stalls (30 s without a heartbeat of a live worker) and
                       \* faults (failed starts, stops and clients, exited threads) may
                       \* happen together

Budget == [ops : Nat, crashes : Nat, stops : Nat, stalls : Nat, faults : Nat]

ASSUME BotClusterAssumption ==
  /\ NoWorker \notin Worker
  /\ NoBot \notin Bot
  /\ Capacity \in Nat
  /\ Kind \in [Bot -> {"slack", "telegram", "whatsapp"}]
  /\ SlowStarts \in BOOLEAN
  /\ ReuseIds \in BOOLEAN
  /\ ActiveAtStart \subseteq Bot
  /\ ApiOps \subseteq {"activate", "deactivate", "restart"}
  /\ MaxConn \in Nat
  /\ Budgets \subseteq Budget

VARIABLES
  \* Redis
  heartbeats,    \* sorted set: "absent", "fresh" or "stale" (older than 30 s)
  assignments,   \* hash bot -> worker
  claimLock,     \* one key with a TTL per bot, its value the claiming worker
  events,        \* stream of lifecycle events
  commands,      \* pub/sub messages not yet read, per worker
  \* database and API processes
  isActive,      \* the is_active column of each bot
  requests,      \* API calls between their commit and their publish
  \* one worker process
  phase,         \* where start() or stop() is
  hashRing,      \* _hash_ring: the workers it was built from
  activeBots,    \* keys of _active_bots
  handlers,      \* keys of _slack_handlers, _telegram_apps, _whatsapp_clients
  ended,         \* the stored handlers whose client has ended by itself
  connections,   \* platform clients of each bot at work, known or leaked: a
                 \* Slack client, which reconnects for ever, counts until closed
  quitting,      \* WhatsApp threads told to disconnect and not yet exited
  lastEventId,   \* _last_event_id: how much of the stream was read
  cancelled,     \* the background tasks stop() has cancelled
  pc, target,    \* what each task is doing, and to which bot
  restarting,    \* the tasks that stop a bot in order to start it again
  todo,          \* bots left in the loop of the main or the check task
  dead,          \* workers left to unregister in the check task's cycle
  \* the environment
  budget         \* how many more requests, crashes, ... may happen

storeVars == <<heartbeats, assignments, claimLock>>
queueVars == <<events, commands>>
apiVars   == <<isActive, requests>>
procVars  == <<phase, hashRing, lastEventId, cancelled>>
botVars   == <<activeBots, handlers, ended, connections, quitting>>
taskVars  == <<pc, target, restarting>>
loopVars  == <<todo, dead>>
vars == <<storeVars, queueVars, apiVars, procVars, botVars, taskVars, loopVars,
          budget>>

\* The coroutines of a worker: start() and then stop(), the two listeners and
\* _dead_worker_check_loop.  The heartbeat loop is the action Heartbeat.
Task == {"main", "events", "commands", "check"}

\* From "claim" to "raise" a task is in _claim_and_start_bot ("raise" is the
\* `finally` of a start that raised), from "stop" to "unassign" in _stop_bot
\* ("await" is the await of a cancelled Slack task); the rest are the loops of the
\* check and main tasks.
Label == {"idle", "claim", "starting", "connect", "assign", "release", "raise",
          "stop", "await", "close", "unassign",
          "cull", "orphans", "shed", "drain"}

Op == {"activate", "deactivate", "restart"}
Request == [op : Op, bot : Bot]
Phase == {"down", "registered", "claiming", "running", "draining", "gone"}

\* The labels at which a task works on a bot.
Working == {"claim", "starting", "connect", "assign", "release", "raise",
            "stop", "await", "close", "unassign"}

StoreTypeOK ==
  /\ heartbeats \in [Worker -> {"absent", "fresh", "stale"}]
  /\ assignments \in [Bot -> Worker \cup {NoWorker}]
  /\ claimLock \in [Bot -> Worker \cup {NoWorker}]
QueueTypeOK ==
  /\ events \in Seq(Request)
  /\ commands \in [Worker -> Seq(Request)]
ApiTypeOK ==
  /\ isActive \in [Bot -> BOOLEAN]
  /\ requests \subseteq Request
ProcTypeOK ==
  /\ phase \in [Worker -> Phase]
  /\ hashRing \in [Worker -> SUBSET Worker]
  /\ lastEventId \in [Worker -> Nat]
  /\ cancelled \in [Worker -> SUBSET Task]
BotTypeOK ==
  /\ activeBots \in [Worker -> SUBSET Bot]
  /\ handlers \in [Worker -> SUBSET Bot]
  /\ ended \in [Worker -> SUBSET Bot]
  /\ connections \in [Worker -> [Bot -> Int]]
  /\ quitting \in [Worker -> [Bot -> Int]]
TaskTypeOK ==
  /\ pc \in [Worker -> [Task -> Label]]
  /\ target \in [Worker -> [Task -> Bot \cup {NoBot}]]
  /\ restarting \in [Worker -> SUBSET Task]
  /\ \A w \in Worker, t \in Task : pc[w][t] \in Working => target[w][t] \in Bot
LoopTypeOK ==
  /\ todo \in [Worker -> SUBSET Bot]
  /\ dead \in [Worker -> SUBSET Worker]

TypeOK ==
  /\ StoreTypeOK /\ QueueTypeOK /\ ApiTypeOK /\ ProcTypeOK /\ BotTypeOK
  /\ TaskTypeOK /\ LoopTypeOK /\ budget \in Budget

Init ==
  /\ heartbeats = [w \in Worker |-> "absent"]
  /\ assignments = [b \in Bot |-> NoWorker]
  /\ claimLock = [b \in Bot |-> NoWorker]
  /\ events = <<>>
  /\ commands = [w \in Worker |-> <<>>]
  /\ isActive = [b \in Bot |-> b \in ActiveAtStart]
  /\ requests = {}
  /\ phase = [w \in Worker |-> "down"]
  /\ hashRing = [w \in Worker |-> {}]
  /\ activeBots = [w \in Worker |-> {}]
  /\ handlers = [w \in Worker |-> {}]
  /\ ended = [w \in Worker |-> {}]
  /\ connections = [w \in Worker |-> [b \in Bot |-> 0]]
  /\ quitting = [w \in Worker |-> [b \in Bot |-> 0]]
  /\ lastEventId = [w \in Worker |-> 0]
  /\ pc = [w \in Worker |-> [t \in Task |-> "idle"]]
  /\ target = [w \in Worker |-> [t \in Task |-> NoBot]]
  /\ restarting = [w \in Worker |-> {}]
  /\ cancelled = [w \in Worker |-> {}]
  /\ todo = [w \in Worker |-> {}]
  /\ dead = [w \in Worker |-> {}]
  /\ budget \in Budgets

-------------------------------------------------------------------------------
\* Helpers.

Spend(kind) == /\ budget[kind] > 0
               /\ budget' = [budget EXCEPT ![kind] = @ - 1]

\* get_healthy_workers and get_dead_workers.
HealthyWorkers == {w \in Worker : heartbeats[w] = "fresh"}
DeadWorkers    == {w \in Worker : heartbeats[w] = "stale"}

\* What _rebuild_hash_ring builds now, and the bots of the database it gives w.
FreshRing(w) == HealthyWorkers \cup {w}
ActiveBotIds == {b \in Bot : isActive[b]}
MyBots(w, ring) == GetKeysForNode(w, ring, ActiveBotIds)

\* Task t of w goes to label l, working on bot b.
Goto(w, t, l, b) == /\ pc' = [pc EXCEPT ![w][t] = l]
                    /\ target' = [target EXCEPT ![w][t] = b]

\* Where a task goes on when _claim_and_start_bot returns, or raises because the
\* task was cancelled.
AfterStart(w, t) ==
  IF t = "check" /\ t \notin cancelled[w] THEN "orphans" ELSE "idle"

\* A background task has not been cancelled: it takes up its next piece of work.
\* Its loop tests _is_shutting_down only once per iteration.
Listening(w, t) == /\ phase[w] \in {"running", "draining"}
                   /\ t \notin cancelled[w]

\* Mutant: the restart forgets, with the stop, which bot it was for.
ReturnWithoutBot(w, t) ==
  /\ Goto(w, t, IF t \in restarting[w] THEN "claim" ELSE "idle", NoBot)
  /\ restarting' = [restarting EXCEPT ![w] = @ \ {t}]

\* _stop_bot returns: a restart goes on to start the bot (after sleep(1)), the
\* loops go on with their next bot.
ReturnFromStop(w, t) ==
  IF t \in restarting[w]
  THEN /\ Goto(w, t, "claim", target[w][t])
       /\ restarting' = [restarting EXCEPT ![w] = @ \ {t}]
  ELSE /\ Goto(w, t, CASE t = "check" -> "shed"
                       [] t = "main"  -> "drain"
                       [] OTHER       -> "idle", NoBot)
       /\ UNCHANGED restarting

\* The task is between the SET NX it won and the DELETE that follows.
Claiming(w, t) ==
  pc[w][t] \in {"starting", "connect", "assign", "release", "raise"}

\* What is stored under the id of b leaves the store.
DropHandler(w, b) == /\ handlers' = [handlers EXCEPT ![w] = @ \ {b}]
                     /\ ended' = [ended EXCEPT ![w] = @ \ {b}]

\* The clients of b in w that are at work, one by one: the stored one, those that
\* _stop_bot is closing (quitting are those it told to disconnect), and what is
\* left over, of which nothing is stored.
Closing(w, b) == {t \in Task : pc[w][t] = "close" /\ target[w][t] = b}
Live(w, b)    == IF b \in handlers[w] \ ended[w] THEN 1 ELSE 0
Leaked(w, b)  == connections[w][b] - quitting[w][b] - Cardinality(Closing(w, b))
                   - Live(w, b)

\* The process is gone: what it kept in memory is lost and its connections
\* are closed; Redis and the database are left as they are.
Exit(w) ==
  /\ phase' = [phase EXCEPT ![w] = IF ReuseIds THEN "down" ELSE "gone"]
  /\ hashRing' = [hashRing EXCEPT ![w] = {}]
  /\ activeBots' = [activeBots EXCEPT ![w] = {}]
  /\ handlers' = [handlers EXCEPT ![w] = {}]
  /\ ended' = [ended EXCEPT ![w] = {}]
  /\ connections' = [connections EXCEPT ![w] = [b \in Bot |-> 0]]
  /\ quitting' = [quitting EXCEPT ![w] = [b \in Bot |-> 0]]
  /\ lastEventId' = [lastEventId EXCEPT ![w] = 0]
  /\ commands' = [commands EXCEPT ![w] = <<>>]
  /\ pc' = [pc EXCEPT ![w] = [t \in Task |-> "idle"]]
  /\ target' = [target EXCEPT ![w] = [t \in Task |-> NoBot]]
  /\ restarting' = [restarting EXCEPT ![w] = {}]
  /\ cancelled' = [cancelled EXCEPT ![w] = {}]
  /\ todo' = [todo EXCEPT ![w] = {}]
  /\ dead' = [dead EXCEPT ![w] = {}]

-------------------------------------------------------------------------------
\* BotWorker.start()

\* register_worker, then the sleep that lets the peers register too.
Register(w) ==
  /\ phase[w] = "down"
  /\ heartbeats' = [heartbeats EXCEPT ![w] = "fresh"]
  /\ phase' = [phase EXCEPT ![w] = "registered"]
  /\ UNCHANGED <<assignments, claimLock, queueVars, apiVars, hashRing,
                 lastEventId, cancelled, botVars, taskVars, loopVars, budget>>

\* _rebuild_hash_ring and the selection at the top of _claim_assigned_bots.
SelectAssignedBots(w) ==
  /\ phase[w] = "registered"
  /\ phase' = [phase EXCEPT ![w] = "claiming"]
  /\ hashRing' = [hashRing EXCEPT ![w] = FreshRing(w)]
  /\ todo' = [todo EXCEPT ![w] = MyBots(w, FreshRing(w))]
  /\ UNCHANGED <<storeVars, queueVars, apiVars, lastEventId, cancelled, botVars,
                 taskVars, dead, budget>>

\* The loop of _claim_assigned_bots, which does not look at the assignments.
ClaimAssignedBot(w) ==
  /\ phase[w] = "claiming"
  /\ pc[w]["main"] = "idle"
  /\ \E b \in todo[w] :
       /\ todo' = [todo EXCEPT ![w] = @ \ {b}]
       /\ Goto(w, "main", "claim", b)
  /\ UNCHANGED <<storeVars, queueVars, apiVars, procVars, botVars, restarting,
                 dead, budget>>

\* The snapshot of the stream's tail, and the background tasks are created.
StartLoops(w) ==
  /\ phase[w] = "claiming"
  /\ pc[w]["main"] = "idle"
  /\ todo[w] = {}
  /\ phase' = [phase EXCEPT ![w] = "running"]
  /\ lastEventId' = [lastEventId EXCEPT ![w] = Len(events)]
  /\ UNCHANGED <<storeVars, queueVars, apiVars, hashRing, cancelled, botVars,
                 taskVars, loopVars, budget>>

-------------------------------------------------------------------------------
\* _claim_and_start_bot, in any task

\* Mutant: a plain SET, without NX.
TryClaimWithoutNX(w, t) ==
  /\ pc[w][t] = "claim"
  /\ claimLock' = [claimLock EXCEPT ![target[w][t]] = w]
  /\ Goto(w, t, "starting", target[w][t])
  /\ UNCHANGED <<heartbeats, assignments, queueVars, apiVars, procVars, botVars,
                 restarting, loopVars, budget>>

\* Mutant: the `finally` covers the lost claim too, and deletes the winner's lock.
TryClaimAndAlwaysRelease(w, t) ==
  LET b == target[w][t] IN
  /\ pc[w][t] = "claim"
  /\ claimLock' = [claimLock EXCEPT ![b] = IF @ = NoWorker THEN w ELSE @]
  /\ Goto(w, t, IF claimLock[b] = NoWorker THEN "starting" ELSE "release", b)
  /\ UNCHANGED <<heartbeats, assignments, queueVars, apiVars, procVars, botVars,
                 restarting, loopVars, budget>>

\* try_claim_bot_lock: SET NX.
TryClaimBotLock(w, t) ==
  LET b == target[w][t] IN
  /\ pc[w][t] = "claim"
  /\ \/ /\ claimLock[b] = NoWorker
        /\ claimLock' = [claimLock EXCEPT ![b] = w]
        /\ Goto(w, t, "starting", b)
     \/ /\ claimLock[b] # NoWorker
        /\ Goto(w, t, AfterStart(w, t), NoBot)
        /\ UNCHANGED claimLock
  /\ UNCHANGED <<heartbeats, assignments, queueVars, apiVars, procVars, botVars,
                 restarting, loopVars, budget>>

\* The guards at the top of _start_bot.
MayStart(w, b) == /\ b \notin activeBots[w]
                  /\ Cardinality(activeBots[w]) < Capacity

StartBot(w, t) ==
  /\ pc[w][t] = "starting"
  /\ Goto(w, t, IF MayStart(w, target[w][t]) THEN "connect" ELSE "release",
          target[w][t])
  /\ UNCHANGED <<storeVars, queueVars, apiVars, procVars, botVars, restarting,
                 loopVars, budget>>

\* The database reads are over and the client is started, in a background task or
\* a thread: its handler is stored (over an older one, if there is one) and the
\* bot is in _active_bots.  The client may still fail, see ClientFails.
Connect(w, t) ==
  LET b == target[w][t] IN
  /\ pc[w][t] = "connect"
  /\ connections[w][b] < MaxConn
  /\ connections' = [connections EXCEPT ![w][b] = @ + 1]
  /\ handlers' = [handlers EXCEPT ![w] = @ \cup {b}]
  /\ ended' = [ended EXCEPT ![w] = @ \ {b}]
  /\ activeBots' = [activeBots EXCEPT ![w] = @ \cup {b}]
  /\ Goto(w, t, "assign", b)
  /\ UNCHANGED <<storeVars, queueVars, apiVars, procVars, quitting, restarting,
                 loopVars, budget>>

\* Mutant: _start_*_bot drops the lock itself, before the `finally` does.
AssignAndRelease(w, t) ==
  /\ pc[w][t] = "assign"
  /\ assignments' = [assignments EXCEPT ![target[w][t]] = w]
  /\ claimLock' = [claimLock EXCEPT ![target[w][t]] = NoWorker]
  /\ Goto(w, t, "release", target[w][t])
  /\ UNCHANGED <<heartbeats, queueVars, apiVars, procVars, botVars, restarting,
                 loopVars, budget>>

\* assign_bot: a plain HSET.
AssignBot(w, t) ==
  /\ pc[w][t] = "assign"
  /\ assignments' = [assignments EXCEPT ![target[w][t]] = w]
  /\ Goto(w, t, "release", target[w][t])
  /\ UNCHANGED <<heartbeats, claimLock, queueVars, apiVars, procVars, botVars,
                 restarting, loopVars, budget>>

\* Where an exception leaves a start: _start_bot's reads of the database are in
\* no `try`, nor are the HSET and the commit of a WhatsApp bot; what raises
\* elsewhere makes _start_*_bot return False.
AfterFailure(w, t) ==
  IF pc[w][t] = "connect" THEN {"release", "raise"}
  ELSE IF Kind[target[w][t]] = "whatsapp" THEN {"raise"} ELSE {"release"}

\* An exception before the client is started, or in the HSET and the commit that
\* follow.  The start that would pass the bound MaxConn ends as if it failed.
StartFails(w, t) ==
  /\ pc[w][t] \in {"connect", "assign"}
  /\ \/ /\ Spend("faults")
        /\ \E l \in AfterFailure(w, t) : Goto(w, t, l, target[w][t])
     \/ /\ pc[w][t] = "connect"
        /\ connections[w][target[w][t]] >= MaxConn
        /\ Goto(w, t, "release", target[w][t])
        /\ UNCHANGED budget
  /\ UNCHANGED <<storeVars, queueVars, apiVars, procVars, botVars, restarting,
                 loopVars>>

\* release_bot_lock: a DELETE, whoever holds the lock by now.
ReleaseBotLock(w, t) ==
  /\ pc[w][t] = "release"
  /\ claimLock' = [claimLock EXCEPT ![target[w][t]] = NoWorker]
  /\ Goto(w, t, AfterStart(w, t), NoBot)
  /\ UNCHANGED <<heartbeats, assignments, queueVars, apiVars, procVars, botVars,
                 restarting, loopVars, budget>>

\* The lock of a start that raised is deleted and the exception goes on: a
\* listener logs it, the check loop gives up its cycle, and in start() main()
\* stops the worker, which has no background tasks yet.
RaiseFromStart(w, t) ==
  /\ pc[w][t] = "raise"
  /\ claimLock' = [claimLock EXCEPT ![target[w][t]] = NoWorker]
  /\ Goto(w, t, "idle", NoBot)
  /\ todo' = [todo EXCEPT ![w] = IF t \in {"main", "check"} THEN {} ELSE @]
  /\ \/ /\ t = "main"
        /\ phase[w] = "claiming"
        /\ phase' = [phase EXCEPT ![w] = "draining"]
        /\ cancelled' = [cancelled EXCEPT ![w] = Task \ {"main"}]
     \/ t # "main" /\ UNCHANGED <<phase, cancelled>>
  /\ UNCHANGED <<heartbeats, assignments, queueVars, apiVars, hashRing,
                 lastEventId, botVars, restarting, dead, budget>>

-------------------------------------------------------------------------------
\* _stop_bot, in any task

\* Mutant: the handler is read, not popped, so that two tasks may close it.
BeginStopKeepsHandler(w, t) ==
  LET b == target[w][t] IN
  /\ pc[w][t] = "stop"
  /\ \/ b \notin activeBots[w] /\ ReturnFromStop(w, t)
     \/ b \in activeBots[w] /\ Goto(w, t, "close", b) /\ UNCHANGED restarting
  /\ UNCHANGED <<storeVars, queueVars, apiVars, procVars, botVars, loopVars,
                 budget>>

\* _stop_bot up to its first await.  A bot that is not active is left alone.  A
\* stored handler is taken out and closed, a Slack one only after its polling
\* task (if it is not taken or over) was cancelled and awaited.  When another
\* task took the handler, the bot is only removed from _active_bots; so it is, and
\* what is stored with it, when the client has ended by itself.  A WhatsApp client
\* is told to disconnect and its thread exits later.
BeginStop(w, t) ==
  LET b == target[w][t] IN
  /\ pc[w][t] = "stop"
  /\ \/ /\ b \notin activeBots[w]
        /\ ReturnFromStop(w, t)
        /\ UNCHANGED botVars
     \/ /\ b \in activeBots[w] \cap handlers[w]
        /\ Kind[b] = "slack"
        /\ Goto(w, t, "await", b)
        /\ UNCHANGED <<botVars, restarting>>
     \/ /\ b \in (activeBots[w] \cap handlers[w]) \ ended[w]
        /\ Kind[b] # "whatsapp"
        /\ DropHandler(w, b)
        /\ Goto(w, t, "close", b)
        /\ UNCHANGED <<activeBots, connections, quitting, restarting>>
     \/ /\ b \in activeBots[w]
        /\ b \in handlers[w] => Kind[b] = "whatsapp" \/ b \in ended[w]
        /\ activeBots' = [activeBots EXCEPT ![w] = @ \ {b}]
        /\ DropHandler(w, b)
        /\ quitting' = [quitting EXCEPT ![w][b] = @ + Live(w, b)]
        /\ Goto(w, t, "unassign", b)
        /\ UNCHANGED <<connections, restarting>>
  /\ UNCHANGED <<storeVars, queueVars, apiVars, procVars, loopVars, budget>>

\* The polling task has ended.  The handler is taken out, be it by now a newer
\* one; if another task took it, the KeyError drops the bot from the tracking
\* and leaves its assignment.
PopSlackHandler(w, t) ==
  LET b == target[w][t] IN
  /\ pc[w][t] = "await"
  /\ DropHandler(w, b)
  /\ IF b \in handlers[w]
     THEN /\ Goto(w, t, "close", b)
          /\ UNCHANGED <<activeBots, restarting>>
     ELSE /\ activeBots' = [activeBots EXCEPT ![w] = @ \ {b}]
          /\ ReturnFromStop(w, t)
  /\ UNCHANGED <<storeVars, queueVars, apiVars, procVars, connections, quitting,
                 loopVars, budget>>

\* Mutant: the bot stays in _active_bots until unassign_bot has returned.
CloseKeepsActive(w, t) ==
  LET b == target[w][t] IN
  /\ pc[w][t] = "close"
  /\ connections' = [connections EXCEPT ![w][b] = @ - 1]
  /\ Goto(w, t, "unassign", b)
  /\ UNCHANGED <<storeVars, queueVars, apiVars, procVars, activeBots, handlers,
                 ended, quitting, restarting, loopVars, budget>>

\* The connection is closed.  If another task removed the bot from _active_bots
\* meanwhile, the `del` raises KeyError: whatever is stored for the bot by now
\* is dropped, and the assignment is left as it is.
CloseBot(w, t) ==
  LET b == target[w][t] IN
  /\ pc[w][t] = "close"
  /\ connections' = [connections EXCEPT ![w][b] = @ - 1]
  /\ activeBots' = [activeBots EXCEPT ![w] = @ \ {b}]
  /\ IF b \in activeBots[w]
     THEN /\ Goto(w, t, "unassign", b)
          /\ UNCHANGED <<handlers, ended, restarting>>
     ELSE /\ DropHandler(w, b)
          /\ ReturnFromStop(w, t)
  /\ UNCHANGED <<storeVars, queueVars, apiVars, procVars, quitting, loopVars,
                 budget>>

\* unassign_bot: an HDEL, whoever the bot is assigned to by now.
UnassignBot(w, t) ==
  /\ pc[w][t] = "unassign"
  /\ assignments' = [assignments EXCEPT ![target[w][t]] = NoWorker]
  /\ ReturnFromStop(w, t)
  /\ UNCHANGED <<heartbeats, claimLock, queueVars, apiVars, procVars, botVars,
                 loopVars, budget>>

\* An exception in the close (Telegram's may raise; Slack's are swallowed) or in
\* the HDEL: the bot is dropped from the tracking, its assignment stays.  The
\* connection whose close failed may or may not be gone.
StopFails(w, t) ==
  LET b == target[w][t] IN
  /\ \/ pc[w][t] = "close" /\ Kind[b] = "telegram"
     \/ pc[w][t] = "unassign"
  /\ Spend("faults")
  /\ activeBots' = [activeBots EXCEPT ![w] = @ \ {b}]
  /\ DropHandler(w, b)
  /\ \E closed \in IF pc[w][t] = "close" THEN {0, 1} ELSE {0} :
       connections' = [connections EXCEPT ![w][b] = @ - closed]
  /\ ReturnFromStop(w, t)
  /\ UNCHANGED <<storeVars, queueVars, apiVars, procVars, quitting, loopVars>>

-------------------------------------------------------------------------------
\* The clients, which run in background tasks and threads of their own

\* A client of b that nobody is closing ends by itself: the stored one, which
\* stays in the store and in _active_bots, or one that was left over.
ClientEnds(w, b) ==
  /\ connections' = [connections EXCEPT ![w][b] = @ - 1]
  /\ \/ /\ Live(w, b) = 1
        /\ ended' = [ended EXCEPT ![w] = @ \cup {b}]
     \/ /\ Leaked(w, b) > 0
        /\ UNCHANGED ended
  /\ UNCHANGED <<storeVars, queueVars, apiVars, procVars, activeBots, handlers,
                 taskVars, loopVars>>

\* The loop of _run_telegram_polling sees that the bot is not active or that the
\* worker is shutting down, and its `finally` shuts its own application down,
\* though only if some application is stored for the bot.
PollingEnds(w, b) ==
  /\ Kind[b] = "telegram"
  /\ b \in handlers[w]
  /\ b \notin activeBots[w] \/ phase[w] = "draining"
  /\ ClientEnds(w, b)
  /\ UNCHANGED <<quitting, budget>>

\* start() or start_polling() of a Telegram application raises, or the imports of
\* a WhatsApp thread do, however late: neither drops what is stored for the bot.
\* The thread may be one that was told to disconnect.
ClientFails(w, b) ==
  /\ Kind[b] # "slack"
  /\ Spend("faults")
  /\ \/ ClientEnds(w, b) /\ UNCHANGED quitting
     \/ /\ quitting[w][b] > 0
        /\ quitting' = [quitting EXCEPT ![w][b] = @ - 1]
        /\ connections' = [connections EXCEPT ![w][b] = @ - 1]
        /\ UNCHANGED <<storeVars, queueVars, apiVars, procVars, activeBots,
                       handlers, ended, taskVars, loopVars>>

\* A WhatsApp thread whose entry was taken out before it had a client misses the
\* disconnect, stores its client in a newer entry of the bot and goes on.  (Which
\* threads have a client yet is not followed: any of them may.)
ThreadGoesOn(w, b) ==
  /\ b \in handlers[w]
  /\ quitting[w][b] > 0
  /\ quitting' = [quitting EXCEPT ![w][b] = @ - 1]
  /\ ended' = [ended EXCEPT ![w] = @ \ {b}]
  /\ UNCHANGED <<storeVars, queueVars, apiVars, procVars, activeBots, handlers,
                 connections, taskVars, loopVars, budget>>

\* The `finally` of a WhatsApp thread, after a disconnect or an error.  It drops
\* what is stored under the bot's id, be it its own or a newer connection's.
ThreadExits(w, b) ==
  /\ Kind[b] = "whatsapp"
  /\ connections[w][b] > 0
  /\ connections' = [connections EXCEPT ![w][b] = @ - 1]
  /\ activeBots' = [activeBots EXCEPT ![w] = @ \ {b}]
  /\ DropHandler(w, b)
  /\ \/ /\ quitting[w][b] > 0
        /\ quitting' = [quitting EXCEPT ![w][b] = @ - 1]
        /\ UNCHANGED budget
     \/ /\ quitting[w][b] < connections[w][b]
        /\ Spend("faults")
        /\ UNCHANGED quitting
  /\ UNCHANGED <<storeVars, queueVars, apiVars, procVars, taskVars, loopVars>>

-------------------------------------------------------------------------------
\* The background tasks

\* _heartbeat_loop, which start() only creates after its claims.
Heartbeat(w) ==
  /\ phase[w] = "running"
  /\ heartbeats[w] # "fresh"
  /\ heartbeats' = [heartbeats EXCEPT ![w] = "fresh"]
  /\ UNCHANGED <<assignments, claimLock, queueVars, apiVars, procVars, botVars,
                 taskVars, loopVars, budget>>

\* _event_listener_loop and _handle_bot_event: the cursor moves past the event
\* first, and a worker whose ring gives the bot to another one ignores it.
HandleBotEvent(w) ==
  /\ Listening(w, "events")
  /\ pc[w]["events"] = "idle"
  /\ lastEventId[w] < Len(events)
  /\ lastEventId' = [lastEventId EXCEPT ![w] = @ + 1]
  /\ LET event == events[lastEventId[w] + 1] IN
     IF GetNode(event.bot, hashRing[w]) # w
     THEN UNCHANGED taskVars
     ELSE /\ Goto(w, "events", IF event.op = "activate" THEN "claim" ELSE "stop",
                  event.bot)
          /\ restarting' = [restarting EXCEPT
                              ![w] = IF event.op = "restart"
                                     THEN @ \cup {"events"} ELSE @]
  /\ UNCHANGED <<storeVars, queueVars, apiVars, phase, hashRing, cancelled,
                 botVars, loopVars, budget>>

\* _command_listener_loop and _handle_command: stop_bot or restart_bot.
HandleCommand(w) ==
  /\ Listening(w, "commands")
  /\ pc[w]["commands"] = "idle"
  /\ commands[w] # <<>>
  /\ commands' = [commands EXCEPT ![w] = Tail(@)]
  /\ LET command == Head(commands[w]) IN
     /\ Goto(w, "commands", "stop", command.bot)
     /\ restarting' = [restarting EXCEPT
                         ![w] = IF command.op = "restart"
                                THEN @ \cup {"commands"} ELSE @]
  /\ UNCHANGED <<storeVars, events, apiVars, procVars, botVars, loopVars, budget>>

\* _dead_worker_check_loop: a cycle starts by listing the dead workers ...
FindDeadWorkers(w) ==
  /\ Listening(w, "check")
  /\ pc[w]["check"] = "idle"
  /\ DeadWorkers # {}
  /\ dead' = [dead EXCEPT ![w] = DeadWorkers]
  /\ Goto(w, "check", "cull", NoBot)
  /\ UNCHANGED <<storeVars, queueVars, apiVars, procVars, botVars, restarting,
                 todo, budget>>

\* ... unregisters each of them, by now dead or not ...
UnregisterDead(w) ==
  /\ pc[w]["check"] = "cull"
  /\ \E v \in dead[w] :
       /\ dead' = [dead EXCEPT ![w] = @ \ {v}]
       /\ heartbeats' = [heartbeats EXCEPT ![v] = "absent"]
  /\ UNCHANGED <<assignments, claimLock, queueVars, apiVars, procVars, botVars,
                 taskVars, todo, budget>>

\* Mutant: the ring is only rebuilt after a dead worker was found.
RebuildOnlyAfterDeath(w) ==
  /\ Listening(w, "check")
  /\ \/ pc[w]["check"] = "cull" /\ dead[w] = {}
     \/ pc[w]["check"] = "idle" /\ DeadWorkers = {}
  /\ hashRing' = [hashRing EXCEPT ![w] = IF pc[w]["check"] = "cull"
                                         THEN FreshRing(w) ELSE @]
  /\ todo' = [todo EXCEPT ![w] = MyBots(w, hashRing'[w])]
  /\ Goto(w, "check", "orphans", NoBot)
  /\ UNCHANGED <<storeVars, queueVars, apiVars, phase, lastEventId, cancelled,
                 botVars, restarting, dead, budget>>

\* ... and, at once when there was none, rebuilds the ring; _claim_orphaned_bots
\* selects the bots to look at.
RebuildHashRing(w) ==
  /\ Listening(w, "check")
  /\ \/ pc[w]["check"] = "cull" /\ dead[w] = {}
     \/ pc[w]["check"] = "idle" /\ DeadWorkers = {}
  /\ hashRing' = [hashRing EXCEPT ![w] = FreshRing(w)]
  /\ todo' = [todo EXCEPT ![w] = MyBots(w, FreshRing(w))]
  /\ Goto(w, "check", "orphans", NoBot)
  /\ UNCHANGED <<storeVars, queueVars, apiVars, phase, lastEventId, cancelled,
                 botVars, restarting, dead, budget>>

\* Mutant: any assigned worker counts as an owner, healthy or not.
OwnedByAnyone(w, b) == assignments[b] \notin {NoWorker, w}

\* Redis names another worker for b and that worker is healthy.
OwnedElsewhere(w, b) == /\ assignments[b] \notin {NoWorker, w}
                        /\ assignments[b] \in HealthyWorkers

\* The loop of _claim_orphaned_bots.
ClaimOrphanedBot(w) ==
  /\ pc[w]["check"] = "orphans"
  /\ \E b \in todo[w] :
       /\ todo' = [todo EXCEPT ![w] = @ \ {b}]
       /\ IF b \in activeBots[w] \/ OwnedElsewhere(w, b)
          THEN UNCHANGED taskVars
          ELSE Goto(w, "check", "claim", b) /\ UNCHANGED restarting
  /\ UNCHANGED <<storeVars, queueVars, apiVars, procVars, botVars, dead, budget>>

\* Mutant: the bots' is_active column is not looked at.
UnownedByRing(w) == activeBots[w] \ GetKeysForNode(w, hashRing[w], Bot)

\* Mutant: nothing is ever released.
NeverUnowned(w) == {}

\* _release_unowned_bots selects the bots to stop ...
UnownedBots(w) == activeBots[w] \ MyBots(w, hashRing[w])

SelectUnownedBots(w) ==
  /\ pc[w]["check"] = "orphans"
  /\ todo[w] = {}
  /\ todo' = [todo EXCEPT ![w] = UnownedBots(w)]
  /\ Goto(w, "check", IF UnownedBots(w) = {} THEN "idle" ELSE "shed", NoBot)
  /\ UNCHANGED <<storeVars, queueVars, apiVars, procVars, botVars, restarting,
                 dead, budget>>

\* ... and stops them one after the other; then the task sleeps.
ReleaseUnownedBot(w) ==
  /\ pc[w]["check"] = "shed"
  /\ \/ \E b \in todo[w] :
          /\ todo' = [todo EXCEPT ![w] = @ \ {b}]
          /\ Goto(w, "check", "stop", b)
     \/ /\ todo[w] = {}
        /\ Goto(w, "check", "idle", NoBot)
        /\ UNCHANGED todo
  /\ UNCHANGED <<storeVars, queueVars, apiVars, procVars, botVars, restarting,
                 dead, budget>>

-------------------------------------------------------------------------------
\* BotWorker.stop() and the death of a process

\* SIGTERM: stop() raises the flag and cancels the heartbeat loop.
Shutdown(w) ==
  /\ phase[w] = "running"
  /\ Spend("stops")
  /\ phase' = [phase EXCEPT ![w] = "draining"]
  /\ UNCHANGED <<storeVars, queueVars, apiVars, hashRing, lastEventId, cancelled,
                 botVars, taskVars, loopVars>>

\* The Redis write a cancelled task was waiting for is executed or not.
LastWrite(w, t) ==
  LET b == target[w][t] IN
  \/ UNCHANGED <<assignments, claimLock>>
  \/ /\ pc[w][t] \in {"assign", "unassign"}
     /\ assignments' = [assignments EXCEPT
                          ![b] = IF pc[w][t] = "assign" THEN w ELSE NoWorker]
     /\ UNCHANGED claimLock
  \/ /\ pc[w][t] = "claim"
     /\ claimLock[b] = NoWorker
     /\ claimLock' = [claimLock EXCEPT ![b] = w]
     /\ UNCHANGED assignments

\* stop() cancels the listeners and the check loop one after the other, each
\* once the one before has ended.  The cancelled task stops where it is, except
\* that a start still runs its `finally`, and that _stop_bot swallows the
\* cancellation when it is awaiting a Slack task: that task then goes on to the
\* end of its work.
CancelTask(w, t) ==
  /\ phase[w] = "draining"
  /\ t \in Task \ ({"main"} \cup cancelled[w])
  /\ t = "commands" => "events" \in cancelled[w]
  /\ t = "check" => "commands" \in cancelled[w]
  /\ \A u \in cancelled[w] : pc[w][u] = "idle"
  /\ cancelled' = [cancelled EXCEPT ![w] = @ \cup {t}]
  /\ \/ /\ pc[w][t] = "await"
        /\ UNCHANGED <<assignments, claimLock, taskVars, loopVars>>
     \/ /\ pc[w][t] # "await"
        /\ LastWrite(w, t)
        /\ \/ Claiming(w, t) /\ Goto(w, t, "release", target[w][t])
           \/ /\ Claiming(w, t) => pc[w][t] \in {"release", "raise"}
              /\ Goto(w, t, "idle", NoBot)
        /\ restarting' = [restarting EXCEPT ![w] = @ \ {t}]
        /\ todo' = [todo EXCEPT ![w] = IF t = "check" THEN {} ELSE @]
        /\ dead' = [dead EXCEPT ![w] = IF t = "check" THEN {} ELSE @]
  /\ UNCHANGED <<heartbeats, queueVars, apiVars, phase, hashRing, lastEventId,
                 botVars, budget>>

\* _stop_all_bots, once the cancelled tasks have ended.
SelectAllBots(w) ==
  /\ phase[w] = "draining"
  /\ cancelled[w] = Task \ {"main"}
  /\ \A t \in Task : pc[w][t] = "idle"
  /\ todo' = [todo EXCEPT ![w] = activeBots[w]]
  /\ Goto(w, "main", "drain", NoBot)
  /\ UNCHANGED <<storeVars, queueVars, apiVars, procVars, botVars, restarting,
                 dead, budget>>

StopNextBot(w) ==
  /\ pc[w]["main"] = "drain"
  /\ \E b \in todo[w] :
       /\ todo' = [todo EXCEPT ![w] = @ \ {b}]
       /\ Goto(w, "main", "stop", b)
  /\ UNCHANGED <<storeVars, queueVars, apiVars, procVars, botVars, restarting,
                 dead, budget>>

\* unregister_worker, and the process ends.
Unregister(w) ==
  /\ pc[w]["main"] = "drain"
  /\ todo[w] = {}
  /\ heartbeats' = [heartbeats EXCEPT ![w] = "absent"]
  /\ Exit(w)
  /\ UNCHANGED <<assignments, claimLock, events, apiVars, budget>>

\* main() polls is_shutting_down every second and returns; asyncio.run then
\* cancels every task left, the one that runs stop() among them.  (After a failed
\* start() it waits for stop(); cut short there, the process was killed.)
MainReturns(w) ==
  /\ phase[w] = "draining"
  /\ Exit(w)
  /\ UNCHANGED <<storeVars, events, apiVars, budget>>

\* The process is killed (out of memory, node lost, a SIGTERM during start()).
Crash(w) ==
  /\ phase[w] \notin {"down", "gone"}
  /\ Spend("crashes")
  /\ Exit(w)
  /\ UNCHANGED <<storeVars, events, apiVars>>

-------------------------------------------------------------------------------
\* Time

\* 30 s pass since the last heartbeat of w: it is not running its heartbeat
\* loop, or it is stalled.
HeartbeatExpires(w) ==
  /\ heartbeats[w] = "fresh"
  /\ heartbeats' = [heartbeats EXCEPT ![w] = "stale"]
  /\ IF phase[w] = "running" THEN Spend("stalls") ELSE UNCHANGED budget
  /\ UNCHANGED <<assignments, claimLock, queueVars, apiVars, procVars, botVars,
                 taskVars, loopVars>>

\* The 30 s of a claim lock pass: nobody alive holds it, or a start is slow.
LockExpires(b) ==
  /\ claimLock[b] # NoWorker
  /\ \/ SlowStarts
     \/ \A w \in Worker, t \in Task : Claiming(w, t) => target[w][t] # b
  /\ claimLock' = [claimLock EXCEPT ![b] = NoWorker]
  /\ UNCHANGED <<heartbeats, assignments, queueVars, apiVars, procVars, botVars,
                 taskVars, loopVars, budget>>

-------------------------------------------------------------------------------
\* BotDeploymentService, in the API processes

\* activate_*_bot and deactivate_*_bot commit the bot's row first; a restart
\* touches no row.
ApiRequest(request) ==
  /\ request.op \in ApiOps
  /\ request \notin requests
  /\ Spend("ops")
  /\ requests' = requests \cup {request}
  /\ isActive' = IF request.op = "restart" THEN isActive
                 ELSE [isActive EXCEPT ![request.bot] = request.op = "activate"]
  /\ UNCHANGED <<storeVars, queueVars, procVars, botVars, taskVars, loopVars>>

\* activate_bot: refused without a healthy worker, otherwise an event.
ActivateBot(request) ==
  /\ request \in requests
  /\ request.op = "activate"
  /\ requests' = requests \ {request}
  /\ events' = IF HealthyWorkers = {} THEN events ELSE Append(events, request)
  /\ UNCHANGED <<storeVars, commands, isActive, procVars, botVars, taskVars,
                 loopVars, budget>>

\* deactivate_bot and restart_bot: a command to the worker Redis names, which
\* is lost when that worker is not subscribed; without one, an event.
CommandBot(request) ==
  LET worker == assignments[request.bot] IN
  /\ request \in requests
  /\ request.op # "activate"
  /\ requests' = requests \ {request}
  /\ IF worker = NoWorker
     THEN /\ events' = Append(events, request)
          /\ UNCHANGED commands
     ELSE /\ commands' = IF phase[worker] = "running"
                         THEN [commands EXCEPT ![worker] = Append(@, request)]
                         ELSE commands
          /\ UNCHANGED events
  /\ UNCHANGED <<storeVars, isActive, procVars, botVars, taskVars, loopVars,
                 budget>>

-------------------------------------------------------------------------------
StartStep(w, t) == \/ TryClaimBotLock(w, t) \/ StartBot(w, t) \/ Connect(w, t)
                   \/ AssignBot(w, t) \/ ReleaseBotLock(w, t)
                   \/ RaiseFromStart(w, t)
StopStep(w, t)  == \/ BeginStop(w, t) \/ PopSlackHandler(w, t)
                   \/ CloseBot(w, t) \/ UnassignBot(w, t)
MainStep(w)  == \/ Register(w) \/ SelectAssignedBots(w) \/ ClaimAssignedBot(w)
                \/ StartLoops(w) \/ SelectAllBots(w) \/ StopNextBot(w)
                \/ Unregister(w) \/ \E t \in Task : CancelTask(w, t)
CheckStep(w) == \/ FindDeadWorkers(w) \/ UnregisterDead(w) \/ RebuildHashRing(w)
                \/ ClaimOrphanedBot(w) \/ SelectUnownedBots(w)
                \/ ReleaseUnownedBot(w)

ClientStep(w, b) == \/ PollingEnds(w, b) \/ ThreadExits(w, b)
                    \/ ClientFails(w, b) \/ ThreadGoesOn(w, b)

Next ==
  \/ \E w \in Worker :
       \/ MainStep(w) \/ CheckStep(w)
       \/ HandleBotEvent(w) \/ HandleCommand(w) \/ Heartbeat(w)
       \/ Shutdown(w) \/ MainReturns(w) \/ Crash(w) \/ HeartbeatExpires(w)
       \/ \E t \in Task : StartStep(w, t) \/ StopStep(w, t)
                          \/ StartFails(w, t) \/ StopFails(w, t)
       \/ \E b \in Bot : ClientStep(w, b)
  \/ \E b \in Bot : LockExpires(b)
  \/ \E request \in Request :
       ApiRequest(request) \/ ActivateBot(request) \/ CommandBot(request)

Spec == Init /\ [][Next]_vars

\* One coroutine of a worker: at any moment it has one thing to do next.
CoroutineStep(w, t) ==
  \/ StartStep(w, t)
  \/ StopStep(w, t)
  \/ t = "main"     /\ MainStep(w)
  \/ t = "events"   /\ HandleBotEvent(w)
  \/ t = "commands" /\ HandleCommand(w)
  \/ t = "check"    /\ CheckStep(w)

\* The event loop of a live process runs every coroutine it has, the orchestrator
\* restarts what ended (restartPolicy Always), keys expire and heartbeats age,
\* a WhatsApp thread that was told to disconnect exits and an API request
\* completes.  Nothing obliges requests, crashes, stops, stalls or faults to
\* happen.
Fairness ==
  /\ \A w \in Worker :
       /\ \A t \in Task : WF_vars(CoroutineStep(w, t))
       /\ WF_vars(Heartbeat(w))
       /\ WF_vars(phase[w] # "running" /\ HeartbeatExpires(w))
       /\ \A b \in {c \in Bot : Kind[c] = "whatsapp"} :
            WF_vars(quitting[w][b] > 0 /\ ThreadExits(w, b))
  /\ \A b \in Bot : WF_vars(LockExpires(b))
  /\ \A request \in [op : ApiOps, bot : Bot] :
       WF_vars(ActivateBot(request) \/ CommandBot(request))

FairSpec == Spec /\ Fairness

-------------------------------------------------------------------------------
\* Safety

\* The claim lock does what _claim_and_start_bot says of it: of all tasks of
\* all workers at most one at a time is starting a given bot, as long as no
\* start outlasts the lock's time to live.
ClaimExclusion ==
  \A v, w \in Worker, t, u \in Task :
    Claiming(w, t) /\ Claiming(v, u) /\ target[w][t] = target[v][u]
      => w = v /\ t = u

\* The DELETE in the `finally` of _claim_and_start_bot, which looks at no value,
\* is of the task's own lock: whoever is starting a bot finds its own worker's
\* name in the bot's claim lock.  It also makes the exclusion inductive.
LockHeld ==
  \A w \in Worker, t \in Task :
    Claiming(w, t) => claimLock[target[w][t]] = w

ClaimInvariant == TypeOK /\ LockHeld /\ ClaimExclusion

\* assign_bot is a plain HSET, so it is the claim lock that keeps two workers
\* from overwriting each other: an assignment is only ever changed to the worker
\* that holds the bot's lock at that moment.
OnlyClaimantAssigns ==
  [][\A b \in Bot : assignments'[b] \notin {assignments[b], NoWorker}
                    => claimLock[b] = assignments'[b]]_vars

\* Every stored handler whose client has not ended by itself stands for a
\* connection of its own, and so does every close in progress and every thread
\* told to disconnect: _stop_bot, the polling loops and the threads never close a
\* connection twice, whichever tasks overlap and whichever clients fail.
TrackedConnections ==
  \A w \in Worker, b \in Bot :
    connections[w][b] >=
      Cardinality((handlers[w] \ ended[w]) \cap {b}) + quitting[w][b]
      + Cardinality(Closing(w, b))

\* A bot in _active_bots without a connection is a ghost: _start_bot answers
\* "already running" and _claim_orphaned_bots passes it by.  Until the worker shuts
\* down, only a client that ended by itself leaves one (ClientFails: the code does
\* nothing about those); no overlap of starts, stops and exiting threads, and no
\* failure of a start or a stop, does.
OnlyEndedGhosts ==
  \A w \in Worker : phase[w] # "draining" =>
    \A b \in activeBots[w] : connections[w][b] > 0 \/ b \in ended[w]

\* What makes the two above inductive: an active bot has a handler in the store or
\* in the hands of a task that closes it (unless stop() cancelled that task); a
\* Slack task is the only one awaited, a WhatsApp client the only one that is told
\* to disconnect and is not closed by _stop_bot; and what ended by itself is still
\* stored.
Covered(w, b) ==
  connections[w][b] >= Live(w, b) + quitting[w][b] + Cardinality(Closing(w, b))

ActiveIsHeld(w, b) ==
  phase[w] # "draining" /\ b \in activeBots[w] =>
    b \in handlers[w] \/ Closing(w, b) # {}

TaskKinds ==
  \A w \in Worker, t \in Task :
    /\ pc[w][t] = "await" => Kind[target[w][t]] = "slack"
    /\ pc[w][t] = "close" => Kind[target[w][t]] # "whatsapp"

ClientKind(w, b) ==
  /\ quitting[w][b] >= 0
  /\ quitting[w][b] > 0 => Kind[b] = "whatsapp"
  /\ b \in ended[w] => b \in handlers[w] /\ Kind[b] # "slack"

ConnectionInvariant ==
  /\ TypeOK /\ TaskKinds
  /\ \A w \in Worker, b \in Bot :
       Covered(w, b) /\ ActiveIsHeld(w, b) /\ ClientKind(w, b)

\* A worker that has rebuilt its ring is in it, so get_node, which raises on an
\* empty ring, always answers; and an active bot that _release_unowned_bots stops
\* belongs to another worker of the ring, which may claim it.
HasRing(w) == phase[w] \in {"claiming", "running", "draining"}

InOwnRing == \A w \in Worker : HasRing(w) => w \in hashRing[w]

ReleasedToAnother ==
  \A w \in Worker : HasRing(w) =>
    \A b \in UnownedBots(w) \cap ActiveBotIds :
      GetNode(b, hashRing[w]) \in hashRing[w] \ {w}

-------------------------------------------------------------------------------
\* Liveness, once requests, crashes, stops, stalls and faults are over

Running == {w \in Worker : phase[w] = "running"}

\* Every worker ends up with the same ring, the workers that run: the check
\* loop notices those that joined, left and died.
RingsAgree == <>[](\A w \in Running : hashRing[w] = Running)

\* The check loop heals the pool: every active bot ends up in _active_bots of the
\* worker the ring gives it to.  (For a Slack bot that is a connection, whose client
\* retries for ever; of the other platforms see OnlyEndedGhosts.)
ActiveBotsServed ==
  <>[](Running # {} =>
         \A b \in ActiveBotIds : b \in activeBots[GetNode(b, Running)])

\* No bot keeps more than one connection: the worker that lost it closes its own.
SingleConnection ==
  <>[](\A b \in Bot : \A v, w \in Worker :
         /\ connections[w][b] <= 1
         /\ connections[v][b] > 0 /\ connections[w][b] > 0 => v = w)

\* A deactivated bot ends up with no connection anywhere, even when the command
\* to stop it was lost.
InactiveBotsSilent ==
  <>[](\A b \in Bot \ ActiveBotIds : \A w \in Worker : connections[w][b] = 0)
===============================================================================
