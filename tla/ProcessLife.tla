----------------------------- MODULE ProcessLife -----------------------------
(***************************************************************************)
(* The processes of the backend from start to stop: the API processes PM2  *)
(* runs as a cluster and the one worker (server.ts, worker-entry.ts,       *)
(* config/bullmq.ts), the work each has under way, and the Socket.IO       *)
(* clients attached to an API process (sockets/index.ts).                  *)
(*                                                                         *)
(* A task is a request: one that creates a goal, whose deadline job the    *)
(* worker runs later, or a remark (a comment, a reaction), which notifies  *)
(* the owner of the goal at once.  The client of a request may hang up:    *)
(* its handler goes on, but nothing waits for it any more.  What the tasks *)
(* do to the database is the subject of other modules; here they only need *)
(* their process.                                                          *)
(***************************************************************************)
EXTENDS Naturals, FiniteSets, RedisClient

CONSTANTS
    Apis,           \* the API processes
    Worker,         \* the worker process
    Goals,          \* the requests that create a goal
    Remarks,        \* the requests that notify at once
    Clients,        \* Socket.IO clients of the user who is notified
    Nowhere,        \* no process
    MaxSignals,     \* how many SIGINT or SIGTERM arrive
    MaxMishaps      \* how many failures happen

LifeAssumption ==
    /\ Worker \notin Apis
    /\ Procs = Apis \cup {Worker}
    /\ Nowhere \notin Procs
    /\ Goals \cap Remarks = {}
    /\ MaxSignals \in Nat
    /\ MaxMishaps \in Nat

VARIABLES
    phase,      \* per process: where start or stop stands
    open,       \* per process: the connections it holds
    ready,      \* per process: bullMqReady
    stops,      \* per process: calls of shutdown in this life
    schema,     \* whether the migrations are applied
    task,       \* per task: how far it is, and the process that has it
    hungUp,     \* the requests whose client hung up, while they are handled
                \* and after they were cut off
    attached,   \* per client: the API process it is connected to
    deaf,       \* history: the clients connected when their user was notified
                \* whom the notification did not reach
    signals,    \* signals still to come
    mishaps     \* failures still to come

lifeVars == <<phase, open, ready, stops, schema, task, hungUp, attached,
              deaf, signals, mishaps, link>>

Tasks == Goals \cup Remarks

Phases == {"down", "database", "pending", "migrating", "redis", "queues",
           "listen", "serving", "flushing"}

Connections == {"database", "queues", "redis"}

TaskRows ==
    [state : {"new", "request", "stored", "queued", "run", "done",
              "lost", "unscheduled"},
     at : Procs \cup {Nowhere}]

\* Every variable keeps its type.
TypeOK ==
    /\ LinkTypeOK
    /\ phase \in [Procs -> Phases]
    /\ open \in [Procs -> SUBSET Connections]
    /\ ready \in [Procs -> BOOLEAN]
    /\ stops \in [Procs -> 0..MaxSignals]
    /\ schema \in BOOLEAN
    /\ task \in [Tasks -> TaskRows]
    /\ hungUp \subseteq Tasks
    /\ attached \in [Clients -> Apis \cup {Nowhere}]
    /\ deaf \subseteq Clients
    /\ signals \in 0..MaxSignals
    /\ mishaps \in 0..MaxMishaps

Init ==
    /\ link = [p \in Procs |-> "off"]
    /\ phase = [p \in Procs |-> "down"]
    /\ open = [p \in Procs |-> {}]
    /\ ready = [p \in Procs |-> FALSE]
    /\ stops = [p \in Procs |-> 0]
    /\ schema = FALSE
    /\ task = [t \in Tasks |-> [state |-> "new", at |-> Nowhere]]
    /\ hungUp = {}
    /\ attached = [c \in Clients |-> Nowhere]
    /\ deaf = {}
    /\ signals = MaxSignals
    /\ mishaps = MaxMishaps

Mishap == mishaps > 0 /\ mishaps' = mishaps - 1

To(p, ph) == phase' = [phase EXCEPT ![p] = ph]

WorkOf(p) == {t \in Tasks : task[t].at = p}

ClientsOf(p) == {c \in Clients : attached[c] = p}

-----------------------------------------------------------------------------
(***************************************************************************)
(* The end of a process.                                                   *)
(***************************************************************************)

\* A slip: a job is gone once a worker has picked it.
GoneWithTheWorker(t) ==
    [state |-> IF task[t].state = "stored" THEN "unscheduled" ELSE "lost",
     at |-> Nowhere]

\* A job whose worker died is found stalled and queued again; a request
\* that had stored its goal leaves it without a job.
Interrupted(t) ==
    [state |-> CASE task[t].state = "run" -> "queued"
                 [] task[t].state = "stored" -> "unscheduled"
                 [] OTHER -> "lost",
     at |-> Nowhere]

\* The operating system closes what the process had open.
End(p) ==
    /\ To(p, "down")
    /\ open' = [open EXCEPT ![p] = {}]
    /\ ready' = [ready EXCEPT ![p] = FALSE]
    /\ stops' = [stops EXCEPT ![p] = 0]
    /\ task' = [t \in Tasks |->
                   IF t \in WorkOf(p) THEN Interrupted(t) ELSE task[t]]
    /\ attached' = [c \in Clients |->
                       IF c \in ClientsOf(p) THEN Nowhere ELSE attached[c]]
    /\ UNCHANGED <<schema, hungUp, deaf, link>>

-----------------------------------------------------------------------------
(***************************************************************************)
(* bootstrap (server.ts) and bootstrapWorker (worker-entry.ts).            *)
(***************************************************************************)

\* PM2 starts a process that is not running.
Start(p) ==
    /\ phase[p] = "down"
    /\ To(p, "database")
    /\ UNCHANGED <<open, ready, stops, schema, task, hungUp, attached,
                   deaf, signals, mishaps, link>>

\* Only the API applies migrations.
OpenDatabase(p) ==
    /\ phase[p] = "database"
    /\ open' = [open EXCEPT ![p] = {"database"}]
    /\ To(p, IF p \in Apis THEN "pending" ELSE "redis")
    /\ UNCHANGED <<ready, stops, schema, task, hungUp, attached,
                   deaf, signals, mishaps, link>>

\* bootstrap().catch: exit(1).
BootFails(p) ==
    /\ phase[p] = "database"
    /\ Mishap
    /\ End(p)
    /\ UNCHANGED signals

\* A slip: migrations applied by another process are pending for this one.
AlwaysPending == TRUE

HasPending == ~schema

\* runMigrations compares the files with the table of executed migrations.
ListPending(p) ==
    /\ phase[p] = "pending"
    /\ To(p, IF HasPending THEN "migrating" ELSE "redis")
    /\ UNCHANGED <<open, ready, stops, schema, task, hungUp, attached,
                   deaf, signals, mishaps, link>>

\* It applies what it listed in one transaction.
Migrate(p) ==
    /\ phase[p] = "migrating"
    /\ ~schema
    /\ schema' = TRUE
    /\ To(p, "redis")
    /\ UNCHANGED <<open, ready, stops, task, hungUp, attached, deaf,
                   signals, mishaps, link>>

\* Another process applied them meanwhile: the types and tables exist, the
\* first CREATE throws, and the process exits.
MigrateFails(p) ==
    /\ phase[p] = "migrating"
    /\ schema
    /\ End(p)
    /\ UNCHANGED <<signals, mishaps>>

\* initializeRedis: one attempt, which may fail, in each life.
InitializeRedis(p) ==
    /\ phase[p] = "redis"
    /\ Reboot(p)
    /\ IF link'[p] = "off"
       THEN Mishap /\ UNCHANGED open
       ELSE /\ open' = [open EXCEPT ![p] = @ \cup {"redis"}]
            /\ UNCHANGED mishaps
    /\ To(p, "queues")
    /\ UNCHANGED <<ready, stops, schema, task, hungUp, attached, deaf,
                   signals>>

\* A slip: the queues are made, but the flag is not set.
ForgetsTheFlag(p) ==
    /\ ready' = [ready EXCEPT ![p] = FALSE]
    /\ open' = [open EXCEPT ![p] =
                   IF IsRedisReady(p) THEN @ \cup {"queues"} ELSE @]

\* initializeBullMQ: queues, or queues that do nothing.
InitializeBullMQ(p) ==
    /\ ready' = [ready EXCEPT ![p] = IsRedisReady(p)]
    /\ open' = [open EXCEPT ![p] =
                   IF IsRedisReady(p) THEN @ \cup {"queues"} ELSE @]

\* The API goes on without queues.
ApiQueues(p) ==
    /\ p \in Apis
    /\ phase[p] = "queues"
    /\ InitializeBullMQ(p)
    /\ To(p, "listen")
    /\ UNCHANGED <<stops, schema, task, hungUp, attached, deaf, signals,
                   mishaps, link>>

\* startWorkers and the signal handlers follow in the same turn.
WorkerQueues ==
    /\ phase[Worker] = "queues"
    /\ IsRedisReady(Worker)
    /\ InitializeBullMQ(Worker)
    /\ To(Worker, "serving")
    /\ UNCHANGED <<stops, schema, task, hungUp, attached, deaf, signals,
                   mishaps, link>>

\* A worker without queues exits; PM2 starts it again.
WorkerLeaves ==
    /\ phase[Worker] = "queues"
    /\ ~IsRedisReady(Worker)
    /\ End(Worker)
    /\ UNCHANGED <<signals, mishaps>>

\* The mail server was verified or not; the API serves either way.
Listen(p) ==
    /\ phase[p] = "listen"
    /\ To(p, "serving")
    /\ UNCHANGED <<open, ready, stops, schema, task, hungUp, attached,
                   deaf, signals, mishaps, link>>

BootStep(p) ==
    \/ OpenDatabase(p)
    \/ ListPending(p)
    \/ Migrate(p)
    \/ MigrateFails(p)
    \/ InitializeRedis(p)
    \/ ApiQueues(p)
    \/ Listen(p)
    \/ p = Worker /\ (WorkerQueues \/ WorkerLeaves)

-----------------------------------------------------------------------------
(***************************************************************************)
(* shutdown, in both kinds of process.                                     *)
(***************************************************************************)

\* Until the handlers are set a signal ends the process; then each calls
\* shutdown, and the first stops what brings new work.
Signal(p) ==
    /\ phase[p] # "down"
    /\ signals > 0
    /\ signals' = signals - 1
    /\ UNCHANGED mishaps
    /\ IF phase[p] \in {"serving", "flushing"}
       THEN /\ stops' = [stops EXCEPT ![p] = @ + 1]
            /\ UNCHANGED <<phase, open, ready, schema, task, hungUp, attached,
                           deaf, link>>
       ELSE End(p)

Working(p) == phase[p] = "serving" /\ stops[p] = 0

\* A slip: shutdown does not wait for what is under way.
AtOnce(p) == TRUE

\* The work a closing process waits for: running jobs, and the requests whose
\* connection is open until they are answered.
Awaited(p) == WorkOf(p) \ hungUp

\* A slip: a closing worker waits for the queued jobs it no longer picks.
QueueIsEmpty(p) ==
    /\ Awaited(p) = {} /\ ClientsOf(p) = {}
    /\ \A t \in Tasks : task[t].state # "queued"

\* server.close waits for connections: of requests, and the upgraded ones of
\* the Socket.IO clients.  It does not wait for the handler of a client that
\* hung up.  worker.close waits for the running jobs.
Drained(p) == Awaited(p) = {} /\ ClientsOf(p) = {}

\* In the API a second call of server.close waits for the same event and is
\* given an error: its shutdown rejects, nobody handles that, and the
\* process ends.
StopsWaiting(p) ==
    /\ phase[p] = "serving"
    /\ stops[p] > 0
    /\ Drained(p)
    /\ UNCHANGED <<signals, mishaps>>
    /\ IF p \in Apis /\ stops[p] > 1
       THEN End(p)
       ELSE /\ To(p, "flushing")
            /\ UNCHANGED <<open, ready, stops, schema, task, hungUp, attached,
                           deaf, link>>

\* closeQueueConnections, closeRedisConnections and the database, in any
\* order.
CloseOne(p) ==
    /\ phase[p] = "flushing"
    /\ \E k \in open[p] :
          /\ open' = [open EXCEPT ![p] = @ \ {k}]
          /\ ready' = [ready EXCEPT ![p] = @ /\ k # "queues"]
    /\ UNCHANGED <<phase, stops, schema, task, hungUp, attached,
                   deaf, signals, mishaps, link>>

\* process.exit(0), also under the handlers nobody waited for.
Exit(p) ==
    /\ phase[p] = "flushing"
    /\ open[p] = {}
    /\ End(p)
    /\ UNCHANGED <<signals, mishaps>>

StopStep(p) == StopsWaiting(p) \/ CloseOne(p) \/ Exit(p)

\* SIGKILL, by PM2's kill_timeout or memory limit, or a crash.
Kill(p) ==
    /\ phase[p] # "down"
    /\ Mishap
    /\ End(p)
    /\ UNCHANGED signals

\* The connection to Redis breaks; nothing reconnects.
Disconnect(p) ==
    /\ "redis" \in open[p]
    /\ phase[p] # "flushing"
    /\ Mishap
    /\ LoseLink(p)
    /\ UNCHANGED <<phase, open, ready, stops, schema, task, hungUp, attached,
                   deaf, signals>>

-----------------------------------------------------------------------------
(***************************************************************************)
(* Work.                                                                   *)
(***************************************************************************)

\* A request that was handled to its end owes its client nothing more.
Move(t, state, p) ==
    /\ task' = [task EXCEPT ![t] = [state |-> state, at |-> p]]
    /\ hungUp' = IF state \in {"queued", "done"} THEN hungUp \ {t} ELSE hungUp

Elsewhere == UNCHANGED <<phase, open, ready, stops, schema, signals, mishaps,
                         link>>

\* emitToUser: only a process with a socket server emits, and only to the
\* sockets connected to itself.
Emit(p) ==
    deaf' = deaf \cup {c \in Clients : attached[c] \notin {Nowhere, p}}

Accept(p, t) ==
    /\ p \in Apis
    /\ Working(p)
    /\ task[t].state = "new"
    /\ Move(t, "request", p)
    /\ Elsewhere
    /\ UNCHANGED <<attached, deaf>>

\* The client closes its connection before it is answered.
HangUp(t) ==
    /\ task[t].state \in {"request", "stored"}
    /\ hungUp' = hungUp \cup {t}
    /\ Elsewhere
    /\ UNCHANGED <<task, attached, deaf>>

HasDatabase(t) == "database" \in open[task[t].at]

StoreGoal(t) ==
    /\ t \in Goals
    /\ task[t].state = "request"
    /\ HasDatabase(t)
    /\ Move(t, "stored", task[t].at)
    /\ Elsewhere
    /\ UNCHANGED <<attached, deaf>>

\* The database was destroyed under the handler: its query throws.
FindsItClosed(t) ==
    /\ task[t].state = "request"
    /\ ~HasDatabase(t)
    /\ Move(t, "lost", Nowhere)
    /\ Elsewhere
    /\ UNCHANGED <<attached, deaf>>

\* scheduleManifestationJobs returns at once without queues; an add over a
\* lost connection throws.
Schedule(t) ==
    /\ task[t].state = "stored"
    /\ LET p == task[t].at
       IN  Move(t, IF ready[p] /\ Answers(p) THEN "queued" ELSE "unscheduled",
                Nowhere)
    /\ Elsewhere
    /\ UNCHANGED <<attached, deaf>>

Remark(t) ==
    /\ t \in Remarks
    /\ task[t].state = "request"
    /\ HasDatabase(t)
    /\ Emit(task[t].at)
    /\ Move(t, "done", Nowhere)
    /\ Elsewhere
    /\ UNCHANGED attached

\* A closing worker picks no more jobs.
Pick(t) ==
    /\ task[t].state = "queued"
    /\ Working(Worker)
    /\ Answers(Worker)
    /\ Move(t, "run", Worker)
    /\ Elsewhere
    /\ UNCHANGED <<attached, deaf>>

\* The goal is settled and its owner notified.
Finalize(t) ==
    /\ task[t].state = "run"
    /\ Answers(Worker)
    /\ Emit(Worker)
    /\ Move(t, "done", Nowhere)
    /\ Elsewhere
    /\ UNCHANGED attached

\* Without Redis the run cannot be reported, and the job is queued again.
RunBreaks(t) ==
    /\ task[t].state = "run"
    /\ ~Answers(Worker)
    /\ Move(t, "queued", Nowhere)
    /\ Elsewhere
    /\ UNCHANGED <<attached, deaf>>

TaskStep(t) ==
    \/ StoreGoal(t) \/ FindsItClosed(t) \/ Schedule(t) \/ Remark(t)
    \/ Pick(t) \/ Finalize(t) \/ RunBreaks(t)

Attach(c, p) ==
    /\ p \in Apis
    /\ Working(p)
    /\ attached[c] = Nowhere
    /\ attached' = [attached EXCEPT ![c] = p]
    /\ Elsewhere
    /\ UNCHANGED <<task, hungUp, deaf>>

Leave(c) ==
    /\ attached[c] # Nowhere
    /\ attached' = [attached EXCEPT ![c] = Nowhere]
    /\ Elsewhere
    /\ UNCHANGED <<task, hungUp, deaf>>

\* A process is down, booting or stopping: one of these at a time.
ProcStep(p) == Start(p) \/ BootStep(p) \/ StopStep(p)

Next ==
    \/ \E p \in Procs :
          \/ ProcStep(p)
          \/ BootFails(p) \/ Signal(p) \/ Kill(p) \/ Disconnect(p)
    \/ \E t \in Tasks :
          TaskStep(t) \/ HangUp(t) \/ \E p \in Apis : Accept(p, t)
    \/ \E c \in Clients : Leave(c) \/ \E p \in Apis : Attach(c, p)

Spec == Init /\ [][Next]_lifeVars

\* PM2 starts what is down, and what the event loop of a process can do next
\* it does.  Signals, failures and clients are not bound to anything.
Fairness ==
    /\ \A p \in Procs : WF_lifeVars(ProcStep(p))
    /\ \A t \in Tasks : WF_lifeVars(TaskStep(t))

FairSpec == Spec /\ Fairness

-----------------------------------------------------------------------------

Needs(p) == {"database"} \cup (IF ready[p] THEN {"queues", "redis"} ELSE {})

\* No request whose client waits for the answer, and no running job, ever
\* finds a connection closed under it, however signals, a second shutdown and
\* the closing of the connections interleave.
WorkKeepsConnections ==
    \A p \in Procs : Awaited(p) # {} => Needs(p) \subseteq open[p]

\* Unless something failed, whatever is stopped and started, deployments cost
\* only those who hung up: a request is lost, or its stored goal left without
\* a job, only when its client left it to a process that was told to stop.
OnlyMishapsLose ==
    mishaps = MaxMishaps =>
        \A t \in Tasks :
            task[t].state \in {"lost", "unscheduled"}
                => t \in hungUp /\ signals < MaxSignals

\* A process always comes up in the end: one that lost the race for the
\* migrations finds none pending when PM2 starts it again, and a worker that
\* found no Redis is started until it does.
ComesUp == \A p \in Procs : phase[p] = "down" ~> phase[p] = "serving"

\* A queued job is run in the end, over restarts of the worker, unless the
\* worker lives on without its connection to Redis.
QueuedRuns ==
    \A t \in Goals :
        task[t].state = "queued" ~>
            (task[t].state = "done" \/ link[Worker] = "lost")

\* A process told to stop stops, unless a client stays attached to it.
StopsUnlessAttached ==
    \A p \in Procs : stops[p] > 0 ~> (stops[p] = 0 \/ ClientsOf(p) # {})

\* "real-time Socket.IO events" (README.md:63): whoever is connected when a
\* notification is stored receives it.
ConnectedClientsHear == deaf = {}

=============================================================================
